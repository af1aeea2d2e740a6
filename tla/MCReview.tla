------------------------------- MODULE MCReview -------------------------------
(* Two tasks, which one pass over the schedules may create together.       *)
EXTENDS ReviewLoop
=============================================================================
