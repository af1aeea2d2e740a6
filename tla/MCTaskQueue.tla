----------------------------- MODULE MCTaskQueue -----------------------------
(* An instance of TaskQueue for TLC: any statement, at any time. *)
EXTENDS TaskQueue, TLC

CONSTANTS t1, t2, t3, a1, MaxFailures

Tasks3    == {t1, t2, t3}
Agents    == {a1}
OneLevel  == {0}
OnceOrNever == {0, 1}

\* Tasks are interchangeable: no property tells them apart.
TaskSymmetry == Permutations(TaskId)

\* Bound: how often a row may be failed.
FewFailures == \A t \in TaskId : row[t].retries <= MaxFailures
=============================================================================
