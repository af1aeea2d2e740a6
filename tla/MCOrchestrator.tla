---------------------------- MODULE MCOrchestrator ----------------------------
(* Instances of Orchestrator for TLC. *)
EXTENDS Orchestrator

CONSTANTS t1, t2, d1, d2, a1, q1

OneTask    == {t1}
TwoTasks   == {t1, t2}
OneDaemon  == {d1}
TwoDaemons == {d1, d2}
Agents     == {a1}
OnePayload == {q1}
JustT2     == {t2}
NoTask     == {}
ZeroOne    == {0, 1}
JustZero   == {0}
JustOne    == {1}
=============================================================================
