------------------------- MODULE MCTaskOrchestrator ------------------------
(* Instances of TaskOrchestrator for TLC.                                  *)
EXTENDS TaskOrchestrator

TwoTasks == 1..2
\* The second may depend on the first or on a task that does not exist.
SecondDepends == [t \in TwoTasks |-> IF t = 1 THEN {{}} ELSE {{}, {1}, {Unknown}}]
FirstIsRetried == [t \in TwoTasks |-> IF t = 1 THEN 1 ELSE 0]
=============================================================================
