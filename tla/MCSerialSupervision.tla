------------------------ MODULE MCSerialSupervision ------------------------
(* Small instances of SerialSupervision for TLC. *)
EXTENDS SerialSupervision

\* Task 2 waits for task 1; task 1 is first in the queue.
TwoTasks == {1, 2}
SecondAfterFirst == [t \in TwoTasks |-> IF t = 2 THEN {1} ELSE {}]
NoDeps == [t \in TwoTasks |-> {}]
AllMode == [t \in TwoTasks |-> "all"]
AnyMode == [t \in TwoTasks |-> "any"]
=============================================================================
