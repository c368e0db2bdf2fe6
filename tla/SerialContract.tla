--------------------------- MODULE SerialContract ---------------------------
(***************************************************************************)
(* What the serial supervisor promises, without its table, runs, reviews   *)
(* or phases: the project is held by at most one task at a time, a task    *)
(* gets hold of it only when nobody holds it and its dependency gate is    *)
(* open, a task is integrated by itself and never while it holds the       *)
(* project, and an integration is not withdrawn.                           *)
(***************************************************************************)
CONSTANTS Tasks, NoTask, Deps, DepMode

VARIABLES
  holder,      \* the task that holds the project, or NoTask
  integrated,  \* the tasks that have been integrated
  exempt       \* tasks planned by a user, which do not wait for others

vars == <<holder, integrated, exempt>>

Init == holder = NoTask /\ integrated = {} /\ exempt = {}

GateOpen(t, S) ==
  \/ Deps[t] = {}
  \/ DepMode[t] = "all" /\ Deps[t] \subseteq S
  \/ DepMode[t] = "any" /\ Deps[t] \cap S # {}

Take(t) ==
  /\ holder = NoTask /\ holder' = t
  /\ t \in exempt \/ GateOpen(t, integrated')

Release == holder' = NoTask

Integrate(t) == t # holder /\ integrated' = integrated \cup {t}

Next ==
  /\ UNCHANGED holder \/ Release \/ \E t \in Tasks : Take(t)
  /\ UNCHANGED integrated \/ \E t \in Tasks : Integrate(t)
  /\ UNCHANGED exempt \/ \E t \in Tasks : exempt' = exempt \cup {t}

Spec == Init /\ [][Next]_vars
=============================================================================
