--------------------------- MODULE WorkflowModel ---------------------------
(***************************************************************************)
(* What the modules of the workflow engine share: the two status machines  *)
(* and the shape of a definition.                                          *)
(***************************************************************************)
EXTENDS Integers, FiniteSets

CONSTANTS
  Nodes   \* ids of the nodes of a definition

ASSUME NodesAssumption == IsFiniteSet(Nodes)

EdgeTypes == {"success", "error", "condition_true", "condition_false", "loop", "loop_exhausted"}

\* "absent": no such row in workflow_runs.  No code writes 'pending'.
RunStatuses  == {"absent", "running", "completed", "failed", "cancelled"}
StepStatuses == {"pending", "running", "waiting", "completed", "failed", "skipped"}

RUN_TRANSITIONS ==
  {"running"} \X {"completed", "failed", "cancelled"}

STEP_TRANSITIONS ==
  {"pending"} \X {"running", "waiting", "skipped"}
  \cup {"running"} \X {"completed", "failed", "skipped"}
  \cup {"waiting"} \X {"running", "completed", "failed", "skipped"}

\* The assertions pass a transition to the status a row has.
CanStep(from, to) == from = to \/ <<from, to>> \in STEP_TRANSITIONS

\* Edges that only a bounded iteration follows do not make a cycle.
NonLoop(edges) == {e \in edges : e.type \notin {"loop", "loop_exhausted"}}

KnownEnds(edges)  == \A e \in edges : e.source \in Nodes /\ e.target \in Nodes
NoSelfLoop(edges) == \A e \in edges : e.source # e.target

\* No set of nodes in which every node has a predecessor of the set.
Acyclic(edges) ==
  \A S \in (SUBSET Nodes) \ {{}} :
    \E n \in S : \A e \in NonLoop(edges) : ~(e.source \in S /\ e.target = n)

\* Parallel edges between two nodes count one by one, in adj as in inDegree.
Parallel(edges, n, m) == Cardinality({e \in NonLoop(edges) : e.source = n /\ e.target = m})
InEdges(edges, n) == Cardinality({e \in NonLoop(edges) : e.target = n})

\* The loop of validateDAG after k nodes were taken off the queue: the in-degrees
\* that are left, and the nodes taken.
Taken(edges) ==
  LET After[k \in 0 .. Cardinality(Nodes)] ==
        IF k = 0 THEN [degree |-> [n \in Nodes |-> InEdges(edges, n)], taken |-> {}]
        ELSE LET was == After[k - 1]
                 queue == {n \in Nodes \ was.taken : was.degree[n] = 0} IN
             IF queue = {} THEN was
             ELSE LET node == CHOOSE n \in queue : TRUE IN
                  [degree |-> [n \in Nodes |-> was.degree[n] - Parallel(edges, node, n)],
                   taken |-> was.taken \cup {node}]
  IN After[Cardinality(Nodes)].taken

\* validateDAG.
IsValid(edges) == KnownEnds(edges) /\ NoSelfLoop(edges) /\ Taken(edges) = Nodes
=============================================================================
