-------------------------- MODULE MCWorkflowEngine -------------------------
(* Instances of WorkflowEngine for TLC: three nodes.                       *)
EXTENDS WorkflowEngine, TLC

CONSTANTS N1, N2, N3

Edge(s, type, t) == [source |-> s, type |-> type, target |-> t]

Def(edges, kinds, onError, maxIterations, timed) ==
  [entry |-> N1, edges |-> edges,
   kind |-> [n \in Nodes |-> kinds[n]], onError |-> [n \in Nodes |-> onError[n]],
   retryCount |-> [n \in Nodes |-> 1], timed |-> [n \in Nodes |-> timed],
   maxIterations |-> maxIterations]

By(x, y, z) == N1 :> x @@ N2 :> y @@ N3 :> z

Straight == {Edge(N1, "success", N2), Edge(N2, "success", N3)}

\* An action, an approval that is retried, an action whose failure is skipped.
Chain == Def(Straight, By("action", "approval", "action"), By("abort", "retry", "skip"), 1, TRUE)

\* A condition between an approval that may be skipped and an action.
Branch == Def({Edge(N1, "condition_true", N2), Edge(N1, "condition_false", N3)},
              By("condition", "approval", "action"), By("skip", "skip", "retry"), 1, TRUE)

\* A failure of the first step is routed to the second one.
Route == Def({Edge(N1, "error", N2), Edge(N1, "success", N3), Edge(N2, "success", N3)},
             By("action", "approval", "action"), By("route", "abort", "abort"), 1, TRUE)

\* The shape of the template 'Nightly Test & Fix': test, fix, back to the test.
SelfHealing(max) ==
  Def({Edge(N1, "error", N2), Edge(N1, "success", N3), Edge(N2, "loop", N1), Edge(N2, "loop_exhausted", N3)},
      By("action", "action", "action"), By("route", "abort", "abort"), max, TRUE)

\* The first node has no incoming edge, the others make a cycle.
Cyclic == Def(Straight \cup {Edge(N3, "success", N2)},
              By("action", "action", "action"), By("abort", "abort", "abort"), 1, TRUE)

\* An approval without a timeoutMs of its own.
Untimed == Def(Straight, By("approval", "action", "action"), By("retry", "abort", "abort"), 1, FALSE)

Edited(definitions, mayCrash) == [definitions |-> definitions, mayCrash |-> mayCrash]

EveryShape == {Edited({Chain, Cyclic}, FALSE), Edited({Branch, Untimed}, TRUE),
               Edited({Route, SelfHealing(1)}, FALSE)}

OneRun == 1..1
TwoRuns == 1..2
UntimedOnly == {Edited({Untimed}, FALSE)}

\* validateDAG accepts exactly the graphs without a cycle of edges other than
\* loop edges: every graph of up to four edges of three types.
ASSUME ValidationIsRight ==
  LET Edges == {Edge(s, type, t) : s \in Nodes, type \in {"success", "error", "loop"}, t \in Nodes}
      Pairs == {e \in Edges : e.source # e.target} IN
  \A e, f, g, h \in Pairs : LET E == {e, f, g, h} IN IsValid(E) <=> Acyclic(E)
=============================================================================
