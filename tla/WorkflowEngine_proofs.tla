----------------------- MODULE WorkflowEngine_proofs ------------------------
(***************************************************************************)
(* The invariants of WorkflowEngine, proved for every finite set of nodes  *)
(* and of runs and all definitions with finitely many edges: steps are     *)
(* driven, approvals can be answered, runs end for a reason and are        *)
(* closed, and a cancelled run begins no step.                             *)
(***************************************************************************)
EXTENDS WorkflowEngine, FiniteSetTheorems, WellFoundedInduction, TLAPS

-----------------------------------------------------------------------------
(* The inductive invariant.                                                *)

\* A run that was not started yet, and no run of a deleted workflow is started, has
\* left nothing in memory.
IsFresh(r) ==
  runStatus[r] = "absent" =>
    /\ \A n \in Nodes : steps[r][n] = "pending"
    /\ workflow.status # "deleted" =>
         /\ loop[r].phase = "none" /\ seen[r] = "absent"
         /\ \A n \in Nodes : /\ visits[r][n] = 0 /\ resolvers[r][n] = 0
                             /\ \A a \in AllAttempts : <<r, n, a>> \notin timers

\* The loop of a run stands at a node of a valid definition, its aggregate is there,
\* and its row, if there is one, is not closed.
LoopInOrder(r) ==
  loop[r].phase # "none" =>
    /\ loop[r].node \in Nodes /\ IsValid(loop[r].def.edges)
    /\ seen[r] # "absent" /\ runStatus[r] \notin {"failed", "completed"}
    /\ loop[r].phase = "executing" =>
         loop[r].attempt \in AllAttempts /\ visits[r][loop[r].node] > 0

\* The nodes visited are the steps begun, and the step of the node at which the
\* loop executes is open.
StepsInOrder(r) ==
  loop[r].phase # "none" /\ runStatus[r] # "absent" =>
    /\ \A n \in Nodes : visits[r][n] = 0 <=> steps[r][n] = "pending"
    /\ loop[r].phase = "executing" =>
         steps[r][loop[r].node] =
           IF loop[r].def.kind[loop[r].node] = "approval" THEN "waiting" ELSE "running"

\* Nothing in memory is about a step not begun, and the timers of a step that
\* waits are those of the present attempt (with the exception of WaitingIsAnswerable).
ApprovalsInOrder(r) ==
  \A n \in Nodes :
    /\ runStatus[r] # "absent" /\ steps[r][n] = "pending" =>
         resolvers[r][n] = 0 /\ \A a \in AllAttempts : <<r, n, a>> \notin timers
    /\ InMemory(r) /\ steps[r][n] = "waiting"
       /\ (loop[r].def.timed[n] \/ loop[r].def.onError[n] # "retry")
       => \A a \in AllAttempts : <<r, n, a>> \in timers => a = loop[r].attempt

\* f numbers the nodes such that every edge leads forward.
IsOrder(f, edges) == \A e \in edges : f[e.source] < f[e.target]

\* In a definition without loops a run goes forward: the nodes that it has visited
\* are behind the node at which it stands, or are the node that it executes.
GoesForward(r) ==
  loop[r].phase # "none" /\ NonLoop(loop[r].def.edges) = loop[r].def.edges =>
    \A f \in [Nodes -> Nat] : IsOrder(f, loop[r].def.edges) =>
      \A m \in Nodes : visits[r][m] > 0 =>
        \/ f[m] < f[loop[r].node]
        \/ loop[r].phase = "executing" /\ m = loop[r].node

\* OpenStepIsDriven, for one run.
IsDriven(r) ==
  \A n \in Nodes : InMemory(r) /\ steps[r][n] \in {"running", "waiting"} =>
    loop[r].phase = "executing" /\ loop[r].node = n

\* WaitingIsAnswerable, for one run.
IsAnswerable(r) ==
  \A n \in Nodes :
    InMemory(r) /\ steps[r][n] = "waiting"
    /\ (loop[r].def.timed[n] \/ loop[r].def.onError[n] # "retry")
    => Listens(r, n, resolvers[r][n])

\* FailsForAReason, for one run.
HasAReason(r) ==
  runStatus[r] = "failed" /\ NonLoop(loop[r].def.edges) = loop[r].def.edges =>
    \E n \in Nodes : steps[r][n] = "failed" /\ loop[r].def.onError[n] = "abort"

\* CompletedRunIsClosed, for one run.
IsClosed(r) ==
  runStatus[r] = "completed" => \A n \in Nodes : steps[r][n] \in {"completed", "failed", "skipped"}

\* What holds of each run.
RunIsRight(r) ==
  /\ IsFresh(r) /\ LoopInOrder(r) /\ StepsInOrder(r) /\ ApprovalsInOrder(r) /\ GoesForward(r)
  /\ IsDriven(r) /\ IsAnswerable(r) /\ HasAReason(r) /\ IsClosed(r)

\* The inductive invariant.
IInv == TypeOK /\ OneScheduledRun /\ \A r \in Runs : RunIsRight(r)

-----------------------------------------------------------------------------
(* Kahn's algorithm: a definition that validateDAG accepts has an order.   *)

\* A set of numbers has a least element.
LEMMA Least ==
  ASSUME NEW T \in SUBSET Nat, T # {}
  PROVE  \E x \in T : \A y \in T : x <= y
<1>. DEFINE R == OpToRel(<, Nat)
<1>1. IsWellFoundedOn(R, Nat)
  BY NatLessThanWellFounded
<1>2. R = {ss \in Nat \X Nat : ss[1] < ss[2]}
  BY DEF OpToRel
<1>. HIDE DEF R
<1>3. PICK x \in T : \A y \in T : ~ (<<y, x>> \in R)
  BY <1>1, WFMin
<1>4. \A y \in T : <<y, x>> \in Nat \X Nat /\ <<y, x>>[1] = y /\ <<y, x>>[2] = x
  OBVIOUS
<1>5. \A y \in T : ~ (y < x)
  BY <1>2, <1>3, <1>4
<1>. QED BY <1>3, <1>5

\* The degrees before any node is taken.
First(edges) == [degree |-> [n \in Nodes |-> InEdges(edges, n)], taken |-> {}]

\* Taking one node whose degree is 0, if there is one.
TakeOne(edges, was) ==
  LET queue == {n \in Nodes \ was.taken : was.degree[n] = 0} IN
  IF queue = {} THEN was
  ELSE LET node == CHOOSE n \in queue : TRUE IN
       [degree |-> [n \in Nodes |-> was.degree[n] - Parallel(edges, node, n)],
        taken |-> was.taken \cup {node}]

\* There are finitely many nodes.
LEMMA NodesAreCounted == Cardinality(Nodes) \in Nat
  BY NodesAssumption, FS_CardinalityType

\* The loop of validateDAG is the function that its recursion defines.
LEMMA TakenIsDefined ==
  ASSUME NEW edges
  PROVE  \E A : /\ A = [k \in 0..Cardinality(Nodes) |-> IF k = 0 THEN First(edges) ELSE TakeOne(edges, A[k - 1])]
                /\ Taken(edges) = A[Cardinality(Nodes)].taken
<1>. DEFINE N == Cardinality(Nodes)
            recursion(m, A) == [k \in 0..m |-> IF k = 0 THEN First(edges) ELSE TakeOne(edges, A[k - 1])]
            Good(m) == \E A : A = recursion(m, A)
<1>1. N \in Nat
  BY NodesAreCounted
<1>2. Good(N)
  <2>. DEFINE Bad == {i \in 0..N : ~ Good(i)}
  <2>. HIDE DEF N
  <2>1. SUFFICES ASSUME Bad # {} PROVE FALSE
    BY <1>1, <2>1
  <2>2. PICK i \in Bad : \A j \in Bad : i <= j
    <3>1. Bad \in SUBSET Nat
      BY <1>1
    <3>. HIDE DEF Bad
    <3>. QED BY <2>1, <3>1, Least
  <2>3. Good(0)
    <3>. DEFINE A == [k \in 0..0 |-> First(edges)]
    <3>1. A = recursion(0, A)
      <4>1. \A k \in 0..0 : k = 0
        OBVIOUS
      <4>. QED BY <4>1
    <3>. QED BY <3>1
  <2>4. i \in 1..N /\ ~ Good(i)
    <3>1. i \in 0..N /\ ~ Good(i)
      BY DEF Bad
    <3>2. i # 0
      BY <2>3, <3>1
    <3>. HIDE DEF Good
    <3>. QED BY <1>1, <3>1, <3>2
  <2>5. Good(i - 1)
    <3>1. i - 1 \in 0..N /\ i - 1 \notin Bad
      BY <1>1, <2>2, <2>4
    <3>. HIDE DEF Good
    <3>. QED BY <3>1
  <2>6. PICK A : A = recursion(i - 1, A)
    BY <2>5
  <2>. DEFINE g == [k \in 0..i |-> IF k < i THEN A[k] ELSE TakeOne(edges, A[i - 1])]
  <2>7. \A k \in 0..(i - 1) : A[k] = IF k = 0 THEN First(edges) ELSE TakeOne(edges, A[k - 1])
    BY <2>6, Zenon
  <2>8. \A k \in 0..i : g[k] = IF k = 0 THEN First(edges) ELSE TakeOne(edges, g[k - 1])
    <3>. SUFFICES ASSUME NEW k \in 0..i PROVE g[k] = IF k = 0 THEN First(edges) ELSE TakeOne(edges, g[k - 1])
      OBVIOUS
    <3>1. k # 0 => g[k - 1] = A[k - 1]
      BY <1>1, <2>4
    <3>2. k < i => k \in 0..(i - 1) /\ g[k] = A[k]
      BY <1>1, <2>4
    <3>3. ~ (k < i) => k = i /\ k # 0 /\ g[k] = TakeOne(edges, A[k - 1])
      BY <1>1, <2>4
    <3>. HIDE DEF g
    <3>. QED BY <2>7, <3>1, <3>2, <3>3
  <2>9. g = recursion(i, g)
    <3>1. g = [k \in 0..i |-> g[k]]
      OBVIOUS
    <3>. HIDE DEF g
    <3>. QED BY <2>8, <3>1
  <2>. QED BY <2>4, <2>9
<1>3. Taken(edges) = (CHOOSE A : A = recursion(N, A))[N].taken
  BY Zenon DEF Taken, TakeOne, First
<1>. HIDE DEF recursion
<1>4. PICK A : A = recursion(N, A) /\ Taken(edges) = A[N].taken
  BY <1>2, <1>3
<1>. QED BY <1>4 DEF recursion

\* Edges into n from nodes that are not taken yet.
Open(edges, n, T) == {e \in NonLoop(edges) : e.target = n /\ e.source \notin T}

\* The in-degree that is kept for a node counts the edges from nodes not taken.
DegreesAreRight(edges, was) ==
  /\ was.taken \subseteq Nodes
  /\ \A n \in Nodes : was.degree[n] = Cardinality(Open(edges, n, was.taken))

\* Before any node is taken all edges count.
LEMMA FirstIsRight ==
  ASSUME NEW edges
  PROVE  DegreesAreRight(edges, First(edges))
<1>1. \A n \in Nodes : Open(edges, n, {}) = {e \in NonLoop(edges) : e.target = n}
  BY DEF Open
<1>. QED BY <1>1 DEF DegreesAreRight, First, InEdges

\* Edges are counted.
LEMMA OpenIsFinite ==
  ASSUME NEW edges, IsFiniteSet(edges), NEW n, NEW T
  PROVE  IsFiniteSet(Open(edges, n, T)) /\ Cardinality(Open(edges, n, T)) \in Nat
<1>1. Open(edges, n, T) \subseteq edges
  BY DEF Open, NonLoop
<1>. QED BY <1>1, FS_Subset, FS_CardinalityType

\* Taking a node keeps the degrees right; a node that is taken has no edge from one that
\* is not.
LEMMA TakingOneIsRight ==
  ASSUME NEW edges, IsFiniteSet(edges), NEW was, DegreesAreRight(edges, was)
  PROVE  /\ DegreesAreRight(edges, TakeOne(edges, was))
         /\ was.taken \subseteq TakeOne(edges, was).taken
         /\ \A n \in TakeOne(edges, was).taken \ was.taken : Open(edges, n, was.taken) = {}
<1>. DEFINE queue == {n \in Nodes \ was.taken : was.degree[n] = 0}
            node == CHOOSE n \in queue : TRUE
            next == [degree |-> [n \in Nodes |-> was.degree[n] - Parallel(edges, node, n)],
                     taken |-> was.taken \cup {node}]
<1>1. TakeOne(edges, was) = IF queue = {} THEN was ELSE next
  BY DEF TakeOne
<1>2. CASE queue = {}
  BY <1>1, <1>2
<1>3. CASE queue # {}
  <2>1. node \in queue
    BY <1>3
  <2>. HIDE DEF node
  <2>2. node \in Nodes /\ node \notin was.taken /\ was.degree[node] = 0
    BY <2>1
  <2>3. ASSUME NEW n \in Nodes
        PROVE  was.degree[n] - Parallel(edges, node, n) = Cardinality(Open(edges, n, was.taken \cup {node}))
    <3>. DEFINE X == Open(edges, n, was.taken \cup {node})
                Y == {e \in NonLoop(edges) : e.source = node /\ e.target = n}
    <3>1. Open(edges, n, was.taken) = X \cup Y /\ X \cap Y = {}
      BY <2>2 DEF Open
    <3>2. Y \subseteq edges
      BY DEF NonLoop
    <3>3. IsFiniteSet(X) /\ Cardinality(X) \in Nat
      BY OpenIsFinite
    <3>4. IsFiniteSet(Y) /\ Cardinality(Y) \in Nat
      BY <3>2, FS_Subset, FS_CardinalityType
    <3>5. Parallel(edges, node, n) = Cardinality(Y)
      BY DEF Parallel
    <3>6. was.degree[n] = Cardinality(X \cup Y)
      BY <3>1 DEF DegreesAreRight
    <3>. HIDE DEF X, Y
    <3>7. Cardinality(X \cup Y) = Cardinality(X) + Cardinality(Y)
      <4>1. Cardinality(X \cup Y) = Cardinality(X) + Cardinality(Y) - Cardinality(X \cap Y)
        BY <3>3, <3>4, FS_Union
      <4>. QED BY <3>1, <3>3, <3>4, <4>1, FS_EmptySet
    <3>. QED BY <3>3, <3>4, <3>5, <3>6, <3>7 DEF X
  <2>4. DegreesAreRight(edges, next)
    BY <2>2, <2>3 DEF DegreesAreRight
  <2>5. Open(edges, node, was.taken) = {}
    <3>1. Cardinality(Open(edges, node, was.taken)) = 0
      BY <2>2 DEF DegreesAreRight
    <3>. QED BY <3>1, OpenIsFinite, FS_EmptySet
  <2>. QED BY <1>1, <1>3, <2>4, <2>5
<1>. QED BY <1>2, <1>3

\* The loop of validateDAG, one node after the other, with the right degrees all along.
LEMMA TakenStepByStep ==
  ASSUME NEW edges, IsFiniteSet(edges)
  PROVE  \E A : LET N == Cardinality(Nodes) IN
           /\ A[0] = First(edges) /\ Taken(edges) = A[N].taken
           /\ \A k \in 1..N : A[k] = TakeOne(edges, A[k - 1])
           /\ \A k \in 0..N : DegreesAreRight(edges, A[k])
<1>. DEFINE N == Cardinality(Nodes)
<1>1. N \in Nat
  BY NodesAreCounted
<1>2. PICK A : /\ A = [k \in 0..N |-> IF k = 0 THEN First(edges) ELSE TakeOne(edges, A[k - 1])]
               /\ Taken(edges) = A[N].taken
  BY TakenIsDefined
<1>. HIDE DEF N
<1>3. A[0] = First(edges) /\ \A k \in 1..N : A[k] = TakeOne(edges, A[k - 1])
  <2>1. \A k \in 0..N : A[k] = IF k = 0 THEN First(edges) ELSE TakeOne(edges, A[k - 1])
    BY <1>2, Zenon
  <2>. QED BY <1>1, <2>1
<1>4. \A k \in 0..N : DegreesAreRight(edges, A[k])
  <2>. DEFINE Bad == {k \in 0..N : ~ DegreesAreRight(edges, A[k])}
  <2>1. SUFFICES ASSUME Bad # {} PROVE FALSE
    OBVIOUS
  <2>2. PICK k \in Bad : \A j \in Bad : k <= j
    <3>1. Bad \in SUBSET Nat
      BY <1>1
    <3>. HIDE DEF Bad
    <3>. QED BY <2>1, <3>1, Least
  <2>3. k \in 0..N /\ ~ DegreesAreRight(edges, A[k])
    OBVIOUS
  <2>4. k # 0
    BY <1>3, <2>3, FirstIsRight
  <2>5. k \in 1..N /\ k - 1 \in 0..N /\ ~ (k <= k - 1)
    BY <1>1, <2>3, <2>4
  <2>6. DegreesAreRight(edges, A[k - 1])
    BY <2>2, <2>5
  <2>. HIDE DEF Bad
  <2>. QED BY <1>3, <2>3, <2>5, <2>6, TakingOneIsRight
<1>. QED BY <1>2, <1>3, <1>4 DEF N

\* A graph that validateDAG accepts has an order in which every edge, loop edges
\* excepted, leads forward.
LEMMA ValidIsOrdered ==
  ASSUME NEW edges, IsFiniteSet(edges), IsValid(edges)
  PROVE  \E f \in [Nodes -> Nat] : IsOrder(f, NonLoop(edges))
<1>. DEFINE N == Cardinality(Nodes)
<1>1. N \in Nat
  BY NodesAreCounted
<1>2. PICK A : /\ A[0] = First(edges) /\ Taken(edges) = A[N].taken
               /\ \A k \in 1..N : A[k] = TakeOne(edges, A[k - 1])
               /\ \A k \in 0..N : DegreesAreRight(edges, A[k])
  BY TakenStepByStep
<1>. HIDE DEF N
<1>3. A[0] = First(edges) /\ \A k \in 1..N : A[k] = TakeOne(edges, A[k - 1])
  BY <1>2
<1>4. \A k \in 0..N : DegreesAreRight(edges, A[k])
  BY <1>2
<1>5. \A k \in 1..N : /\ A[k - 1].taken \subseteq A[k].taken
                      /\ \A n \in A[k].taken \ A[k - 1].taken : Open(edges, n, A[k - 1].taken) = {}
  <2>1. \A k \in 1..N : k - 1 \in 0..N
    BY <1>1
  <2>. QED BY <1>3, <1>4, <2>1, TakingOneIsRight
<1>6. A[0].taken = {} /\ A[N].taken = Nodes
  <2>1. First(edges).taken = {}
    BY DEF First
  <2>2. Taken(edges) = Nodes
    BY DEF IsValid
  <2>. QED BY <1>2, <1>3, <2>1, <2>2
<1>. DEFINE IsTime(n, k) == k \in 1..N /\ n \in A[k].taken /\ \A j \in 0..N : n \in A[j].taken => k <= j
<1>7. \A n \in Nodes : \E k \in Nat : IsTime(n, k)
  <2>. SUFFICES ASSUME NEW n \in Nodes PROVE \E k \in Nat : IsTime(n, k)
    OBVIOUS
  <2>. DEFINE Times == {k \in 0..N : n \in A[k].taken}
  <2>1. Times \in SUBSET Nat /\ N \in Times
    BY <1>1, <1>6
  <2>2. PICK k \in Times : \A j \in Times : k <= j
    <3>. HIDE DEF Times
    <3>. QED BY <2>1, Least
  <2>3. k # 0
    BY <1>6
  <2>. QED BY <1>1, <2>2, <2>3
<1>. DEFINE f == [n \in Nodes |-> CHOOSE k \in Nat : IsTime(n, k)]
<1>8. \A n \in Nodes : f[n] \in Nat /\ IsTime(n, f[n])
  <2>. HIDE DEF IsTime
  <2>. QED BY <1>7
<1>9. f \in [Nodes -> Nat]
  <2>. DEFINE g(n) == CHOOSE k \in Nat : IsTime(n, k)
  <2>1. f = [n \in Nodes |-> g(n)] /\ \A n \in Nodes : f[n] = g(n)
    OBVIOUS
  <2>2. \A n \in Nodes : g(n) \in Nat
    BY <1>8, <2>1
  <2>. HIDE DEF f, g
  <2>. QED BY <2>1, <2>2
<1>. HIDE DEF f
<1>10. ASSUME NEW e \in NonLoop(edges)
       PROVE  f[e.source] < f[e.target]
  <2>1. e.source \in Nodes /\ e.target \in Nodes
    BY DEF IsValid, KnownEnds, NonLoop
  <2>2. f[e.source] \in Nat /\ f[e.target] \in 1..N /\ e.target \in A[f[e.target]].taken
    BY <1>8, <2>1
  <2>3. f[e.target] - 1 \in 0..N /\ ~ (f[e.target] <= f[e.target] - 1)
    BY <1>1, <2>2
  <2>4. e.target \notin A[f[e.target] - 1].taken
    BY <1>8, <2>1, <2>3
  <2>5. Open(edges, e.target, A[f[e.target] - 1].taken) = {}
    BY <1>5, <2>2, <2>4
  <2>6. e.source \in A[f[e.target] - 1].taken
    BY <2>5 DEF Open
  <2>7. f[e.source] <= f[e.target] - 1
    BY <1>8, <2>1, <2>3, <2>6
  <2>. QED BY <1>1, <2>2, <2>7
<1>. QED BY <1>9, <1>10 DEF IsOrder

\* Of a graph without cycles validateDAG takes a node in every round, until none is left.
LEMMA AcyclicIsTaken ==
  ASSUME NEW edges, IsFiniteSet(edges), KnownEnds(edges), Acyclic(edges)
  PROVE  Taken(edges) = Nodes
<1>. DEFINE N == Cardinality(Nodes)
<1>1. N \in Nat
  BY NodesAreCounted
<1>2. PICK A : /\ A[0] = First(edges) /\ Taken(edges) = A[N].taken
               /\ \A k \in 1..N : A[k] = TakeOne(edges, A[k - 1])
               /\ \A k \in 0..N : DegreesAreRight(edges, A[k])
  BY TakenStepByStep
<1>. HIDE DEF N
<1>3. \A k \in 0..N : /\ A[k].taken \subseteq Nodes /\ IsFiniteSet(A[k].taken)
                      /\ Cardinality(A[k].taken) \in Nat
  BY <1>2, NodesAssumption, FS_Subset, FS_CardinalityType DEF DegreesAreRight
<1>4. ASSUME NEW k \in 1..N, A[k - 1].taken # Nodes
      PROVE  Cardinality(A[k].taken) = Cardinality(A[k - 1].taken) + 1
  <2>. DEFINE was == A[k - 1]
              queue == {n \in Nodes \ was.taken : was.degree[n] = 0}
              node == CHOOSE n \in queue : TRUE
  <2>1. k - 1 \in 0..N
    BY <1>1
  <2>2. was.taken \subseteq Nodes /\ IsFiniteSet(was.taken) /\ DegreesAreRight(edges, was)
    BY <1>2, <1>3, <2>1
  <2>3. PICK n \in Nodes \ was.taken :
          \A e \in NonLoop(edges) : ~(e.source \in Nodes \ was.taken /\ e.target = n)
    BY <1>4, <2>2 DEF Acyclic
  <2>4. Open(edges, n, was.taken) = {}
    BY <2>3 DEF Open, NonLoop, KnownEnds
  <2>5. was.degree[n] = 0
    BY <2>2, <2>3, <2>4, FS_EmptySet DEF DegreesAreRight
  <2>6. node \in queue /\ queue # {}
    BY <2>3, <2>5
  <2>7. A[k].taken = was.taken \cup {node}
    <3>1. A[k] = TakeOne(edges, was)
      BY <1>2
    <3>. QED BY <2>6, <3>1 DEF TakeOne
  <2>8. node \notin was.taken
    BY <2>6
  <2>. HIDE DEF node, was
  <2>. QED BY <2>2, <2>7, <2>8, FS_AddElement DEF was
<1>5. \A k \in 0..N : A[k].taken = Nodes \/ Cardinality(A[k].taken) = k
  <2>. DEFINE Bad == {k \in 0..N : ~ (A[k].taken = Nodes \/ Cardinality(A[k].taken) = k)}
  <2>1. SUFFICES ASSUME Bad # {} PROVE FALSE
    OBVIOUS
  <2>2. PICK k \in Bad : \A j \in Bad : k <= j
    <3>1. Bad \in SUBSET Nat
      BY <1>1
    <3>. HIDE DEF Bad
    <3>. QED BY <2>1, <3>1, Least
  <2>3. k \in 0..N /\ A[k].taken # Nodes /\ Cardinality(A[k].taken) # k
    OBVIOUS
  <2>4. k # 0
    BY <1>2, <2>3, FS_EmptySet DEF First
  <2>5. k \in 1..N /\ k - 1 \in 0..N /\ ~ (k <= k - 1)
    BY <1>1, <2>3, <2>4
  <2>6. A[k - 1].taken = Nodes \/ Cardinality(A[k - 1].taken) = k - 1
    BY <2>2, <2>5
  <2>. HIDE DEF Bad
  <2>7. A[k - 1].taken # Nodes
    <3>. SUFFICES ASSUME A[k - 1].taken = Nodes PROVE FALSE
      OBVIOUS
    <3>1. A[k - 1].taken \subseteq A[k].taken
      BY <1>2, <2>5, TakingOneIsRight
    <3>. QED BY <1>3, <2>3, <3>1
  <2>8. Cardinality(A[k].taken) = k
    BY <1>1, <1>4, <2>5, <2>6, <2>7
  <2>. QED BY <2>3, <2>8
<1>6. N \in 0..N
  BY <1>1
<1>7. A[N].taken = Nodes \/ Cardinality(A[N].taken) = N
  BY <1>5, <1>6
<1>8. A[N].taken = Nodes
  BY <1>3, <1>6, <1>7, NodesAssumption, FS_Subset DEF N
<1>. QED BY <1>2, <1>8

\* validateDAG is right: it accepts the graphs between known nodes that have no edge from
\* a node to itself and no cycle of edges other than loop edges, and no others.
THEOREM ValidationIsRight ==
  ASSUME NEW edges, IsFiniteSet(edges)
  PROVE  IsValid(edges) <=> KnownEnds(edges) /\ NoSelfLoop(edges) /\ Acyclic(edges)
<1>1. ASSUME IsValid(edges) PROVE Acyclic(edges)
  <2>1. PICK f \in [Nodes -> Nat] : IsOrder(f, NonLoop(edges))
    BY <1>1, ValidIsOrdered
  <2>. SUFFICES ASSUME NEW S \in (SUBSET Nodes) \ {{}}
                PROVE  \E n \in S : \A e \in NonLoop(edges) : ~(e.source \in S /\ e.target = n)
    BY DEF Acyclic
  <2>. DEFINE Times == {f[n] : n \in S}
  <2>2. Times \in SUBSET Nat /\ Times # {}
    OBVIOUS
  <2>3. PICK x \in Times : \A y \in Times : x <= y
    <3>. HIDE DEF Times
    <3>. QED BY <2>2, Least
  <2>4. PICK n \in S : f[n] = x
    OBVIOUS
  <2>5. ASSUME NEW e \in NonLoop(edges), e.source \in S, e.target = n
        PROVE  FALSE
    <3>1. f[e.source] < f[n] /\ x <= f[e.source]
      BY <2>1, <2>3, <2>5 DEF IsOrder
    <3>2. f[e.source] \in Nat /\ f[n] \in Nat
      BY <2>5
    <3>. QED BY <2>4, <3>1, <3>2
  <2>. QED BY <2>4, <2>5
<1>. QED BY <1>1, AcyclicIsTaken DEF IsValid

-----------------------------------------------------------------------------
(* The operators on definitions.                                            *)

\* A step has at least one attempt, and the numbers of its attempts are known.
LEMMA AttemptsAreCounted ==
  /\ \A d \in Definitions : \A n \in Nodes :
       Attempts(d, n) \in Nat \ {0} /\ 1 .. Attempts(d, n) \subseteq AllAttempts
  /\ AllAttempts \subseteq Nat \ {0}
<1>. DEFINE numbers == {1 .. Attempts(d, n) : d \in Definitions, n \in Nodes}
<1>0. AllAttempts = UNION numbers
  BY DEF AllAttempts
<1>1. ASSUME NEW e \in Definitions, NEW m \in Nodes
      PROVE  Attempts(e, m) \in Nat \ {0} /\ 1 .. Attempts(e, m) \subseteq AllAttempts
  <2>1. e.retryCount[m] \in Nat
    BY EngineAssumption
  <2>2. Attempts(e, m) \in Nat \ {0}
    BY <2>1 DEF Attempts
  <2>3. 1 .. Attempts(e, m) \in numbers
    OBVIOUS
  <2>. HIDE DEF numbers
  <2>. QED BY <1>0, <2>2, <2>3
<1>2. AllAttempts \subseteq Nat \ {0}
  BY <1>1 DEF AllAttempts
<1>. QED BY <1>1, <1>2

\* Where an edge of a valid definition leads is a node of it.
LEMMA TargetIsKnown ==
  ASSUME NEW d, IsValid(d.edges), NEW n, NEW type
  PROVE  /\ Target(d, n, type) \in Nodes \cup {NoNode}
         /\ Target(d, n, type) # NoNode =>
              \E e \in d.edges : e.source = n /\ e.type = type /\ e.target = Target(d, n, type)
<1>. DEFINE es == {e \in d.edges : e.source = n /\ e.type = type}
            edge == CHOOSE e \in es : TRUE
<1>1. Target(d, n, type) = IF es = {} THEN NoNode ELSE edge.target
  BY Zenon DEF Target
<1>2. es # {} => edge \in es
  OBVIOUS
<1>. HIDE DEF edge
<1>3. CASE es = {}
  BY <1>1, <1>3
<1>4. CASE es # {}
  BY <1>1, <1>2, <1>4 DEF IsValid, KnownEnds
<1>. QED BY <1>3, <1>4

\* Where a run goes on is a node of the definition, which an edge leads to.
LEMMA NextNodeIsKnown ==
  ASSUME NEW d, IsValid(d.edges), NEW n, NEW result, NEW condition
  PROVE  LET next == NextNode(d, n, result, condition) IN
         /\ next \in Nodes \cup {NoNode}
         /\ next # NoNode => \E e \in d.edges : e.source = n /\ e.target = next
<1>1. \/ NextNode(d, n, result, condition) = NoNode
      \/ \E type \in EdgeTypes : NextNode(d, n, result, condition) = Target(d, n, type)
  BY DEF NextNode, EdgeTypes
<1>. QED BY <1>1, TargetIsKnown

\* Without loop edges a node may be visited once.
LEMMA OnceWithoutLoops ==
  ASSUME NEW d, IsValid(d.edges), NonLoop(d.edges) = d.edges, NEW n \in Nodes, NEW prev
  PROVE  MaxVisits(d, n, prev) = 1
<1>1. Target(d, prev, "loop") = NoNode
  BY TargetIsKnown DEF NonLoop
<1>. QED BY <1>1, EngineAssumption DEF MaxVisits

\* A loop that is set,
LEMMA LoopStaysTyped ==
  ASSUME TypeOK, NEW r \in Runs,
         NEW entry \in [phase : Phases, def : Definitions, node : Nodes \cup {NoNode},
                        prev : Nodes \cup {NoNode}, attempt : AllAttempts \cup {0}],
         loop' = [loop EXCEPT ![r] = entry]
  PROVE  /\ loop' \in [Runs -> [phase : Phases, def : Definitions, node : Nodes \cup {NoNode},
                                prev : Nodes \cup {NoNode}, attempt : AllAttempts \cup {0}]]
         /\ loop'[r] = entry /\ \A q \in Runs \ {r} : loop'[q] = loop[q]
BY DEF TypeOK

\* one that goes on to a node,
LEMMA LoopGoesOn ==
  ASSUME TypeOK, NEW r \in Runs, NEW n \in Nodes \cup {NoNode}, NEW prev \in Nodes \cup {NoNode},
         loop' = [loop EXCEPT ![r].prev = prev, ![r].node = n]
  PROVE  /\ loop' \in [Runs -> [phase : Phases, def : Definitions, node : Nodes \cup {NoNode},
                                prev : Nodes \cup {NoNode}, attempt : AllAttempts \cup {0}]]
         /\ loop'[r].phase = loop[r].phase /\ loop'[r].def = loop[r].def /\ loop'[r].node = n
         /\ \A q \in Runs \ {r} : loop'[q] = loop[q]
<1>. DEFINE L == [phase : Phases, def : Definitions, node : Nodes \cup {NoNode},
                   prev : Nodes \cup {NoNode}, attempt : AllAttempts \cup {0}]
            entry == [loop[r] EXCEPT !.prev = prev, !.node = n]
<1>1. loop[r] \in L
  BY DEF TypeOK
<1>2. entry \in L /\ entry.phase = loop[r].phase /\ entry.def = loop[r].def /\ entry.node = n
  BY <1>1
<1>3. loop' = [loop EXCEPT ![r] = entry]
  BY DEF TypeOK
<1>. HIDE DEF entry
<1>. QED BY <1>2, <1>3, LoopStaysTyped

\* one that begins an attempt,
LEMMA AttemptBegins ==
  ASSUME TypeOK, NEW r \in Runs, NEW a \in AllAttempts,
         \/ loop' = [loop EXCEPT ![r].phase = "executing", ![r].attempt = a]
         \/ loop[r].phase = "executing" /\ loop' = [loop EXCEPT ![r].attempt = a]
  PROVE  /\ loop' \in [Runs -> [phase : Phases, def : Definitions, node : Nodes \cup {NoNode},
                                prev : Nodes \cup {NoNode}, attempt : AllAttempts \cup {0}]]
         /\ loop'[r].phase = "executing" /\ loop'[r].def = loop[r].def
         /\ loop'[r].node = loop[r].node
         /\ loop'[r].attempt = a /\ \A q \in Runs \ {r} : loop'[q] = loop[q]
<1>. DEFINE L == [phase : Phases, def : Definitions, node : Nodes \cup {NoNode},
                   prev : Nodes \cup {NoNode}, attempt : AllAttempts \cup {0}]
            entry == [loop[r] EXCEPT !.phase = "executing", !.attempt = a]
<1>1. loop[r] \in L
  BY DEF TypeOK
<1>2. /\ entry \in L /\ entry.phase = "executing" /\ entry.def = loop[r].def
      /\ entry.node = loop[r].node /\ entry.attempt = a
  BY <1>1 DEF Phases
<1>3. loop' = [loop EXCEPT ![r] = entry]
  <2>1. CASE loop' = [loop EXCEPT ![r].phase = "executing", ![r].attempt = a]
    BY <2>1
  <2>2. CASE loop[r].phase = "executing" /\ loop' = [loop EXCEPT ![r].attempt = a]
    <3>1. [loop[r] EXCEPT !.attempt = a] = entry
      BY <1>1, <2>2
    <3>2. loop' = [loop EXCEPT ![r] = [loop[r] EXCEPT !.attempt = a]]
      BY Zenon, <2>2
    <3>. QED BY Zenon, <3>1, <3>2
  <2>. QED BY <2>1, <2>2
<1>. HIDE DEF entry
<1>. QED BY <1>2, <1>3, LoopStaysTyped

\* and one that is over have their types.
LEMMA NoLoopIsTyped ==
  ASSUME NEW d \in Definitions
  PROVE  NoLoop(d) \in [phase : Phases, def : Definitions, node : Nodes \cup {NoNode},
                        prev : Nodes \cup {NoNode}, attempt : AllAttempts \cup {0}]
BY DEF NoLoop, Phases

-----------------------------------------------------------------------------
(* Runs that an action leaves alone.                                       *)

\* An action that leaves what there is of a run leaves it right.
Same(r) ==
  /\ runStatus'[r] = runStatus[r] /\ source'[r] = source[r] /\ steps'[r] = steps[r]
  /\ seen'[r] = seen[r] /\ loop'[r] = loop[r] /\ visits'[r] = visits[r]
  /\ resolvers'[r] = resolvers[r]
  /\ \A n \in Nodes, a \in AllAttempts : <<r, n, a>> \in timers' <=> <<r, n, a>> \in timers

\* In such an action the run stays right.
LEMMA SameIsRight ==
  ASSUME NEW r \in Runs, RunIsRight(r), Same(r),
         workflow.status = "deleted" => workflow'.status = "deleted"
  PROVE  RunIsRight(r)'
<1>1. IsFresh(r)'
  BY DEF RunIsRight, Same, IsFresh
<1>2. LoopInOrder(r)'
  BY DEF RunIsRight, Same, LoopInOrder
<1>3. StepsInOrder(r)'
  BY DEF RunIsRight, Same, StepsInOrder
<1>4. ApprovalsInOrder(r)'
  BY DEF RunIsRight, Same, ApprovalsInOrder, InMemory
<1>5. GoesForward(r)'
  BY DEF RunIsRight, Same, GoesForward
<1>6. IsDriven(r)' /\ IsAnswerable(r)'
  BY DEF RunIsRight, Same, IsDriven, IsAnswerable, InMemory, Listens
<1>7. HasAReason(r)' /\ IsClosed(r)'
  BY DEF RunIsRight, Same, HasAReason, IsClosed
<1>. QED BY <1>1, <1>2, <1>3, <1>4, <1>5, <1>6, <1>7 DEF RunIsRight

\* No loop begins: at most one scheduled run goes on.
LEMMA OneScheduledRunStays ==
  ASSUME OneScheduledRun, source' = source,
         \A r \in Runs : loop'[r].phase # "none" => loop[r].phase # "none"
  PROVE  OneScheduledRun'
BY DEF OneScheduledRun

\* What the properties of the runs' triple say.
LEMMA RunsAreRightIfEachIs ==
  ASSUME IInv
  PROVE  RunsAreRight
<1>1. OpenStepIsDriven /\ WaitingIsAnswerable
  BY DEF IInv, RunIsRight, IsDriven, IsAnswerable, OpenStepIsDriven, WaitingIsAnswerable
<1>2. FailsForAReason /\ CompletedRunIsClosed
  BY DEF IInv, RunIsRight, HasAReason, IsClosed, FailsForAReason, CompletedRunIsClosed
<1>. QED BY <1>1, <1>2 DEF IInv, RunsAreRight, OpenStepCanEnd, EndIsRight

\* The invariant holds at the start.
LEMMA InitIsRight ==
  ASSUME Init
  PROVE  IInv
<1>1. TypeOK
  BY NoLoopIsTyped DEF Init, TypeOK, RunStatuses, StepStatuses, NoResolvers, Definitions
<1>2. OneScheduledRun
  BY DEF Init, OneScheduledRun
<1>3. ASSUME NEW r \in Runs PROVE RunIsRight(r)
  BY DEF Init, NoLoop, NoResolvers, RunIsRight, IsFresh, LoopInOrder, StepsInOrder,
     ApprovalsInOrder, GoesForward, IsDriven, IsAnswerable, HasAReason, IsClosed
<1>. QED BY <1>1, <1>2, <1>3 DEF IInv

-----------------------------------------------------------------------------
(* Triggers, and what happens to the workflow.                              *)

\* A run is started, by hand or by the schedule.
LEMMA StartRunIsRight ==
  ASSUME IInv, NEW r \in Runs, NEW src \in {"manual", "schedule"}, StartRun(r, src)
  PROVE  /\ runStatus' \in [Runs -> RunStatuses] /\ source' \in [Runs -> {"manual", "schedule"}]
         /\ seen' \in [Runs -> RunStatuses]
         /\ loop' \in [Runs -> [phase : Phases, def : Definitions, node : Nodes \cup {NoNode},
                                prev : Nodes \cup {NoNode}, attempt : AllAttempts \cup {0}]]
         /\ source'[r] = src
         /\ RunIsRight(r)'
         /\ \A q \in Runs \ {r} : Same(q)
<1>. DEFINE entry == [phase |-> "arriving", def |-> workflow.def, node |-> workflow.def.entry,
                      prev |-> NoNode, attempt |-> 0]
<1>1. /\ workflow.status = "active" /\ IsValid(workflow.def.edges)
      /\ runStatus[r] = "absent" /\ loop[r].phase = "none"
      /\ runStatus' = [runStatus EXCEPT ![r] = "running"]
      /\ seen' = [seen EXCEPT ![r] = "running"]
      /\ source' = [source EXCEPT ![r] = src]
      /\ loop' = [loop EXCEPT ![r] = entry]
      /\ UNCHANGED <<steps, visits, resolvers, timers>>
  BY DEF StartRun
<1>2. TypeOK /\ IsFresh(r)
  BY DEF IInv, RunIsRight
<1>3. entry \in [phase : Phases, def : Definitions, node : Nodes \cup {NoNode},
                 prev : Nodes \cup {NoNode}, attempt : AllAttempts \cup {0}]
  BY <1>2, EngineAssumption DEF TypeOK, Phases
<1>4. /\ loop' \in [Runs -> [phase : Phases, def : Definitions, node : Nodes \cup {NoNode},
                             prev : Nodes \cup {NoNode}, attempt : AllAttempts \cup {0}]]
      /\ loop'[r] = entry /\ \A q \in Runs \ {r} : loop'[q] = loop[q]
  <2>. HIDE DEF entry
  <2>. QED BY <1>1, <1>2, <1>3, LoopStaysTyped
<1>5. /\ runStatus' \in [Runs -> RunStatuses] /\ seen' \in [Runs -> RunStatuses]
      /\ source' \in [Runs -> {"manual", "schedule"}]
      /\ runStatus'[r] = "running" /\ seen'[r] = "running" /\ source'[r] = src
      /\ \A q \in Runs \ {r} : /\ runStatus'[q] = runStatus[q] /\ seen'[q] = seen[q]
                               /\ source'[q] = source[q]
  BY <1>1, <1>2 DEF TypeOK, RunStatuses
<1>6. \A q \in Runs \ {r} : Same(q)
  BY <1>1, <1>4, <1>5 DEF Same
<1>7. loop'[r].phase = "arriving" /\ loop'[r].node \in Nodes /\ loop'[r].def = workflow.def
  BY <1>2, <1>4, EngineAssumption
<1>8. /\ \A n \in Nodes : /\ steps'[r][n] = "pending" /\ visits'[r][n] = 0 /\ resolvers'[r][n] = 0
                          /\ \A a \in AllAttempts : <<r, n, a>> \notin timers'
  BY <1>1, <1>2 DEF IsFresh
<1>9. RunIsRight(r)'
  BY <1>1, <1>5, <1>7, <1>8 DEF RunIsRight, IsFresh, LoopInOrder, StepsInOrder,
     ApprovalsInOrder, GoesForward, IsDriven, IsAnswerable, HasAReason, IsClosed
<1>. QED BY <1>4, <1>5, <1>6, <1>9

\* A user starts a run.
LEMMA TriggerManuallyIsRight ==
  ASSUME IInv, NEW r \in Runs, TriggerManually(r), scenario' = scenario
  PROVE  IInv'
<1>1. StartRun(r, "manual") /\ UNCHANGED <<workflow, nextRun, steps, visits, resolvers, timers>>
  BY DEF TriggerManually, StartRun
<1>2. TypeOK'
  BY <1>1, StartRunIsRight DEF IInv, TypeOK
<1>3. ASSUME NEW q \in Runs PROVE RunIsRight(q)'
  BY <1>1, StartRunIsRight, SameIsRight DEF IInv
<1>4. OneScheduledRun'
  BY <1>1, StartRunIsRight DEF IInv, OneScheduledRun, Same
<1>. QED BY <1>2, <1>3, <1>4 DEF IInv

\* The schedule starts a run, if none of its runs is going on.
LEMMA TickIsRight ==
  ASSUME IInv, NEW r \in Runs, Tick(r), scenario' = scenario
  PROVE  IInv'
<1>1. /\ StartRun(r, "schedule") /\ UNCHANGED <<workflow, steps, visits, resolvers, timers>>
      /\ nextRun' \in {"never", "later"} /\ ~ IsRunning
  BY DEF Tick, StartRun
<1>2. TypeOK'
  BY <1>1, StartRunIsRight DEF IInv, TypeOK
<1>3. ASSUME NEW q \in Runs PROVE RunIsRight(q)'
  BY <1>1, StartRunIsRight, SameIsRight DEF IInv
<1>4. OneScheduledRun'
  BY <1>1, StartRunIsRight DEF OneScheduledRun, Same, IsRunning
<1>. QED BY <1>2, <1>3, <1>4 DEF IInv

\* The schedule and the edits of a workflow leave its runs alone.
LEMMA RunsUntouched ==
  ASSUME IInv, UNCHANGED <<runStatus, source, steps, local>>,
         workflow.status = "deleted" => workflow'.status = "deleted"
  PROVE  OneScheduledRun' /\ \A r \in Runs : RunIsRight(r)'
<1>1. \A r \in Runs : Same(r)
  BY DEF Same, local
<1>2. OneScheduledRun'
  BY DEF IInv, OneScheduledRun, local
<1>. QED BY <1>1, <1>2, SameIsRight DEF IInv

\* The schedule comes due or fails.
LEMMA ScheduleIsRight ==
  ASSUME IInv, ScheduleComesDue \/ TickFails, scenario' = scenario
  PROVE  IInv'
<1>1. /\ UNCHANGED <<workflow, runStatus, source, steps, local>>
      /\ nextRun' \in {"never", "later", "due"}
  BY DEF ScheduleComesDue, TickFails
<1>2. TypeOK'
  BY <1>1 DEF IInv, TypeOK, local
<1>. QED BY <1>1, <1>2, RunsUntouched DEF IInv

\* A user edits the workflow; runs keep the definition they have.
LEMMA UpdateWorkflowIsRight ==
  ASSUME IInv, UpdateWorkflow, scenario' = scenario
  PROVE  IInv'
<1>1. /\ UNCHANGED <<runStatus, source, steps, local>> /\ workflow.status # "deleted"
      /\ nextRun' \in {"never", "later", "due"}
      /\ \E s \in {"active", "disabled"}, d \in scenario.definitions : workflow' = [status |-> s, def |-> d]
  BY DEF UpdateWorkflow
<1>2. \A d \in scenario.definitions : d \in Definitions
  BY DEF IInv, TypeOK, Definitions
<1>3. TypeOK'
  BY <1>1, <1>2 DEF IInv, TypeOK, local
<1>. QED BY <1>1, <1>3, RunsUntouched DEF IInv

\* A deleted run is what a fresh one is in the table; its loop, if it has one, goes
\* on until it looks at its row.
LEMMA DeleteWorkflowIsRight ==
  ASSUME IInv, DeleteWorkflow, scenario' = scenario
  PROVE  IInv'
<1>1. /\ UNCHANGED <<source, seen, loop, visits, resolvers, timers>>
      /\ workflow' = [workflow EXCEPT !.status = "deleted"] /\ nextRun' = "never"
      /\ runStatus' = [r \in Runs |-> "absent"]
      /\ steps' = [r \in Runs |-> [n \in Nodes |-> "pending"]]
  BY DEF DeleteWorkflow, local
<1>2. TypeOK'
  BY <1>1 DEF IInv, TypeOK, RunStatuses, StepStatuses
<1>3. workflow'.status = "deleted"
  BY <1>1
<1>4. \A r \in Runs : runStatus'[r] = "absent" /\ \A n \in Nodes : steps'[r][n] = "pending"
  BY <1>1
<1>5. ASSUME NEW r \in Runs PROVE RunIsRight(r)'
  <2>1. IsFresh(r)' /\ LoopInOrder(r)' /\ StepsInOrder(r)'
    BY <1>1, <1>3, <1>4 DEF IInv, RunIsRight, IsFresh, LoopInOrder, StepsInOrder
  <2>2. ApprovalsInOrder(r)'
    BY <1>1, <1>3, <1>4 DEF ApprovalsInOrder
  <2>3. GoesForward(r)'
    BY <1>1, <1>3, <1>4 DEF IInv, RunIsRight, GoesForward
  <2>4. IsDriven(r)' /\ IsAnswerable(r)'
    BY <1>1, <1>3, <1>4 DEF IsDriven, IsAnswerable
  <2>5. HasAReason(r)' /\ IsClosed(r)'
    BY <1>1, <1>3, <1>4 DEF HasAReason, IsClosed
  <2>. QED BY <2>1, <2>2, <2>3, <2>4, <2>5 DEF RunIsRight
<1>6. OneScheduledRun'
  BY <1>1 DEF IInv, OneScheduledRun
<1>. QED BY <1>2, <1>5, <1>6 DEF IInv

\* The process is killed: the rows stay, nothing in memory does.
LEMMA CrashIsRight ==
  ASSUME IInv, Crash, scenario' = scenario
  PROVE  IInv'
<1>1. /\ loop' = [r \in Runs |-> NoLoop(loop[r].def)]
      /\ seen' = [r \in Runs |-> "absent"]
      /\ visits' = [r \in Runs |-> [n \in Nodes |-> 0]]
      /\ resolvers' = NoResolvers /\ timers' = {}
      /\ UNCHANGED <<workflow, nextRun, runStatus, source, steps>>
  BY DEF Crash, rows
<1>2. \A r \in Runs : loop[r].def \in Definitions
  BY DEF IInv, TypeOK
<1>3. TypeOK'
  <2>1. loop' \in [Runs -> [phase : Phases, def : Definitions, node : Nodes \cup {NoNode},
                            prev : Nodes \cup {NoNode}, attempt : AllAttempts \cup {0}]]
    BY <1>1, <1>2, NoLoopIsTyped
  <2>. QED BY <1>1, <2>1 DEF IInv, TypeOK, RunStatuses, NoResolvers
<1>4. \A r \in Runs : /\ loop'[r].phase = "none" /\ loop'[r].def = loop[r].def /\ seen'[r] = "absent"
                      /\ \A n \in Nodes : visits'[r][n] = 0 /\ resolvers'[r][n] = 0
  BY <1>1 DEF NoLoop, NoResolvers
<1>5. ASSUME NEW r \in Runs PROVE RunIsRight(r)'
  <2>1. IsFresh(r)' /\ LoopInOrder(r)' /\ StepsInOrder(r)'
    BY <1>1, <1>4 DEF IInv, RunIsRight, IsFresh, LoopInOrder, StepsInOrder
  <2>2. ApprovalsInOrder(r)'
    BY <1>1, <1>4 DEF ApprovalsInOrder
  <2>3. GoesForward(r)'
    BY <1>1, <1>4 DEF GoesForward
  <2>4. IsDriven(r)' /\ IsAnswerable(r)'
    BY <1>1, <1>4 DEF IsDriven, IsAnswerable, InMemory
  <2>5. HasAReason(r)' /\ IsClosed(r)'
    BY <1>1, <1>4 DEF IInv, RunIsRight, HasAReason, IsClosed
  <2>. QED BY <2>1, <2>2, <2>3, <2>4, <2>5 DEF RunIsRight
<1>6. OneScheduledRun'
  BY <1>4 DEF OneScheduledRun
<1>. QED BY <1>3, <1>5, <1>6 DEF IInv

-----------------------------------------------------------------------------
(* The loop arrives at a node.                                              *)

\* A loop that settles leaves its run right if the row is not closed or has a
\* reason to be.
LEMMA SettleIsTyped ==
  ASSUME TypeOK, NEW r \in Runs, Settle(r)
  PROVE  /\ loop' \in [Runs -> [phase : Phases, def : Definitions, node : Nodes \cup {NoNode},
                                prev : Nodes \cup {NoNode}, attempt : AllAttempts \cup {0}]]
         /\ loop'[r].phase = "none" /\ loop'[r].def = loop[r].def
         /\ \A q \in Runs \ {r} : loop'[q] = loop[q]
<1>1. loop[r].def \in Definitions
  BY DEF TypeOK
<1>2. loop' = [loop EXCEPT ![r] = NoLoop(loop[r].def)]
  BY DEF Settle
<1>3. NoLoop(loop[r].def).phase = "none" /\ NoLoop(loop[r].def).def = loop[r].def
  BY DEF NoLoop
<1>. QED BY <1>1, <1>2, <1>3, NoLoopIsTyped, LoopStaysTyped

\* Where a loop without loop edges arrives it has not been.
LEMMA ArrivesOnce ==
  ASSUME IInv, NEW r \in Runs, loop[r].phase = "arriving",
         NonLoop(loop[r].def.edges) = loop[r].def.edges
  PROVE  /\ MaxVisits(loop[r].def, loop[r].node, loop[r].prev) = 1
         /\ visits[r][loop[r].node] = 0
<1>1. loop[r].node \in Nodes /\ IsValid(loop[r].def.edges) /\ loop[r].def \in Definitions
  BY DEF IInv, TypeOK, RunIsRight, LoopInOrder
<1>2. PICK f \in [Nodes -> Nat] : IsOrder(f, loop[r].def.edges)
  BY <1>1, EngineAssumption, ValidIsOrdered
<1>3. ~ (visits[r][loop[r].node] > 0)
  BY <1>1, <1>2 DEF IInv, RunIsRight, GoesForward
<1>4. visits[r][loop[r].node] \in Nat
  BY <1>1 DEF IInv, TypeOK
<1>. QED BY <1>1, <1>3, <1>4, OnceWithoutLoops

\* The loop of a run arrives at a node: it begins the step, goes on or comes to an end.
LEMMA ArriveIsRight ==
  ASSUME IInv, NEW r \in Runs, Arrive(r), scenario' = scenario
  PROVE  IInv'
<1>. DEFINE d == loop[r].def
            n == loop[r].node
            prev == loop[r].prev
            max == MaxVisits(d, n, prev)
            exhausted == Target(d, prev, "loop_exhausted")
<1>1. /\ loop[r].phase = "arriving" /\ UNCHANGED <<workflow, nextRun, source>>
      /\ \/ /\ Gone(r)
            /\ Settle(r)
            /\ UNCHANGED <<runStatus, steps, seen, visits, resolvers, timers>>
         \/ /\ ~Gone(r)
            /\ visits[r][n] >= max
            /\ IF max > 1 /\ exhausted # NoNode
               THEN /\ loop' = [loop EXCEPT ![r].prev = n, ![r].node = exhausted]
                    /\ UNCHANGED <<runStatus, seen>>
               ELSE WriteRun(r, "failed", runStatus) /\ Settle(r)
            /\ UNCHANGED <<steps, visits, resolvers, timers>>
         \/ /\ ~Gone(r)
            /\ visits[r][n] < max
            /\ visits' = [visits EXCEPT ![r][n] = @ + 1]
            /\ IF CanStep(steps[r][n], "running")
               THEN /\ StartStep(r, n, 1)
                    /\ loop' = [loop EXCEPT ![r].phase = "executing", ![r].attempt = 1]
                    /\ UNCHANGED <<runStatus, seen>>
               ELSE Throw(r) /\ UNCHANGED <<steps, resolvers, timers>>
  BY Zenon DEF Arrive
<1>2. /\ TypeOK /\ RunIsRight(r) /\ n \in Nodes /\ d \in Definitions /\ IsValid(d.edges)
      /\ prev \in Nodes \cup {NoNode} /\ seen[r] # "absent"
  BY <1>1 DEF IInv, TypeOK, RunIsRight, LoopInOrder
<1>3. NonLoop(d.edges) = d.edges => max = 1 /\ visits[r][n] = 0
  BY <1>1, ArrivesOnce
<1>4. /\ \A m \in Nodes : steps[r][m] \notin {"running", "waiting"}
      /\ ~ Gone(r) => runStatus[r] = "running" /\ steps[r][n] \in StepStatuses
  BY <1>1, <1>2 DEF TypeOK, RunIsRight, IsDriven, InMemory, LoopInOrder, Gone, RunStatuses
<1>5. visits[r][n] \in Nat
  BY <1>2 DEF TypeOK
<1>6. ~ Gone(r) => \A m \in Nodes : visits[r][m] = 0 <=> steps[r][m] = "pending"
  BY <1>1, <1>2 DEF RunIsRight, StepsInOrder, Gone
<1>. SUFFICES /\ TypeOK' /\ RunIsRight(r)' /\ (\A q \in Runs \ {r} : Same(q))
              /\ \A q \in Runs : loop'[q].phase # "none" => loop[q].phase # "none"
  BY <1>1, SameIsRight, OneScheduledRunStays DEF IInv
<1>7. CASE Gone(r)
  <2>1. /\ Settle(r)
        /\ UNCHANGED <<workflow, nextRun, source, runStatus, steps, seen, visits, resolvers, timers>>
    BY <1>1, <1>7
  <2>2. TypeOK'
    BY <1>2, <2>1, SettleIsTyped DEF TypeOK
  <2>3. \A q \in Runs \ {r} : Same(q)
    BY <1>2, <2>1, SettleIsTyped DEF Same
  <2>4. RunIsRight(r)'
    BY <1>1, <1>2, <1>4, <1>7, <2>1, SettleIsTyped DEF RunIsRight, IsFresh, LoopInOrder,
       StepsInOrder, ApprovalsInOrder, GoesForward, IsDriven, IsAnswerable, HasAReason,
       IsClosed
  <2>. QED BY <1>1, <1>2, <2>1, <2>2, <2>3, <2>4, SettleIsTyped
<1>8. CASE /\ ~Gone(r)
           /\ visits[r][n] >= max
           /\ IF max > 1 /\ exhausted # NoNode
              THEN /\ loop' = [loop EXCEPT ![r].prev = n, ![r].node = exhausted]
                   /\ UNCHANGED <<runStatus, seen>>
              ELSE WriteRun(r, "failed", runStatus) /\ Settle(r)
           /\ UNCHANGED <<steps, visits, resolvers, timers>>
  <2>0. NonLoop(d.edges) # d.edges /\ ~ Gone(r)
    BY <1>3, <1>5, <1>8
  <2>1. CASE max > 1 /\ exhausted # NoNode
    <3>0. exhausted \in Nodes
      BY <1>2, <2>1, TargetIsKnown
    <3>. HIDE DEF max, exhausted
    <3>1. loop' = [loop EXCEPT ![r].prev = n, ![r].node = exhausted]
      BY <1>8, <2>1
    <3>2. UNCHANGED <<workflow, nextRun, source, runStatus, seen, steps, visits, resolvers, timers>>
      BY <1>1, <1>8, <2>1
    <3>5. /\ loop' \in [Runs -> [phase : Phases, def : Definitions, node : Nodes \cup {NoNode},
                                 prev : Nodes \cup {NoNode}, attempt : AllAttempts \cup {0}]]
          /\ loop'[r].phase = loop[r].phase /\ loop'[r].def = loop[r].def
          /\ loop'[r].node = exhausted
          /\ \A q \in Runs \ {r} : loop'[q] = loop[q]
      BY <1>2, <3>0, <3>1, LoopGoesOn
    <3>6. TypeOK'
      BY <1>2, <3>2, <3>5 DEF TypeOK
    <3>7. \A q \in Runs \ {r} : Same(q)
      BY <3>2, <3>5 DEF Same
    <3>8. RunIsRight(r)'
      BY <1>1, <1>2, <1>4, <2>0, <3>0, <3>2, <3>5 DEF RunIsRight, IsFresh, LoopInOrder,
         StepsInOrder, ApprovalsInOrder, GoesForward, IsDriven, IsAnswerable, HasAReason,
         IsClosed
    <3>. QED BY <1>1, <3>5, <3>6, <3>7, <3>8
  <2>2. CASE ~ (max > 1 /\ exhausted # NoNode)
    <3>1. /\ WriteRun(r, "failed", runStatus) /\ Settle(r)
          /\ UNCHANGED <<workflow, nextRun, source, steps, visits, resolvers, timers>>
      BY <1>1, <1>8, <2>2
    <3>2. /\ runStatus' \in [Runs -> RunStatuses] /\ seen' \in [Runs -> RunStatuses]
          /\ runStatus'[r] = "failed" /\ seen'[r] = "failed"
          /\ \A q \in Runs \ {r} : runStatus'[q] = runStatus[q] /\ seen'[q] = seen[q]
      BY <1>2, <1>4, <1>8, <3>1 DEF WriteRun, TypeOK, RunStatuses
    <3>3. TypeOK'
      BY <1>2, <3>1, <3>2, SettleIsTyped DEF TypeOK
    <3>4. \A q \in Runs \ {r} : Same(q)
      BY <1>2, <3>1, <3>2, SettleIsTyped DEF Same
    <3>5. RunIsRight(r)'
      BY <1>1, <1>2, <1>4, <2>0, <3>1, <3>2, SettleIsTyped DEF RunIsRight, IsFresh,
         LoopInOrder, StepsInOrder, ApprovalsInOrder, GoesForward, IsDriven, IsAnswerable,
         HasAReason, IsClosed
    <3>. QED BY <1>1, <1>2, <3>1, <3>3, <3>4, <3>5, SettleIsTyped
  <2>. QED BY <2>1, <2>2
<1>9. CASE /\ ~Gone(r)
           /\ visits[r][n] < max
           /\ visits' = [visits EXCEPT ![r][n] = @ + 1]
           /\ IF CanStep(steps[r][n], "running")
              THEN /\ StartStep(r, n, 1)
                   /\ loop' = [loop EXCEPT ![r].phase = "executing", ![r].attempt = 1]
                   /\ UNCHANGED <<runStatus, seen>>
              ELSE Throw(r) /\ UNCHANGED <<steps, resolvers, timers>>
  <2>1. visits' = [visits EXCEPT ![r][n] = @ + 1]
    BY <1>9
  <2>2. /\ visits' \in [Runs -> [Nodes -> Nat]] /\ visits'[r][n] > 0
        /\ \A m \in Nodes \ {n} : visits'[r][m] = visits[r][m]
        /\ \A q \in Runs \ {r} : visits'[q] = visits[q]
    BY <1>2, <2>1 DEF TypeOK
  <2>3. CASE ~ CanStep(steps[r][n], "running")
    <3>0. NonLoop(d.edges) # d.edges
      BY <1>2, <1>3, <1>6, <1>9, <2>3 DEF CanStep, STEP_TRANSITIONS
    <3>1. /\ Throw(r) /\ UNCHANGED <<workflow, nextRun, source, steps, seen, resolvers, timers>>
      BY <1>1, <1>9, <2>3 DEF Throw
    <3>2. /\ runStatus' \in [Runs -> RunStatuses] /\ runStatus'[r] = "failed" /\ Settle(r)
          /\ \A q \in Runs \ {r} : runStatus'[q] = runStatus[q]
      BY <1>2, <1>4, <1>9, <3>1 DEF Throw, TypeOK, RunStatuses
    <3>3. TypeOK'
      BY <1>2, <2>2, <3>1, <3>2, SettleIsTyped DEF TypeOK
    <3>4. \A q \in Runs \ {r} : Same(q)
      BY <1>2, <2>2, <3>1, <3>2, SettleIsTyped DEF Same
    <3>5. RunIsRight(r)'
      BY <1>1, <1>2, <1>4, <1>9, <3>0, <3>1, <3>2, SettleIsTyped DEF RunIsRight, IsFresh,
         LoopInOrder, StepsInOrder, ApprovalsInOrder, GoesForward, IsDriven, IsAnswerable,
         HasAReason, IsClosed
    <3>. QED BY <1>1, <1>2, <3>2, <3>3, <3>4, <3>5, SettleIsTyped
  <2>4. CASE CanStep(steps[r][n], "running")
    <3>. DEFINE approval == d.kind[n] = "approval"
    <3>0. steps[r][n] = "pending"
      BY <1>2, <1>4, <1>9, <2>4 DEF CanStep, STEP_TRANSITIONS
    <3>1. /\ StartStep(r, n, 1) /\ loop' = [loop EXCEPT ![r].phase = "executing", ![r].attempt = 1]
          /\ UNCHANGED <<workflow, nextRun, source, runStatus, seen>>
      BY <1>1, <1>9, <2>4
    <3>2. 1 \in AllAttempts /\ AllAttempts \subseteq Nat
      <4>1. Attempts(d, n) \in Nat \ {0} /\ 1 .. Attempts(d, n) \subseteq AllAttempts
        BY <1>2, AttemptsAreCounted
      <4>2. 1 \in 1 .. Attempts(d, n)
        BY <4>1
      <4>. QED BY <4>1, <4>2, AttemptsAreCounted
    <3>5. /\ loop' \in [Runs -> [phase : Phases, def : Definitions, node : Nodes \cup {NoNode},
                                 prev : Nodes \cup {NoNode}, attempt : AllAttempts \cup {0}]]
          /\ loop'[r].phase = "executing" /\ loop'[r].def = d /\ loop'[r].node = n
          /\ loop'[r].attempt = 1 /\ \A q \in Runs \ {r} : loop'[q] = loop[q]
      BY <1>2, <3>1, <3>2, AttemptBegins
    <3>6. /\ steps' = [steps EXCEPT ![r][n] = IF approval THEN "waiting" ELSE "running"]
          /\ approval =>
               resolvers' = [resolvers EXCEPT ![r][n] = 1] /\ timers' = timers \cup {<<r, n, 1>>}
          /\ ~ approval => UNCHANGED <<resolvers, timers>>
      BY <3>1 DEF StartStep, Await
    <3>7. /\ steps' \in [Runs -> [Nodes -> StepStatuses]]
          /\ steps'[r][n] = IF approval THEN "waiting" ELSE "running"
          /\ \A m \in Nodes \ {n} : steps'[r][m] = steps[r][m]
          /\ \A q \in Runs \ {r} : steps'[q] = steps[q]
      BY <1>2, <3>6 DEF TypeOK, StepStatuses
    <3>8. /\ resolvers' \in [Runs -> [Nodes -> AllAttempts \cup {0}]]
          /\ approval => resolvers'[r][n] = 1
          /\ \A m \in Nodes \ {n} : resolvers'[r][m] = resolvers[r][m]
          /\ \A q \in Runs \ {r} : resolvers'[q] = resolvers[q]
      <4>1. resolvers \in [Runs -> [Nodes -> AllAttempts \cup {0}]]
        BY <1>2 DEF TypeOK
      <4>2. CASE approval
        BY <1>2, <3>2, <3>6, <4>1, <4>2
      <4>3. CASE ~ approval
        BY <3>6, <4>1, <4>3
      <4>. QED BY <4>2, <4>3
    <3>9. /\ timers' \subseteq Runs \X Nodes \X AllAttempts
          /\ \A q \in Runs, m \in Nodes, a \in AllAttempts :
               <<q, m, a>> \in timers' => <<q, m, a>> \in timers \/ (q = r /\ m = n /\ a = 1)
          /\ \A q \in Runs, m \in Nodes, a \in AllAttempts :
               <<q, m, a>> \in timers => <<q, m, a>> \in timers'
      BY <1>2, <3>2, <3>6 DEF TypeOK
    <3>. HIDE DEF approval
    <3>10. TypeOK'
      BY <1>2, <2>2, <3>1, <3>5, <3>7, <3>8, <3>9 DEF TypeOK
    <3>11. \A q \in Runs \ {r} : Same(q)
      BY <1>2, <2>2, <3>1, <3>5, <3>7, <3>8, <3>9 DEF Same
    <3>12. \A a \in AllAttempts : <<r, n, a>> \notin timers
      BY <1>2, <1>4, <1>9, <3>0 DEF RunIsRight, ApprovalsInOrder
    <3>13. IsFresh(r)' /\ HasAReason(r)' /\ IsClosed(r)'
      BY <1>4, <1>9, <3>1 DEF IsFresh, HasAReason, IsClosed
    <3>14. LoopInOrder(r)'
      BY <1>2, <1>4, <1>9, <2>2, <3>1, <3>2, <3>5 DEF LoopInOrder
    <3>15. StepsInOrder(r)'
      BY <1>2, <1>6, <1>9, <2>2, <3>5, <3>7 DEF StepsInOrder, approval
    <3>16. ApprovalsInOrder(r)'
      <4>1. ASSUME NEW m \in Nodes, runStatus'[r] # "absent", steps'[r][m] = "pending"
            PROVE  resolvers'[r][m] = 0 /\ \A a \in AllAttempts : <<r, m, a>> \notin timers'
        <5>1. m # n /\ steps[r][m] = "pending" /\ runStatus[r] # "absent"
          BY <3>1, <3>7, <4>1
        <5>. QED BY <1>2, <3>8, <3>9, <5>1 DEF RunIsRight, ApprovalsInOrder
      <4>2. ASSUME NEW m \in Nodes, steps'[r][m] = "waiting", NEW a \in AllAttempts, <<r, m, a>> \in timers'
            PROVE  a = loop'[r].attempt
        <5>1. m = n
          BY <1>4, <3>7, <4>2
        <5>. QED BY <3>5, <3>9, <3>12, <4>2, <5>1
      <4>. QED BY <4>1, <4>2 DEF ApprovalsInOrder
    <3>17. GoesForward(r)'
      BY <1>1, <1>2, <2>2, <3>5 DEF RunIsRight, GoesForward
    <3>18. IsDriven(r)'
      BY <1>4, <3>5, <3>7 DEF IsDriven
    <3>19. IsAnswerable(r)'
      BY <1>4, <3>5, <3>7, <3>8 DEF IsAnswerable, Listens
    <3>20. RunIsRight(r)'
      BY <3>13, <3>14, <3>15, <3>16, <3>17, <3>18, <3>19 DEF RunIsRight
    <3>. QED BY <1>1, <3>5, <3>10, <3>11, <3>20
  <2>. QED BY <2>3, <2>4
<1>. QED BY Zenon, <1>1, <1>7, <1>8, <1>9

-----------------------------------------------------------------------------
(* A step comes to its end.                                                 *)

\* What a handler leaves to EndStep: the row of the run as it was or cancelled, and
\* the resolvers and the timers without some of the run's.
HandsOver(r, rs, res, tms) ==
  /\ rs \in [Runs -> RunStatuses] /\ res \in [Runs -> [Nodes -> AllAttempts \cup {0}]]
  /\ tms \subseteq timers
  /\ rs[r] = runStatus[r] \/ (runStatus[r] = "running" /\ rs[r] = "cancelled")
  /\ \A m \in Nodes : res[r][m] \in {0, resolvers[r][m]}
  /\ \A q \in Runs \ {r} :
       /\ rs[q] = runStatus[q] /\ res[q] = resolvers[q]
       /\ \A m \in Nodes, a \in AllAttempts : <<q, m, a>> \in timers => <<q, m, a>> \in tms

\* No step is started.
NoneBegins ==
  \A q \in Runs, m \in Nodes : steps'[q][m] \in {"running", "waiting"} => steps'[q][m] = steps[q][m]

\* The part of a run's row in a write of its aggregate.
LEMMA WriteRunIsTyped ==
  ASSUME TypeOK, NEW r \in Runs, NEW s \in {"failed", "completed"},
         NEW rs \in [Runs -> RunStatuses], rs[r] # "absent", WriteRun(r, s, rs)
  PROVE  /\ runStatus' \in [Runs -> RunStatuses] /\ runStatus'[r] = s
         /\ seen' \in [Runs -> RunStatuses] /\ seen'[r] = s
         /\ \A q \in Runs \ {r} : runStatus'[q] = rs[q] /\ seen'[q] = seen[q]
BY DEF WriteRun, TypeOK, RunStatuses

\* A step has its result: the run is given up, the step is tried again, or the run goes
\* on or comes to its end.
LEMMA EndStepIsRight ==
  ASSUME IInv, NEW r \in Runs, NEW result \in {"completed", "failed"}, NEW rs, NEW res, NEW tms,
         HandsOver(r, rs, res, tms), loop[r].phase = "executing",
         loop[r].def.kind[loop[r].node] = "approval" /\ loop[r].def.timed[loop[r].node]
           => <<r, loop[r].node, loop[r].attempt>> \notin tms,
         EndStep(r, result, rs, res, tms),
         UNCHANGED <<workflow, nextRun, source, visits, scenario>>
  PROVE  IInv' /\ NoneBegins
<1>. DEFINE d == loop[r].def
            n == loop[r].node
            a == loop[r].attempt
            again == result = "failed" /\ Retries(d, n, a)
            awaits == again /\ d.kind[n] = "approval"
            st == [steps[r] EXCEPT ![n] = StepClosed(d, n, result)]
<1>1. \/ /\ rs[r] = "absent"
         /\ Settle(r)
         /\ runStatus' = rs /\ resolvers' = res /\ timers' = tms
         /\ UNCHANGED <<steps, seen>>
      \/ /\ rs[r] # "absent"
         /\ resolvers' = IF awaits THEN [res EXCEPT ![r][n] = a + 1] ELSE res
         /\ timers' = IF awaits THEN tms \cup {<<r, n, a + 1>>} ELSE tms
         /\ \/ /\ again
               /\ loop' = [loop EXCEPT ![r].attempt = a + 1]
               /\ runStatus' = rs
               /\ UNCHANGED <<steps, seen>>
            \/ /\ ~again
               /\ result = "failed" /\ Aborts(d, n)
               /\ steps' = [steps EXCEPT ![r] = st]
               /\ WriteRun(r, "failed", rs)
               /\ Settle(r)
            \/ /\ ~again
               /\ result = "completed" \/ ~Aborts(d, n)
               /\ \E condition \in BOOLEAN :
                    LET next == NextNode(d, n, result, condition) IN
                    /\ condition => d.kind[n] = "condition" /\ result = "completed"
                    /\ IF next = NoNode THEN Finish(r, st, rs)
                       ELSE /\ steps' = [steps EXCEPT ![r] = st]
                            /\ loop' = [loop EXCEPT ![r] = [phase |-> "arriving", def |-> d,
                                          node |-> next, prev |-> n, attempt |-> 0]]
                            /\ runStatus' = rs
                            /\ UNCHANGED seen
  BY Zenon DEF EndStep
<1>2. /\ TypeOK /\ RunIsRight(r) /\ n \in Nodes /\ d \in Definitions /\ IsValid(d.edges)
      /\ seen[r] # "absent" /\ a \in AllAttempts /\ visits[r][n] > 0
      /\ runStatus[r] \notin {"failed", "completed"}
  BY DEF IInv, TypeOK, RunIsRight, LoopInOrder
<1>3. \A m \in Nodes \ {n} : steps[r][m] \notin {"running", "waiting"}
  BY <1>2 DEF RunIsRight, IsDriven, InMemory
<1>4. /\ rs \in [Runs -> RunStatuses] /\ rs[r] \notin {"failed", "completed"}
      /\ rs[r] = "absent" <=> runStatus[r] = "absent"
  BY <1>2 DEF HandsOver
<1>5. /\ res \in [Runs -> [Nodes -> AllAttempts \cup {0}]]
      /\ \A m \in Nodes : resolvers[r][m] = 0 => res[r][m] = 0
      /\ \A q \in Runs \ {r} : res[q] = resolvers[q]
  BY DEF HandsOver
<1>6. tms \subseteq timers /\ tms \subseteq Runs \X Nodes \X AllAttempts
  BY <1>2 DEF HandsOver, TypeOK
<1>. SUFFICES TypeOK' /\ RunIsRight(r)' /\ (\A q \in Runs \ {r} : Same(q)) /\ NoneBegins
              /\ \A q \in Runs : loop'[q].phase # "none" => loop[q].phase # "none"
  BY SameIsRight, OneScheduledRunStays DEF IInv
\* The row is gone.
<1>7. CASE /\ rs[r] = "absent"
           /\ Settle(r)
           /\ runStatus' = rs /\ resolvers' = res /\ timers' = tms
           /\ UNCHANGED <<steps, seen>>
  <2>1. TypeOK'
    BY <1>2, <1>4, <1>5, <1>6, <1>7, SettleIsTyped DEF TypeOK
  <2>2. \A q \in Runs \ {r} : Same(q)
    BY <1>2, <1>7, SettleIsTyped DEF HandsOver, Same
  <2>3. runStatus[r] = "absent" /\ workflow'.status = "deleted"
    BY <1>4, <1>7 DEF IInv, RunIsRight, IsFresh
  <2>4. \A m \in Nodes : steps'[r][m] = "pending"
    BY <1>2, <1>7, <2>3 DEF RunIsRight, IsFresh
  <2>5. RunIsRight(r)'
    BY <1>2, <1>7, <2>3, <2>4, SettleIsTyped DEF RunIsRight, IsFresh, LoopInOrder,
       StepsInOrder, ApprovalsInOrder, GoesForward, IsDriven, IsAnswerable, HasAReason,
       IsClosed
  <2>. QED BY <1>2, <1>7, <2>1, <2>2, <2>5, SettleIsTyped DEF NoneBegins
\* Another attempt.
<1>8. CASE /\ rs[r] # "absent"
           /\ resolvers' = IF awaits THEN [res EXCEPT ![r][n] = a + 1] ELSE res
           /\ timers' = IF awaits THEN tms \cup {<<r, n, a + 1>>} ELSE tms
           /\ again
           /\ loop' = [loop EXCEPT ![r].attempt = a + 1]
           /\ runStatus' = rs
           /\ UNCHANGED <<steps, seen>>
  <2>1. a + 1 \in AllAttempts /\ AllAttempts \subseteq Nat
    <3>1. /\ Attempts(d, n) \in Nat \ {0} /\ 1 .. Attempts(d, n) \subseteq AllAttempts
          /\ a \in Nat \ {0}
      BY <1>2, AttemptsAreCounted
    <3>2. a < Attempts(d, n)
      BY <1>8 DEF Retries
    <3>3. a + 1 \in 1 .. Attempts(d, n)
      BY <3>1, <3>2
    <3>. QED BY <3>1, <3>3, AttemptsAreCounted
  <2>2. /\ loop' \in [Runs -> [phase : Phases, def : Definitions, node : Nodes \cup {NoNode},
                               prev : Nodes \cup {NoNode}, attempt : AllAttempts \cup {0}]]
        /\ loop'[r].phase = "executing" /\ loop'[r].def = d /\ loop'[r].node = n
        /\ loop'[r].attempt = a + 1 /\ \A q \in Runs \ {r} : loop'[q] = loop[q]
    BY <1>2, <1>8, <2>1, AttemptBegins
  <2>3. /\ resolvers' \in [Runs -> [Nodes -> AllAttempts \cup {0}]]
        /\ d.kind[n] = "approval" => resolvers'[r][n] = a + 1
        /\ \A m \in Nodes \ {n} : resolvers[r][m] = 0 => resolvers'[r][m] = 0
        /\ \A q \in Runs \ {r} : resolvers'[q] = resolvers[q]
    <3>1. CASE d.kind[n] = "approval"
      <4>1. resolvers' = [res EXCEPT ![r][n] = a + 1]
        BY <1>8, <3>1
      <4>. QED BY <1>2, <1>5, <2>1, <3>1, <4>1
    <3>2. CASE d.kind[n] # "approval"
      BY <1>2, <1>5, <1>8, <3>2
    <3>. QED BY <3>1, <3>2
  <2>4. /\ timers' \subseteq Runs \X Nodes \X AllAttempts
        /\ \A q \in Runs, m \in Nodes, b \in AllAttempts :
             <<q, m, b>> \in timers' => <<q, m, b>> \in tms \/ (q = r /\ m = n /\ b = a + 1)
        /\ \A q \in Runs, m \in Nodes, b \in AllAttempts : <<q, m, b>> \in tms =>
             <<q, m, b>> \in timers'
    BY <1>2, <1>6, <1>8, <2>1
  <2>. HIDE DEF again, awaits, st
  <2>5. TypeOK'
    BY <1>2, <1>4, <1>8, <2>2, <2>3, <2>4 DEF TypeOK
  <2>6. \A q \in Runs \ {r} : Same(q)
    BY <1>6, <1>8, <2>2, <2>3, <2>4 DEF HandsOver, Same
  <2>7. steps[r][n] = (IF d.kind[n] = "approval" THEN "waiting" ELSE "running")
    BY <1>4, <1>8 DEF IInv, RunIsRight, StepsInOrder
  <2>8. IsFresh(r)' /\ HasAReason(r)' /\ IsClosed(r)'
    BY <1>4, <1>8 DEF IsFresh, HasAReason, IsClosed
  <2>9. LoopInOrder(r)'
    BY <1>2, <1>4, <1>8, <2>1, <2>2 DEF LoopInOrder
  <2>10. StepsInOrder(r)'
    BY <1>2, <1>4, <1>8, <2>2 DEF RunIsRight, StepsInOrder
  <2>11. ApprovalsInOrder(r)'
    <3>1. ASSUME NEW m \in Nodes, steps'[r][m] = "pending"
          PROVE  resolvers'[r][m] = 0 /\ \A b \in AllAttempts : <<r, m, b>> \notin timers'
      <4>1. m # n /\ steps[r][m] = "pending" /\ runStatus[r] # "absent"
        BY <1>4, <1>8, <2>7, <3>1
      <4>. QED BY <1>2, <1>6, <2>3, <2>4, <4>1 DEF RunIsRight, ApprovalsInOrder
    <3>2. ASSUME NEW m \in Nodes, steps'[r][m] = "waiting", d.timed[m] \/ d.onError[m] # "retry",
                 NEW b \in AllAttempts, <<r, m, b>> \in timers'
          PROVE  b = a + 1
      <4>1. m = n
        BY <1>3, <1>8, <3>2
      <4>2. d.onError[n] = "retry"
        <5>1. a < Attempts(d, n) /\ a \in Nat \ {0}
          BY <1>2, <1>8, AttemptsAreCounted DEF Retries, again
        <5>. QED BY <5>1 DEF Attempts
      <4>3. ASSUME <<r, n, b>> \in tms PROVE FALSE
        <5>1. d.timed[n] /\ steps[r][n] = "waiting"
          BY <1>8, <3>2, <4>1, <4>2
        <5>2. b = a
          BY <1>2, <1>6, <4>3, <5>1 DEF RunIsRight, ApprovalsInOrder, InMemory
        <5>3. d.kind[n] = "approval"
          BY <2>7, <5>1
        <5>. QED BY <4>3, <5>1, <5>2, <5>3
      <4>. QED BY <2>4, <3>2, <4>1, <4>3
    <3>. QED BY <2>2, <3>1, <3>2 DEF ApprovalsInOrder
  <2>12. GoesForward(r)'
    BY <1>2, <2>2 DEF RunIsRight, GoesForward
  <2>13. IsDriven(r)'
    BY <1>3, <1>8, <2>2 DEF IsDriven
  <2>14. IsAnswerable(r)'
    BY <1>3, <1>8, <2>2, <2>3, <2>7 DEF IsAnswerable, Listens
  <2>15. RunIsRight(r)'
    BY <2>8, <2>9, <2>10, <2>11, <2>12, <2>13, <2>14 DEF RunIsRight
  <2>. QED BY <1>8, <2>2, <2>5, <2>6, <2>15 DEF NoneBegins
\* The end of the step.
<1>9. CASE /\ rs[r] # "absent"
           /\ resolvers' = res /\ timers' = tms
           /\ ~again
  <2>. DEFINE closed == StepClosed(d, n, result)
  <2>1. closed \in {"completed", "skipped", "failed"}
    BY DEF StepClosed
  <2>2. /\ st \in [Nodes -> StepStatuses] /\ st[n] = closed
        /\ \A m \in Nodes \ {n} : st[m] = steps[r][m] /\ st[m] \notin {"running", "waiting"}
    BY <1>2, <1>3, <2>1 DEF TypeOK, StepStatuses
  <2>3. \A m \in Nodes : visits[r][m] = 0 <=> st[m] = "pending"
    <3>1. \A m \in Nodes : visits[r][m] = 0 <=> steps[r][m] = "pending"
      BY <1>2, <1>4, <1>9 DEF RunIsRight, StepsInOrder
    <3>. HIDE DEF st, closed
    <3>. QED BY <1>2, <2>1, <2>2, <3>1
  <2>4. \A m \in Nodes : st[m] = "pending" =>
          res[r][m] = 0 /\ \A b \in AllAttempts : <<r, m, b>> \notin tms
    <3>1. \A m \in Nodes : st[m] = "pending" => steps[r][m] = "pending"
      <4>. HIDE DEF st, closed
      <4>. QED BY <2>1, <2>2
    <3>. HIDE DEF st, closed
    <3>. QED BY <1>2, <1>4, <1>5, <1>6, <1>9, <3>1 DEF RunIsRight, ApprovalsInOrder
  <2>. HIDE DEF st, closed, again
  <2>5. CASE /\ result = "failed" /\ Aborts(d, n)
             /\ steps' = [steps EXCEPT ![r] = st]
             /\ WriteRun(r, "failed", rs)
             /\ Settle(r)
    <3>1. /\ steps' \in [Runs -> [Nodes -> StepStatuses]] /\ steps'[r] = st
          /\ \A q \in Runs \ {r} : steps'[q] = steps[q]
      BY <1>2, <2>2, <2>5 DEF TypeOK
    <3>2. /\ runStatus' \in [Runs -> RunStatuses] /\ runStatus'[r] = "failed"
          /\ seen' \in [Runs -> RunStatuses] /\ seen'[r] = "failed"
          /\ \A q \in Runs \ {r} : runStatus'[q] = rs[q] /\ seen'[q] = seen[q]
      BY <1>2, <1>4, <1>9, <2>5, WriteRunIsTyped
    <3>3. TypeOK'
      BY <1>2, <1>5, <1>6, <1>9, <2>5, <3>1, <3>2, SettleIsTyped DEF TypeOK
    <3>4. \A q \in Runs \ {r} : Same(q)
      BY <1>2, <1>9, <2>5, <3>1, <3>2, SettleIsTyped DEF HandsOver, Same
    <3>5. st[n] = "failed" /\ d.onError[n] = "abort"
      BY <2>2, <2>5 DEF closed, StepClosed, Aborts
    <3>6. loop'[r].phase = "none" /\ loop'[r].def = d
      BY <1>2, <2>5, SettleIsTyped
    <3>7. \A m \in Nodes : st[m] \notin {"running", "waiting"}
      BY <2>1, <2>2
    <3>8. IsFresh(r)' /\ LoopInOrder(r)' /\ StepsInOrder(r)' /\ GoesForward(r)'
      BY <3>2, <3>6 DEF IsFresh, LoopInOrder, StepsInOrder, GoesForward
    <3>9. ApprovalsInOrder(r)' /\ IsDriven(r)' /\ IsAnswerable(r)'
      BY <1>9, <2>4, <3>1, <3>7 DEF ApprovalsInOrder, IsDriven, IsAnswerable
    <3>10. HasAReason(r)' /\ IsClosed(r)'
      BY <1>2, <3>1, <3>2, <3>5, <3>6 DEF HasAReason, IsClosed
    <3>11. RunIsRight(r)'
      BY <3>8, <3>9, <3>10 DEF RunIsRight
    <3>. QED BY <1>2, <2>5, <3>1, <3>3, <3>4, <3>7, <3>11, SettleIsTyped DEF NoneBegins
  <2>6. CASE Finish(r, st, rs)
    <3>. DEFINE end == [m \in Nodes |-> IF visits[r][m] = 0 /\ CanStep(st[m], "skipped") THEN "skipped" ELSE st[m]]
    <3>0. steps' = [steps EXCEPT ![r] = end] /\ WriteRun(r, "completed", rs) /\ Settle(r)
      BY <2>6 DEF Finish
    <3>a. /\ end \in [Nodes -> StepStatuses]
          /\ \A m \in Nodes : end[m] \in {"completed", "failed", "skipped"}
      BY <2>1, <2>2, <2>3 DEF StepStatuses, CanStep, STEP_TRANSITIONS
    <3>. HIDE DEF end
    <3>1. /\ steps' \in [Runs -> [Nodes -> StepStatuses]] /\ steps'[r] = end
          /\ \A q \in Runs \ {r} : steps'[q] = steps[q]
      BY <1>2, <3>0, <3>a DEF TypeOK
    <3>2. /\ runStatus' \in [Runs -> RunStatuses] /\ runStatus'[r] = "completed"
          /\ seen' \in [Runs -> RunStatuses] /\ seen'[r] = "completed"
          /\ \A q \in Runs \ {r} : runStatus'[q] = rs[q] /\ seen'[q] = seen[q]
      BY <1>2, <1>4, <1>9, <3>0, WriteRunIsTyped
    <3>3. TypeOK'
      BY <1>2, <1>5, <1>6, <1>9, <3>0, <3>1, <3>2, SettleIsTyped DEF TypeOK
    <3>4. \A q \in Runs \ {r} : Same(q)
      BY <1>2, <1>9, <3>0, <3>1, <3>2, SettleIsTyped DEF HandsOver, Same
    <3>6. loop'[r].phase = "none" /\ loop'[r].def = d
      BY <1>2, <3>0, SettleIsTyped
    <3>8. IsFresh(r)' /\ LoopInOrder(r)' /\ StepsInOrder(r)' /\ GoesForward(r)'
      BY <3>2, <3>6 DEF IsFresh, LoopInOrder, StepsInOrder, GoesForward
    <3>9. ApprovalsInOrder(r)' /\ IsDriven(r)' /\ IsAnswerable(r)'
      BY <1>9, <3>1, <3>a DEF ApprovalsInOrder, IsDriven, IsAnswerable
    <3>10. HasAReason(r)' /\ IsClosed(r)'
      BY <1>2, <3>1, <3>2, <3>a DEF HasAReason, IsClosed
    <3>11. RunIsRight(r)'
      BY <3>8, <3>9, <3>10 DEF RunIsRight
    <3>. QED BY <1>2, <3>0, <3>1, <3>3, <3>4, <3>a, <3>11, SettleIsTyped DEF NoneBegins
  <2>7. ASSUME NEW condition \in BOOLEAN,
               NextNode(d, n, result, condition) # NoNode,
               steps' = [steps EXCEPT ![r] = st],
               loop' = [loop EXCEPT ![r] = [phase |-> "arriving", def |-> d,
                          node |-> NextNode(d, n, result, condition), prev |-> n, attempt |-> 0]],
               runStatus' = rs, UNCHANGED seen
        PROVE  TypeOK' /\ RunIsRight(r)' /\ (\A q \in Runs \ {r} : Same(q)) /\ NoneBegins
               /\ \A q \in Runs : loop'[q].phase # "none" => loop[q].phase # "none"
    <3>. DEFINE next == NextNode(d, n, result, condition)
                entry == [phase |-> "arriving", def |-> d, node |-> next, prev |-> n, attempt |-> 0]
    <3>1. next \in Nodes /\ \E e \in d.edges : e.source = n /\ e.target = next
      BY <1>2, <2>7, NextNodeIsKnown
    <3>. HIDE DEF next
    <3>2. entry \in [phase : Phases, def : Definitions, node : Nodes \cup {NoNode},
                     prev : Nodes \cup {NoNode}, attempt : AllAttempts \cup {0}]
      BY <1>2, <3>1 DEF Phases
    <3>3. loop' = [loop EXCEPT ![r] = entry]
      BY Zenon, <2>7 DEF next
    <3>4. entry.phase = "arriving" /\ entry.def = d /\ entry.node = next
      OBVIOUS
    <3>. HIDE DEF entry
    <3>5. /\ loop' \in [Runs -> [phase : Phases, def : Definitions, node : Nodes \cup {NoNode},
                                 prev : Nodes \cup {NoNode}, attempt : AllAttempts \cup {0}]]
          /\ loop'[r] = entry /\ \A q \in Runs \ {r} : loop'[q] = loop[q]
      BY <1>2, <3>2, <3>3, LoopStaysTyped
    <3>6. /\ steps' \in [Runs -> [Nodes -> StepStatuses]] /\ steps'[r] = st
          /\ \A q \in Runs \ {r} : steps'[q] = steps[q]
      BY <1>2, <2>2, <2>7 DEF TypeOK
    <3>7. TypeOK'
      BY <1>2, <1>4, <1>5, <1>6, <1>9, <2>7, <3>5, <3>6 DEF TypeOK
    <3>8. \A q \in Runs \ {r} : Same(q)
      BY <1>9, <2>7, <3>5, <3>6 DEF HandsOver, Same
    <3>9. \A m \in Nodes : st[m] \notin {"running", "waiting"}
      BY <2>1, <2>2
    <3>10. IsFresh(r)' /\ HasAReason(r)' /\ IsClosed(r)'
      BY <1>4, <1>9, <2>7 DEF IsFresh, HasAReason, IsClosed
    <3>11. LoopInOrder(r)' /\ StepsInOrder(r)'
      BY <1>2, <1>4, <2>3, <2>7, <3>1, <3>4, <3>5, <3>6 DEF LoopInOrder, StepsInOrder
    <3>12. ApprovalsInOrder(r)' /\ IsDriven(r)' /\ IsAnswerable(r)'
      BY <1>9, <2>4, <3>6, <3>9 DEF ApprovalsInOrder, IsDriven, IsAnswerable
    <3>13. GoesForward(r)'
      <4>. SUFFICES ASSUME NonLoop(d.edges) = d.edges, NEW f \in [Nodes -> Nat], IsOrder(f, d.edges),
                           NEW m \in Nodes, visits[r][m] > 0
                    PROVE  f[m] < f[next]
        BY <3>4, <3>5 DEF GoesForward
      <4>1. f[n] < f[next]
        BY <3>1 DEF IsOrder
      <4>2. f[m] < f[n] \/ m = n
        BY <1>2 DEF RunIsRight, GoesForward
      <4>. QED BY <1>2, <3>1, <4>1, <4>2
    <3>14. RunIsRight(r)'
      BY <3>10, <3>11, <3>12, <3>13 DEF RunIsRight
    <3>. QED BY <3>5, <3>6, <3>7, <3>8, <3>9, <3>14 DEF NoneBegins
  <2>8. \/ /\ result = "failed" /\ Aborts(d, n)
           /\ steps' = [steps EXCEPT ![r] = st]
           /\ WriteRun(r, "failed", rs)
           /\ Settle(r)
        \/ Finish(r, st, rs)
        \/ \E condition \in BOOLEAN :
             /\ NextNode(d, n, result, condition) # NoNode
             /\ steps' = [steps EXCEPT ![r] = st]
             /\ loop' = [loop EXCEPT ![r] = [phase |-> "arriving", def |-> d,
                           node |-> NextNode(d, n, result, condition), prev |-> n, attempt |-> 0]]
             /\ runStatus' = rs
             /\ UNCHANGED seen
    BY Zenon, <1>1, <1>9
  <2>. QED BY Zenon, <2>5, <2>6, <2>7, <2>8
<1>. QED
  <2>1. CASE ~ again
    <3>1. ~ awaits
      BY <2>1
    <3>. HIDE DEF again, awaits, st
    <3>. QED BY Zenon, <1>1, <1>7, <1>9, <2>1, <3>1
  <2>2. CASE again
    <3>. HIDE DEF again, awaits, st
    <3>. QED BY Zenon, <1>1, <1>7, <1>8, <2>2

  <2>. QED BY <2>1, <2>2

\* The work of a step ends; a step that is an approval with no timer of its own times
\* out.
LEMMA StepEndsIsRight ==
  ASSUME IInv, NEW r \in Runs, StepEnds(r) \/ ApprovalStepTimesOut(r), scenario' = scenario
  PROVE  IInv' /\ NoneBegins
<1>1. /\ loop[r].phase = "executing" /\ UNCHANGED <<workflow, nextRun, source, visits, scenario>>
      /\ ~ (loop[r].def.kind[loop[r].node] = "approval" /\ loop[r].def.timed[loop[r].node])
  BY DEF StepEnds, ApprovalStepTimesOut
<1>2. \E result \in {"completed", "failed"} : EndStep(r, result, runStatus, resolvers, timers)
  BY DEF StepEnds, ApprovalStepTimesOut
<1>3. HandsOver(r, runStatus, resolvers, timers)
  BY DEF IInv, TypeOK, HandsOver
<1>. QED BY <1>1, <1>2, <1>3, EndStepIsRight

\* A promise that settles: the attempt that listens ends its step; one that nobody
\* listens to is not that of a step that waits.
LEMMA SettledIsRight ==
  ASSUME IInv, NEW r \in Runs, NEW n \in Nodes, NEW a \in AllAttempts,
         NEW result \in {"completed", "failed"},
         resolvers[r][n] = a \/ <<r, n, a>> \in timers,
         Settled(r, n, a, result, runStatus, [resolvers EXCEPT ![r][n] = 0], timers \ {<<r, n, a>>}),
         UNCHANGED <<workflow, nextRun, source, visits, scenario>>
  PROVE  IInv' /\ NoneBegins
<1>. DEFINE res == [resolvers EXCEPT ![r][n] = 0]
            tms == timers \ {<<r, n, a>>}
<1>1. /\ res \in [Runs -> [Nodes -> AllAttempts \cup {0}]] /\ res[r][n] = 0
      /\ \A m \in Nodes \ {n} : res[r][m] = resolvers[r][m]
      /\ \A q \in Runs \ {r} : res[q] = resolvers[q]
  BY DEF IInv, TypeOK
<1>2. /\ tms \subseteq timers /\ <<r, n, a>> \notin tms
      /\ \A q \in Runs \ {r} : \A m \in Nodes, b \in AllAttempts : <<q, m, b>> \in timers =>
           <<q, m, b>> \in tms
  OBVIOUS
<1>. HIDE DEF res, tms
<1>3. HandsOver(r, runStatus, res, tms)
  BY <1>1, <1>2 DEF IInv, TypeOK, HandsOver
<1>4. CASE Listens(r, n, a)
  <2>1. EndStep(r, result, runStatus, res, tms)
    BY <1>4 DEF Settled, res, tms
  <2>. QED BY <1>2, <1>3, <1>4, <2>1, EndStepIsRight DEF Listens
<1>5. CASE ~ Listens(r, n, a)
  <2>1. /\ runStatus' = runStatus /\ resolvers' = res /\ timers' = tms
        /\ UNCHANGED <<workflow, nextRun, source, visits, scenario, steps, seen, loop>>
    BY <1>5 DEF Settled, res, tms
  <2>2. TypeOK'
    BY <1>1, <1>2, <2>1 DEF IInv, TypeOK
  <2>3. \A q \in Runs \ {r} : Same(q)
    BY <1>1, <1>2, <2>1 DEF Same
  <2>4. RunIsRight(r)
    BY DEF IInv
  <2>5. /\ IsFresh(r)' /\ LoopInOrder(r)' /\ StepsInOrder(r)' /\ GoesForward(r)'
        /\ IsDriven(r)' /\ HasAReason(r)' /\ IsClosed(r)'
    BY <1>1, <1>2, <2>1, <2>4 DEF RunIsRight, IsFresh, LoopInOrder, StepsInOrder, GoesForward,
       InMemory, IsDriven, HasAReason, IsClosed
  <2>6. ApprovalsInOrder(r)'
    BY <1>1, <1>2, <2>1, <2>4 DEF RunIsRight, ApprovalsInOrder, InMemory
  <2>7. IsAnswerable(r)'
    <3>. SUFFICES ASSUME NEW m \in Nodes, InMemory(r), steps[r][m] = "waiting",
                         loop[r].def.timed[m] \/ loop[r].def.onError[m] # "retry"
                  PROVE  Listens(r, m, res[r][m])
      BY <2>1 DEF IsAnswerable, InMemory, Listens
    <3>1. Listens(r, m, resolvers[r][m])
      BY <2>4 DEF RunIsRight, IsAnswerable
    <3>2. m # n
      <4>1. SUFFICES ASSUME m = n PROVE FALSE
        OBVIOUS
      <4>2. a = loop[r].attempt
        BY <2>4, <3>1, <4>1 DEF RunIsRight, ApprovalsInOrder, Listens
      <4>. QED BY <1>5, <3>1, <4>1, <4>2 DEF Listens
    <3>. QED BY <1>1, <3>1, <3>2
  <2>8. RunIsRight(r)'
    BY <2>5, <2>6, <2>7 DEF RunIsRight
  <2>9. \A q \in Runs : RunIsRight(q)'
    BY <2>1, <2>3, <2>8, SameIsRight DEF IInv
  <2>. QED BY <2>1, <2>2, <2>9 DEF IInv, OneScheduledRun, NoneBegins
<1>. QED BY <1>4, <1>5

\* A user answers an approval.
LEMMA AnswerIsRight ==
  ASSUME IInv, NEW r \in Runs, NEW n \in Nodes, NEW result \in {"completed", "failed"},
         Answer(r, n, result), scenario' = scenario
  PROVE  IInv' /\ NoneBegins
<1>. DEFINE a == resolvers[r][n]
<1>1. /\ a # 0
      /\ Settled(r, n, a, result, runStatus, [resolvers EXCEPT ![r][n] = 0], timers \ {<<r, n, a>>})
      /\ UNCHANGED <<workflow, nextRun, source, visits, scenario>>
  BY DEF Answer
<1>2. a \in AllAttempts
  BY <1>1 DEF IInv, TypeOK
<1>. QED BY <1>1, <1>2, SettledIsRight

\* The timer of an approval fires.
LEMMA ApprovalTimerIsRight ==
  ASSUME IInv, NEW r \in Runs, NEW n \in Nodes, NEW a \in AllAttempts,
         ApprovalTimer(r, n, a), scenario' = scenario
  PROVE  IInv' /\ NoneBegins
<1>1. /\ <<r, n, a>> \in timers
      /\ Settled(r, n, a, "failed", runStatus, [resolvers EXCEPT ![r][n] = 0], timers \ {<<r, n, a>>})
      /\ UNCHANGED <<workflow, nextRun, source, visits, scenario>>
  BY DEF ApprovalTimer
<1>. QED BY <1>1, SettledIsRight

\* A user cancels a run; its approvals are refused.
LEMMA CancelRunIsRight ==
  ASSUME IInv, NEW r \in Runs, CancelRun(r), scenario' = scenario
  PROVE  IInv' /\ NoneBegins
<1>. DEFINE cancelled == [runStatus EXCEPT ![r] = "cancelled"]
            refused == {n \in Nodes : resolvers[r][n] # 0}
            res == [resolvers EXCEPT ![r] = [n \in Nodes |-> 0]]
            tms == timers \ {<<r, n, resolvers[r][n]>> : n \in refused}
            heard == {n \in refused : Listens(r, n, resolvers[r][n])}
<1>1. /\ runStatus[r] = "running"
      /\ IF heard # {}
         THEN EndStep(r, "failed", cancelled, res, tms)
         ELSE /\ runStatus' = cancelled /\ resolvers' = res /\ timers' = tms
              /\ UNCHANGED <<steps, seen, loop>>
      /\ UNCHANGED <<workflow, nextRun, source, visits>>
  BY Zenon DEF CancelRun
<1>2. /\ res \in [Runs -> [Nodes -> AllAttempts \cup {0}]] /\ \A m \in Nodes : res[r][m] = 0
      /\ \A q \in Runs \ {r} : res[q] = resolvers[q]
  BY DEF IInv, TypeOK
<1>3. /\ tms \subseteq timers
      /\ \A n \in refused : <<r, n, resolvers[r][n]>> \notin tms
      /\ \A q \in Runs \ {r} : \A m \in Nodes, b \in AllAttempts : <<q, m, b>> \in timers =>
           <<q, m, b>> \in tms
  OBVIOUS
<1>4. /\ cancelled \in [Runs -> RunStatuses] /\ cancelled[r] = "cancelled"
      /\ \A q \in Runs \ {r} : cancelled[q] = runStatus[q]
  BY DEF IInv, TypeOK, RunStatuses
<1>5. TypeOK /\ RunIsRight(r)
  BY DEF IInv
<1>. HIDE DEF res, tms, cancelled
<1>6. HandsOver(r, cancelled, res, tms)
  BY <1>1, <1>2, <1>3, <1>4 DEF HandsOver
<1>7. CASE heard # {}
  <2>1. EndStep(r, "failed", cancelled, res, tms)
    BY <1>1, <1>7
  <2>2. PICK n \in refused : Listens(r, n, resolvers[r][n])
    BY <1>7
  <2>3. loop[r].phase = "executing" /\ <<r, loop[r].node, loop[r].attempt>> \notin tms
    BY <1>3, <2>2 DEF Listens
  <2>. QED BY <1>1, <1>6, <2>1, <2>3, EndStepIsRight
<1>8. CASE heard = {}
  <2>1. /\ runStatus' = cancelled /\ resolvers' = res /\ timers' = tms
        /\ UNCHANGED <<workflow, nextRun, source, visits, steps, seen, loop>>
    BY <1>1, <1>8
  <2>2. TypeOK'
    BY <1>2, <1>3, <1>4, <1>5, <2>1 DEF TypeOK
  <2>3. \A q \in Runs \ {r} : Same(q)
    BY <1>2, <1>3, <1>4, <2>1 DEF Same
  <2>4. /\ IsFresh(r)' /\ LoopInOrder(r)' /\ StepsInOrder(r)' /\ GoesForward(r)'
        /\ IsDriven(r)' /\ HasAReason(r)' /\ IsClosed(r)'
    BY <1>1, <1>2, <1>3, <1>4, <1>5, <2>1 DEF RunIsRight, IsFresh, LoopInOrder, StepsInOrder,
       GoesForward, InMemory, IsDriven, HasAReason, IsClosed
  <2>5. ApprovalsInOrder(r)'
    BY <1>1, <1>2, <1>3, <1>5, <2>1 DEF RunIsRight, ApprovalsInOrder, InMemory
  <2>6. IsAnswerable(r)'
    <3>. SUFFICES ASSUME NEW m \in Nodes, InMemory(r), steps[r][m] = "waiting",
                         loop[r].def.timed[m] \/ loop[r].def.onError[m] # "retry"
                  PROVE  FALSE
      BY <2>1 DEF IsAnswerable, InMemory
    <3>1. Listens(r, m, resolvers[r][m])
      BY <1>5 DEF RunIsRight, IsAnswerable
    <3>2. loop[r].attempt \in Nat \ {0}
      BY <1>5, <3>1, AttemptsAreCounted DEF RunIsRight, LoopInOrder, Listens
    <3>3. m \in heard
      BY <3>1, <3>2 DEF Listens
    <3>. QED BY <1>8, <3>3
  <2>7. RunIsRight(r)'
    BY <2>4, <2>5, <2>6 DEF RunIsRight
  <2>8. \A q \in Runs : RunIsRight(q)'
    BY <2>1, <2>3, <2>7, SameIsRight DEF IInv
  <2>. QED BY <2>1, <2>2, <2>8 DEF IInv, OneScheduledRun, NoneBegins
<1>. QED BY <1>7, <1>8

-----------------------------------------------------------------------------
(* The theorems.                                                            *)

\* Every step keeps the invariant.
LEMMA StepsAreRight ==
  ASSUME IInv, [Next]_vars
  PROVE  IInv'
<1>1. CASE UNCHANGED vars
  <2>1. UNCHANGED <<workflow, nextRun, runStatus, source, steps, local, scenario>>
    BY <1>1 DEF vars, rows
  <2>2. TypeOK'
    BY <2>1 DEF IInv, TypeOK, local
  <2>. QED BY <2>1, <2>2, RunsUntouched DEF IInv
<1>2. ASSUME NEW r \in Runs, TriggerManually(r) \/ Tick(r), scenario' = scenario
      PROVE  IInv'
  BY <1>2, TriggerManuallyIsRight, TickIsRight
<1>3. ASSUME NEW r \in Runs, CancelRun(r), scenario' = scenario
      PROVE  IInv'
  BY <1>3, CancelRunIsRight
<1>4. ASSUME NEW r \in Runs, Goes(r), scenario' = scenario
      PROVE  IInv'
  BY <1>4, ArriveIsRight, StepEndsIsRight, ApprovalTimerIsRight DEF Goes
<1>5. ASSUME NEW r \in Runs, NEW n \in Nodes, NEW result \in {"completed", "failed"},
             Answer(r, n, result), scenario' = scenario
      PROVE  IInv'
  BY <1>5, AnswerIsRight
<1>6. ASSUME TickFails \/ ScheduleComesDue \/ UpdateWorkflow \/ DeleteWorkflow \/ Crash, scenario' = scenario
      PROVE  IInv'
  BY <1>6, ScheduleIsRight, UpdateWorkflowIsRight, DeleteWorkflowIsRight, CrashIsRight
<1>. QED BY <1>1, <1>2, <1>3, <1>4, <1>5, <1>6 DEF Next, Steps

\* The inductive invariant holds in every state of the engine.
THEOREM Invariance == Spec => []IInv
BY InitIsRight, StepsAreRight, PTL DEF Spec

\* Every variable keeps its type.
THEOREM TypeCorrect == Spec => []TypeOK
<1>1. IInv => TypeOK
  BY DEF IInv
<1>. QED BY <1>1, Invariance, PTL

\* In every state an open step is driven by its run's loop, an approval that somebody is
\* asked for can be answered, a run without loop edges that failed has a failed step that
\* aborts, a completed run has no open step, and the schedule has one run going at most.
THEOREM RunsStayRight == Spec => []RunsAreRight
BY RunsAreRightIfEachIs, Invariance, PTL

\* A step is begun where the loop of its run arrives, which has read the row.
LEMMA BeginsWhileRunning ==
  ASSUME IInv, [Next]_vars
  PROVE  [\A r \in Runs : \A n \in Nodes :
            steps[r][n] = "pending" /\ steps'[r][n] \in {"running", "waiting"}
            => runStatus[r] = "running"]_vars
<1>. SUFFICES ASSUME NEW r \in Runs, NEW n \in Nodes,
                     steps[r][n] = "pending", steps'[r][n] \in {"running", "waiting"}
              PROVE  runStatus[r] = "running"
  OBVIOUS
<1>1. ASSUME NoneBegins PROVE FALSE
  BY <1>1 DEF NoneBegins
<1>2. ASSUME steps' = steps PROVE FALSE
  BY <1>2
<1>3. ASSUME NEW q \in Runs, Arrive(q)
      PROVE  runStatus[r] = "running"
  <2>1. /\ loop[q].phase = "arriving" /\ loop[q].node \in Nodes
        /\ runStatus[q] \notin {"failed", "completed"}
    BY <1>3 DEF IInv, RunIsRight, LoopInOrder, Arrive
  <2>2. \/ steps' = steps
        \/ ~ Gone(q) /\ StartStep(q, loop[q].node, 1)
    BY <1>3 DEF Arrive
  <2>3. q = r
    BY <1>2, <2>1, <2>2 DEF StartStep, IInv, TypeOK
  <2>. QED BY <1>2, <2>1, <2>2, <2>3 DEF Gone, IInv, TypeOK, RunStatuses
<1>4. ASSUME NEW q \in Runs, TriggerManually(q) \/ Tick(q)
      PROVE  FALSE
  BY <1>2, <1>4 DEF TriggerManually, Tick, StartRun
<1>5. ASSUME NEW q \in Runs, scenario' = scenario,
             CancelRun(q) \/ (Goes(q) /\ ~ Arrive(q)) \/ \E m \in Nodes, result \in {"completed", "failed"} : Answer(q, m, result)
      PROVE  FALSE
  BY <1>1, <1>5, CancelRunIsRight, StepEndsIsRight, ApprovalTimerIsRight, AnswerIsRight DEF
     Goes
<1>6. ASSUME TickFails \/ ScheduleComesDue \/ UpdateWorkflow \/ Crash
      PROVE  FALSE
  BY <1>2, <1>6 DEF TickFails, ScheduleComesDue, UpdateWorkflow, Crash, rows
<1>7. ~ DeleteWorkflow
  BY DEF DeleteWorkflow
<1>8. ASSUME UNCHANGED vars PROVE FALSE
  BY <1>2, <1>8 DEF vars, rows
<1>. QED BY <1>3, <1>4, <1>5, <1>6, <1>7, <1>8 DEF Next, Steps

\* No step is begun for a run whose row says that it is no longer running.
THEOREM NothingStartsAfterCancel == Spec => NoStepAfterCancel
BY BeginsWhileRunning, Invariance, PTL DEF Spec, NoStepAfterCancel

=============================================================================
