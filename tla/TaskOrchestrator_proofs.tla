---------------------- MODULE TaskOrchestrator_proofs -----------------------
(***************************************************************************)
(* The invariants of TaskOrchestrator, proved for every number of tasks    *)
(* and of conversations, every choice of retries and every limit: no more  *)
(* tasks run than allowed, no task is started more often than its retries  *)
(* allow, and what has settled is told and stays.                          *)
(***************************************************************************)
EXTENDS TaskOrchestrator, FiniteSetTheorems, SequenceTheorems, WellFoundedInduction, TLAPS

-----------------------------------------------------------------------------
(* Lemmas about numbers.                                                   *)

\* A set of numbers has a least element,
LEMMA Least ==
  ASSUME NEW T \in SUBSET Nat, T # {}
  PROVE  \E x \in T : \A y \in T : x <= y
<1>. DEFINE R == OpToRel(<, Nat)
<1>1. IsWellFoundedOn(R, Nat)
  BY NatLessThanWellFounded
<1>2. R = {ss \in Nat \X Nat : ss[1] < ss[2]}
  BY DEF OpToRel
<1>. HIDE DEF R
<1>3. PICK x \in T : \A y \in T : ~ (<<y, x>> \in R)
  BY <1>1, WFMin
<1>4. \A y \in T : <<y, x>> \in Nat \X Nat /\ <<y, x>>[1] = y /\ <<y, x>>[2] = x
  OBVIOUS
<1>5. \A y \in T : ~ (y < x)
  BY <1>2, <1>3, <1>4
<1>. QED BY <1>3, <1>5

\* and if it is bounded a greatest one.
LEMMA Greatest ==
  ASSUME NEW n \in Nat, NEW T \in SUBSET (1..n), T # {}
  PROVE  \E x \in T : \A y \in T : y <= x
<1>. DEFINE Mirror == {i \in Nat : n - i \in T}
<1>1. PICK t \in T : TRUE
  OBVIOUS
<1>2. n - t \in Mirror
  OBVIOUS
<1>3. PICK i \in Mirror : \A j \in Mirror : i <= j
  BY <1>2, Least
<1>4. \A y \in T : n - y \in Mirror
  OBVIOUS
<1>5. \A y \in T : y <= n - i
  BY <1>3, <1>4
<1>. QED BY <1>3, <1>5

\* Of a finite set of numbers, at most n have fewer than n smaller ones.
LEMMA FirstOnes ==
  ASSUME NEW m \in Nat, NEW S \in SUBSET (1..m), NEW n \in Nat
  PROVE  LET first == {t \in S : Cardinality({u \in S : u < t}) < n} IN
         IsFiniteSet(first) /\ Cardinality(first) <= n
<1>. DEFINE below(t) == {u \in S : u < t}
            first == {t \in S : Cardinality(below(t)) < n}
<1>1. IsFiniteSet(S)
  <2>1. IsFiniteSet(1..m)
    BY FS_Interval
  <2>. QED BY <2>1, FS_Subset
<1>2. \A t \in S : IsFiniteSet(below(t)) /\ Cardinality(below(t)) \in Nat
  <2>1. \A t \in S : below(t) \in SUBSET S
    OBVIOUS
  <2>. HIDE DEF below
  <2>. QED BY <1>1, <2>1, FS_Subset, FS_CardinalityType
<1>3. IsFiniteSet(first) /\ Cardinality(first) \in Nat /\ first \subseteq S
  BY <1>1, FS_Subset, FS_CardinalityType
<1>4. first = {} => Cardinality(first) <= n
  <2>. HIDE DEF first
  <2>1. Cardinality({}) = 0
    BY FS_EmptySet
  <2>. QED BY <2>1
<1>5. CASE first # {}
  <2>1. PICK x \in first : \A y \in first : y <= x
    BY <1>3, <1>5, Greatest
  <2>2. x \in S /\ x \notin below(x) /\ Cardinality(below(x)) < n
    OBVIOUS
  <2>3. first \subseteq below(x) \cup {x}
    <3>1. \A y \in first : y \in Nat /\ x \in Nat /\ (y < x \/ y = x)
      BY <2>1
    <3>. QED BY <3>1
  <2>. HIDE DEF below, first
  <2>4. /\ IsFiniteSet(below(x) \cup {x})
        /\ Cardinality(below(x) \cup {x}) = Cardinality(below(x)) + 1
    BY <1>2, <2>2, FS_AddElement
  <2>5. Cardinality(first) <= Cardinality(below(x)) + 1
    BY <2>3, <2>4, FS_Subset
  <2>6. Cardinality(first) <= n
    BY <1>2, <1>3, <2>2, <2>5
  <2>. QED BY <1>3, <2>6 DEF first, below
<1>. QED BY <1>3, <1>4, <1>5

-----------------------------------------------------------------------------
(* What the tick reads: Promoted is what its recursive definition says.    *)

\* The statuses of a row.
Statuses == {"absent", "waiting", "queued", "running"} \cup Settled

\* What the loop over the waiting tasks makes of task t when f is what it has made of
\* the others.
Passes(f, t) ==
  LET dep(d) == IF d = Unknown THEN "absent" ELSE f[d] IN
  IF status[t] # "waiting" THEN status[t]
  ELSE IF t \in stale \/ \E d \in deps[t] : dep(d) \in {"failed", "cancelled"} THEN "failed"
  ELSE IF \A d \in deps[t] : dep(d) = "completed" THEN "queued"
  ELSE "waiting"

\* A task depends on tasks that were there before it.
DepsInOrder ==
  /\ deps \in [Tasks -> SUBSET (Tasks \cup {Unknown})]
  /\ \A t \in Tasks : \A u \in deps[t] \cap Tasks : u < t

\* The tasks are numbered in the order in which they are spawned.
LEMMA TasksAreNumbers ==
  \E n \in Nat : Tasks = 1..n /\ Cardinality(Tasks) = n
  BY OrchestratorAssumption, FS_CardinalityType

\* What becomes of a task depends on what became of its dependencies only.
LEMMA PassesReadsDeps ==
  ASSUME NEW f, NEW g, NEW t \in Tasks, DepsInOrder,
         \A u \in deps[t] \cap Tasks : f[u] = g[u]
  PROVE  Passes(f, t) = Passes(g, t)
<1>1. \A d \in deps[t] : d = Unknown \/ f[d] = g[d]
  BY DEF DepsInOrder
<1>. QED BY <1>1 DEF Passes

\* The recursive definition of Promoted has a solution: were there a first n for which no
\* function satisfies it on 1..n, one for n - 1 could be extended.
LEMMA PromotedIsDefined ==
  ASSUME DepsInOrder
  PROVE  Promoted = [t \in Tasks |-> Passes(Promoted, t)]
<1>. DEFINE Good(n) == \E f : f = [t \in 1..n |-> f[t]] /\ \A t \in 1..n : f[t] = Passes(f, t)
            loop(f) == [t \in Tasks |-> Passes(f, t)]
<1>1. PICK n \in Nat : Tasks = 1..n
  BY TasksAreNumbers
<1>2. Good(n)
  <2>. DEFINE Bad == {i \in 0..n : ~ Good(i)}
  <2>1. SUFFICES ASSUME Bad # {} PROVE FALSE
    BY <2>1
  <2>2. PICK i \in Bad : \A j \in Bad : i <= j
    <3>1. Bad \in SUBSET Nat
      OBVIOUS
    <3>. HIDE DEF Bad
    <3>. QED BY <2>1, <3>1, Least
  <2>3. Good(0)
    <3>. DEFINE f == [t \in 1..0 |-> t]
    <3>. QED BY f = [t \in 1..0 |-> f[t]]
  <2>4. i \in 1..n /\ ~ Good(i)
    <3>1. i \in 0..n /\ ~ Good(i)
      OBVIOUS
    <3>2. i # 0
      BY <2>3, <3>1
    <3>. HIDE DEF Good
    <3>. QED BY <3>1, <3>2
  <2>5. Good(i - 1)
    <3>1. i - 1 \in 0..n /\ i - 1 \notin Bad
      BY <2>2, <2>4
    <3>. HIDE DEF Good
    <3>. QED BY <3>1
  <2>6. PICK f : f = [t \in 1..(i-1) |-> f[t]] /\ \A t \in 1..(i-1) : f[t] = Passes(f, t)
    BY <2>5
  <2>. DEFINE g == [t \in 1..i |-> IF t < i THEN f[t] ELSE Passes(f, t)]
  <2>7. \A t \in 1..i : Passes(g, t) = Passes(f, t)
    <3>. SUFFICES ASSUME NEW t \in 1..i PROVE Passes(g, t) = Passes(f, t)
      OBVIOUS
    <3>1. t \in Tasks /\ \A u \in deps[t] \cap Tasks : u < t /\ u \in 1..n
      BY <1>1, <2>4 DEF DepsInOrder
    <3>2. \A u \in deps[t] \cap Tasks : g[u] = f[u]
      BY <2>4, <3>1
    <3>. QED BY <3>1, <3>2, PassesReadsDeps
  <2>8. \A t \in 1..i : g[t] = Passes(g, t)
    <3>1. \A t \in 1..i : g[t] = Passes(f, t)
      <4>1. \A t \in 1..i : t < i => t \in 1..(i - 1)
        BY <2>4
      <4>. QED BY <2>6, <4>1
    <3>. QED BY <2>7, <3>1
  <2>9. g = [t \in 1..i |-> g[t]]
    OBVIOUS
  <2>. QED BY <2>4, <2>8, <2>9
<1>3. \E f : f = loop(f)
  <2>1. PICK f : f = [t \in 1..n |-> f[t]] /\ \A t \in 1..n : f[t] = Passes(f, t)
    BY <1>2
  <2>. QED BY <1>1, <2>1
<1>4. Promoted = CHOOSE f : f = loop(f)
  BY DEF Promoted, Passes
<1>. QED BY <1>3, <1>4

\* What the loop does: it changes waiting tasks only, to failed or queued.
LEMMA PromotedTyped ==
  ASSUME DepsInOrder, status \in [Rows -> Statuses]
  PROVE  /\ Promoted \in [Tasks -> Statuses]
         /\ \A t \in Tasks : /\ status[t] # "waiting" => Promoted[t] = status[t]
                             /\ status[t] = "waiting" =>
                                  Promoted[t] \in {"waiting", "queued", "failed"}
<1>1. \A t \in Tasks :
        /\ Passes(Promoted, t) \in Statuses
        /\ status[t] # "waiting" => Passes(Promoted, t) = status[t]
        /\ status[t] = "waiting" => Passes(Promoted, t) \in {"waiting", "queued", "failed"}
  BY DEF Passes, Statuses, Rows, Settled
<1>2. \A t \in Tasks : Promoted[t] = Passes(Promoted, t)
  BY PromotedIsDefined
<1>3. [t \in Tasks |-> Passes(Promoted, t)] \in [Tasks -> Statuses]
  BY <1>1
<1>4. Promoted \in [Tasks -> Statuses]
  BY <1>3, PromotedIsDefined
<1>. QED BY <1>1, <1>2, <1>4

-----------------------------------------------------------------------------
(* The inductive invariant.                                                *)

\* A start of a row: its run, whether its client was removed, and the retries at the
\* time.
Attempt == [run : RunStates, settled : BOOLEAN, snapshot : Nat]

\* The types that TypeOK leaves to the functions' values.
Shape ==
  /\ attempts \in [Rows -> Seq(Attempt)]
  /\ client \in [Rows -> Nat]

\* A conversation has a row, and an item in the feed, before anything ends.
ConversationsBegin ==
  \A i \in Inline : /\ status[i] = "absent" => attempts[i] = << >>
                    /\ status[i] # "absent" => feed[i] # "none"

\* What the starts of t and its retries have to do with each other.
RetryCounts(t) ==
  /\ retries[t] <= MaxRetries[t] /\ Len(attempts[t]) \in {retries[t], retries[t] + 1}
  /\ status[t] \in {"absent", "waiting", "queued"} => Len(attempts[t]) = retries[t]
  /\ \A k \in DOMAIN attempts[t] :
       /\ attempts[t][k].snapshot = k - 1
       /\ attempts[t][k].run = "live" => k = retries[t] + 1

\* As long as a task hears but the first end of each run: every retry stands for a
\* start, and only the last start, not counted as failed yet, may have a live run.
RetriesCount == \A t \in Tasks \ strayed : RetryCounts(t)

\* The rows that the limit is about,
RunningTasks == {t \in Tasks : status[t] = "running"}

\* and the limit.
RunningLimit == Cardinality(RunningTasks) <= MaxConcurrent

\* The inductive invariant: the properties, with what counts starts and keeps the types.
IInv ==
  /\ TypeOK /\ Shape /\ DepsInOrder
  /\ ConversationsBegin /\ RetriesCount /\ RunningLimit /\ SettledIsTold

\* The assumptions, as the steps need them.
LEMMA Bounds ==
  /\ MaxConcurrent \in Nat \ {0} /\ MaxRetries \in [Tasks -> Nat]
  /\ IsFiniteSet(Tasks) /\ IsFiniteSet(Rows)
  /\ Tasks \subseteq Rows /\ Inline \subseteq Rows /\ Tasks \cap Inline = {}
  /\ Rows = Tasks \cup Inline
  BY OrchestratorAssumption, FS_Union DEF Rows

\* The starts of a row as a function.
LEMMA AttemptsTyped ==
  ASSUME Shape, NEW r \in Rows
  PROVE  /\ Len(attempts[r]) \in Nat /\ DOMAIN attempts[r] = 1..Len(attempts[r])
         /\ attempts[r] \in [1..Len(attempts[r]) -> Attempt]
         /\ attempts[r] \in Seq(Attempt)
<1>1. attempts[r] \in Seq(Attempt)
  BY DEF Shape
<1>. QED BY <1>1, LenProperties

\* The limit is kept when no row begins to run.
LEMMA FewerRunning ==
  ASSUME RunningLimit, RunningTasks' \subseteq RunningTasks
  PROVE  RunningLimit'
<1>1. IsFiniteSet(RunningTasks) /\ IsFiniteSet(RunningTasks')
  BY Bounds, FS_Subset DEF RunningTasks
<1>2. /\ Cardinality(RunningTasks') <= Cardinality(RunningTasks)
      /\ Cardinality(RunningTasks) \in Nat /\ Cardinality(RunningTasks') \in Nat
  BY <1>1, FS_Subset, FS_CardinalityType
<1>. QED BY <1>2, Bounds DEF RunningLimit

-----------------------------------------------------------------------------
(* Deliver.                                                                *)

\* The arguments of Deliver: starts that have been made, and their new runs.
OfStarts(heard, now) ==
  /\ heard \in [Rows -> Nat] /\ now \in [Rows -> Seq(Attempt)]
  /\ \A r \in Rows : heard[r] # 0 => heard[r] \in DOMAIN attempts[r]
  /\ \A r \in Rows : Len(now[r]) = Len(attempts[r])
  /\ \A r \in Rows : \A k \in DOMAIN attempts[r] :
       now[r][k].settled = attempts[r][k].settled /\ now[r][k].snapshot = attempts[r][k].snapshot

\* What Deliver does to the starts.
LEMMA DeliverToStarts ==
  ASSUME TypeOK, Shape, NEW heard, NEW now, NEW e \in Ends,
         OfStarts(heard, now), Deliver(heard, e, now)
  PROVE  /\ attempts' \in [Rows -> Seq(Attempt)]
         /\ \A r \in Rows : Len(attempts'[r]) = Len(attempts[r])
         /\ \A r \in Rows : \A k \in DOMAIN attempts[r] :
              /\ attempts'[r][k].run = now[r][k].run
              /\ attempts'[r][k].snapshot = attempts[r][k].snapshot
              /\ k # heard[r] => attempts'[r][k].settled = attempts[r][k].settled
              /\ k = heard[r] => attempts'[r][k].settled
<1>. USE DEF OfStarts
<1>. DEFINE set(r) == [now[r] EXCEPT ![heard[r]].settled = TRUE]
<1>1. attempts' = [r \in Rows |-> IF heard[r] # 0 THEN set(r) ELSE now[r]]
  BY Zenon DEF Deliver
<1>2. ASSUME NEW r \in Rows
      PROVE  /\ now[r] \in Seq(Attempt) /\ now[r] \in [1..Len(attempts[r]) -> Attempt]
             /\ DOMAIN attempts[r] = 1..Len(attempts[r])
  BY AttemptsTyped, LenProperties
<1>3. ASSUME NEW r \in Rows, heard[r] # 0
      PROVE  /\ set(r) \in Seq(Attempt) /\ Len(set(r)) = Len(attempts[r])
             /\ \A k \in DOMAIN attempts[r] :
                  /\ set(r)[k].run = now[r][k].run /\ set(r)[k].snapshot = now[r][k].snapshot
                  /\ k # heard[r] => set(r)[k].settled = now[r][k].settled
                  /\ k = heard[r] => set(r)[k].settled
  <2>1. heard[r] \in 1..Len(attempts[r])
    BY <1>2, <1>3
  <2>2. now[r][heard[r]] \in Attempt
    BY <1>2, <2>1
  <2>. DEFINE x == [now[r][heard[r]] EXCEPT !.settled = TRUE]
  <2>3. /\ x \in Attempt /\ x.run = now[r][heard[r]].run
        /\ x.snapshot = now[r][heard[r]].snapshot /\ x.settled
    BY <2>2 DEF Attempt
  <2>4. set(r) = [now[r] EXCEPT ![heard[r]] = x]
    OBVIOUS
  <2>5. set(r) \in Seq(Attempt) /\ Len(set(r)) = Len(now[r])
    <3>1. now[r] \in Seq(Attempt) /\ heard[r] \in 1..Len(now[r]) /\ x \in Attempt
      BY <1>2, <2>1, <2>3
    <3>. HIDE DEF x
    <3>2. [now[r] EXCEPT ![heard[r]] = x] \in Seq(Attempt)
          /\ Len([now[r] EXCEPT ![heard[r]] = x]) = Len(now[r])
      BY <3>1, ExceptSeq
    <3>. QED BY <2>4, <3>2
  <2>6. \A k \in 1..Len(attempts[r]) : set(r)[k] = IF k = heard[r] THEN x ELSE now[r][k]
    BY <1>2, <2>1, <2>4
  <2>7. \A k \in 1..Len(attempts[r]) : now[r][k].settled \in BOOLEAN
    BY <1>2 DEF Attempt
  <2>. HIDE DEF x, set
  <2>. QED BY <1>2, <2>3, <2>5, <2>6, <2>7
<1>4. \A r \in Rows : \A k \in DOMAIN attempts[r] : now[r][k].settled \in BOOLEAN
  BY <1>2 DEF Attempt
<1>. HIDE DEF set
<1>. QED BY <1>1, <1>2, <1>3, <1>4

\* What Deliver does to the rows.
LEMMA DeliverToRows ==
  ASSUME TypeOK, Shape, NEW heard, NEW now, NEW e \in Ends,
         OfStarts(heard, now), Deliver(heard, e, now)
  PROVE  /\ status' \in [Rows -> Statuses] /\ retries' \in [Tasks -> Nat]
         /\ waiters' \subseteq waiters /\ client' \in [Rows -> Nat]
         /\ feed' \in [Rows -> {"none", "running"} \cup Ends]
         /\ \A r \in Rows : heard[r] = 0 =>
              status'[r] = status[r] /\ feed'[r] = feed[r] /\ client'[r] = client[r]
         /\ \A r \in Rows : heard[r] # 0 =>
              IF Requeues(r, heard[r], e)
              THEN status'[r] = "queued" /\ feed'[r] = feed[r] /\ r \in Tasks
              ELSE /\ status'[r] = e /\ (feed'[r] = e \/ (r \in Inline /\ feed[r] = "none"))
                   /\ r \in Tasks => r \notin waiters'
         /\ \A r \in Rows : client'[r] # 0 =>
              client'[r] = client[r] /\ (heard[r] # 0 => attempts[r][heard[r]].settled)
         /\ \A t \in Tasks :
              IF heard[t] # 0 /\ Requeues(t, heard[t], e) THEN retries'[t] = retries[t] + 1
              ELSE retries'[t] = retries[t]
<1>. USE DEF OfStarts
<1>. DEFINE again(r) == heard[r] # 0 /\ Requeues(r, heard[r], e)
<1>1. /\ status' = [r \in Rows |-> IF again(r) THEN "queued" ELSE IF heard[r] # 0 THEN e ELSE status[r]]
      /\ retries' = [t \in Tasks |-> IF again(t) THEN retries[t] + 1 ELSE retries[t]]
      /\ feed' = [r \in Rows |-> IF ~ (heard[r] # 0) \/ again(r) \/ (r \in Inline /\ feed[r] = "none")
                                 THEN feed[r] ELSE e]
      /\ waiters' = waiters \ {t \in Tasks : heard[t] # 0 /\ ~again(t)}
      /\ client' = [r \in Rows |-> IF heard[r] # 0 /\ (r \in Inline \/ ~attempts[r][heard[r]].settled)
                                   THEN 0 ELSE client[r]]
  BY Zenon DEF Deliver
<1>2. \A r \in Rows : again(r) => r \in Tasks
  BY DEF Requeues
<1>. HIDE DEF again
<1>3. /\ status \in [Rows -> Statuses] /\ retries \in [Tasks -> Nat] /\ client \in [Rows -> Nat]
      /\ feed \in [Rows -> {"none", "running"} \cup Ends] /\ e \in Statuses
  BY DEF TypeOK, Shape, Statuses, Settled, Ends
<1>4. /\ status' \in [Rows -> Statuses] /\ retries' \in [Tasks -> Nat]
      /\ waiters' \subseteq waiters /\ client' \in [Rows -> Nat]
      /\ feed' \in [Rows -> {"none", "running"} \cup Ends]
  BY <1>1, <1>3 DEF Statuses
<1>5. \A r \in Rows : heard[r] = 0 =>
              status'[r] = status[r] /\ feed'[r] = feed[r] /\ client'[r] = client[r]
  BY <1>1 DEF again
<1>6. \A r \in Rows : heard[r] # 0 =>
              IF again(r)
              THEN status'[r] = "queued" /\ feed'[r] = feed[r] /\ r \in Tasks
              ELSE /\ status'[r] = e /\ (feed'[r] = e \/ (r \in Inline /\ feed[r] = "none"))
                   /\ r \in Tasks => r \notin waiters'
  BY <1>1, <1>2
<1>7. \A r \in Rows : client'[r] # 0 =>
              client'[r] = client[r] /\ (heard[r] # 0 => attempts[r][heard[r]].settled)
  BY <1>1
<1>8. \A t \in Tasks :
              IF again(t) THEN retries'[t] = retries[t] + 1 ELSE retries'[t] = retries[t]
  BY <1>1
<1>. QED BY <1>4, <1>5, <1>6, <1>7, <1>8 DEF again

\* A registered client is that of a start which has not been settled.
LEMMA ClientsListen ==
  ASSUME TypeOK, NEW r \in Rows, client[r] # 0
  PROVE  client[r] \in DOMAIN attempts[r] /\ ~ attempts[r][client[r]].settled
  BY DEF TypeOK

\* An end that is delivered keeps everything but the count of the retries.
LEMMA DeliverKeeps ==
  ASSUME IInv, NEW heard, NEW now, NEW e \in Ends,
         OfStarts(heard, now), Deliver(heard, e, now),
         UNCHANGED <<deps, stale>>, strayed' \subseteq Tasks
  PROVE  (TypeOK /\ Shape /\ DepsInOrder /\ ConversationsBegin /\ RunningLimit /\ SettledIsTold)'
<1>. USE DEF IInv
<1>1. /\ attempts' \in [Rows -> Seq(Attempt)]
      /\ \A r \in Rows : Len(attempts'[r]) = Len(attempts[r])
      /\ \A r \in Rows : \A k \in DOMAIN attempts[r] :
           k # heard[r] => attempts'[r][k].settled = attempts[r][k].settled
  BY DeliverToStarts
<1>2. /\ status' \in [Rows -> Statuses] /\ retries' \in [Tasks -> Nat]
      /\ waiters' \subseteq waiters /\ client' \in [Rows -> Nat]
      /\ feed' \in [Rows -> {"none", "running"} \cup Ends]
      /\ \A r \in Rows : heard[r] = 0 =>
           status'[r] = status[r] /\ feed'[r] = feed[r] /\ client'[r] = client[r]
      /\ \A r \in Rows : heard[r] # 0 =>
           IF Requeues(r, heard[r], e)
           THEN status'[r] = "queued" /\ feed'[r] = feed[r] /\ r \in Tasks
           ELSE /\ status'[r] = e /\ (feed'[r] = e \/ (r \in Inline /\ feed[r] = "none"))
                /\ r \in Tasks => r \notin waiters'
      /\ \A r \in Rows : client'[r] # 0 =>
           client'[r] = client[r] /\ (heard[r] # 0 => attempts[r][heard[r]].settled)
  BY DeliverToRows
<1>3. Shape'
  BY <1>1, <1>2 DEF Shape
<1>4. \A r \in Rows : /\ DOMAIN attempts'[r] = DOMAIN attempts[r]
                      /\ attempts'[r] \in [DOMAIN attempts[r] -> Attempt]
                      /\ attempts'[r] = << >> <=> attempts[r] = << >>
  <2>1. ASSUME NEW r \in Rows
        PROVE  /\ attempts[r] \in Seq(Attempt) /\ DOMAIN attempts[r] = 1..Len(attempts[r])
               /\ attempts'[r] \in Seq(Attempt) /\ DOMAIN attempts'[r] = 1..Len(attempts'[r])
               /\ attempts'[r] \in [1..Len(attempts'[r]) -> Attempt]
               /\ Len(attempts'[r]) = Len(attempts[r])
    BY <1>1, AttemptsTyped, LenProperties
  <2>. QED BY <2>1, EmptySeq
<1>5. \A r \in Rows : client'[r] # 0 => /\ client'[r] \in DOMAIN attempts'[r]
                                        /\ ~ attempts'[r][client'[r]].settled
  <2>. SUFFICES ASSUME NEW r \in Rows, client'[r] # 0
                PROVE  client'[r] \in DOMAIN attempts'[r] /\ ~ attempts'[r][client'[r]].settled
    OBVIOUS
  <2>1. /\ client'[r] = client[r] /\ client[r] \in DOMAIN attempts[r]
        /\ ~ attempts[r][client[r]].settled
    BY <1>2, ClientsListen
  <2>2. heard[r] # 0 => heard[r] # client[r]
    BY <1>2, <2>1
  <2>. QED BY <1>1, <1>4, <2>1, <2>2
<1>6. TypeOK'
  <2>1. \A r \in Rows : \A k \in DOMAIN attempts'[r] :
          attempts'[r][k] \in [run : RunStates, settled : BOOLEAN, snapshot : Nat]
    BY <1>4 DEF Attempt
  <2>. QED BY <1>2, <1>5, <2>1 DEF TypeOK, Statuses
<1>7. DepsInOrder'
  BY DEF DepsInOrder
<1>8. ConversationsBegin'
  <2>. SUFFICES ASSUME NEW i \in Inline
                PROVE  /\ status'[i] = "absent" => attempts'[i] = << >>
                       /\ status'[i] # "absent" => feed'[i] # "none"
    BY DEF ConversationsBegin
  <2>1. i \in Rows /\ i \notin Tasks
    BY Bounds
  <2>2. CASE heard[i] = 0
    BY <1>2, <1>4, <2>1, <2>2 DEF ConversationsBegin
  <2>3. CASE heard[i] # 0
    <3>1. attempts[i] # << >>
      BY <2>1, <2>3 DEF OfStarts
    <3>2. feed[i] # "none"
      BY <3>1 DEF ConversationsBegin
    <3>. QED BY <1>2, <2>1, <2>3, <3>2 DEF Ends
  <2>. QED BY <2>2, <2>3
<1>9. RunningLimit'
  <2>1. RunningTasks' \subseteq RunningTasks
    BY <1>2, Bounds DEF RunningTasks, Ends
  <2>. QED BY <2>1, FewerRunning
<1>10. SettledIsTold'
  <2>1. ASSUME NEW r \in Rows
        PROVE  /\ r \in Tasks /\ status'[r] \in Settled => r \notin waiters'
               /\ status'[r] \in Settled => feed'[r] = FeedStatus(status'[r])
               /\ feed'[r] = "running" => status'[r] \in {"queued", "running"}
    <3>1. CASE heard[r] = 0
      <4>1. status'[r] = status[r] /\ feed'[r] = feed[r] /\ waiters' \subseteq waiters
        BY <1>2, <3>1
      <4>. QED BY <4>1 DEF SettledIsTold
    <3>2. CASE heard[r] # 0
      <4>1. r \in Inline => feed[r] # "none"
        BY <3>2, Bounds DEF ConversationsBegin, OfStarts
      <4>. QED BY <1>2, <3>2, <4>1 DEF Ends, Settled, FeedStatus
    <3>. QED BY <3>1, <3>2
  <2>. QED BY <2>1, Bounds DEF SettledIsTold
<1>. QED BY <1>3, <1>6, <1>7, <1>8, <1>9, <1>10

\* What a broadcast delivers: the start that hears its own end, with the others that
\* are registered, and its new run.
Hearing(r, k) == [client EXCEPT ![r] = k]

Ended(r, k, run) == [attempts EXCEPT ![r][k].run = run]

\* A broadcast is a delivery to these starts.
LEMMA BroadcastReaches ==
  ASSUME TypeOK, Shape, NEW r \in Rows, NEW k \in DOMAIN attempts[r], NEW run \in RunStates
  PROVE  /\ OfStarts(Hearing(r, k), Ended(r, k, run))
         /\ \A q \in Rows : Hearing(r, k)[q] = IF q = r THEN k ELSE client[q]
         /\ \A q \in Rows \ {r} : Ended(r, k, run)[q] = attempts[q]
         /\ \A j \in DOMAIN attempts[r] :
              Ended(r, k, run)[r][j].run = IF j = k THEN run ELSE attempts[r][j].run
<1>. DEFINE heard == Hearing(r, k)
            now == Ended(r, k, run)
<1>0. heard = [client EXCEPT ![r] = k] /\ now = [attempts EXCEPT ![r][k].run = run]
  BY DEF Hearing, Ended
<1>3. /\ attempts \in [Rows -> Seq(Attempt)] /\ client \in [Rows -> Nat]
      /\ k \in 1..Len(attempts[r]) /\ k \in Nat \ {0} /\ Len(attempts[r]) \in Nat
      /\ attempts[r] \in Seq(Attempt) /\ attempts[r] \in [1..Len(attempts[r]) -> Attempt]
  BY AttemptsTyped DEF Shape
<1>. HIDE DEF heard, now
<1>4. heard \in [Rows -> Nat] /\ \A q \in Rows : heard[q] = IF q = r THEN k ELSE client[q]
  BY <1>0, <1>3
<1>5. \A q \in Rows : heard[q] # 0 => heard[q] \in DOMAIN attempts[q]
  BY <1>4, ClientsListen
<1>6. /\ now \in [Rows -> Seq(Attempt)]
      /\ \A q \in Rows : q # r => now[q] = attempts[q]
      /\ Len(now[r]) = Len(attempts[r])
      /\ \A j \in DOMAIN attempts[r] :
           /\ now[r][j].settled = attempts[r][j].settled
           /\ now[r][j].snapshot = attempts[r][j].snapshot
           /\ now[r][j].run = IF j = k THEN run ELSE attempts[r][j].run
  <2>. DEFINE x == [attempts[r][k] EXCEPT !.run = run]
              seq == [attempts[r] EXCEPT ![k] = x]
  <2>1. attempts[r][k] \in Attempt
    BY <1>3
  <2>2. x \in Attempt /\ x.settled = attempts[r][k].settled /\ x.run = run
        /\ x.snapshot = attempts[r][k].snapshot
    BY <2>1 DEF Attempt
  <2>3. now = [attempts EXCEPT ![r] = seq]
    BY <1>0
  <2>4. seq \in Seq(Attempt) /\ Len(seq) = Len(attempts[r])
        /\ \A j \in 1..Len(attempts[r]) : seq[j] = IF j = k THEN x ELSE attempts[r][j]
    <3>. HIDE DEF x
    <3>. QED BY <1>3, <2>2, ExceptSeq
  <2>. HIDE DEF x, seq
  <2>5. DOMAIN attempts[r] = 1..Len(attempts[r])
    BY <1>3
  <2>6. /\ now \in [Rows -> Seq(Attempt)] /\ now[r] = seq
        /\ \A q \in Rows : q # r => now[q] = attempts[q]
    BY <1>3, <2>3, <2>4
  <2>. QED BY <2>2, <2>4, <2>5, <2>6
<1>7. OfStarts(heard, now)
  BY <1>4, <1>5, <1>6 DEF OfStarts
<1>. QED BY <1>4, <1>6, <1>7 DEF heard, now

\* The end of the run of a start, or what comes after it.
LEMMA BroadcastKeeps ==
  ASSUME IInv, NEW r \in Rows, NEW k \in DOMAIN attempts[r], NEW e \in Ends,
         NEW run \in RunStates \ {"live"},
         attempts[r][k].run \in {"live", "aborted", "background"},
         attempts[r][k].run = "aborted" => e = "completed",
         Broadcast(r, k, e, run)
  PROVE  IInv'
<1>0. PICK heard, now : heard = Hearing(r, k) /\ now = Ended(r, k, run)
  OBVIOUS
<1>1. Deliver(heard, e, now) /\ UNCHANGED <<deps, stale>>
      /\ strayed' = strayed \cup {t \in Tasks \ {r} : client[t] # 0}
                            \cup (IF attempts[r][k].run = "background" THEN {r} \cap Tasks ELSE {})
  BY <1>0 DEF Broadcast, Hearing, Ended
<1>2. strayed' \subseteq Tasks
  BY <1>1 DEF IInv, TypeOK
<1>3. /\ attempts \in [Rows -> Seq(Attempt)] /\ client \in [Rows -> Nat]
      /\ k \in 1..Len(attempts[r]) /\ k \in Nat \ {0} /\ Len(attempts[r]) \in Nat
      /\ attempts[r] \in Seq(Attempt) /\ attempts[r] \in [1..Len(attempts[r]) -> Attempt]
  BY AttemptsTyped DEF IInv, Shape
<1>4. /\ OfStarts(heard, now)
      /\ \A q \in Rows : heard[q] = IF q = r THEN k ELSE client[q]
      /\ \A q \in Rows \ {r} : now[q] = attempts[q]
      /\ \A j \in DOMAIN attempts[r] : now[r][j].run = IF j = k THEN run ELSE attempts[r][j].run
  BY <1>0, BroadcastReaches DEF IInv
<1>8. (TypeOK /\ Shape /\ DepsInOrder /\ ConversationsBegin /\ RunningLimit /\ SettledIsTold)'
  BY <1>1, <1>2, <1>4, DeliverKeeps
<1>9. ASSUME NEW t \in Tasks \ strayed' PROVE RetryCounts(t)'
  <2>1. t \in Tasks \ strayed /\ RetryCounts(t) /\ t \in Rows
    BY <1>1, Bounds DEF IInv, RetriesCount
  <2>2. /\ Len(attempts'[t]) = Len(attempts[t])
        /\ DOMAIN attempts'[t] = DOMAIN attempts[t]
        /\ \A j \in DOMAIN attempts[t] :
             /\ attempts'[t][j].run = now[t][j].run
             /\ attempts'[t][j].snapshot = attempts[t][j].snapshot
    <3>1. /\ attempts' \in [Rows -> Seq(Attempt)]
          /\ Len(attempts'[t]) = Len(attempts[t])
          /\ \A j \in DOMAIN attempts[t] :
               /\ attempts'[t][j].run = now[t][j].run
               /\ attempts'[t][j].snapshot = attempts[t][j].snapshot
      BY <1>1, <1>4, <2>1, DeliverToStarts DEF IInv
    <3>2. DOMAIN attempts'[t] = 1..Len(attempts'[t]) /\ DOMAIN attempts[t] = 1..Len(attempts[t])
      BY <1>3, <2>1, <3>1, LenProperties
    <3>. QED BY <3>1, <3>2
  <2>3. /\ heard[t] = 0 => status'[t] = status[t]
        /\ heard[t] # 0 =>
             IF Requeues(t, heard[t], e) THEN status'[t] = "queued" ELSE status'[t] = e
        /\ IF heard[t] # 0 /\ Requeues(t, heard[t], e) THEN retries'[t] = retries[t] + 1
           ELSE retries'[t] = retries[t]
    BY <1>1, <1>4, <2>1, DeliverToRows DEF IInv
  <2>4. CASE t # r
    <3>1. heard[t] = 0 /\ now[t] = attempts[t]
      BY <1>1, <1>4, <2>1, <2>4
    <3>. QED BY <2>1, <2>2, <2>3, <3>1 DEF RetryCounts
  <2>5. CASE t = r
    <3>1. /\ heard[t] = k /\ k # 0 /\ attempts[t][k].run \in {"live", "aborted"}
          /\ attempts[t][k].snapshot = k - 1
      BY <1>1, <1>3, <1>4, <2>1, <2>5 DEF RetryCounts
    <3>2. \A j \in DOMAIN attempts[t] : /\ attempts[t][j].snapshot = j - 1
                                        /\ now[t][j].run = "live" =>
                                             j # k /\ attempts[t][j].run = "live"
      BY <1>4, <2>1, <2>5 DEF RetryCounts
    <3>3. /\ retries[t] \in Nat /\ MaxRetries[t] \in Nat /\ retries[t] <= MaxRetries[t]
          /\ Len(attempts[t]) \in {retries[t], retries[t] + 1}
      BY <2>1, Bounds DEF IInv, TypeOK, RetryCounts
    <3>4. CASE attempts[t][k].run = "live"
      <4>1. k = retries[t] + 1 /\ Len(attempts[t]) = retries[t] + 1
        <5>1. k = retries[t] + 1
          BY <2>1, <2>5, <3>4 DEF RetryCounts
        <5>. QED BY <1>3, <2>5, <3>3, <5>1
      <4>2. \A j \in DOMAIN attempts[t] : now[t][j].run # "live"
        BY <2>1, <3>2, <4>1 DEF RetryCounts
      <4>3. Requeues(t, k, e) => k - 1 < MaxRetries[t]
        BY <3>1 DEF Requeues
      <4>4. CASE Requeues(t, k, e)
        <5>1. /\ status'[t] = "queued" /\ retries'[t] = retries[t] + 1 /\ retries[t] < MaxRetries[t]
          BY <2>3, <3>1, <3>3, <4>1, <4>3, <4>4
        <5>2. Len(attempts'[t]) = retries[t] + 1
          BY <2>2, <4>1
        <5>3. \A j \in DOMAIN attempts'[t] : /\ attempts'[t][j].snapshot = j - 1
                                             /\ attempts'[t][j].run # "live"
          BY <2>2, <3>2, <4>2
        <5>. QED BY <3>3, <5>1, <5>2, <5>3 DEF RetryCounts
      <4>5. CASE ~ Requeues(t, k, e)
        <5>1. status'[t] = e /\ retries'[t] = retries[t] /\ e \notin {"absent", "waiting", "queued"}
          BY <2>3, <3>1, <4>5 DEF Ends
        <5>. QED BY <2>2, <3>2, <3>3, <4>1, <4>2, <5>1 DEF RetryCounts
      <4>. QED BY <4>4, <4>5
    <3>5. CASE attempts[t][k].run = "aborted"
      <4>1. ~ Requeues(t, k, e)
        BY <2>5, <3>5 DEF Requeues
      <4>2. status'[t] = e /\ retries'[t] = retries[t] /\ e \notin {"absent", "waiting", "queued"}
        BY <2>3, <3>1, <4>1 DEF Ends
      <4>3. \A j \in DOMAIN attempts'[t] :
              /\ attempts'[t][j].snapshot = j - 1
              /\ (attempts'[t][j].run = "live" => j = retries'[t] + 1)
        <5>1. \A j \in DOMAIN attempts[t] : attempts[t][j].run = "live" => j = retries[t] + 1
          BY <2>1 DEF RetryCounts
        <5>. QED BY <2>2, <3>2, <4>2, <5>1
      <4>. QED BY <2>2, <3>3, <4>2, <4>3 DEF RetryCounts
    <3>. QED BY <3>1, <3>4, <3>5
  <2>. QED BY <2>4, <2>5
<1>10. RetriesCount'
  BY <1>9 DEF RetriesCount
<1>. QED BY <1>8, <1>10 DEF IInv

\* The end of a run of another session.
LEMMA OtherEndKeeps ==
  ASSUME IInv, NEW e \in Ends, OtherRunEnds(e)
  PROVE  IInv'
<1>1. Deliver(client, e, attempts) /\ UNCHANGED <<deps, stale>>
      /\ strayed' = strayed \cup {t \in Tasks : client[t] # 0}
  BY DEF OtherRunEnds
<1>2. strayed' \subseteq Tasks
  BY <1>1 DEF IInv, TypeOK
<1>3. /\ attempts \in [Rows -> Seq(Attempt)] /\ client \in [Rows -> Nat]
      /\ \A q \in Rows : client[q] # 0 => client[q] \in DOMAIN attempts[q]
  BY ClientsListen DEF IInv, Shape
<1>4. (TypeOK /\ Shape /\ DepsInOrder /\ ConversationsBegin /\ RunningLimit /\ SettledIsTold)'
  <2>1. OfStarts(client, attempts)
    BY <1>3 DEF OfStarts
  <2>. QED BY <1>1, <1>2, <2>1, DeliverKeeps
<1>5. ASSUME NEW t \in Tasks \ strayed' PROVE RetryCounts(t)'
  <2>1. t \in Tasks \ strayed /\ RetryCounts(t) /\ t \in Rows /\ client[t] = 0
    BY <1>1, Bounds DEF IInv, RetriesCount
  <2>2. attempts'[t] = attempts[t] /\ status'[t] = status[t] /\ retries'[t] = retries[t]
    BY <1>1, <2>1, Bounds DEF Deliver
  <2>. QED BY <2>1, <2>2 DEF RetryCounts
<1>. QED BY <1>4, <1>5 DEF IInv, RetriesCount

\* A start that changes: its row has as many starts as before.
LEMMA StartChanged ==
  ASSUME Shape, NEW r \in Rows, NEW k \in DOMAIN attempts[r], NEW a \in Attempt,
         attempts' = [attempts EXCEPT ![r] = [attempts[r] EXCEPT ![k] = a]]
  PROVE  /\ attempts' \in [Rows -> Seq(Attempt)]
         /\ \A q \in Rows : /\ Len(attempts'[q]) = Len(attempts[q])
                            /\ DOMAIN attempts'[q] = DOMAIN attempts[q]
         /\ \A q \in Rows \ {r} : attempts'[q] = attempts[q]
         /\ \A j \in DOMAIN attempts[r] : attempts'[r][j] = IF j = k THEN a ELSE attempts[r][j]
<1>. DEFINE seq == [attempts[r] EXCEPT ![k] = a]
<1>1. attempts \in [Rows -> Seq(Attempt)] /\ attempts[r] \in Seq(Attempt)
      /\ DOMAIN attempts[r] = 1..Len(attempts[r])
  BY AttemptsTyped DEF Shape
<1>2. seq \in Seq(Attempt) /\ Len(seq) = Len(attempts[r])
      /\ \A j \in 1..Len(attempts[r]) : seq[j] = IF j = k THEN a ELSE attempts[r][j]
  BY <1>1, ExceptSeq
<1>3. DOMAIN seq = DOMAIN attempts[r]
  OBVIOUS
<1>. HIDE DEF seq
<1>4. attempts' = [attempts EXCEPT ![r] = seq]
  BY DEF seq
<1>. QED BY <1>1, <1>2, <1>3, <1>4

\* A run that ends unheard.
LEMMA SilentEndKeeps ==
  ASSUME IInv, NEW r \in Rows, NEW k \in DOMAIN attempts[r],
         attempts' = [attempts EXCEPT ![r][k].run = "none"],
         UNCHANGED <<status, deps, stale, retries, client, waiters, feed, strayed>>
  PROVE  IInv'
<1>. DEFINE a == [attempts[r][k] EXCEPT !.run = "none"]
<1>1. attempts[r][k] \in Attempt
  BY AttemptsTyped DEF IInv
<1>2. a \in Attempt /\ a.run = "none" /\ a.settled = attempts[r][k].settled
      /\ a.snapshot = attempts[r][k].snapshot
  BY <1>1 DEF Attempt, RunStates
<1>3. attempts' = [attempts EXCEPT ![r] = [attempts[r] EXCEPT ![k] = a]]
  OBVIOUS
<1>. HIDE DEF a
<1>4. /\ attempts' \in [Rows -> Seq(Attempt)]
      /\ \A q \in Rows : /\ Len(attempts'[q]) = Len(attempts[q])
                         /\ DOMAIN attempts'[q] = DOMAIN attempts[q]
      /\ \A q \in Rows \ {r} : attempts'[q] = attempts[q]
      /\ \A j \in DOMAIN attempts[r] : attempts'[r][j] = IF j = k THEN a ELSE attempts[r][j]
  <2>1. Shape
    BY DEF IInv
  <2>. QED BY ONLY <1>2, <1>3, <2>1, StartChanged, r \in Rows, k \in DOMAIN attempts[r]
<1>5. TypeOK'
  <2>1. \A q \in Rows : \A j \in DOMAIN attempts'[q] : attempts'[q][j] \in Attempt
    BY <1>2, <1>4 DEF IInv, TypeOK, Attempt
  <2>2. \A q \in Rows : client'[q] # 0 => client'[q] \in DOMAIN attempts'[q]
                                          /\ ~ attempts'[q][client'[q]].settled
    BY <1>2, <1>4, ClientsListen DEF IInv
  <2>. QED BY <2>1, <2>2 DEF IInv, TypeOK, Attempt
<1>6. RetriesCount'
  <2>1. ASSUME NEW t \in Tasks \ strayed PROVE RetryCounts(t)'
    <3>1. RetryCounts(t) /\ t \in Rows
      BY Bounds DEF IInv, RetriesCount
    <3>2. \A j \in DOMAIN attempts'[t] : /\ attempts'[t][j].snapshot = attempts[t][j].snapshot
                                         /\ attempts'[t][j].run = "live" =>
                                              attempts[t][j].run = "live"
      BY <1>2, <1>4, <3>1
    <3>. QED BY <1>4, <3>1, <3>2 DEF RetryCounts
  <2>. QED BY <2>1 DEF RetriesCount
<1>7. ConversationsBegin'
  <2>1. \A q \in Rows : attempts[q] = << >> => attempts'[q] = << >>
    BY <1>4, EmptySeq DEF IInv, Shape
  <2>. QED BY <2>1, Bounds DEF IInv, ConversationsBegin
<1>. QED BY <1>4, <1>5, <1>6, <1>7
         DEF IInv, Shape, DepsInOrder, RunningLimit, RunningTasks, SettledIsTold

-----------------------------------------------------------------------------
(* The other steps.                                                        *)

\* A run ends, is cancelled, or is followed by another.
LEMMA RunStepKeeps ==
  ASSUME IInv, NEW r \in Rows, NEW k \in DOMAIN attempts[r], RunStep(r, k)
  PROVE  IInv'
<1>1. CASE \E e \in Ends : RunEnds(r, k, e)
  BY <1>1, BroadcastKeeps DEF RunEnds, RunStates
<1>2. CASE \E e \in Ends : FollowUpEnds(r, k, e)
  BY <1>2, BroadcastKeeps, SilentEndKeeps DEF FollowUpEnds, RunStates
<1>3. CASE RunCancelled(r, k)
  BY <1>3, BroadcastKeeps DEF RunCancelled, RunStates, Ends
<1>4. CASE AbortedEnds(r, k)
  BY <1>4, BroadcastKeeps, SilentEndKeeps DEF AbortedEnds, RunStates, Ends
<1>. QED BY <1>1, <1>2, <1>3, <1>4 DEF RunStep

\* The time of a start is over.
LEMMA TimerKeeps ==
  ASSUME IInv, NEW t \in Tasks, NEW k \in DOMAIN attempts[t], SafetyTimer(t, k)
  PROVE  IInv'
<1>. DEFINE a == [attempts[t][k] EXCEPT !.settled = TRUE]
<1>0. t \in Rows
  BY Bounds
<1>1. attempts[t][k] \in Attempt
  BY <1>0, AttemptsTyped DEF IInv
<1>2. a \in Attempt /\ a.run = attempts[t][k].run /\ a.snapshot = attempts[t][k].snapshot
  BY <1>1 DEF Attempt
<1>3. attempts' = [attempts EXCEPT ![t] = [attempts[t] EXCEPT ![k] = a]]
  BY DEF SafetyTimer
<1>. HIDE DEF a
<1>4. /\ attempts' \in [Rows -> Seq(Attempt)]
      /\ \A q \in Rows : /\ Len(attempts'[q]) = Len(attempts[q])
                         /\ DOMAIN attempts'[q] = DOMAIN attempts[q]
      /\ \A q \in Rows \ {t} : attempts'[q] = attempts[q]
      /\ \A j \in DOMAIN attempts[t] : attempts'[t][j] = IF j = k THEN a ELSE attempts[t][j]
  BY <1>0, <1>2, <1>3, StartChanged DEF IInv
<1>5. /\ client' = [client EXCEPT ![t] = 0]
      /\ status' = [status EXCEPT ![t] = "failed"] /\ feed' = [feed EXCEPT ![t] = "failed"]
      /\ waiters' = waiters \ {t}
      /\ UNCHANGED <<deps, stale, retries, strayed>>
  BY DEF SafetyTimer, SettleTask, FeedStatus
<1>6. TypeOK'
  <2>1. \A q \in Rows : \A j \in DOMAIN attempts'[q] : attempts'[q][j] \in Attempt
    BY <1>2, <1>4 DEF IInv, TypeOK, Attempt
  <2>2. \A q \in Rows : client'[q] # 0 => client'[q] \in DOMAIN attempts'[q]
                                          /\ ~ attempts'[q][client'[q]].settled
    <3>1. \A q \in Rows : client'[q] # 0 => q # t /\ client'[q] = client[q]
      BY <1>0, <1>5 DEF IInv, Shape
    <3>. QED BY <1>4, <3>1, ClientsListen DEF IInv
  <2>. QED BY <1>0, <1>5, <2>1, <2>2 DEF IInv, TypeOK, Attempt, Settled, Ends
<1>7. RetriesCount'
  <2>1. ASSUME NEW u \in Tasks \ strayed PROVE RetryCounts(u)'
    <3>1. RetryCounts(u) /\ u \in Rows
      BY Bounds DEF IInv, RetriesCount
    <3>2. \A j \in DOMAIN attempts'[u] : /\ attempts'[u][j].snapshot = attempts[u][j].snapshot
                                         /\ attempts'[u][j].run = attempts[u][j].run
      BY <1>2, <1>4, <3>1
    <3>3. status'[u] \in {"absent", "waiting", "queued"} => status'[u] = status[u]
      BY <1>5, <3>1 DEF IInv, TypeOK
    <3>. QED BY <1>4, <1>5, <3>1, <3>2, <3>3 DEF RetryCounts
  <2>. QED BY <1>5, <2>1 DEF RetriesCount
<1>8. ConversationsBegin'
  BY <1>4, <1>5, Bounds DEF IInv, ConversationsBegin, TypeOK
<1>9. RunningLimit'
  <2>1. RunningTasks' \subseteq RunningTasks
    BY <1>5, Bounds DEF IInv, TypeOK, RunningTasks
  <2>. QED BY <2>1, FewerRunning DEF IInv
<1>10. SettledIsTold'
  BY <1>0, <1>5 DEF IInv, TypeOK, SettledIsTold, Settled, FeedStatus
<1>. QED BY <1>0, <1>4, <1>5, <1>6, <1>7, <1>8, <1>9, <1>10 DEF IInv, Shape, DepsInOrder

\* A task is spawned,
LEMMA SpawnKeeps ==
  ASSUME IInv, NEW t \in Tasks, Spawn(t)
  PROVE  IInv'
<1>1. PICK d \in DependsOn[t] : /\ deps' = [deps EXCEPT ![t] = d]
                                /\ status' = [status EXCEPT ![t] = IF d = {} THEN "queued" ELSE "waiting"]
  BY DEF Spawn
<1>2. d \subseteq Tasks \cup {Unknown} /\ \A u \in d \cap Tasks : u < t
  BY OrchestratorAssumption
<1>3. UNCHANGED <<stale, retries, attempts, client, waiters, feed, strayed>> /\ status[t] = "absent"
  BY DEF Spawn
<1>4. DepsInOrder'
  BY <1>1, <1>2 DEF IInv, DepsInOrder
<1>5. TypeOK'
  BY <1>1, <1>3, <1>4 DEF IInv, TypeOK, DepsInOrder
<1>6. RunningLimit'
  <2>1. RunningTasks' \subseteq RunningTasks
    BY <1>1, Bounds DEF IInv, TypeOK, RunningTasks
  <2>. QED BY <2>1, FewerRunning DEF IInv
<1>7. RetriesCount' /\ ConversationsBegin'
  BY <1>1, <1>3, Bounds DEF IInv, TypeOK, RetriesCount, RetryCounts, ConversationsBegin
<1>8. SettledIsTold'
  BY <1>1, <1>3, Bounds DEF IInv, TypeOK, SettledIsTold, Settled
<1>. QED BY <1>3, <1>4, <1>5, <1>6, <1>7, <1>8 DEF IInv, Shape

\* a row is killed,
LEMMA KillKeeps ==
  ASSUME IInv, NEW r \in Rows, Kill(r)
  PROVE  IInv'
<1>1. /\ status[r] \notin Settled \cup {"absent"}
      /\ status' = [status EXCEPT ![r] = "cancelled"] /\ feed' = [feed EXCEPT ![r] = "failed"]
      /\ waiters' = waiters \ {r} /\ UNCHANGED <<deps, stale, retries, attempts, client, strayed>>
  BY DEF Kill, SettleTask, FeedStatus
<1>2. TypeOK'
  BY <1>1 DEF IInv, TypeOK, Settled, Ends
<1>3. RunningLimit'
  <2>1. RunningTasks' \subseteq RunningTasks
    BY <1>1, Bounds DEF IInv, TypeOK, RunningTasks
  <2>. QED BY <2>1, FewerRunning DEF IInv
<1>4. RetriesCount' /\ ConversationsBegin'
  BY <1>1, Bounds DEF IInv, TypeOK, RetriesCount, RetryCounts, ConversationsBegin
<1>5. SettledIsTold'
  BY <1>1, Bounds DEF IInv, TypeOK, SettledIsTold, Settled, FeedStatus
<1>. QED BY <1>1, <1>2, <1>3, <1>4, <1>5 DEF IInv, Shape, DepsInOrder

\* somebody waits for a task, or for too long,
LEMMA WaitersKeep ==
  ASSUME IInv, NEW r \in Rows, Wait(r) \/ WaitTimeout(r)
  PROVE  IInv'
<1>1. /\ UNCHANGED <<status, deps, stale, retries, attempts, client, feed, strayed>>
      /\ waiters' \subseteq Awaited /\ \A t \in waiters' \ waiters : status[t] \notin Settled
  BY DEF IInv, TypeOK, Wait, WaitTimeout
<1>2. TypeOK' /\ Shape' /\ DepsInOrder' /\ ConversationsBegin'
  BY <1>1 DEF IInv, TypeOK, Shape, DepsInOrder, ConversationsBegin
<1>3. RetriesCount' /\ RunningLimit'
  BY <1>1 DEF IInv, RetriesCount, RetryCounts, RunningLimit, RunningTasks
<1>4. SettledIsTold'
  BY <1>1 DEF IInv, SettledIsTold
<1>. QED BY <1>2, <1>3, <1>4 DEF IInv

\* a task has waited too long for its dependencies,
LEMMA AgeKeeps ==
  ASSUME IInv, NEW t \in Tasks, Age(t)
  PROVE  IInv'
  BY DEF IInv, Age, TypeOK, Shape, DepsInOrder, ConversationsBegin, RetriesCount,
     RetryCounts, RunningLimit, RunningTasks, SettledIsTold

\* or nothing happens.
LEMMA StutterKeeps ==
  ASSUME IInv, UNCHANGED vars
  PROVE  IInv'
  BY DEF IInv, vars, TypeOK, Shape, DepsInOrder, ConversationsBegin, RetriesCount,
     RetryCounts, RunningLimit, RunningTasks, SettledIsTold

\* A conversation is promoted to a row.
LEMMA PromoteKeeps ==
  ASSUME IInv, NEW i \in Inline, Promote(i)
  PROVE  IInv'
<1>1. i \in Rows /\ i \notin Tasks
  BY Bounds
<1>2. PICK a \in Attempt : attempts' = [attempts EXCEPT ![i] = << a >>] /\ a.settled = FALSE
  <2>1. PICK outcome \in {"live", "refused"} : attempts' = [attempts EXCEPT ![i] = << Start(i, outcome) >>]
    BY DEF Promote
  <2>2. Start(i, outcome) \in Attempt /\ Start(i, outcome).settled = FALSE
    BY <1>1 DEF Start, Attempt, RunStates
  <2>. QED BY <2>1, <2>2
<1>3. /\ status[i] = "absent" /\ status' = [status EXCEPT ![i] = "running"]
      /\ feed' = [feed EXCEPT ![i] = "running"] /\ client' = [client EXCEPT ![i] = 1]
      /\ UNCHANGED <<deps, stale, retries, waiters, strayed>>
  BY DEF Promote
<1>4. << a >> \in Seq(Attempt) /\ DOMAIN << a >> = {1} /\ << a >>[1] = a /\ << a >> # << >>
  OBVIOUS
<1>5. Shape'
  BY <1>1, <1>2, <1>3, <1>4 DEF IInv, Shape
<1>6. TypeOK'
  BY <1>1, <1>2, <1>3, <1>4 DEF IInv, TypeOK, Shape, Attempt
<1>7. RunningLimit'
  <2>1. RunningTasks' \subseteq RunningTasks
    BY <1>1, <1>3, Bounds DEF IInv, TypeOK, RunningTasks
  <2>. QED BY <2>1, FewerRunning DEF IInv
<1>8. RetriesCount'
  BY <1>1, <1>2, <1>3, Bounds DEF IInv, TypeOK, RetriesCount, RetryCounts
<1>9. ConversationsBegin'
  BY <1>1, <1>2, <1>3, <1>4, Bounds DEF IInv, TypeOK, ConversationsBegin
<1>10. SettledIsTold'
  BY <1>1, <1>3, Bounds DEF IInv, TypeOK, SettledIsTold, Settled
<1>. QED BY <1>3, <1>5, <1>6, <1>7, <1>8, <1>9, <1>10 DEF IInv, DepsInOrder

\* The process ends and starts again.
LEMMA RestartKeeps ==
  ASSUME IInv, Restart
  PROVE  IInv'
<1>. DEFINE lost(r) == [k \in DOMAIN attempts[r] |->
                         [attempts[r][k] EXCEPT !.run = IF ~attempts[r][k].settled \/ @ = "lost" THEN "lost" ELSE "none",
                                                !.settled = TRUE]]
<1>1. /\ attempts' = [r \in Rows |-> lost(r)] /\ client' = [r \in Rows |-> 0] /\ waiters' = {}
      /\ UNCHANGED <<status, deps, stale, retries, feed, strayed>>
  BY DEF Restart
<1>2. ASSUME NEW r \in Rows
      PROVE  /\ attempts'[r] \in Seq(Attempt) /\ Len(attempts'[r]) = Len(attempts[r])
             /\ DOMAIN attempts'[r] = DOMAIN attempts[r]
             /\ \A k \in DOMAIN attempts[r] : /\ attempts'[r][k] \in Attempt
                                              /\ attempts'[r][k].run # "live"
                                              /\ attempts'[r][k].snapshot = attempts[r][k].snapshot
  <2>1. /\ Len(attempts[r]) \in Nat /\ DOMAIN attempts[r] = 1..Len(attempts[r])
        /\ attempts[r] \in [1..Len(attempts[r]) -> Attempt]
    BY AttemptsTyped DEF IInv
  <2>2. \A k \in 1..Len(attempts[r]) : /\ lost(r)[k] \in Attempt
                                       /\ lost(r)[k].run # "live"
                                       /\ lost(r)[k].snapshot = attempts[r][k].snapshot
    BY <2>1 DEF Attempt, RunStates
  <2>3. lost(r) = [k \in 1..Len(attempts[r]) |-> lost(r)[k]]
    BY <2>1
  <2>4. attempts'[r] = lost(r)
    BY <1>1
  <2>. HIDE DEF lost
  <2>5. lost(r) \in Seq(Attempt) /\ Len(lost(r)) = Len(attempts[r])
    BY <2>1, <2>2, <2>3, IsASeq, LenProperties
  <2>. QED BY <2>1, <2>2, <2>3, <2>4, <2>5
<1>3. attempts' \in [Rows -> Seq(Attempt)]
  BY <1>1, <1>2
<1>. HIDE DEF lost
<1>4. TypeOK' /\ Shape'
  <2>1. client' \in [Rows -> Nat] /\ \A r \in Rows : client'[r] = 0
    BY <1>1
  <2>2. \A r \in Rows : \A k \in DOMAIN attempts'[r] : attempts'[r][k] \in Attempt
    BY <1>2
  <2>3. waiters' \subseteq Awaited
    BY <1>1
  <2>. QED BY <1>1, <1>3, <2>1, <2>2, <2>3 DEF IInv, TypeOK, Shape, Attempt
<1>5. RetriesCount'
  <2>1. ASSUME NEW u \in Tasks \ strayed PROVE RetryCounts(u)'
    <3>1. RetryCounts(u) /\ u \in Rows
      BY Bounds DEF IInv, RetriesCount
    <3>2. /\ Len(attempts'[u]) = Len(attempts[u])
          /\ \A k \in DOMAIN attempts'[u] : /\ k \in DOMAIN attempts[u] /\ attempts'[u][k].run # "live"
                                            /\ attempts'[u][k].snapshot = attempts[u][k].snapshot
      BY <1>2, <3>1
    <3>3. status'[u] = status[u] /\ retries'[u] = retries[u]
      BY <1>1
    <3>. QED BY <3>1, <3>2, <3>3 DEF RetryCounts
  <2>. QED BY <1>1, <2>1 DEF RetriesCount
<1>6. ConversationsBegin'
  <2>1. \A i \in Inline : attempts[i] = << >> => attempts'[i] = << >>
    BY <1>2, EmptySeq, Bounds DEF IInv, Shape
  <2>. QED BY <1>1, <2>1 DEF IInv, ConversationsBegin
<1>. QED BY <1>1, <1>4, <1>5, <1>6 DEF IInv, DepsInOrder, RunningLimit, RunningTasks, SettledIsTold

\* The tick starts queued tasks, at most as many as the running rows leave room for.
LEMMA ToStartIsLimited ==
  ASSUME IInv, NEW now
  PROVE  /\ ToStart(now) \subseteq {t \in Tasks : now[t] = "queued"}
         /\ IsFiniteSet(ToStart(now) \cup RunningTasks)
         /\ Cardinality(ToStart(now) \cup RunningTasks) <= MaxConcurrent
<1>. DEFINE rows == {r \in Rows : status[r] = "running"}
            queued == {t \in Tasks : now[t] = "queued"}
            room == MaxConcurrent - Cardinality(rows)
            starts == ToStart(now)
<1>1. starts = {t \in queued : Cardinality({u \in queued : u < t}) < room}
  BY DEF ToStart
<1>2. /\ IsFiniteSet(rows) /\ IsFiniteSet(RunningTasks) /\ RunningTasks \subseteq rows
      /\ Cardinality(RunningTasks) <= Cardinality(rows)
      /\ Cardinality(rows) \in Nat /\ Cardinality(RunningTasks) \in Nat
  <2>1. RunningTasks \subseteq rows
    BY Bounds DEF RunningTasks
  <2>2. IsFiniteSet(rows)
    BY Bounds, FS_Subset
  <2>. HIDE DEF rows
  <2>. QED BY <2>1, <2>2, FS_Subset, FS_CardinalityType
<1>. HIDE DEF rows
<1>3. PICK m \in Nat : Tasks = 1..m
  BY TasksAreNumbers
<1>4. room \in Int /\ queued \in SUBSET (1..m) /\ IsFiniteSet(queued)
  BY <1>2, <1>3, Bounds, FS_Subset
<1>5. CASE room \in Nat
  <2>. HIDE DEF room
  <2>1. IsFiniteSet(starts) /\ Cardinality(starts) <= room /\ Cardinality(starts) \in Nat
    <3>. HIDE DEF queued, starts
    <3>1. IsFiniteSet(starts) /\ Cardinality(starts) <= room
      BY <1>1, <1>3, <1>4, <1>5, FirstOnes
    <3>. QED BY <3>1, FS_CardinalityType
  <2>. HIDE DEF starts
  <2>2. /\ IsFiniteSet(starts \cup RunningTasks)
        /\ Cardinality(starts \cup RunningTasks) <= Cardinality(starts) + Cardinality(RunningTasks)
    <3>1. starts \cap RunningTasks \subseteq starts
      OBVIOUS
    <3>2. IsFiniteSet(starts \cap RunningTasks) /\ Cardinality(starts \cap RunningTasks) \in Nat
      BY <2>1, <3>1, FS_Subset, FS_CardinalityType
    <3>3. /\ IsFiniteSet(starts \cup RunningTasks)
          /\ Cardinality(starts \cup RunningTasks)
               = Cardinality(starts) + Cardinality(RunningTasks) - Cardinality(starts \cap RunningTasks)
      BY <1>2, <2>1, FS_Union
    <3>. QED BY <1>2, <2>1, <3>2, <3>3
  <2>3. Cardinality(starts \cup RunningTasks) \in Nat
    BY <2>2, FS_CardinalityType
  <2>4. Cardinality(starts \cup RunningTasks) <= MaxConcurrent
    BY <1>2, <1>5, <2>1, <2>2, <2>3, Bounds DEF room
  <2>. QED BY <1>1, <2>2, <2>4 DEF starts
<1>6. CASE room \notin Nat
  <2>1. starts = {}
    <3>1. \A t \in queued : Cardinality({u \in queued : u < t}) \in Nat
      <4>1. \A t \in queued : {u \in queued : u < t} \subseteq queued
        OBVIOUS
      <4>. HIDE DEF queued
      <4>. QED BY <1>4, <4>1, FS_Subset, FS_CardinalityType
    <3>2. \A n \in Nat : ~ (n < room)
      <4>. HIDE DEF room
      <4>. QED BY <1>4, <1>6
    <3>. HIDE DEF queued, room, starts
    <3>. QED BY <1>1, <3>1, <3>2
  <2>2. Cardinality(RunningTasks) <= MaxConcurrent
    BY DEF IInv, RunningLimit
  <2>. HIDE DEF starts
  <2>3. starts \cup RunningTasks = RunningTasks
    BY <2>1
  <2>. QED BY <1>2, <2>1, <2>2, <2>3 DEF starts
<1>. QED BY <1>5, <1>6

\* The tick passes on what became of dependencies, and starts tasks.
LEMMA TickKeeps ==
  ASSUME IInv, Tick
  PROVE  IInv'
<1>. DEFINE now == Promoted
            starts == ToStart(now)
            fails(outcome) == {t \in Tasks : status[t] = "waiting" /\ now[t] = "failed"}
                                \cup {t \in starts : outcome[t] = "thrown"}
<1>1. PICK outcome \in [starts -> {"live", "refused", "thrown"}] :
        /\ status' = [r \in Rows |-> IF r \in fails(outcome) THEN "failed"
                                     ELSE IF r \in starts THEN "running"
                                     ELSE IF r \in Tasks THEN now[r] ELSE status[r]]
        /\ feed' = [r \in Rows |-> IF r \in fails(outcome) THEN "failed"
                                   ELSE IF r \in starts /\ feed[r] = "none" THEN "running"
                                   ELSE feed[r]]
        /\ waiters' = waiters \ fails(outcome)
        /\ attempts' = [r \in Rows |-> IF r \in starts THEN Append(attempts[r], Start(r, outcome[r]))
                                       ELSE attempts[r]]
        /\ client' = [r \in Rows |-> IF r \notin starts THEN client[r]
                                     ELSE IF outcome[r] = "thrown" THEN 0
                                     ELSE Len(attempts[r]) + 1]
  BY Zenon DEF Tick
<1>. DEFINE failed == fails(outcome)
<1>2. /\ failed = {t \in Tasks : status[t] = "waiting" /\ now[t] = "failed"}
                    \cup {t \in starts : outcome[t] = "thrown"}
      /\ status' = [r \in Rows |-> IF r \in failed THEN "failed"
                                   ELSE IF r \in starts THEN "running"
                                   ELSE IF r \in Tasks THEN now[r] ELSE status[r]]
      /\ feed' = [r \in Rows |-> IF r \in failed THEN "failed"
                                 ELSE IF r \in starts /\ feed[r] = "none" THEN "running"
                                 ELSE feed[r]]
      /\ waiters' = waiters \ failed
      /\ attempts' = [r \in Rows |-> IF r \in starts THEN Append(attempts[r], Start(r, outcome[r]))
                                     ELSE attempts[r]]
      /\ client' = [r \in Rows |-> IF r \notin starts THEN client[r]
                                   ELSE IF outcome[r] = "thrown" THEN 0
                                   ELSE Len(attempts[r]) + 1]
  BY <1>1, Zenon
<1>3. UNCHANGED <<deps, stale, retries, strayed>>
  BY DEF Tick
<1>4. /\ now \in [Tasks -> Statuses]
      /\ \A t \in Tasks : /\ status[t] # "waiting" => now[t] = status[t]
                          /\ status[t] = "waiting" => now[t] \in {"waiting", "queued", "failed"}
  BY PromotedTyped DEF IInv, TypeOK, Statuses
<1>5. /\ starts \subseteq {t \in Tasks : now[t] = "queued"}
      /\ IsFiniteSet(starts \cup RunningTasks)
      /\ Cardinality(starts \cup RunningTasks) <= MaxConcurrent
  BY ToStartIsLimited
<1>. HIDE DEF now, starts, fails, failed
<1>6. /\ starts \subseteq Tasks /\ \A t \in starts : status[t] \in {"queued", "waiting"} /\ now[t] = "queued"
      /\ failed \subseteq Tasks
      /\ \A t \in failed : status[t] \in {"queued", "waiting"}
  BY <1>2, <1>4, <1>5
<1>7. \A r \in Rows \ (starts \cup failed) :
        /\ r \in Inline \/ status[r] # "waiting" => status'[r] = status[r]
        /\ r \in Tasks /\ status[r] = "waiting" => status'[r] \in {"waiting", "queued"}
        /\ feed'[r] = feed[r]
  BY <1>2, <1>4, Bounds
<1>8. /\ \A r \in failed : status'[r] = "failed" /\ feed'[r] = "failed" /\ r \notin waiters'
      /\ \A r \in starts \ failed : /\ status'[r] = "running"
                                    /\ feed'[r] = IF feed[r] = "none" THEN "running" ELSE feed[r]
  BY <1>2, <1>6, Bounds
<1>9. /\ status' \in [Rows -> Statuses] /\ feed' \in [Rows -> {"none", "running"} \cup Ends]
      /\ waiters' \subseteq waiters /\ client' \in [Rows -> Nat]
  <2>1. \A r \in Rows : Len(attempts[r]) + 1 \in Nat
    BY AttemptsTyped DEF IInv
  <2>2. status \in [Rows -> Statuses] /\ feed \in [Rows -> {"none", "running"} \cup Ends]
        /\ client \in [Rows -> Nat]
    BY DEF IInv, TypeOK, Shape, Statuses
  <2>3. status' \in [Rows -> Statuses]
    BY <1>2, <1>4, <2>2 DEF Statuses, Settled
  <2>4. feed' \in [Rows -> {"none", "running"} \cup Ends]
    BY <1>2, <2>2 DEF Ends
  <2>5. waiters' \subseteq waiters /\ client' \in [Rows -> Nat]
    BY <1>2, <2>1, <2>2
  <2>. QED BY <2>3, <2>4, <2>5
<1>10. ASSUME NEW r \in starts
       PROVE  /\ r \in Tasks /\ r \in Rows
              /\ attempts'[r] \in Seq(Attempt) /\ Len(attempts'[r]) = Len(attempts[r]) + 1
              /\ DOMAIN attempts'[r] = 1..(Len(attempts[r]) + 1)
              /\ \A k \in 1..Len(attempts[r]) : attempts'[r][k] = attempts[r][k]
              /\ attempts'[r][Len(attempts[r]) + 1].snapshot = retries[r]
              /\ attempts'[r][Len(attempts[r]) + 1].settled = (outcome[r] = "thrown")
              /\ client'[r] = IF outcome[r] = "thrown" THEN 0 ELSE Len(attempts[r]) + 1
  <2>1. r \in Tasks /\ r \in Rows
    BY <1>6, Bounds
  <2>2. attempts'[r] = Append(attempts[r], Start(r, outcome[r]))
        /\ client'[r] = IF outcome[r] = "thrown" THEN 0 ELSE Len(attempts[r]) + 1
    BY <1>2, <2>1
  <2>3. /\ Start(r, outcome[r]) \in Attempt /\ Start(r, outcome[r]).snapshot = retries[r]
        /\ Start(r, outcome[r]).settled = (outcome[r] = "thrown")
    BY <2>1 DEF Start, Attempt, RunStates, IInv, TypeOK
  <2>4. attempts[r] \in Seq(Attempt) /\ Len(attempts[r]) \in Nat
    BY <2>1, AttemptsTyped DEF IInv
  <2>5. /\ attempts'[r] \in Seq(Attempt) /\ Len(attempts'[r]) = Len(attempts[r]) + 1
        /\ \A k \in 1..Len(attempts[r]) : attempts'[r][k] = attempts[r][k]
        /\ attempts'[r][Len(attempts[r]) + 1] = Start(r, outcome[r])
    BY <2>2, <2>3, <2>4, AppendProperties
  <2>6. DOMAIN attempts'[r] = 1..(Len(attempts[r]) + 1)
    BY <2>5, LenProperties
  <2>. QED BY <2>1, <2>2, <2>3, <2>5, <2>6
<1>11. \A r \in Rows \ starts : attempts'[r] = attempts[r] /\ client'[r] = client[r]
  BY <1>2
<1>12. Shape'
  <2>1. \A r \in Rows : attempts'[r] \in Seq(Attempt)
    BY <1>10, <1>11 DEF IInv, Shape
  <2>2. attempts' = [r \in Rows |-> attempts'[r]]
    BY <1>2
  <2>. QED BY <1>9, <2>1, <2>2 DEF Shape
<1>13. TypeOK'
  <2>1. \A r \in Rows : \A k \in DOMAIN attempts'[r] : attempts'[r][k] \in Attempt
    <3>1. \A r \in Rows : attempts'[r] \in [1..Len(attempts'[r]) -> Attempt]
      BY <1>12, LenProperties DEF Shape
    <3>. QED BY <3>1
  <2>2. ASSUME NEW r \in Rows, client'[r] # 0
        PROVE  client'[r] \in DOMAIN attempts'[r] /\ ~ attempts'[r][client'[r]].settled
    <3>1. CASE r \in starts
      <4>1. Len(attempts[r]) \in Nat
        BY AttemptsTyped DEF IInv
      <4>2. outcome[r] # "thrown" /\ client'[r] = Len(attempts[r]) + 1
        BY <1>10, <2>2, <3>1
      <4>3. client'[r] \in DOMAIN attempts'[r]
        BY <1>10, <3>1, <4>1, <4>2
      <4>4. attempts'[r][client'[r]].settled = FALSE
        BY <1>10, <3>1, <4>2
      <4>. QED BY <4>3, <4>4
    <3>2. CASE r \notin starts
      BY <1>11, <2>2, <3>2, ClientsListen DEF IInv
    <3>. QED BY <3>1, <3>2
  <2>. QED BY <1>3, <1>9, <2>1, <2>2 DEF IInv, TypeOK, Attempt, Statuses
<1>14. RetriesCount'
  <2>1. ASSUME NEW t \in Tasks \ strayed PROVE RetryCounts(t)'
    <3>1. RetryCounts(t) /\ t \in Rows /\ retries[t] \in Nat /\ Len(attempts[t]) \in Nat
          /\ DOMAIN attempts[t] = 1..Len(attempts[t]) /\ retries'[t] = retries[t]
      BY <1>3, AttemptsTyped, Bounds DEF IInv, TypeOK, RetriesCount
    <3>2. CASE t \in starts
      <4>1. Len(attempts[t]) = retries[t]
        BY <1>6, <3>1, <3>2 DEF RetryCounts
      <4>2. status'[t] \notin {"absent", "waiting", "queued"}
        BY <1>8, <3>2
      <4>3. \A k \in DOMAIN attempts'[t] : /\ attempts'[t][k].snapshot = k - 1
                                           /\ attempts'[t][k].run = "live" => k = retries[t] + 1
        <5>1. \A k \in DOMAIN attempts'[t] : k \in 1..Len(attempts[t]) \/ k = retries[t] + 1
          BY <1>10, <3>1, <3>2, <4>1
        <5>2. \A k \in 1..Len(attempts[t]) : /\ attempts'[t][k].snapshot = k - 1
                                             /\ attempts'[t][k].run = "live" => k = retries[t] + 1
          BY <1>10, <3>1, <3>2 DEF RetryCounts
        <5>3. attempts'[t][retries[t] + 1].snapshot = retries[t]
          BY <1>10, <3>2, <4>1
        <5>. QED BY <3>1, <5>1, <5>2, <5>3
      <4>4. Len(attempts'[t]) = retries[t] + 1 /\ retries[t] <= MaxRetries[t]
        BY <1>10, <3>1, <3>2, <4>1 DEF RetryCounts
      <4>. QED BY <3>1, <4>2, <4>3, <4>4 DEF RetryCounts
    <3>3. CASE t \notin starts
      <4>1. attempts'[t] = attempts[t]
        BY <1>11, <3>1, <3>3
      <4>2. status'[t] \in {"absent", "waiting", "queued"} =>
              status[t] \in {"absent", "waiting", "queued"}
        BY <1>6, <1>7, <1>8, <3>1, <3>3
      <4>. QED BY <3>1, <4>1, <4>2 DEF RetryCounts
    <3>. QED BY <3>2, <3>3
  <2>. QED BY <1>3, <2>1 DEF RetriesCount
<1>15. ConversationsBegin'
  BY <1>6, <1>7, <1>11, Bounds DEF IInv, ConversationsBegin
<1>16. RunningLimit'
  <2>1. RunningTasks' \subseteq starts \cup RunningTasks
    BY <1>7, <1>8, Bounds DEF RunningTasks
  <2>2. /\ IsFiniteSet(RunningTasks')
        /\ Cardinality(RunningTasks') <= Cardinality(starts \cup RunningTasks)
    BY <1>5, <2>1, FS_Subset
  <2>3. Cardinality(RunningTasks') \in Nat /\ Cardinality(starts \cup RunningTasks) \in Nat
    BY <1>5, <2>2, FS_CardinalityType
  <2>. QED BY <1>5, <2>2, <2>3, Bounds DEF RunningLimit
<1>17. SettledIsTold'
  <2>1. ASSUME NEW r \in Rows
        PROVE  /\ r \in Tasks /\ status'[r] \in Settled => r \notin waiters'
               /\ status'[r] \in Settled => feed'[r] = FeedStatus(status'[r])
               /\ feed'[r] = "running" => status'[r] \in {"queued", "running"}
    <3>1. CASE r \in failed
      BY <1>8, <3>1 DEF FeedStatus
    <3>2. CASE r \in starts \ failed
      BY <1>8, <3>2 DEF Settled
    <3>3. CASE r \notin starts \cup failed
      <4>1. /\ status'[r] = status[r] \/ (status[r] = "waiting" /\ status'[r] \in {"waiting", "queued"})
            /\ feed'[r] = feed[r]
        BY <1>7, <3>3, Bounds
      <4>. QED BY <1>9, <4>1 DEF IInv, SettledIsTold, Settled
    <3>. QED BY <3>1, <3>2, <3>3
  <2>. QED BY <2>1, Bounds DEF SettledIsTold
<1>. QED BY <1>3, <1>12, <1>13, <1>14, <1>15, <1>16, <1>17 DEF IInv, DepsInOrder

\* The invariant holds at the start,
LEMMA InitKeeps == Init => IInv
<1>. SUFFICES ASSUME Init PROVE IInv
  OBVIOUS
<1>1. << >> \in Seq(Attempt) /\ DOMAIN << >> = {} /\ Len(<< >>) = 0
  OBVIOUS
<1>2. TypeOK
  BY <1>1, Bounds DEF Init, TypeOK
<1>3. Shape /\ DepsInOrder /\ ConversationsBegin
  BY <1>1, Bounds DEF Init, Shape, DepsInOrder, ConversationsBegin
<1>4. RetriesCount
  BY <1>1, Bounds DEF Init, RetriesCount, RetryCounts
<1>5. RunningLimit
  <2>1. RunningTasks = {}
    BY Bounds DEF Init, RunningTasks
  <2>. QED BY <2>1, FS_EmptySet, Bounds DEF RunningLimit
<1>6. SettledIsTold
  BY Bounds DEF Init, SettledIsTold, Settled
<1>. QED BY <1>2, <1>3, <1>4, <1>5, <1>6 DEF IInv

\* and after every step.
LEMMA StepKeeps == IInv /\ [Next]_vars => IInv'
<1>. SUFFICES ASSUME IInv, [Next]_vars PROVE IInv'
  OBVIOUS
<1>1. CASE Tick
  BY <1>1, TickKeeps
<1>2. CASE Restart
  BY <1>2, RestartKeeps
<1>3. CASE \E e \in Ends : OtherRunEnds(e)
  BY <1>3, OtherEndKeeps
<1>4. ASSUME NEW t \in Tasks, Spawn(t) \/ Age(t) \/ \E k \in DOMAIN attempts[t] : SafetyTimer(t, k)
      PROVE  IInv'
  BY <1>4, SpawnKeeps, AgeKeeps, TimerKeeps
<1>5. CASE \E i \in Inline : Promote(i)
  BY <1>5, PromoteKeeps
<1>6. ASSUME NEW r \in Rows, \/ Kill(r) \/ Wait(r) \/ WaitTimeout(r)
                             \/ \E k \in DOMAIN attempts[r] : RunStep(r, k)
      PROVE  IInv'
  BY <1>6, KillKeeps, WaitersKeep, RunStepKeeps
<1>7. CASE UNCHANGED vars
  BY <1>7, StutterKeeps
<1>. QED BY <1>1, <1>2, <1>3, <1>4, <1>5, <1>6, <1>7 DEF Next

-----------------------------------------------------------------------------
(* The theorems.                                                           *)

\* The inductive invariant holds in every state of the orchestrator.
THEOREM Invariance == Spec => []IInv
  BY InitKeeps, StepKeeps, PTL DEF Spec

\* The types, and a registered client is that of a start whose timer has not fired.
THEOREM TypeCorrect == Spec => []TypeOK
<1>1. IInv => TypeOK
  BY DEF IInv
<1>. QED BY <1>1, Invariance, PTL

\* However ticks, ends, retries and timers interleave, no more tasks are running than the
\* limit allows, and no task that hears only its own runs is started more often than its
\* retries allow.
THEOREM LimitsAreKept == Spec => []LimitsKept
<1>1. IInv => LimitsKept
  <2>. SUFFICES ASSUME IInv PROVE LimitsKept
    OBVIOUS
  <2>1. ASSUME NEW t \in Tasks \ strayed PROVE Len(attempts[t]) <= MaxRetries[t] + 1
    <3>1. RetryCounts(t) /\ retries[t] \in Nat /\ MaxRetries[t] \in Nat
      BY Bounds DEF IInv, RetriesCount, TypeOK
    <3>. QED BY <3>1 DEF RetryCounts
  <2>. QED BY <2>1 DEF IInv, RunningLimit, RunningTasks, LimitsKept
<1>. QED BY <1>1, Invariance, PTL

\* When a task has settled nobody waits for it any longer, and the feed shows how it
\* ended.
THEOREM SettledAreTold == Spec => []SettledIsTold
<1>1. IInv => SettledIsTold
  BY DEF IInv
<1>. QED BY <1>1, Invariance, PTL

\* A settled row that changes its status was reached by an end or a timer.
StaysSettled(r) ==
  status[r] \in Settled /\ status'[r] # status[r] =>
    /\ ~Restart /\ Len(attempts'[r]) = Len(attempts[r])
    /\ \E k \in DOMAIN attempts[r] :
         /\ EndReaches(r, k)
         /\ \/ status'[r] \in Ends
            \/ status'[r] = "queued" /\ r \in Tasks /\ attempts[r][k].snapshot < MaxRetries[r]

\* A restart changes no row.
LEMMA RestartIsQuiet ==
  ASSUME Restart
  PROVE  status' = status
  BY DEF Restart

\* An end that is delivered ends the row, or sends it back to the queue.
LEMMA DeliveredStatus ==
  ASSUME IInv, NEW heard, NEW now, NEW e \in Ends, OfStarts(heard, now), Deliver(heard, e, now),
         NEW q \in Rows, heard[q] # 0
  PROVE  /\ Len(attempts'[q]) = Len(attempts[q]) /\ heard[q] \in DOMAIN attempts[q]
         /\ attempts'[q][heard[q]].settled
         /\ attempts'[q][heard[q]].run = now[q][heard[q]].run
         /\ \/ status'[q] \in Ends
            \/ status'[q] = "queued" /\ q \in Tasks /\ attempts[q][heard[q]].snapshot < MaxRetries[q]
<1>1. /\ Len(attempts'[q]) = Len(attempts[q]) /\ heard[q] \in DOMAIN attempts[q]
      /\ attempts'[q][heard[q]].settled
      /\ attempts'[q][heard[q]].run = now[q][heard[q]].run
  BY DeliverToStarts DEF IInv, OfStarts
<1>2. IF Requeues(q, heard[q], e) THEN status'[q] = "queued" ELSE status'[q] = e
  BY DeliverToRows DEF IInv
<1>. QED BY <1>1, <1>2 DEF Requeues

\* The end of a run reaches starts,
LEMMA BroadcastSettles ==
  ASSUME IInv, NEW r \in Rows, NEW k \in DOMAIN attempts[r], NEW e \in Ends,
         NEW run \in RunStates, attempts[r][k].run # run, Broadcast(r, k, e, run), NEW q \in Rows
  PROVE  StaysSettled(q)
<1>0. PICK heard, now : heard = Hearing(r, k) /\ now = Ended(r, k, run)
  OBVIOUS
<1>1. Deliver(heard, e, now)
  BY <1>0 DEF Broadcast, Hearing, Ended
<1>2. /\ OfStarts(heard, now)
      /\ \A p \in Rows : heard[p] = IF p = r THEN k ELSE client[p]
      /\ now[r][k].run = run
  BY <1>0, BroadcastReaches DEF IInv
<1>8. CASE q = r
  <2>1. heard[r] = k /\ k # 0
    BY <1>2, AttemptsTyped DEF IInv
  <2>2. /\ EndReaches(r, k) /\ Len(attempts'[r]) = Len(attempts[r])
        /\ \/ status'[r] \in Ends
           \/ status'[r] = "queued" /\ r \in Tasks /\ attempts[r][k].snapshot < MaxRetries[r]
    BY <1>1, <1>2, <2>1, DeliveredStatus DEF EndReaches
  <2>. QED BY <1>8, <2>2, RestartIsQuiet DEF StaysSettled
<1>9. CASE q # r /\ client[q] = 0
  <2>1. heard[q] = 0
    BY <1>2, <1>9
  <2>2. status'[q] = status[q]
    BY <1>1, <1>2, <2>1, DeliverToRows DEF IInv
  <2>. QED BY <2>2 DEF StaysSettled
<1>10. CASE q # r /\ client[q] # 0
  <2>1. /\ heard[q] = client[q] /\ client[q] \in DOMAIN attempts[q]
        /\ ~ attempts[q][client[q]].settled
    BY <1>2, <1>10, ClientsListen DEF IInv
  <2>2. /\ EndReaches(q, heard[q]) /\ Len(attempts'[q]) = Len(attempts[q])
        /\ \/ status'[q] \in Ends
           \/ status'[q] = "queued" /\ q \in Tasks /\ attempts[q][heard[q]].snapshot < MaxRetries[q]
    BY <1>1, <1>2, <1>10, <2>1, DeliveredStatus DEF EndReaches
  <2>. QED BY <2>1, <2>2, RestartIsQuiet DEF StaysSettled
<1>. QED BY <1>8, <1>9, <1>10

\* the end of a run of another session does,
LEMMA OtherEndSettles ==
  ASSUME IInv, NEW e \in Ends, OtherRunEnds(e), NEW q \in Rows
  PROVE  StaysSettled(q)
<1>1. Deliver(client, e, attempts)
  BY DEF OtherRunEnds
<1>2. OfStarts(client, attempts)
  BY ClientsListen DEF OfStarts, IInv, Shape
<1>3. CASE client[q] = 0
  <2>1. status'[q] = status[q]
    BY <1>1, <1>2, <1>3, DeliverToRows DEF IInv
  <2>. QED BY <2>1 DEF StaysSettled
<1>4. CASE client[q] # 0
  <2>1. client[q] \in DOMAIN attempts[q] /\ ~ attempts[q][client[q]].settled
    BY <1>4, ClientsListen DEF IInv
  <2>2. /\ EndReaches(q, client[q]) /\ Len(attempts'[q]) = Len(attempts[q])
        /\ \/ status'[q] \in Ends
           \/ status'[q] = "queued" /\ q \in Tasks /\ attempts[q][client[q]].snapshot < MaxRetries[q]
    BY <1>1, <1>2, <1>4, <2>1, DeliveredStatus DEF EndReaches
  <2>. QED BY <2>1, <2>2, RestartIsQuiet DEF StaysSettled
<1>. QED BY <1>3, <1>4

\* and so does every step of a run.
LEMMA RunStepSettles ==
  ASSUME IInv, NEW r \in Rows, NEW k \in DOMAIN attempts[r], RunStep(r, k), NEW q \in Rows
  PROVE  StaysSettled(q)
<1>1. CASE \E e \in Ends : RunEnds(r, k, e)
  BY <1>1, BroadcastSettles DEF RunEnds, RunStates
<1>2. CASE \E e \in Ends : FollowUpEnds(r, k, e)
  BY <1>2, BroadcastSettles DEF FollowUpEnds, RunStates, StaysSettled
<1>3. CASE RunCancelled(r, k)
  BY <1>3, BroadcastSettles DEF RunCancelled, RunStates, Ends
<1>4. CASE AbortedEnds(r, k)
  BY <1>4, BroadcastSettles DEF AbortedEnds, RunStates, Ends, StaysSettled
<1>. QED BY <1>1, <1>2, <1>3, <1>4 DEF RunStep

\* The tick leaves settled rows alone.
LEMMA TickSettles ==
  ASSUME IInv, Tick, NEW q \in Rows
  PROVE  StaysSettled(q)
<1>. DEFINE now == Promoted
            starts == ToStart(now)
            fails(outcome) == {t \in Tasks : status[t] = "waiting" /\ now[t] = "failed"}
                                \cup {t \in starts : outcome[t] = "thrown"}
<1>1. /\ now \in [Tasks -> Statuses]
      /\ \A t \in Tasks : status[t] # "waiting" => now[t] = status[t]
  BY PromotedTyped DEF IInv, TypeOK, Statuses
<1>2. starts \subseteq {t \in Tasks : now[t] = "queued"}
  BY ToStartIsLimited
<1>3. PICK outcome \in [starts -> {"live", "refused", "thrown"}] :
        status' = [r \in Rows |-> IF r \in fails(outcome) THEN "failed"
                                  ELSE IF r \in starts THEN "running"
                                  ELSE IF r \in Tasks THEN now[r] ELSE status[r]]
  BY Zenon DEF Tick
<1>. DEFINE failed == fails(outcome)
<1>5. /\ failed = {t \in Tasks : status[t] = "waiting" /\ now[t] = "failed"}
                    \cup {t \in starts : outcome[t] = "thrown"}
      /\ status' = [r \in Rows |-> IF r \in failed THEN "failed"
                                   ELSE IF r \in starts THEN "running"
                                   ELSE IF r \in Tasks THEN now[r] ELSE status[r]]
  BY <1>3, Zenon
<1>. HIDE DEF now, starts, fails, failed
<1>4. status[q] \in Settled => status'[q] = status[q]
  BY <1>1, <1>2, <1>5 DEF Settled
<1>. QED BY <1>4 DEF StaysSettled

\* A settled row changes its status only when an end or a timer reaches one of its
\* starts; it then shows an end, or is queued again if that start had retries left.  No
\* tick, kill, promotion or restart touches it.
THEOREM SettledRowsStay == Spec => SettledStays
<1>1. IInv /\ [Next]_vars => [\A r \in Rows : StaysSettled(r)]_vars
  <2>. SUFFICES ASSUME IInv, [Next]_vars, NEW q \in Rows, ~ UNCHANGED vars PROVE StaysSettled(q)
    OBVIOUS
  <2>1. CASE Tick
    BY <2>1, TickSettles
  <2>2. CASE Restart
    BY <2>2 DEF Restart, StaysSettled
  <2>3. CASE \E e \in Ends : OtherRunEnds(e)
    BY <2>3, OtherEndSettles
  <2>4. ASSUME NEW t \in Tasks, Spawn(t) \/ Age(t) PROVE StaysSettled(q)
    BY <2>4, Bounds DEF Spawn, Age, StaysSettled, IInv, TypeOK, Settled
  <2>5. ASSUME NEW t \in Tasks, NEW k \in DOMAIN attempts[t], SafetyTimer(t, k) PROVE StaysSettled(q)
    <3>1. CASE q # t
      BY <2>5, <3>1, Bounds DEF SafetyTimer, SettleTask, StaysSettled, IInv, TypeOK
    <3>2. CASE q = t
      <4>1. ~ attempts[t][k].settled
        BY <2>5 DEF SafetyTimer
      <4>2. attempts[t][k] \in Attempt /\ attempts[t] \in [1..Len(attempts[t]) -> Attempt]
            /\ attempts \in [Rows -> Seq(Attempt)] /\ DOMAIN attempts[t] = 1..Len(attempts[t])
        BY AttemptsTyped, Bounds DEF IInv, Shape
      <4>3. attempts'[t][k].settled /\ Len(attempts'[t]) = Len(attempts[t])
        BY <2>5, <4>2, Bounds DEF SafetyTimer, Attempt
      <4>4. status'[t] \in Ends
        BY <2>5, Bounds DEF SafetyTimer, SettleTask, Ends, IInv, TypeOK
      <4>. QED BY <3>2, <4>1, <4>3, <4>4, RestartIsQuiet DEF StaysSettled, EndReaches
    <3>. QED BY <3>1, <3>2
  <2>6. CASE \E i \in Inline : Promote(i)
    BY <2>6, Bounds DEF Promote, StaysSettled, IInv, TypeOK, Settled
  <2>7. ASSUME NEW r \in Rows, Kill(r) \/ Wait(r) \/ WaitTimeout(r) PROVE StaysSettled(q)
    BY <2>7 DEF Kill, SettleTask, Wait, WaitTimeout, StaysSettled, IInv, TypeOK
  <2>8. CASE \E r \in Rows : \E k \in DOMAIN attempts[r] : RunStep(r, k)
    BY <2>8, RunStepSettles
  <2>. QED BY <2>1, <2>2, <2>3, <2>4, <2>5, <2>6, <2>7, <2>8 DEF Next
<1>2. SettledStays <=> [][\A r \in Rows : StaysSettled(r)]_vars
  BY DEF SettledStays, StaysSettled
<1>. QED BY <1>1, <1>2, Invariance, PTL DEF Spec
=============================================================================
