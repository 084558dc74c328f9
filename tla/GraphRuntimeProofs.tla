-------------------------- MODULE GraphRuntimeProofs --------------------------
(***************************************************************************)
(* Theorems about GraphRuntime and GraphReview, for every set of nodes,    *)
(* every family of validated graphs and every bound.  The first part       *)
(* proves what dependencies and the end of a run need, the second that     *)
(* tables, retry plans and evidence stay consistent, that the revision     *)
(* identifies the state, and that every step is one the Lead was promised. *)
(***************************************************************************)
EXTENDS GraphReview, FiniteSetTheorems, SequenceTheorems, TLAPS

-----------------------------------------------------------------------------
(* The inductive invariant.                                                *)

(* A row points at one of the attempts of its node, or at none.            *)
RowPointsAtAttempt == \A n \in NodeId : row[n].attempt \in 0..Len(attempts[n])

(* The wave, the call that holds it and its children come and go together. *)
WaveHeld ==
    /\ loaded => (wave # 0 <=> phase # "none")
    /\ ~loaded => phase = "none"
    /\ phase = "none" => Claimed = {}

(* A child stands for a node of the graph and its current attempt; until   *)
(* it is done both are running, and a row runs as long as its attempt.     *)
ChildrenRun ==
    \A n \in Claimed :
        /\ n \in DOMAIN graph /\ row[n].attempt # 0
        /\ task[n] # "done" => Current(n).state = "running"
        /\ Current(n).state = "running" => row[n].runtime = "running"

(* Only pending nodes are at work or under review.                         *)
DecidedIsIdle == \A n \in NodeId : row[n].semantic # "pending" => row[n].runtime = "idle"

(* No node of the authored graph is cancelled.                             *)
AuthoredIsLive == \A n \in DOMAIN graph : row[n].semantic # "cancelled"

IInv ==
    /\ TypeOK
    /\ RowPointsAtAttempt
    /\ WaveHeld
    /\ ChildrenRun
    /\ DecidedIsIdle
    /\ AuthoredIsLive
    /\ DependenciesAccepted

-----------------------------------------------------------------------------
(* Lemmas on the authored graph and on the helpers of the actions.         *)

(* A validated graph is over known nodes, and its fields have their types. *)
LEMMA GraphType ==
    ASSUME NEW g \in Graph
    PROVE  /\ DOMAIN g \subseteq NodeId
           /\ \A n \in DOMAIN g : /\ g[n].packet \in Packet
                                 /\ g[n].depends_on \subseteq DOMAIN g
           /\ Acyclic(g)
BY GraphAssumption DEF ValidGraph, GraphNode

(* Reset contains the seed, and every dependent of a reset node that is    *)
(* not a barrier: what the fixpoint loop of the code ends with.            *)
LEMMA ResetClosed ==
    ASSUME NEW g \in Graph, NEW h \in Graph, NEW blocked
    PROVE  /\ Reset(g, h, blocked) \subseteq DOMAIN h
           /\ Added(g, h) \cup Changed(g, h) \subseteq Reset(g, h, blocked)
           /\ \A n \in DOMAIN h \ (blocked \ Changed(g, h)) :
                 h[n].depends_on \cap Reset(g, h, blocked) # {}
                     => n \in Reset(g, h, blocked)
<1>1. Added(g, h) \cup Changed(g, h) \subseteq DOMAIN h
  BY DEF Added, Changed
<1>2. Reset(g, h, blocked) \subseteq DOMAIN h
  BY DEF Reset
<1>3. Added(g, h) \cup Changed(g, h) \subseteq Reset(g, h, blocked)
  BY <1>1 DEF Reset, ClosedUnderDependents
<1>4. ASSUME NEW n \in DOMAIN h \ (blocked \ Changed(g, h)),
             NEW d \in h[n].depends_on, d \in Reset(g, h, blocked)
      PROVE  n \in Reset(g, h, blocked)
  <2>1. SUFFICES ASSUME NEW S \in SUBSET DOMAIN h,
                        ClosedUnderDependents(h, S, Added(g, h) \cup Changed(g, h),
                                              blocked \ Changed(g, h))
                 PROVE  n \in S
    BY DEF Reset
  <2>2. d \in S
    BY <1>4, <2>1 DEF Reset
  <2> QED
    BY <2>1, <2>2 DEF ClosedUnderDependents
<1> QED
  BY <1>2, <1>3, <1>4

(* A node that reconciliation keeps was authored before, as it is now.     *)
LEMMA KeptIsUnchanged ==
    ASSUME NEW g \in Graph, NEW h \in Graph, NEW blocked,
           NEW n \in DOMAIN h, n \notin Reset(g, h, blocked)
    PROVE  n \in DOMAIN g /\ g[n] = h[n]
BY ResetClosed DEF Added, Changed

(* The cardinalities that advance the revision are natural numbers.        *)
LEMMA NodesAreFinite == ASSUME NEW W \in SUBSET NodeId PROVE Cardinality(W) \in Nat
BY GraphAssumption, FS_Subset, FS_CardinalityType

(* What an action puts into a row or a list of attempts has its type.      *)
LEMMA StartedAttemptType ==
    ASSUME TypeOK, NEW n \in DOMAIN graph
    PROVE  /\ StartedAttempt(n) \in Attempt
           /\ [StartedAttempt(n) EXCEPT !.state = "failed"] \in Attempt
           /\ plans[n].session \in Nat
<1>1. n \in NodeId /\ graph[n].packet \in Packet
  BY GraphType DEF TypeOK
<1>2. plans[n] \in Plan \/ plans[n] = NoPlan
  BY <1>1 DEF TypeOK
<1>3. NothingConsumed \in [NodeId -> Nat]
  BY DEF NothingConsumed
<1>4. revision + 1 \in Nat
  BY DEF TypeOK
<1>5. /\ plans[n].session \in Nat /\ (plans[n].mode = "resume") \in BOOLEAN
      /\ plans[n] # NoPlan => plans[n].packet \in Packet
  BY <1>2 DEF Plan, NoPlan
<1> QED
  BY <1>1, <1>3, <1>4, <1>5 DEF StartedAttempt, Attempt, AttemptState, Turn

LEMMA StartedRowType ==
    ASSUME TypeOK, NEW n \in NodeId, NEW runtime \in RuntimeState, plans[n].session \in Nat
    PROVE  /\ StartedRow(n, runtime) \in Row
           /\ StartedRow(n, runtime).semantic = row[n].semantic
           /\ StartedRow(n, runtime).runtime = runtime
           /\ StartedRow(n, runtime).attempt = Len(attempts[n]) + 1
<1> DEFINE r == row[n]
           a == Len(attempts[n]) + 1
           s == plans[n].session
<1>1. r \in Row /\ a \in Nat /\ s \in Nat
  BY DEF TypeOK
<1>2. StartedRow(n, runtime) =
        [r EXCEPT !.runtime = runtime, !.attempt = a, !.session = s, !.turn = "none"]
  BY DEF StartedRow
<1> HIDE DEF r, a, s
<1>3. /\ StartedRow(n, runtime) \in Row
      /\ StartedRow(n, runtime).semantic = r.semantic
      /\ StartedRow(n, runtime).runtime = runtime
      /\ StartedRow(n, runtime).attempt = a
  BY <1>1, <1>2 DEF Row, Turn
<1> QED
  BY <1>3 DEF r, a

(* The start state satisfies the invariant.                                *)
LEMMA InitIInv == Init => IInv
<1> SUFFICES ASSUME Init PROVE IInv
  OBVIOUS
<1>1. Fresh \in Row /\ Absent \in Row
  BY DEF Fresh, Absent, Row, SemanticState, RuntimeState, Turn
<1>2. TypeOK
  BY <1>1 DEF Init, TypeOK
<1>3. \A n \in DOMAIN graph : n \in NodeId /\ row[n] = Fresh
  BY GraphType DEF Init
<1>4. RowPointsAtAttempt /\ DecidedIsIdle
  BY DEF Init, RowPointsAtAttempt, DecidedIsIdle, Fresh, Absent
<1>5. WaveHeld /\ ChildrenRun
  BY DEF Init, WaveHeld, ChildrenRun, Claimed
<1>6. AuthoredIsLive /\ DependenciesAccepted
  BY <1>3 DEF AuthoredIsLive, DependenciesAccepted, Fresh
<1> QED
  BY <1>2, <1>4, <1>5, <1>6 DEF IInv

-----------------------------------------------------------------------------
(* Each action keeps the invariant.                                        *)

(* Claiming a wave.                                                        *)
LEMMA DelegateNextKeeps ==
    ASSUME IInv, NEW W \in SUBSET NodeId, DelegateNext(W)
    PROVE  IInv'
<1> USE DEF IInv
<1>1. /\ W \subseteq DOMAIN graph
      /\ \A n \in W : /\ row[n].semantic = "pending"
                      /\ DependenciesSatisfied(graph, row, n)
  BY DEF DelegateNext, MayDelegate, WaveSelection, MaximalConflictFree, Runnable
<1>2. Cardinality(W) \in Nat /\ revision \in Nat
  BY NodesAreFinite DEF TypeOK
<1>3. \A n \in W : /\ StartedAttempt(n) \in Attempt
                   /\ StartedAttempt(n).state = "running"
                   /\ plans[n].session \in Nat
  BY <1>1, StartedAttemptType DEF StartedAttempt
<1>4. ASSUME NEW n \in NodeId
      PROVE  /\ row'[n] \in Row
             /\ row'[n].semantic = row[n].semantic
             /\ n \in W => row'[n].runtime = "running" /\ row'[n].attempt = Len(attempts[n]) + 1
             /\ n \notin W => row'[n] = row[n]
  <2>1. row[n] \in Row /\ row'[n] = IF n \in W THEN StartedRow(n, "running") ELSE row[n]
    BY DEF DelegateNext, TypeOK
  <2>2. CASE n \in W
    BY <1>3, <2>1, <2>2, StartedRowType DEF RuntimeState
  <2>3. CASE n \notin W
    BY <2>1, <2>3
  <2> QED
    BY <2>2, <2>3
<1>5. ASSUME NEW n \in NodeId
      PROVE  /\ attempts[n] \in Seq(Attempt) /\ attempts'[n] \in Seq(Attempt)
             /\ n \in W => attempts'[n] = Append(attempts[n], StartedAttempt(n))
             /\ n \notin W => attempts'[n] = attempts[n]
             /\ task'[n] = IF n \in W THEN "created" ELSE task[n]
  <2>1. attempts[n] \in Seq(Attempt)
    BY DEF TypeOK
  <2>2. /\ attempts'[n] = IF n \in W THEN Append(attempts[n], StartedAttempt(n)) ELSE attempts[n]
        /\ task'[n] = IF n \in W THEN "created" ELSE task[n]
    BY DEF DelegateNext
  <2> QED
    BY <1>3, <2>1, <2>2
<1>6. TypeOK'
  <2>1. row' \in [NodeId -> Row]
    BY <1>4 DEF DelegateNext
  <2>2. attempts' \in [NodeId -> Seq(Attempt)]
    BY <1>5 DEF DelegateNext
  <2>3. /\ plans' \in [NodeId -> Plan \cup {NoPlan}]
        /\ task' \in [NodeId -> {"none", "created", "executing", "done"}]
    BY DEF DelegateNext, TypeOK
  <2> QED
    BY <1>2, <2>1, <2>2, <2>3 DEF TypeOK, DelegateNext
<1>7. RowPointsAtAttempt'
  BY <1>4, <1>5 DEF RowPointsAtAttempt
<1>8. Claimed = {} /\ Claimed' = W
  <2>1. Claimed = {}
    BY DEF WaveHeld, DelegateNext, MayDelegate
  <2> QED
    BY <1>5, <2>1 DEF Claimed
<1>9. WaveHeld'
  BY <1>2 DEF WaveHeld, DelegateNext, MayDelegate
<1>10. ChildrenRun'
  <2>1. ASSUME NEW n \in W
        PROVE  /\ n \in DOMAIN graph' /\ row'[n].attempt # 0
               /\ Current(n)'.state = "running" /\ row'[n].runtime = "running"
    BY <1>1, <1>3, <1>4, <1>5 DEF Current, DelegateNext
  <2> QED
    BY <1>8, <2>1 DEF ChildrenRun
<1>11. DecidedIsIdle'
  BY <1>1, <1>4 DEF DecidedIsIdle
<1>12. AuthoredIsLive' /\ DependenciesAccepted'
  <2>1. graph' = graph /\ DOMAIN graph \subseteq NodeId
    BY GraphType DEF TypeOK, DelegateNext
  <2>2. \A n \in DOMAIN graph : graph[n].depends_on \subseteq NodeId
    BY GraphType DEF TypeOK
  <2>3. \A n \in DOMAIN graph :
          DependenciesSatisfied(graph, row, n) => DependenciesSatisfied(graph, row', n)
    BY <1>4, <2>2 DEF DependenciesSatisfied
  <2> QED
    BY <1>1, <1>4, <2>1, <2>3 DEF AuthoredIsLive, DependenciesAccepted
<1> QED
  BY <1>6, <1>7, <1>9, <1>10, <1>11, <1>12

(* Claiming a wave of which a later start fails.                           *)
LEMMA DelegateStartFailsKeeps ==
    ASSUME IInv, NEW W \in SUBSET NodeId, NEW C \in SUBSET W, DelegateStartFails(W, C)
    PROVE  IInv'
<1> USE DEF IInv
<1> DEFINE A(n) == [StartedAttempt(n) EXCEPT !.state = "failed"]
<1>1. /\ C \subseteq DOMAIN graph
      /\ \A n \in C : /\ row[n].semantic = "pending"
                      /\ DependenciesSatisfied(graph, row, n)
  BY DEF DelegateStartFails, MayDelegate, WaveSelection, MaximalConflictFree, Runnable
<1>2. Cardinality(C) \in Nat /\ revision \in Nat
  BY NodesAreFinite DEF TypeOK
<1>3. \A n \in C : A(n) \in Attempt /\ plans[n].session \in Nat
  BY <1>1, StartedAttemptType
<1>4. ASSUME NEW n \in NodeId
      PROVE  /\ attempts'[n] \in Seq(Attempt)
             /\ Len(attempts'[n]) = IF n \in C THEN Len(attempts[n]) + 1 ELSE Len(attempts[n])
  <2> DEFINE a == A(n)
  <2>1. /\ attempts[n] \in Seq(Attempt)
        /\ attempts'[n] = IF n \in C THEN Append(attempts[n], a) ELSE attempts[n]
    BY DEF DelegateStartFails, TypeOK
  <2>2. n \in C => a \in Attempt
    BY <1>3
  <2> HIDE DEF a
  <2> QED
    BY <2>1, <2>2
<1> HIDE DEF A
<1>5. ASSUME NEW n \in NodeId
      PROVE  /\ row'[n] \in Row
             /\ row'[n].semantic = row[n].semantic
             /\ n \in C => row'[n].runtime = "failed" /\ row'[n].attempt = Len(attempts[n]) + 1
             /\ n \notin C => row'[n] = row[n]
  <2>1. row[n] \in Row /\ row'[n] = IF n \in C THEN StartedRow(n, "failed") ELSE row[n]
    BY DEF DelegateStartFails, TypeOK
  <2>2. CASE n \in C
    BY <1>3, <2>1, <2>2, StartedRowType DEF RuntimeState, ReviewableRuntime
  <2>3. CASE n \notin C
    BY <2>1, <2>3
  <2> QED
    BY <2>2, <2>3
<1>6. TypeOK'
  <2>1. row' \in [NodeId -> Row]
    BY <1>5 DEF DelegateStartFails
  <2>2. attempts' \in [NodeId -> Seq(Attempt)]
    BY <1>4 DEF DelegateStartFails
  <2> QED
    BY <1>2, <2>1, <2>2 DEF TypeOK, DelegateStartFails
<1>7. RowPointsAtAttempt'
  BY <1>4, <1>5, LenProperties DEF RowPointsAtAttempt, TypeOK
<1>8. Claimed = {} /\ Claimed' = {}
  BY DEF WaveHeld, DelegateStartFails, MayDelegate, Claimed
<1>9. WaveHeld'
  BY <1>8 DEF WaveHeld, DelegateStartFails
<1>10. ChildrenRun'
  BY <1>8 DEF ChildrenRun
<1>11. DecidedIsIdle'
  BY <1>1, <1>5 DEF DecidedIsIdle
<1>12. AuthoredIsLive' /\ DependenciesAccepted'
  <2>1. graph' = graph /\ DOMAIN graph \subseteq NodeId
    BY GraphType DEF TypeOK, DelegateStartFails
  <2>2. \A n \in DOMAIN graph : graph[n].depends_on \subseteq NodeId
    BY GraphType DEF TypeOK
  <2>3. \A n \in DOMAIN graph :
          DependenciesSatisfied(graph, row, n) => DependenciesSatisfied(graph, row', n)
    BY <1>5, <2>2 DEF DependenciesSatisfied
  <2> QED
    BY <1>1, <1>5, <2>1, <2>3 DEF AuthoredIsLive, DependenciesAccepted
<1> QED
  BY <1>6, <1>7, <1>9, <1>10, <1>11, <1>12

(* A child that begins.                                                    *)
LEMMA TaskBeginsKeeps ==
    ASSUME IInv, NEW n \in NodeId, TaskBegins(n)
    PROVE  IInv'
<1> USE DEF IInv
<1> DEFINE i == row[n].attempt
           consumed == [d \in NodeId |-> IF d \in graph[n].depends_on THEN row[d].attempt ELSE 0]
<1>1. n \in Claimed /\ n \in DOMAIN graph /\ i \in 1..Len(attempts[n])
  BY DEF TaskBegins, Claimed, ChildrenRun, RowPointsAtAttempt
<1>2. /\ attempts[n] \in Seq(Attempt) /\ attempts[n][i] \in Attempt
      /\ consumed \in [NodeId -> Nat]
  <2>1. attempts[n] \in Seq(Attempt) /\ \A d \in NodeId : row[d] \in Row
    BY DEF TypeOK
  <2>2. \A d \in NodeId : row[d].attempt \in Nat
    BY <2>1 DEF Row
  <2> QED
    BY <1>1, <2>1, <2>2
<1>3. attempts' = [attempts EXCEPT ![n][i].inputs = consumed]
  BY DEF TaskBegins
<1> HIDE DEF i, consumed
<1>4. ASSUME NEW m \in NodeId
      PROVE  /\ attempts'[m] \in Seq(Attempt) /\ Len(attempts'[m]) = Len(attempts[m])
             /\ \A k \in 1..Len(attempts[m]) : attempts'[m][k].state = attempts[m][k].state
  <2>1. attempts[m] \in Seq(Attempt)
    BY DEF TypeOK
  <2>2. CASE m # n
    BY <1>3, <2>1, <2>2 DEF TypeOK
  <2>3. CASE m = n
    <3> DEFINE a == attempts[n][i]
               b == [a EXCEPT !.inputs = consumed]
    <3>1. b \in Attempt /\ b.state = a.state
      <4> HIDE DEF a
      <4>1. a \in Attempt
        BY <1>2 DEF a
      <4> QED
        BY <1>2, <4>1 DEF Attempt
    <3>2. attempts'[n] = [attempts[n] EXCEPT ![i] = b]
      BY <1>3 DEF TypeOK
    <3> HIDE DEF b
    <3>3. attempts'[n] \in Seq(Attempt) /\ Len(attempts'[n]) = Len(attempts[n])
      BY <1>1, <1>2, <3>1, <3>2, ExceptSeq
    <3>4. \A k \in 1..Len(attempts[n]) :
            attempts'[n][k] = IF k = i THEN b ELSE attempts[n][k]
      BY <1>1, <1>2, <3>2
    <3> QED
      BY <2>3, <3>1, <3>3, <3>4
  <2> QED
    BY <2>2, <2>3
<1>5. TypeOK'
  <2>1. attempts' \in [NodeId -> Seq(Attempt)]
    BY <1>3, <1>4 DEF TypeOK
  <2> QED
    BY <2>1 DEF TypeOK, TaskBegins
<1>6. RowPointsAtAttempt' /\ DecidedIsIdle' /\ AuthoredIsLive' /\ DependenciesAccepted'
  BY <1>4 DEF RowPointsAtAttempt, DecidedIsIdle, AuthoredIsLive, DependenciesAccepted,
              DependenciesSatisfied, TaskBegins
<1>7. Claimed' = Claimed
  BY DEF Claimed, TaskBegins, TypeOK
<1>8. WaveHeld'
  BY <1>7 DEF WaveHeld, TaskBegins
<1>9. ChildrenRun'
  <2>1. \A m \in Claimed : m \in NodeId /\ Current(m)'.state = Current(m).state
    BY <1>4 DEF Claimed, ChildrenRun, RowPointsAtAttempt, Current, TaskBegins
  <2>2. \A m \in Claimed : task'[m] # "done" => task[m] # "done"
    BY <2>1 DEF TaskBegins, TypeOK
  <2> QED
    BY <1>7, <2>1, <2>2 DEF ChildrenRun, TaskBegins
<1> QED
  BY <1>5, <1>6, <1>8, <1>9

(* What FinishAttempt does to the one row and the one attempt of child n:  *)
(* both end in the same state, and the child may be done or not.           *)
LEMMA FinishAttemptKeeps ==
    ASSUME IInv, NEW n \in NodeId, task[n] = "executing",
           NEW state \in AttemptState \ {"running"}, NEW session \in Nat, NEW turn \in Turn,
           FinishAttempt(n, state, session, turn),
           task' = [task EXCEPT ![n] = "done"],
           UNCHANGED <<loaded, graph, wave, plans, phase>>
    PROVE  IInv'
<1> USE DEF IInv
<1> DEFINE i == row[n].attempt
           a == attempts[n][i]
           b == [a EXCEPT !.state = state, !.session = session, !.turn = turn]
           r == row[n]
           q == [r EXCEPT !.runtime = state, !.session = session, !.turn = turn]
<1>1. n \in Claimed /\ n \in DOMAIN graph /\ i \in 1..Len(attempts[n])
  BY DEF Claimed, ChildrenRun, RowPointsAtAttempt
<1>2. a \in Attempt /\ r \in Row
  BY <1>1 DEF TypeOK
<1>3. attempts' = [attempts EXCEPT ![n][i] = b] /\ row' = [row EXCEPT ![n] = q]
  BY DEF FinishAttempt
<1>4. r.runtime = "running" /\ r.semantic = "pending"
  BY <1>1 DEF ChildrenRun, DecidedIsIdle
<1> HIDE DEF a, r
<1>5. b \in Attempt /\ b.state = state
  BY <1>2 DEF Attempt
<1>6. /\ q \in Row /\ q.semantic = r.semantic /\ q.runtime = state /\ q.attempt = r.attempt
  BY <1>2 DEF Row, RuntimeState, ReviewableRuntime, AttemptState
<1> HIDE DEF b, q
<1>7. ASSUME NEW m \in NodeId
      PROVE  /\ row'[m] \in Row /\ row'[m].semantic = row[m].semantic
             /\ row'[m].attempt = row[m].attempt
             /\ m # n => row'[m] = row[m]
             /\ row'[n].runtime = state
  BY <1>3, <1>6 DEF r, TypeOK
<1>8. ASSUME NEW m \in NodeId
      PROVE  /\ attempts'[m] \in Seq(Attempt) /\ Len(attempts'[m]) = Len(attempts[m])
             /\ m # n => attempts'[m] = attempts[m]
             /\ attempts'[n][i] = b
  <2>1. attempts[m] \in Seq(Attempt) /\ attempts[n] \in Seq(Attempt)
    BY DEF TypeOK
  <2>2. CASE m # n
    BY <1>1, <1>3, <2>1, <2>2 DEF TypeOK
  <2>3. CASE m = n
    <3>1. attempts'[n] = [attempts[n] EXCEPT ![i] = b]
      BY <1>3 DEF TypeOK
    <3>2. attempts'[n] \in Seq(Attempt) /\ Len(attempts'[n]) = Len(attempts[n])
      BY <1>1, <1>5, <2>1, <3>1, ExceptSeq
    <3> QED
      BY <1>1, <2>1, <2>3, <3>1, <3>2
  <2> QED
    BY <2>2, <2>3
<1>9. TypeOK'
  <2>1. row' \in [NodeId -> Row]
    BY <1>3, <1>7 DEF TypeOK
  <2>2. attempts' \in [NodeId -> Seq(Attempt)]
    BY <1>3, <1>8 DEF TypeOK
  <2> QED
    BY <2>1, <2>2 DEF TypeOK, FinishAttempt
<1>10. RowPointsAtAttempt'
  BY <1>7, <1>8 DEF RowPointsAtAttempt
<1>11. Claimed' = Claimed /\ \A m \in NodeId \ {n} : task'[m] = task[m]
  BY DEF Claimed, TypeOK
<1>12. WaveHeld'
  BY <1>11 DEF WaveHeld
<1>13. ChildrenRun'
  <2>1. ASSUME NEW m \in Claimed
        PROVE  /\ m \in DOMAIN graph' /\ row'[m].attempt # 0
               /\ task'[m] # "done" => Current(m)'.state = "running"
               /\ Current(m)'.state = "running" => row'[m].runtime = "running"
    <3>1. CASE m = n
      BY <1>1, <1>5, <1>7, <1>8, <3>1 DEF ChildrenRun, Current, TypeOK
    <3>2. CASE m # n
      BY <1>7, <1>8, <1>11, <3>2 DEF ChildrenRun, Current, Claimed
    <3> QED
      BY <3>1, <3>2
  <2> QED
    BY <1>11, <2>1 DEF ChildrenRun
<1>14. DecidedIsIdle'
  BY <1>4, <1>7 DEF DecidedIsIdle, r
<1>15. AuthoredIsLive' /\ DependenciesAccepted'
  <2>1. /\ DOMAIN graph \subseteq NodeId
        /\ \A m \in DOMAIN graph : graph[m].depends_on \subseteq NodeId
    BY GraphType DEF TypeOK
  <2>2. \A m \in DOMAIN graph :
          DependenciesSatisfied(graph, row, m) => DependenciesSatisfied(graph, row', m)
    BY <1>7, <2>1 DEF DependenciesSatisfied
  <2> QED
    BY <1>1, <1>4, <1>7, <2>1, <2>2 DEF AuthoredIsLive, DependenciesAccepted, r
<1> QED
  BY <1>9, <1>10, <1>12, <1>13, <1>14, <1>15

(* A child that ends, with a result or with an exception.                  *)
LEMMA ChildEndsKeeps ==
    ASSUME IInv, NEW n \in NodeId,
           \/ \E s \in AttemptState, t \in Turn : AttemptFinishes(n, s, t)
           \/ \E s \in 0..Len(attempts[n]) : AttemptRaises(n, s)
    PROVE  IInv'
<1> USE DEF IInv
<1>1. CASE \E s \in AttemptState, t \in Turn : AttemptFinishes(n, s, t)
  <2>1. PICK s \in AttemptState, t \in Turn : AttemptFinishes(n, s, t)
    BY <1>1
  <2>2. task[n] = "executing" /\ s \in AttemptState \ {"running"}
    BY <2>1 DEF AttemptFinishes
  <2>3. NativeSession(n) \in Nat
    <3>1. row[n] \in Row /\ Current(n) \in Attempt
      BY <2>2 DEF Claimed, ChildrenRun, RowPointsAtAttempt, Current, TypeOK
    <3> QED
      BY <3>1 DEF NativeSession, Row, Attempt
  <2> QED
    BY <2>1, <2>2, <2>3, FinishAttemptKeeps DEF AttemptFinishes
<1>2. CASE \E s \in 0..Len(attempts[n]) : AttemptRaises(n, s)
  <2>1. PICK s \in 0..Len(attempts[n]) : AttemptRaises(n, s)
    BY <1>2
  <2>2. s \in Nat
    BY DEF TypeOK
  <2>3. "failed" \in AttemptState \ {"running"} /\ "none" \in Turn
    BY DEF AttemptState, Turn
  <2> QED
    BY <2>1, <2>2, <2>3, FinishAttemptKeeps DEF AttemptRaises
<1> QED
  BY <1>1, <1>2

(* Cancellation of the call that holds the wave.                           *)
LEMMA CancelKeeps == ASSUME IInv, Cancel PROVE IInv'
<1> USE DEF IInv
<1>1. TypeOK'
  BY DEF TypeOK, Cancel
<1>2. Claimed' = Claimed
  BY DEF Claimed, Cancel, TypeOK
<1>3. WaveHeld'
  BY <1>2 DEF WaveHeld, Cancel
<1>4. ChildrenRun'
  <2>1. \A n \in Claimed : n \in NodeId /\ (task'[n] # "done" => task[n] # "done")
    BY DEF Claimed, Cancel
  <2>2. \A n \in Claimed : Current(n)' = Current(n)
    BY DEF Current, Cancel
  <2> QED
    BY <1>2, <2>1, <2>2 DEF ChildrenRun, Cancel
<1>5. /\ RowPointsAtAttempt' /\ DecidedIsIdle' /\ AuthoredIsLive'
      /\ DependenciesAccepted'
  BY DEF RowPointsAtAttempt, DecidedIsIdle, AuthoredIsLive, DependenciesAccepted,
         DependenciesSatisfied, Cancel
<1> QED
  BY <1>1, <1>3, <1>4, <1>5

(* The end of a wave.                                                      *)
LEMMA CloseWaveKeeps == ASSUME IInv, CloseWave PROVE IInv'
<1> USE DEF IInv
<1>1. ASSUME NEW n \in Unfinished
      PROVE  /\ n \in NodeId /\ n \in DOMAIN graph
             /\ row[n].attempt \in 1..Len(attempts[n])
             /\ Current(n) \in Attempt
             /\ row[n].runtime = "running" /\ row[n].semantic = "pending"
  BY DEF Unfinished, Claimed, ChildrenRun, RowPointsAtAttempt, Current, TypeOK, DecidedIsIdle
<1>2. ASSUME NEW n \in NodeId
      PROVE  /\ row'[n] \in Row /\ row'[n].semantic = row[n].semantic
             /\ row'[n].attempt = row[n].attempt
             /\ n \notin Unfinished => row'[n] = row[n]
             /\ n \in Unfinished => row'[n].runtime = "failed"
  <2> DEFINE r == row[n]
             s == Current(n).session
  <2>1. r \in Row
    BY DEF TypeOK
  <2>2. row'[n] = IF n \in Unfinished
                  THEN [r EXCEPT !.runtime = "failed", !.session = s, !.turn = "none"]
                  ELSE r
    BY DEF CloseWave
  <2>3. n \in Unfinished => s \in Nat
    BY <1>1 DEF Attempt
  <2> HIDE DEF r, s
  <2>4. /\ row'[n] \in Row /\ row'[n].semantic = r.semantic /\ row'[n].attempt = r.attempt
        /\ n \notin Unfinished => row'[n] = r
        /\ n \in Unfinished => row'[n].runtime = "failed"
    BY <2>1, <2>2, <2>3 DEF Row, RuntimeState, ReviewableRuntime, Turn
  <2> QED
    BY <2>4 DEF r
<1>3. ASSUME NEW n \in NodeId
      PROVE  attempts'[n] \in Seq(Attempt) /\ Len(attempts'[n]) = Len(attempts[n])
  <2> DEFINE i == row[n].attempt
             a == attempts[n][i]
             b == [a EXCEPT !.state = "failed"]
  <2>1. /\ attempts[n] \in Seq(Attempt)
        /\ attempts'[n] = IF n \in Unfinished THEN [attempts[n] EXCEPT ![i] = b]
                                               ELSE attempts[n]
    BY DEF TypeOK, CloseWave
  <2>2. n \in Unfinished => i \in 1..Len(attempts[n]) /\ a \in Attempt
    BY <1>1 DEF Current
  <2> HIDE DEF a, i
  <2>3. n \in Unfinished => b \in Attempt
    BY <2>2 DEF Attempt, AttemptState
  <2> HIDE DEF b
  <2> QED
    BY <2>1, <2>2, <2>3, ExceptSeq
<1>4. TypeOK'
  <2>1. row' \in [NodeId -> Row] /\ attempts' \in [NodeId -> Seq(Attempt)]
    BY <1>2, <1>3 DEF CloseWave
  <2>2. revision' \in Nat
    <3>1. Cardinality(Unfinished) \in Nat
      BY NodesAreFinite DEF Unfinished, Claimed
    <3>2. revision \in Nat /\ revision' = revision + Cardinality(Unfinished) + 1
      BY DEF CloseWave, TypeOK
    <3> QED
      BY <3>1, <3>2
  <2> QED
    BY <2>1, <2>2 DEF TypeOK, CloseWave
<1>5. RowPointsAtAttempt'
  BY <1>2, <1>3 DEF RowPointsAtAttempt
<1>6. Claimed' = {}
  BY DEF CloseWave, Claimed
<1>7. WaveHeld' /\ ChildrenRun'
  BY <1>6 DEF WaveHeld, ChildrenRun, CloseWave
<1>8. DecidedIsIdle'
  BY <1>1, <1>2 DEF DecidedIsIdle
<1>9. AuthoredIsLive' /\ DependenciesAccepted'
  <2>1. /\ graph' = graph /\ DOMAIN graph \subseteq NodeId
        /\ \A m \in DOMAIN graph : graph[m].depends_on \subseteq NodeId
    BY GraphType DEF TypeOK, CloseWave
  <2>2. \A m \in DOMAIN graph :
          DependenciesSatisfied(graph, row, m) => DependenciesSatisfied(graph, row', m)
    BY <1>2, <2>1 DEF DependenciesSatisfied
  <2> QED
    BY <1>1, <1>2, <2>1, <2>2 DEF AuthoredIsLive, DependenciesAccepted
<1> QED
  BY <1>4, <1>5, <1>7, <1>8, <1>9

(* The Lead's decisions: they touch pending nodes only, so no accepted     *)
(* dependency is taken back.                                               *)
LEMMA SubmitDecisionsKeeps ==
    ASSUME IInv, NEW D \in SUBSET NodeId, NEW decide \in [D -> Decision], NEW expected,
           SubmitDecisions(D, decide, expected)
    PROVE  IInv'
<1> USE DEF IInv
<1>1. /\ D \subseteq DOMAIN graph
      /\ \A n \in D : row[n].semantic = "pending" /\ row[n].runtime # "idle"
  BY DEF SubmitDecisions, Reviewable, ReviewableRuntime
<1>2. ASSUME NEW n \in NodeId
      PROVE  /\ row'[n] \in Row /\ row'[n].attempt = row[n].attempt
             /\ n \notin D => row'[n] = row[n]
             /\ n \in D => /\ row'[n].semantic \in {"satisfied", "blocked", "pending"}
                           /\ row'[n].runtime = "idle"
  <2> DEFINE r == row[n]
             c == SemanticAfter(decide[n])
  <2>1. r \in Row
    BY DEF TypeOK
  <2>2. row'[n] = IF n \in D THEN [r EXCEPT !.semantic = c, !.runtime = "idle"] ELSE r
    BY DEF SubmitDecisions
  <2>3. c \in {"satisfied", "blocked", "pending"}
    BY DEF SemanticAfter
  <2> HIDE DEF r, c
  <2> DEFINE q == [r EXCEPT !.semantic = c, !.runtime = "idle"]
  <2>4. q \in Row /\ q.attempt = r.attempt /\ q.semantic = c /\ q.runtime = "idle"
    BY <2>1, <2>3 DEF Row, RuntimeState, SemanticState
  <2>5. row'[n] = IF n \in D THEN q ELSE r
    BY <2>2
  <2> HIDE DEF q
  <2> QED
    BY <2>1, <2>3, <2>4, <2>5 DEF r
<1>3. TypeOK'
  <2>1. row' \in [NodeId -> Row]
    BY <1>2 DEF SubmitDecisions
  <2>2. plans' \in [NodeId -> Plan \cup {NoPlan}]
    <3>1. ASSUME NEW n \in D PROVE PlanAfter(n, decide[n]) \in Plan \cup {NoPlan}
      <4>1. graph[n].packet \in Packet /\ row[n].session \in Nat
        BY <1>1, GraphType DEF TypeOK, Row
      <4> QED
        BY <4>1 DEF PlanAfter, Plan
    <3>2. \A n \in NodeId : plans[n] \in Plan \cup {NoPlan}
      BY DEF TypeOK
    <3> QED
      BY <3>1, <3>2 DEF SubmitDecisions
  <2>3. /\ loaded' \in BOOLEAN /\ graph' \in Graph /\ wave' \in Nat /\ revision' \in Nat
        /\ attempts' \in [NodeId -> Seq(Attempt)]
        /\ task' \in [NodeId -> {"none", "created", "executing", "done"}]
        /\ phase' \in {"none", "waiting", "cancelling"}
    <3>1. /\ revision' = revision + 1
          /\ UNCHANGED <<loaded, graph, attempts, wave, task, phase>>
      BY DEF SubmitDecisions
    <3> QED
      BY <3>1 DEF TypeOK
  <2> QED
    BY <2>1, <2>2, <2>3 DEF TypeOK
<1>4. Claimed' = Claimed
  BY DEF Claimed, SubmitDecisions
<1>5. RowPointsAtAttempt' /\ WaveHeld'
  BY <1>2, <1>4 DEF RowPointsAtAttempt, WaveHeld, SubmitDecisions
<1>6. \A n \in D : row[n].attempt # 0 => Current(n).state # "running"
  BY <1>1 DEF SubmitDecisions
<1>7. ChildrenRun'
  <2>1. \A n \in Claimed : Current(n)' = Current(n) /\ n \in NodeId
    BY <1>2 DEF Current, Claimed, SubmitDecisions
  <2>2. graph' = graph /\ task' = task
    BY DEF SubmitDecisions
  <2>3. ASSUME NEW n \in Claimed
        PROVE  /\ n \in DOMAIN graph' /\ row'[n].attempt # 0
               /\ task'[n] # "done" => Current(n)'.state = "running"
               /\ Current(n)'.state = "running" => row'[n].runtime = "running"
    <3>1. n \in DOMAIN graph /\ row'[n].attempt # 0
      BY <1>2, <2>1 DEF ChildrenRun
    <3>2. task[n] # "done" => Current(n).state = "running"
      BY DEF ChildrenRun
    <3>3. Current(n).state = "running" => n \notin D /\ row[n].runtime = "running"
      BY <1>6 DEF ChildrenRun
    <3> QED
      BY <1>2, <2>1, <2>2, <3>1, <3>2, <3>3
  <2> QED
    BY <1>4, <2>3 DEF ChildrenRun
<1>8. DecidedIsIdle'
  BY <1>2 DEF DecidedIsIdle
<1>9. AuthoredIsLive' /\ DependenciesAccepted'
  <2>1. /\ graph' = graph /\ DOMAIN graph \subseteq NodeId
        /\ \A m \in DOMAIN graph : graph[m].depends_on \subseteq NodeId
    BY GraphType DEF TypeOK, SubmitDecisions
  <2>2. \A m \in DOMAIN graph :
          DependenciesSatisfied(graph, row, m) => DependenciesSatisfied(graph, row', m)
    BY <1>1, <1>2, <2>1 DEF DependenciesSatisfied
  <2> QED
    BY <1>1, <1>2, <2>1, <2>2 DEF AuthoredIsLive, DependenciesAccepted
<1> QED
  BY <1>3, <1>5, <1>7, <1>8, <1>9

(* The reconciliation: the closure of Reset is what keeps a node that      *)
(* still counts as done, or under review, on accepted dependencies.        *)
LEMMA ReconcileGraphKeeps ==
    ASSUME IInv, NEW h \in Graph, NEW expected, ReconcileGraph(h, expected)
    PROVE  IInv'
<1> USE DEF IInv
<1> DEFINE reset == Reset(graph, h, Blocked)
           gone == Removed(graph, h)
<1>1. /\ graph \in Graph /\ DOMAIN h \subseteq NodeId
      /\ \A n \in DOMAIN h : h[n].depends_on \subseteq DOMAIN h
  BY GraphType DEF TypeOK
<1>2. reset \subseteq DOMAIN h /\ gone \cap DOMAIN h = {}
  BY <1>1, ResetClosed DEF Removed
<1>3. \A n \in DOMAIN h \ reset : n \in DOMAIN graph /\ graph[n] = h[n]
  BY <1>1, KeptIsUnchanged
<1>4. \A n \in DOMAIN h \ Blocked : h[n].depends_on \cap reset # {} => n \in reset
  BY <1>1, ResetClosed
<1>5. graph' = h
  BY DEF ReconcileGraph
<1> HIDE DEF reset, gone
<1>6. ASSUME NEW n \in NodeId
      PROVE  /\ row'[n] \in Row /\ row'[n].attempt \in {0, row[n].attempt}
             /\ n \in reset => row'[n] = Fresh
             /\ n \notin reset => \/ row'[n] = row[n]
                                  \/ /\ n \in gone
                                     /\ row'[n].runtime = "idle"
  <2> DEFINE r == row[n]
  <2>1. r \in Row
    BY DEF TypeOK
  <2>2. row'[n] = IF n \in reset THEN Fresh
                  ELSE IF n \in gone
                  THEN [r EXCEPT !.active = FALSE, !.semantic = "cancelled", !.runtime = "idle"]
                  ELSE r
    <3>1. /\ n \in reset => row'[n] = Fresh
          /\ n \notin reset /\ n \in gone =>
                row'[n] = [r EXCEPT !.active = FALSE, !.semantic = "cancelled",
                                    !.runtime = "idle"]
          /\ n \notin reset /\ n \notin gone => row'[n] = r
      BY <1>2 DEF ReconcileGraph, reset, gone
    <3> QED
      BY <3>1
  <2> HIDE DEF r
  <2> DEFINE q == [r EXCEPT !.active = FALSE, !.semantic = "cancelled", !.runtime = "idle"]
  <2>3. q \in Row /\ q.attempt = r.attempt /\ q.runtime = "idle"
    BY <2>1 DEF Row, RuntimeState, SemanticState
  <2>4. Fresh \in Row /\ Fresh.attempt = 0
    BY DEF Fresh, Row, RuntimeState, SemanticState, Turn
  <2>5. row'[n] = IF n \in reset THEN Fresh ELSE IF n \in gone THEN q ELSE r
    BY <2>2
  <2> HIDE DEF q
  <2> QED
    BY <2>1, <2>3, <2>4, <2>5 DEF r
<1>7. TypeOK'
  <2>1. row' \in [NodeId -> Row]
    BY <1>6 DEF ReconcileGraph
  <2>2. plans' \in [NodeId -> Plan \cup {NoPlan}]
    BY DEF ReconcileGraph, TypeOK
  <2>3. /\ loaded' \in BOOLEAN /\ graph' \in Graph /\ wave' \in Nat /\ revision' \in Nat
        /\ attempts' \in [NodeId -> Seq(Attempt)]
        /\ task' \in [NodeId -> {"none", "created", "executing", "done"}]
        /\ phase' \in {"none", "waiting", "cancelling"}
    <3>1. /\ revision' = revision + 1 /\ graph' = h
          /\ UNCHANGED <<loaded, attempts, wave, task, phase>>
      BY DEF ReconcileGraph
    <3> QED
      BY <3>1 DEF TypeOK
  <2> QED
    BY <2>1, <2>2, <2>3 DEF TypeOK
<1>8. RowPointsAtAttempt'
  <2>1. attempts' = attempts /\ \A n \in NodeId : attempts[n] \in Seq(Attempt)
    BY DEF ReconcileGraph, TypeOK
  <2> QED
    BY <1>6, <2>1 DEF RowPointsAtAttempt
<1>9. Claimed = {} /\ Claimed' = {}
  BY DEF WaveHeld, ReconcileGraph, Claimed
<1>10. WaveHeld' /\ ChildrenRun'
  BY <1>9 DEF WaveHeld, ChildrenRun, ReconcileGraph
<1>11. DecidedIsIdle'
  BY <1>6 DEF DecidedIsIdle, Fresh
<1>12. \A n \in DOMAIN h : IF n \in reset THEN row'[n] = Fresh ELSE row'[n] = row[n]
  BY <1>1, <1>2, <1>6
<1>13. AuthoredIsLive'
  BY <1>3, <1>5, <1>12 DEF AuthoredIsLive, Fresh
<1>14. DependenciesAccepted'
  <2>1. SUFFICES ASSUME NEW n \in DOMAIN h,
                        row'[n].semantic = "satisfied" \/ row'[n].runtime # "idle",
                        NEW d \in h[n].depends_on
                 PROVE  row'[d].semantic = "satisfied"
    BY <1>5 DEF DependenciesAccepted, DependenciesSatisfied
  <2>2. n \notin reset
    BY <1>12, <2>1 DEF Fresh
  <2>3. row'[n] = row[n] /\ n \in DOMAIN graph /\ d \in graph[n].depends_on
    BY <1>3, <1>12, <2>2
  <2>4. row[d].semantic = "satisfied"
    BY <2>1, <2>3 DEF DependenciesAccepted, DependenciesSatisfied
  <2>5. n \notin Blocked
    BY <1>1, <2>1, <2>3 DEF Blocked, DecidedIsIdle
  <2>6. d \notin reset
    BY <1>4, <2>2, <2>5
  <2> QED
    BY <1>1, <1>12, <2>4, <2>6
<1> QED
  BY <1>7, <1>8, <1>10, <1>11, <1>13, <1>14

(* The death of the process.                                               *)
LEMMA CrashKeeps == ASSUME IInv, Crash PROVE IInv'
<1> USE DEF IInv
<1>1. TypeOK' /\ Claimed' = {}
  BY DEF TypeOK, Crash, Claimed
<1>2. WaveHeld' /\ ChildrenRun'
  BY <1>1 DEF WaveHeld, ChildrenRun, Crash
<1>3. /\ RowPointsAtAttempt' /\ DecidedIsIdle' /\ AuthoredIsLive'
      /\ DependenciesAccepted'
  BY DEF RowPointsAtAttempt, DecidedIsIdle, AuthoredIsLive, DependenciesAccepted,
         DependenciesSatisfied, Crash
<1> QED
  BY <1>1, <1>2, <1>3

-----------------------------------------------------------------------------
(* The theorems.                                                           *)

(* Every step, or none, keeps the invariant.                               *)
LEMMA StepIInv == IInv /\ [Next]_vars => IInv'
<1> SUFFICES ASSUME IInv, [Next]_vars PROVE IInv'
  OBVIOUS
<1>1. CASE \E W \in SUBSET NodeId : DelegateNext(W)
  BY <1>1, DelegateNextKeeps
<1>2. CASE \E W \in SUBSET NodeId : \E C \in SUBSET W : DelegateStartFails(W, C)
  BY <1>2, DelegateStartFailsKeeps
<1>3. CASE \E n \in NodeId : TaskBegins(n)
  BY <1>3, TaskBeginsKeeps
<1>4. CASE \E n \in NodeId, s \in AttemptState, t \in Turn : AttemptFinishes(n, s, t)
  BY <1>4, ChildEndsKeeps
<1>5. CASE \E n \in NodeId : \E s \in 0..Len(attempts[n]) : AttemptRaises(n, s)
  BY <1>5, ChildEndsKeeps
<1>6. CASE Cancel
  BY <1>6, CancelKeeps
<1>7. CASE CloseWave
  BY <1>7, CloseWaveKeeps
<1>8. CASE \E D \in SUBSET NodeId : \E decide \in [D -> Decision] :
              SubmitDecisions(D, decide, revision)
  BY <1>8, SubmitDecisionsKeeps
<1>9. CASE \E h \in Graph : ReconcileGraph(h, revision)
  BY <1>9, ReconcileGraphKeeps
<1>10. CASE Crash
  BY <1>10, CrashKeeps
<1>11. CASE UNCHANGED vars
  BY <1>11 DEF vars, IInv, TypeOK, RowPointsAtAttempt, WaveHeld, ChildrenRun,
               DecidedIsIdle, AuthoredIsLive, DependenciesAccepted, DependenciesSatisfied,
               Claimed, Current
<1> QED
  BY <1>1, <1>2, <1>3, <1>4, <1>5, <1>6, <1>7, <1>8, <1>9, <1>10, <1>11 DEF Next

(* Every reachable state satisfies the invariant.                          *)
LEMMA Invariance == Spec => []IInv
BY InitIInv, StepIInv, PTL DEF Spec

(* Every variable keeps its type: whatever is delegated, cancelled,        *)
(* decided or reconciled.                                                  *)
THEOREM TypeCorrect == Spec => []TypeOK
<1>1. IInv => TypeOK
  BY DEF IInv
<1> QED
  BY <1>1, Invariance, PTL

(* Work under way, under review or accepted always stands on accepted      *)
(* dependencies of the graph as authored now.                              *)
THEOREM DependenciesAlwaysAccepted == Spec => []DependenciesAccepted
<1>1. IInv => DependenciesAccepted
  BY DEF IInv
<1> QED
  BY <1>1, Invariance, PTL

(* A run that reports "blocked" has a node the Lead blocked: otherwise the *)
(* nodes not yet accepted, all pending, would contain one that waits for   *)
(* none of the others, by acyclicity, and that node could start.           *)
THEOREM NeverStallsSilently == Spec => []NoSilentStall
<1>1. IInv => NoSilentStall
  <2> SUFFICES ASSUME IInv, GraphState(graph, row) = "blocked", Blocked = {}
               PROVE  FALSE
    BY DEF NoSilentStall
  <2> DEFINE U == {n \in DOMAIN graph : row[n].semantic # "satisfied"}
  <2>1. graph \in Graph /\ \A n \in DOMAIN graph : row[n] \in Row
    BY GraphType DEF IInv, TypeOK
  <2>2. /\ \A n \in DOMAIN graph : row[n].runtime # "running"
        /\ Reviewable(graph, row) = {}
        /\ ~ \A n \in DOMAIN graph : row[n].semantic \in {"satisfied", "cancelled"}
        /\ Runnable(graph, row) = {}
    BY DEF GraphState, Blocked
  <2>3. \A n \in U : row[n].semantic = "pending"
    BY <2>1 DEF IInv, AuthoredIsLive, Blocked, Row, SemanticState
  <2>4. U # {} /\ U \in SUBSET DOMAIN graph
    BY <2>2
  <2>5. PICK n \in U : graph[n].depends_on \cap U = {}
    BY <2>1, <2>4, GraphType DEF Acyclic
  <2>6. DependenciesSatisfied(graph, row, n)
    BY <2>1, <2>5, GraphType DEF DependenciesSatisfied
  <2>7. row[n].runtime = "idle"
    BY <2>1, <2>2, <2>3, <2>5 DEF Reviewable, Row, RuntimeState
  <2> QED
    BY <2>2, <2>3, <2>5, <2>6, <2>7 DEF Runnable
<1> QED
  BY <1>1, Invariance, PTL

-----------------------------------------------------------------------------
(* The inductive invariant adds to IInv what the tables, the plans and the *)
(* evidence need of one another.                                           *)

(* The conjunct of RowMirrorsAttempt about node n.                         *)
Mirrors(n) ==
    /\ \A i \in 1..Len(attempts[n]) :
          attempts[n][i].state = "running" <=>
            /\ row[n].active /\ row[n].runtime = "running" /\ row[n].attempt = i
    /\ row[n].runtime # "idle" =>
          /\ row[n].attempt = Len(attempts[n])
          /\ row[n].runtime = Current(n).state
    /\ row[n].attempt # 0 =>
          row[n].session = Current(n).session /\ row[n].turn = Current(n).turn

(* A captured turn belongs to an attempt that ended with it.               *)
TurnsFit(n) ==
    \A i \in 1..Len(attempts[n]) :
        /\ attempts[n][i].state = "running" => attempts[n][i].turn = "none"
        /\ attempts[n][i].turn = "captured" => attempts[n][i].state \in {"settled", "failed"}

(* A row that is not idle points at an attempt.                            *)
BusyHasAttempt(n) == row[n].runtime # "idle" => row[n].attempt # 0

(* The rows in use are those of the authored graph.                        *)
ActiveIsAuthored == \A n \in NodeId : row[n].active <=> n \in DOMAIN graph

(* A node that runs has used its retry plan.                               *)
RunningHasNoPlan == \A n \in NodeId : row[n].runtime = "running" => plans[n] = NoPlan

(* A node keeps an attempt only while its dependencies stay accepted,      *)
(* unless the Lead blocked it.                                             *)
AttemptsStandOnAccepted ==
    \A n \in DOMAIN graph : row[n].attempt # 0 /\ row[n].semantic # "blocked" =>
        DependenciesSatisfied(graph, row, n)

NodesAreSound == \A n \in NodeId : Mirrors(n) /\ TurnsFit(n) /\ BusyHasAttempt(n)

RInv ==
    /\ IInv
    /\ NodesAreSound
    /\ ActiveIsAuthored
    /\ WaveOwnsRunning
    /\ RepositoryExclusive
    /\ PlansAreCurrent
    /\ RunningHasNoPlan
    /\ AttemptsStandOnAccepted
    /\ EvidenceIsCurrent
    /\ AcceptedWasCaptured

-----------------------------------------------------------------------------
(* What a step may do to one node: its row and its attempts move together. *)

Same(n) == row'[n] = row[n] /\ attempts'[n] = attempts[n]

(* A new attempt a becomes the current one.                                *)
Started(n, a) ==
    /\ ~Running(n)
    /\ row[n].active /\ n \in Runnable(graph, row)
    /\ attempts[n] \in Seq(Attempt) /\ a \in Attempt
    /\ a.turn = "none" /\ a.session = plans[n].session
    /\ a.packet = graph[n].packet /\ a.inputs = NothingConsumed
    /\ attempts'[n] = Append(attempts[n], a)
    /\ row'[n].active = row[n].active /\ row'[n].semantic = row[n].semantic
    /\ row'[n].runtime = a.state /\ row'[n].attempt = Len(attempts[n]) + 1
    /\ row'[n].session = a.session /\ row'[n].turn = a.turn

(* The current attempt, still running, becomes a.                          *)
Advanced(n, a) ==
    /\ row[n].active /\ row[n].runtime = "running"
    /\ row[n].attempt \in 1..Len(attempts[n])
    /\ attempts[n] \in Seq(Attempt) /\ a \in Attempt
    /\ Current(n).state = "running"
    /\ a.packet = Current(n).packet /\ a.wave = Current(n).wave
    /\ \A d \in graph[n].depends_on :
          a.inputs[d] \in {0, row[d].attempt, Current(n).inputs[d]}
    /\ a.state = "running" => a.turn = "none"
    /\ a.turn = "captured" => a.state \in {"settled", "failed"}
    /\ attempts'[n] = [attempts[n] EXCEPT ![row[n].attempt] = a]
    /\ row'[n].active = row[n].active /\ row'[n].semantic = row[n].semantic
    /\ row'[n].runtime = a.state /\ row'[n].attempt = row[n].attempt
    /\ row'[n].session = a.session /\ row'[n].turn = a.turn

(* The node comes to rest with the attempt it has, decided or retired.     *)
Rested(n) ==
    /\ ~Running(n)
    /\ attempts'[n] = attempts[n]
    /\ row'[n].runtime = "idle" /\ row'[n].attempt = row[n].attempt
    /\ row'[n].session = row[n].session /\ row'[n].turn = row[n].turn

(* The node forgets its attempt.                                           *)
Cleared(n) ==
    /\ ~Running(n)
    /\ attempts'[n] = attempts[n]
    /\ row'[n] = Fresh

NodeStep(n) ==
    \/ Same(n)
    \/ \E a \in Attempt : Started(n, a) \/ Advanced(n, a)
    \/ Rested(n) \/ Cleared(n)

(* The attempts of a node after a start and after an advance.              *)
LEMMA StartedAttempts ==
    ASSUME NEW n \in NodeId, NEW a, Started(n, a)
    PROVE  /\ Len(attempts'[n]) = Len(attempts[n]) + 1 /\ Len(attempts[n]) \in Nat
           /\ attempts'[n][Len(attempts[n]) + 1] = a
           /\ \A k \in 1..Len(attempts[n]) : attempts'[n][k] = attempts[n][k]
BY DEF Started

LEMMA AdvancedAttempts ==
    ASSUME NEW n \in NodeId, NEW a, Advanced(n, a)
    PROVE  /\ Len(attempts'[n]) = Len(attempts[n]) /\ Len(attempts[n]) \in Nat
           /\ \A k \in 1..Len(attempts[n]) :
                 attempts'[n][k] = IF k = row[n].attempt THEN a ELSE attempts[n][k]
<1>1. /\ attempts[n] \in Seq(Attempt) /\ a \in Attempt
      /\ row[n].attempt \in 1..Len(attempts[n])
      /\ attempts'[n] = [attempts[n] EXCEPT ![row[n].attempt] = a]
  BY DEF Advanced
<1>2. Len(attempts'[n]) = Len(attempts[n])
  BY <1>1, ExceptSeq
<1> QED
  BY <1>1, <1>2

(* Whatever a step does to a node keeps its row and attempts in agreement, *)
(* and rewrites no attempt that ended.                                     *)
LEMMA NodeStepSound ==
    ASSUME NEW n \in NodeId, attempts[n] \in Seq(Attempt),
           Mirrors(n), TurnsFit(n), BusyHasAttempt(n), NodeStep(n)
    PROVE  /\ Mirrors(n)' /\ TurnsFit(n)' /\ BusyHasAttempt(n)'
           /\ \A i \in 1..Len(attempts[n]) :
                 attempts[n][i].state # "running" =>
                     i <= Len(attempts'[n]) /\ attempts'[n][i] = attempts[n][i]
<1> DEFINE l == Len(attempts[n])
<1>0. l \in Nat
  OBVIOUS
<1>1. CASE Same(n)
  BY <1>0, <1>1 DEF Same, Mirrors, TurnsFit, BusyHasAttempt, Current
<1>2. ASSUME NEW a \in Attempt, Started(n, a)
      PROVE  /\ Mirrors(n)' /\ TurnsFit(n)' /\ BusyHasAttempt(n)'
             /\ \A i \in 1..l : l <= Len(attempts'[n]) /\ attempts'[n][i] = attempts[n][i]
  <2>1. /\ Len(attempts'[n]) = l + 1 /\ attempts'[n][l + 1] = a
        /\ \A k \in 1..l : attempts'[n][k] = attempts[n][k]
    BY <1>2, StartedAttempts
  <2>2. /\ row'[n].active /\ row'[n].runtime = a.state /\ row'[n].attempt = l + 1
        /\ row'[n].session = a.session /\ row'[n].turn = a.turn /\ a.turn = "none"
    BY <1>2 DEF Started
  <2>3. \A k \in 1..l : attempts[n][k].state # "running"
    BY <1>2 DEF Started, Running
  <2>4. \A i \in 1..(l + 1) : i \in 1..l \/ i = l + 1
    BY <1>0
  <2>5. Mirrors(n)'
    BY <1>0, <2>1, <2>2, <2>3, <2>4 DEF Mirrors, Current
  <2>6. TurnsFit(n)'
    BY <1>0, <2>1, <2>2, <2>4 DEF TurnsFit
  <2> QED
    BY <1>0, <2>1, <2>2, <2>5, <2>6 DEF BusyHasAttempt
<1>3. ASSUME NEW a \in Attempt, Advanced(n, a)
      PROVE  /\ Mirrors(n)' /\ TurnsFit(n)' /\ BusyHasAttempt(n)'
             /\ \A i \in 1..l : attempts[n][i].state # "running" =>
                   l <= Len(attempts'[n]) /\ attempts'[n][i] = attempts[n][i]
  <2> DEFINE c == row[n].attempt
  <2>1. /\ Len(attempts'[n]) = l
        /\ \A k \in 1..l : attempts'[n][k] = IF k = c THEN a ELSE attempts[n][k]
    BY <1>3, AdvancedAttempts
  <2>2. /\ row'[n].active /\ row'[n].runtime = a.state /\ row'[n].attempt = c
        /\ row'[n].session = a.session /\ row'[n].turn = a.turn
        /\ a.state = "running" => a.turn = "none"
        /\ a.turn = "captured" => a.state \in {"settled", "failed"}
        /\ c \in 1..l
    BY <1>3 DEF Advanced
  <2>3. c = l /\ \A k \in 1..l : k # c => attempts[n][k].state # "running"
    BY <1>3 DEF Advanced, Mirrors
  <2>4. Mirrors(n)'
    BY <1>0, <2>1, <2>2, <2>3 DEF Mirrors, Current
  <2>5. TurnsFit(n)'
    BY <1>0, <2>1, <2>2 DEF TurnsFit
  <2>6. attempts[n][c].state = "running"
    BY <1>3 DEF Advanced, Current
  <2> QED
    BY <1>0, <2>1, <2>2, <2>4, <2>5, <2>6 DEF BusyHasAttempt
<1>4. CASE Rested(n)
  <2>1. \A k \in 1..l : attempts[n][k].state # "running"
    BY <1>4 DEF Rested, Running
  <2> QED
    BY <1>0, <1>4, <2>1 DEF Rested, Mirrors, TurnsFit, BusyHasAttempt, Current
<1>5. CASE Cleared(n)
  <2>1. \A k \in 1..l : attempts[n][k].state # "running"
    BY <1>5 DEF Cleared, Running
  <2> QED
    BY <1>0, <1>5, <2>1 DEF Cleared, Mirrors, TurnsFit, BusyHasAttempt, Current, Fresh
<1> QED
  BY <1>0, <1>1, <1>2, <1>3, <1>4, <1>5 DEF NodeStep

-----------------------------------------------------------------------------
(* What each action does to the nodes.                                     *)

(* A node runs when its current attempt does.                              *)
LEMMA RunningIsCurrent ==
    ASSUME NEW n \in NodeId, RInv
    PROVE  /\ Running(n) <=> row[n].active /\ row[n].runtime = "running"
           /\ Running(n) => /\ row[n].attempt \in 1..Len(attempts[n])
                            /\ Current(n).state = "running"
<1>1. Mirrors(n) /\ BusyHasAttempt(n) /\ row[n].attempt \in 0..Len(attempts[n])
  BY DEF RInv, NodesAreSound, IInv, RowPointsAtAttempt
<1>2. attempts[n] \in Seq(Attempt)
  BY DEF RInv, IInv, TypeOK
<1> QED
  BY <1>1, <1>2 DEF Mirrors, BusyHasAttempt, Running, Current

(* With no wave open, nothing runs.                                        *)
LEMMA QuietWithoutWave ==
    ASSUME RInv, wave = 0
    PROVE  \A n \in NodeId : ~Running(n) /\ (n \in DOMAIN graph => row[n].runtime # "running")
<1> TAKE n \in NodeId
<1>1. ~Running(n)
  BY DEF RInv, WaveOwnsRunning
<1> QED
  BY <1>1, RunningIsCurrent DEF RInv, ActiveIsAuthored

LEMMA DelegateNextEffect ==
    ASSUME RInv, NEW W \in SUBSET NodeId, DelegateNext(W)
    PROVE  \A n \in NodeId : IF n \in W THEN Started(n, StartedAttempt(n)) ELSE Same(n)
<1>1. W \subseteq Runnable(graph, row)
  BY DEF DelegateNext, MayDelegate, WaveSelection, MaximalConflictFree
<1>2. IInv /\ TypeOK /\ wave = 0
  BY DEF RInv, IInv, DelegateNext, MayDelegate
<1>3. ASSUME NEW n \in NodeId, n \notin W PROVE Same(n)
  BY <1>3 DEF DelegateNext, Same
<1>4. ASSUME NEW n \in NodeId, n \in W PROVE Started(n, StartedAttempt(n))
  <2> DEFINE a == StartedAttempt(n)
             r == row[n]
  <2>1. n \in DOMAIN graph
    BY <1>1, <1>4 DEF Runnable
  <2>2. /\ a \in Attempt /\ plans[n].session \in Nat
        /\ a.state = "running" /\ a.turn = "none" /\ a.session = plans[n].session
        /\ a.packet = graph[n].packet /\ a.inputs = NothingConsumed
    BY <1>2, <2>1, StartedAttemptType DEF StartedAttempt, RInv, PlansAreCurrent
  <2>3. ~Running(n) /\ r.active
    BY <1>2, <2>1, QuietWithoutWave DEF RInv, ActiveIsAuthored
  <2>4. attempts[n] \in Seq(Attempt) /\ r \in Row
    BY <1>2 DEF TypeOK
  <2>5. /\ attempts'[n] = Append(attempts[n], a)
        /\ row'[n] = [r EXCEPT !.runtime = "running", !.attempt = Len(attempts[n]) + 1,
                               !.session = plans[n].session, !.turn = "none"]
    BY <1>4 DEF DelegateNext, StartedRow
  <2> HIDE DEF a, r
  <2>6. /\ row'[n].active = r.active /\ row'[n].semantic = r.semantic
        /\ row'[n].runtime = "running" /\ row'[n].attempt = Len(attempts[n]) + 1
        /\ row'[n].session = plans[n].session /\ row'[n].turn = "none"
    BY <2>4, <2>5 DEF Row
  <2>7. Started(n, a)
    BY <1>1, <1>4, <2>2, <2>3, <2>4, <2>5, <2>6 DEF Started, r
  <2> QED
    BY <2>7 DEF a
<1> QED
  BY <1>3, <1>4

LEMMA DelegateStartFailsEffect ==
    ASSUME RInv, NEW W \in SUBSET NodeId, NEW C \in SUBSET W, DelegateStartFails(W, C)
    PROVE  \A n \in NodeId :
              IF n \in C THEN Started(n, [StartedAttempt(n) EXCEPT !.state = "failed"])
                         ELSE Same(n)
<1>1. C \subseteq Runnable(graph, row)
  BY DEF DelegateStartFails, MayDelegate, WaveSelection, MaximalConflictFree
<1>2. IInv /\ TypeOK /\ wave = 0
  BY DEF RInv, IInv, DelegateStartFails, MayDelegate
<1>3. ASSUME NEW n \in NodeId, n \notin C PROVE Same(n)
  BY <1>3 DEF DelegateStartFails, Same
<1>4. ASSUME NEW n \in NodeId, n \in C
      PROVE  Started(n, [StartedAttempt(n) EXCEPT !.state = "failed"])
  <2> DEFINE a == [StartedAttempt(n) EXCEPT !.state = "failed"]
             r == row[n]
  <2>1. n \in DOMAIN graph
    BY <1>1, <1>4 DEF Runnable
  <2>2. /\ a \in Attempt /\ plans[n].session \in Nat
        /\ a.state = "failed" /\ a.turn = "none" /\ a.session = plans[n].session
        /\ a.packet = graph[n].packet /\ a.inputs = NothingConsumed
    BY <1>2, <2>1, StartedAttemptType DEF StartedAttempt, RInv, PlansAreCurrent
  <2>3. ~Running(n) /\ r.active
    BY <1>2, <2>1, QuietWithoutWave DEF RInv, ActiveIsAuthored
  <2>4. attempts[n] \in Seq(Attempt) /\ r \in Row
    BY <1>2 DEF TypeOK
  <2>5. /\ attempts'[n] = Append(attempts[n], a)
        /\ row'[n] = [r EXCEPT !.runtime = "failed", !.attempt = Len(attempts[n]) + 1,
                               !.session = plans[n].session, !.turn = "none"]
    BY <1>4 DEF DelegateStartFails, StartedRow
  <2> HIDE DEF a, r
  <2>6. /\ row'[n].active = r.active /\ row'[n].semantic = r.semantic
        /\ row'[n].runtime = "failed" /\ row'[n].attempt = Len(attempts[n]) + 1
        /\ row'[n].session = plans[n].session /\ row'[n].turn = "none"
    BY <2>4, <2>5 DEF Row
  <2>7. Started(n, a)
    BY <1>1, <1>4, <2>2, <2>3, <2>4, <2>5, <2>6 DEF Started, r
  <2> QED
    BY <2>7 DEF a
<1> QED
  BY <1>3, <1>4

(* A child that is not done, or whose attempt was left running, runs.      *)
LEMMA ChildRuns ==
    ASSUME RInv, NEW n \in NodeId, task[n] \in {"created", "executing"} \/ n \in Unfinished
    PROVE  /\ n \in DOMAIN graph /\ n \in Claimed
           /\ row[n] \in Row /\ row[n].active
           /\ row[n].runtime = "running" /\ row[n].semantic = "pending"
           /\ row[n].attempt \in 1..Len(attempts[n])
           /\ attempts[n] \in Seq(Attempt) /\ Current(n) \in Attempt
           /\ Current(n).state = "running" /\ Current(n).turn = "none"
<1>1. n \in Claimed
  BY DEF Claimed, Unfinished
<1>2. /\ n \in DOMAIN graph /\ row[n].runtime = "running" /\ row[n].semantic = "pending"
      /\ row[n].attempt \in 1..Len(attempts[n]) /\ Current(n).state = "running"
  BY <1>1 DEF RInv, IInv, ChildrenRun, RowPointsAtAttempt, DecidedIsIdle, Unfinished
<1>3. attempts[n] \in Seq(Attempt) /\ row[n] \in Row
  BY DEF RInv, IInv, TypeOK
<1>4. Current(n) \in Attempt
  BY <1>2, <1>3 DEF Current
<1>5. Current(n).turn = "none"
  BY <1>2 DEF RInv, NodesAreSound, TurnsFit, Current
<1> QED
  BY <1>1, <1>2, <1>3, <1>4, <1>5 DEF RInv, ActiveIsAuthored

LEMMA TaskBeginsEffect ==
    ASSUME RInv, NEW n \in NodeId, TaskBegins(n)
    PROVE  /\ Advanced(n, [Current(n) EXCEPT !.inputs =
                              [d \in NodeId |-> IF d \in graph[n].depends_on
                                                THEN row[d].attempt ELSE 0]])
           /\ row' = row
           /\ \A m \in NodeId \ {n} : Same(m)
<1> DEFINE consumed == [d \in NodeId |-> IF d \in graph[n].depends_on
                                         THEN row[d].attempt ELSE 0]
           i == row[n].attempt
           c == Current(n)
           a == [c EXCEPT !.inputs = consumed]
<1>1. /\ row[n].active /\ row[n].runtime = "running" /\ i \in 1..Len(attempts[n])
      /\ attempts[n] \in Seq(Attempt) /\ c \in Attempt
      /\ c.state = "running" /\ c.turn = "none"
  BY ChildRuns DEF TaskBegins
<1>2. consumed \in [NodeId -> Nat]
  <2>1. \A d \in NodeId : row[d].attempt \in Nat
    BY DEF RInv, IInv, TypeOK, Row
  <2> QED
    BY <2>1
<1>3. attempts' = [attempts EXCEPT ![n][i].inputs = consumed] /\ row' = row
  BY DEF TaskBegins
<1>4. attempts \in [NodeId -> Seq(Attempt)]
  BY DEF RInv, IInv, TypeOK
<1>5. c = attempts[n][i]
  BY DEF Current
<1> HIDE DEF consumed, i, c
<1>6. \A m \in NodeId \ {n} : Same(m)
  BY <1>3, <1>4 DEF Same
<1>7. attempts'[n] = [attempts[n] EXCEPT ![i] = a]
  BY <1>1, <1>3, <1>4, <1>5
<1>8. /\ a \in Attempt /\ a.state = c.state /\ a.turn = c.turn /\ a.session = c.session
      /\ a.packet = c.packet /\ a.wave = c.wave
  BY <1>1, <1>2 DEF Attempt
<1>9. row[n].session = c.session /\ row[n].turn = c.turn
  BY <1>1 DEF RInv, NodesAreSound, Mirrors, i, c
<1> HIDE DEF a
<1>10. \A d \in graph[n].depends_on : a.inputs[d] = row[d].attempt
  <2>1. graph[n].depends_on \subseteq NodeId
    BY ChildRuns, GraphType DEF TaskBegins, RInv, IInv, TypeOK
  <2>2. a.inputs = consumed
    BY <1>1 DEF a, Attempt
  <2> QED
    BY <2>1, <2>2 DEF consumed
<1>11. Advanced(n, a)
  BY <1>1, <1>3, <1>7, <1>8, <1>9, <1>10 DEF Advanced, i, c
<1> QED
  BY <1>3, <1>6, <1>11 DEF a, c, consumed

LEMMA FinishAttemptEffect ==
    ASSUME RInv, NEW n \in NodeId, task[n] = "executing",
           NEW state \in AttemptState \ {"running"}, NEW session \in Nat, NEW turn \in Turn,
           turn = "captured" => state \in {"settled", "failed"},
           FinishAttempt(n, state, session, turn)
    PROVE  /\ Advanced(n, [Current(n) EXCEPT !.state = state, !.session = session,
                                             !.turn = turn])
           /\ \A m \in NodeId \ {n} : Same(m)
<1> DEFINE i == row[n].attempt
           r == row[n]
           c == Current(n)
           a == [c EXCEPT !.state = state, !.session = session, !.turn = turn]
<1>1. /\ r.active /\ r.runtime = "running" /\ i \in 1..Len(attempts[n]) /\ r \in Row
      /\ attempts[n] \in Seq(Attempt) /\ c \in Attempt
      /\ c.state = "running" /\ c.turn = "none"
  BY ChildRuns
<1>2. /\ attempts' = [attempts EXCEPT ![n][i] =
                        [@ EXCEPT !.state = state, !.session = session, !.turn = turn]]
      /\ row' = [row EXCEPT ![n] =
                        [@ EXCEPT !.runtime = state, !.session = session, !.turn = turn]]
  BY DEF FinishAttempt
<1>3. attempts \in [NodeId -> Seq(Attempt)] /\ row \in [NodeId -> Row]
  BY DEF RInv, IInv, TypeOK
<1>4. \A m \in NodeId \ {n} : Same(m)
  BY <1>2, <1>3 DEF Same
<1>5. attempts'[n] = [attempts[n] EXCEPT ![i] = a]
  BY <1>1, <1>2, <1>3 DEF Current
<1>6. row'[n] = [r EXCEPT !.runtime = state, !.session = session, !.turn = turn]
  BY <1>2, <1>3
<1> HIDE DEF r, c
<1>7. /\ row'[n].active = r.active /\ row'[n].semantic = r.semantic
      /\ row'[n].runtime = state /\ row'[n].attempt = r.attempt
      /\ row'[n].session = session /\ row'[n].turn = turn
  BY <1>1, <1>6 DEF Row
<1>8. /\ a \in Attempt /\ a.state = state /\ a.turn = turn /\ a.session = session
      /\ a.packet = c.packet /\ a.wave = c.wave /\ a.inputs = c.inputs
  BY <1>1 DEF Attempt
<1> HIDE DEF a
<1>9. Advanced(n, a)
  BY <1>1, <1>5, <1>7, <1>8 DEF Advanced, r, c
<1> QED
  BY <1>4, <1>9 DEF a, c

(* The child n ends, and no other node changes.                            *)
LEMMA ChildEndsEffect ==
    ASSUME RInv, NEW n \in NodeId,
           \/ \E s \in AttemptState, t \in Turn : AttemptFinishes(n, s, t)
           \/ \E s \in 0..Len(attempts[n]) : AttemptRaises(n, s)
    PROVE  /\ \E a \in Attempt : Advanced(n, a) /\ a.state # "running"
           /\ \A m \in NodeId \ {n} : Same(m)
           /\ task[n] = "executing" /\ task' = [task EXCEPT ![n] = "done"]
           /\ revision' = revision + 1
           /\ UNCHANGED <<loaded, graph, wave, plans, phase>>
<1>1. PICK state \in AttemptState \ {"running"}, session \in Nat, turn \in Turn :
        /\ task[n] = "executing"
        /\ turn = "captured" => state \in {"settled", "failed"}
        /\ FinishAttempt(n, state, session, turn)
        /\ task' = [task EXCEPT ![n] = "done"]
        /\ UNCHANGED <<loaded, graph, wave, plans, phase>>
  <2>1. CASE \E s \in AttemptState, t \in Turn : AttemptFinishes(n, s, t)
    <3>1. PICK s \in AttemptState, t \in Turn : AttemptFinishes(n, s, t)
      BY <2>1
    <3>2. NativeSession(n) \in Nat
      <4>1. row[n] \in Row /\ Current(n) \in Attempt
        BY <3>1, ChildRuns DEF AttemptFinishes
      <4> QED
        BY <4>1 DEF NativeSession, Row, Attempt
    <3>3. s \in AttemptState \ {"running"} /\ (t = "captured" => s \in {"settled", "failed"})
      BY <3>1 DEF AttemptFinishes
    <3> QED
      BY <3>1, <3>2, <3>3 DEF AttemptFinishes
  <2>2. CASE \E s \in 0..Len(attempts[n]) : AttemptRaises(n, s)
    <3>1. PICK s \in 0..Len(attempts[n]) : AttemptRaises(n, s)
      BY <2>2
    <3>2. s \in Nat /\ "failed" \in AttemptState \ {"running"} /\ "none" \in Turn
      BY DEF AttemptState, Turn
    <3> QED
      BY <3>1, <3>2 DEF AttemptRaises
  <2> QED
    BY <2>1, <2>2
<1> DEFINE c == Current(n)
           a == [c EXCEPT !.state = state, !.session = session, !.turn = turn]
<1>2. Advanced(n, a) /\ \A m \in NodeId \ {n} : Same(m)
  BY <1>1, FinishAttemptEffect
<1>3. c \in Attempt
  BY <1>1, ChildRuns
<1> HIDE DEF c
<1>4. a \in Attempt /\ a.state # "running"
  BY <1>3 DEF Attempt
<1>5. revision' = revision + 1
  BY <1>1 DEF FinishAttempt
<1> HIDE DEF a
<1> QED
  BY <1>1, <1>2, <1>4, <1>5 DEF c

LEMMA CloseWaveEffect ==
    ASSUME RInv, CloseWave
    PROVE  \A n \in NodeId :
              IF n \in Unfinished THEN Advanced(n, [Current(n) EXCEPT !.state = "failed"])
                                  ELSE Same(n)
<1>1. ASSUME NEW n \in NodeId, n \notin Unfinished PROVE Same(n)
  BY <1>1 DEF CloseWave, Same
<1>2. ASSUME NEW n \in NodeId, n \in Unfinished
      PROVE  Advanced(n, [Current(n) EXCEPT !.state = "failed"])
  <2> DEFINE i == row[n].attempt
             r == row[n]
             c == Current(n)
             a == [c EXCEPT !.state = "failed"]
  <2>1. /\ r.active /\ r.runtime = "running" /\ i \in 1..Len(attempts[n]) /\ r \in Row
        /\ attempts[n] \in Seq(Attempt) /\ c \in Attempt
        /\ c.state = "running" /\ c.turn = "none"
    BY <1>2, ChildRuns
  <2>2. attempts'[n] = [attempts[n] EXCEPT ![i] = a]
    BY <1>2, <2>1 DEF CloseWave, Current
  <2>3. row'[n] = [r EXCEPT !.runtime = "failed", !.session = c.session, !.turn = "none"]
    BY <1>2 DEF CloseWave
  <2> HIDE DEF r, c
  <2>4. /\ row'[n].active = r.active /\ row'[n].semantic = r.semantic
        /\ row'[n].runtime = "failed" /\ row'[n].attempt = r.attempt
        /\ row'[n].session = c.session /\ row'[n].turn = "none"
    BY <2>1, <2>3 DEF Row
  <2>5. /\ a \in Attempt /\ a.state = "failed" /\ a.turn = "none" /\ a.session = c.session
        /\ a.packet = c.packet /\ a.wave = c.wave /\ a.inputs = c.inputs
    BY <2>1 DEF Attempt, AttemptState
  <2> HIDE DEF a
  <2>6. Advanced(n, a)
    BY <2>1, <2>2, <2>4, <2>5 DEF Advanced, r, c
  <2> QED
    BY <2>6 DEF a, c
<1> QED
  BY <1>1, <1>2

LEMMA SubmitDecisionsEffect ==
    ASSUME RInv, NEW D \in SUBSET NodeId, NEW decide \in [D -> Decision], NEW expected,
           SubmitDecisions(D, decide, expected)
    PROVE  /\ D \subseteq Reviewable(graph, row)
           /\ \A n \in NodeId :
                 IF n \in D
                 THEN /\ Rested(n) /\ row'[n].active = row[n].active
                      /\ row'[n].semantic = SemanticAfter(decide[n])
                      /\ row[n].runtime # "running"
                 ELSE Same(n)
<1>1. D \subseteq Reviewable(graph, row)
  BY DEF SubmitDecisions
<1>2. ASSUME NEW n \in NodeId, n \notin D PROVE Same(n)
  BY <1>2 DEF SubmitDecisions, Same
<1>3. ASSUME NEW n \in NodeId, n \in D
      PROVE  /\ Rested(n) /\ row'[n].active = row[n].active
             /\ row'[n].semantic = SemanticAfter(decide[n])
             /\ row[n].runtime # "running"
  <2> DEFINE r == row[n]
             c == SemanticAfter(decide[n])
  <2>1. r \in Row
    BY DEF RInv, IInv, TypeOK
  <2>2. row'[n] = [r EXCEPT !.semantic = c, !.runtime = "idle"] /\ attempts' = attempts
    BY <1>3 DEF SubmitDecisions
  <2>3. ~Running(n) /\ row[n].runtime # "running"
    BY <1>1, <1>3, RunningIsCurrent DEF Reviewable, ReviewableRuntime
  <2> HIDE DEF r, c
  <2>4. /\ row'[n].active = r.active /\ row'[n].semantic = c /\ row'[n].runtime = "idle"
        /\ row'[n].attempt = r.attempt /\ row'[n].session = r.session /\ row'[n].turn = r.turn
    BY <2>1, <2>2 DEF Row
  <2> QED
    BY <2>2, <2>3, <2>4 DEF Rested, r, c
<1> QED
  BY <1>1, <1>2, <1>3

LEMMA ReconcileGraphEffect ==
    ASSUME RInv, NEW h \in Graph, NEW expected, ReconcileGraph(h, expected)
    PROVE  \A n \in NodeId :
              IF n \in Reset(graph, h, Blocked) THEN Cleared(n)
              ELSE IF n \in Removed(graph, h)
              THEN Rested(n) /\ ~row'[n].active /\ row'[n].semantic = "cancelled"
              ELSE Same(n)
<1> DEFINE reset == Reset(graph, h, Blocked)
           gone == Removed(graph, h)
<1> TAKE n \in NodeId
<1> DEFINE r == row[n]
<1>1. r \in Row
  BY DEF RInv, IInv, TypeOK
<1>2. attempts' = attempts /\ ~Running(n)
  BY DEF ReconcileGraph
<1>3. /\ n \in reset => row'[n] = Fresh
      /\ n \notin reset /\ n \in gone =>
            row'[n] = [r EXCEPT !.active = FALSE, !.semantic = "cancelled", !.runtime = "idle"]
      /\ n \notin reset /\ n \notin gone => row'[n] = r
  BY ResetClosed DEF ReconcileGraph, Removed, RInv, IInv, TypeOK
<1> HIDE DEF reset, gone, r
<1>4. n \notin reset /\ n \in gone =>
        /\ row'[n].active = FALSE /\ row'[n].semantic = "cancelled" /\ row'[n].runtime = "idle"
        /\ row'[n].attempt = r.attempt /\ row'[n].session = r.session /\ row'[n].turn = r.turn
  BY <1>1, <1>3 DEF Row
<1>5. IF n \in reset THEN Cleared(n)
      ELSE IF n \in gone
      THEN Rested(n) /\ ~row'[n].active /\ row'[n].semantic = "cancelled"
      ELSE Same(n)
  BY <1>2, <1>3, <1>4 DEF Cleared, Rested, Same, r
<1> QED
  BY <1>5 DEF reset, gone

-----------------------------------------------------------------------------
(* Each action keeps the invariant.                                        *)

(* A step that starts and advances attempts, and at most uses plans up.    *)
Works(n) ==
    /\ plans'[n] \in {plans[n], NoPlan}
    /\ \/ Same(n)
       \/ \E a \in Attempt : Started(n, a) /\ (a.state = "running" => plans'[n] = NoPlan)
       \/ \E a \in Attempt : Advanced(n, a)

(* What such a step changes of a row.                                      *)
LEMMA WorkedRow ==
    ASSUME RInv, NEW n \in NodeId, Works(n)
    PROVE  /\ row'[n].active = row[n].active /\ row'[n].semantic = row[n].semantic
           /\ row'[n].attempt # row[n].attempt => n \in Runnable(graph, row)
           /\ row'[n].attempt # 0 => row[n].attempt # 0 \/ n \in Runnable(graph, row)
           /\ row'[n].semantic = "satisfied" => Same(n)
<1>1. CASE Same(n)
  BY <1>1 DEF Same
<1>2. CASE \E a \in Attempt : Started(n, a)
  BY <1>2 DEF Started, Runnable
<1>3. CASE \E a \in Attempt : Advanced(n, a)
  <2>1. row[n].semantic = "pending"
    BY <1>3 DEF Advanced, RInv, IInv, DecidedIsIdle
  <2> QED
    BY <1>3, <2>1 DEF Advanced
<1> QED
  BY <1>1, <1>2, <1>3 DEF Works

LEMMA WorkKeeps ==
    ASSUME RInv, IInv', graph' = graph, \A n \in NodeId : Works(n)
    PROVE  /\ NodesAreSound' /\ ActiveIsAuthored'
           /\ PlansAreCurrent' /\ RunningHasNoPlan'
           /\ AttemptsStandOnAccepted' /\ EvidenceIsCurrent' /\ AcceptedWasCaptured'
<1>1. /\ DOMAIN graph \subseteq NodeId /\ attempts \in [NodeId -> Seq(Attempt)]
      /\ \A n \in DOMAIN graph : graph[n].depends_on \subseteq NodeId
      /\ \A n \in NodeId : row[n].attempt \in 0..Len(attempts[n])
  BY GraphType DEF RInv, IInv, TypeOK, RowPointsAtAttempt
<1>2. NodesAreSound'
  <2>1. \A n \in NodeId : NodeStep(n)
    BY DEF Works, NodeStep
  <2> QED
    BY <1>1, <2>1, NodeStepSound DEF RInv, NodesAreSound
<1>3. ActiveIsAuthored'
  BY WorkedRow DEF RInv, ActiveIsAuthored
<1>4. PlansAreCurrent'
  <2> SUFFICES ASSUME NEW n \in NodeId, plans'[n] # NoPlan
               PROVE  /\ n \in DOMAIN graph /\ row'[n].semantic = "pending"
                      /\ plans'[n].packet = graph[n].packet
                      /\ plans'[n].mode = "resume" =>
                            plans'[n].session = row'[n].session /\ row'[n].session # 0
    BY DEF PlansAreCurrent
  <2>1. plans'[n] = plans[n]
    BY DEF Works
  <2>2. /\ n \in DOMAIN graph /\ row[n].semantic = "pending"
        /\ plans[n].packet = graph[n].packet
        /\ plans[n].mode = "resume" => plans[n].session = row[n].session /\ row[n].session # 0
    BY <2>1 DEF RInv, PlansAreCurrent
  <2>3. CASE Same(n)
    BY <2>1, <2>2, <2>3 DEF Same
  <2>4. CASE \E a \in Attempt : Started(n, a)
    BY <2>1, <2>2, <2>4 DEF Started
  <2>5. CASE \E a \in Attempt : Advanced(n, a)
    BY <2>1, <2>5 DEF Advanced, RInv, RunningHasNoPlan
  <2> QED
    BY <2>3, <2>4, <2>5 DEF Works
<1>5. RunningHasNoPlan'
  <2> SUFFICES ASSUME NEW n \in NodeId, row'[n].runtime = "running"
               PROVE  plans'[n] = NoPlan
    BY DEF RunningHasNoPlan
  <2>1. CASE Same(n)
    BY <2>1 DEF Same, Works, RInv, RunningHasNoPlan
  <2>2. CASE \E a \in Attempt : Started(n, a) /\ (a.state = "running" => plans'[n] = NoPlan)
    BY <2>2 DEF Started
  <2>3. CASE \E a \in Attempt : Advanced(n, a)
    BY <2>3 DEF Advanced, Works, RInv, RunningHasNoPlan
  <2> QED
    BY <2>1, <2>2, <2>3 DEF Works
<1>6. \A n \in DOMAIN graph :
        row'[n].attempt # 0 /\ row'[n].semantic # "blocked" =>
            DependenciesSatisfied(graph, row, n)
  <2> TAKE n \in DOMAIN graph
  <2>1. /\ row'[n].semantic = row[n].semantic
        /\ row'[n].attempt # 0 => row[n].attempt # 0 \/ n \in Runnable(graph, row)
    BY <1>1, WorkedRow
  <2> QED
    BY <2>1 DEF RInv, AttemptsStandOnAccepted, Runnable
<1>7. AttemptsStandOnAccepted'
  BY <1>1, <1>6, WorkedRow DEF AttemptsStandOnAccepted, DependenciesSatisfied
<1>8. EvidenceIsCurrent'
  <2> SUFFICES ASSUME NEW n \in DOMAIN graph, row'[n].attempt # 0
               PROVE  /\ Current(n)'.packet = graph[n].packet
                      /\ row'[n].semantic # "blocked" =>
                            \A d \in graph[n].depends_on :
                               Current(n)'.inputs[d] \in {0, row'[d].attempt}
    BY DEF EvidenceIsCurrent
  <2>0. n \in NodeId /\ Works(n)
    BY <1>1
  <2>1. ASSUME row'[n].semantic # "blocked", NEW d \in graph[n].depends_on
        PROVE  row'[d].attempt = row[d].attempt /\ d \in NodeId
    <3>1. row[d].semantic = "satisfied" /\ d \in NodeId
      BY <1>1, <1>6, <2>1 DEF DependenciesSatisfied
    <3> QED
      BY <3>1, WorkedRow DEF Runnable
  <2>2. row'[n].semantic = row[n].semantic
    BY <2>0, WorkedRow
  <2>3. row[n].attempt # 0 => /\ Current(n).packet = graph[n].packet
                              /\ row[n].semantic # "blocked" =>
                                    \A d \in graph[n].depends_on :
                                       Current(n).inputs[d] \in {0, row[d].attempt}
    BY DEF RInv, EvidenceIsCurrent
  <2>4. CASE Same(n)
    <3>1. row'[n] = row[n] /\ Current(n)' = Current(n)
      BY <2>4 DEF Same, Current
    <3> QED
      BY <2>1, <2>3, <3>1
  <2>5. ASSUME NEW a \in Attempt, Started(n, a)
        PROVE  Current(n)'.packet = graph[n].packet
               /\ \A d \in graph[n].depends_on : Current(n)'.inputs[d] = 0
    <3>1. Current(n)' = a
      BY <2>0, <2>5, StartedAttempts DEF Current, Started
    <3>2. a.packet = graph[n].packet /\ a.inputs = NothingConsumed
      BY <2>5 DEF Started
    <3> QED
      BY <1>1, <3>1, <3>2 DEF NothingConsumed
  <2>6. ASSUME NEW a \in Attempt, Advanced(n, a)
        PROVE  /\ Current(n)'.packet = Current(n).packet /\ row[n].attempt # 0
               /\ \A d \in graph[n].depends_on :
                     Current(n)'.inputs[d] \in {0, row[d].attempt, Current(n).inputs[d]}
    <3>1. row[n].attempt \in 1..Len(attempts[n]) /\ row'[n].attempt = row[n].attempt
      BY <2>6 DEF Advanced
    <3>2. Current(n)' = a
      BY <2>0, <2>6, <3>1, AdvancedAttempts DEF Current
    <3> QED
      BY <2>6, <3>1, <3>2 DEF Advanced
  <2> QED
    BY <2>0, <2>1, <2>2, <2>3, <2>4, <2>5, <2>6 DEF Works
<1>9. AcceptedWasCaptured'
  <2> SUFFICES ASSUME NEW n \in DOMAIN graph, row'[n].semantic = "satisfied"
               PROVE  /\ row'[n].attempt # 0 /\ row'[n].turn = "captured"
                      /\ Current(n)'.state \in {"settled", "failed"}
                      /\ Current(n)'.turn = "captured"
    BY DEF AcceptedWasCaptured
  <2>1. Same(n)
    BY <1>1, WorkedRow
  <2> QED
    BY <2>1 DEF Same, Current, RInv, AcceptedWasCaptured
<1> QED
  BY <1>2, <1>3, <1>4, <1>5, <1>7, <1>8, <1>9

(* A step that starts nothing: what runs after it ran before, in the same  *)
(* wave.                                                                   *)
LEMMA NothingStarted ==
    ASSUME RInv, IInv', graph' = graph, wave' = wave, Claimed' = Claimed, loaded' => loaded,
           \A n \in NodeId : Same(n) \/ \E a \in Attempt : Advanced(n, a)
    PROVE  WaveOwnsRunning' /\ RepositoryExclusive'
<1>1. ASSUME NEW n \in NodeId
      PROVE  /\ Running(n)' => Running(n) /\ Current(n)'.wave = Current(n).wave
             /\ row'[n].runtime = "running" => row[n].runtime = "running"
  <2>1. CASE Same(n)
    BY <2>1 DEF Same, Running, Current
  <2>2. ASSUME NEW a \in Attempt, Advanced(n, a)
        PROVE  /\ Running(n) /\ Current(n)'.wave = Current(n).wave
               /\ row[n].runtime = "running"
    <3>1. Current(n)' = a
      <4>1. row[n].attempt \in 1..Len(attempts[n]) /\ row'[n].attempt = row[n].attempt
        BY <2>2 DEF Advanced
      <4> QED
        BY <2>2, <4>1, AdvancedAttempts DEF Current
    <3>2. Running(n)
      BY <2>2 DEF Advanced, Running, Current
    <3> QED
      BY <2>2, <3>1, <3>2 DEF Advanced
  <2> QED
    BY <2>1, <2>2
<1>2. WaveOwnsRunning'
  <2>1. (loaded => (wave # 0 <=> phase # "none"))'
    BY DEF IInv, WaveHeld
  <2> QED
    BY <1>1, <2>1 DEF RInv, WaveOwnsRunning
<1>3. RepositoryExclusive'
  <2>1. DOMAIN graph \subseteq NodeId
    BY GraphType DEF RInv, IInv, TypeOK
  <2> QED
    BY <1>1, <2>1 DEF RInv, RepositoryExclusive
<1> QED
  BY <1>2, <1>3

LEMMA DelegateNextKeepsR ==
    ASSUME RInv, NEW W \in SUBSET NodeId, DelegateNext(W)
    PROVE  RInv'
<1>1. IInv'
  BY DelegateNextKeeps DEF RInv
<1>2. \A n \in NodeId : IF n \in W THEN Started(n, StartedAttempt(n)) ELSE Same(n)
  BY DelegateNextEffect
<1>3. /\ graph' = graph /\ loaded' = loaded /\ wave = 0 /\ wave' = revision + 1
      /\ \A n \in NodeId : plans'[n] = IF n \in W THEN NoPlan ELSE plans[n]
      /\ \A n \in W : task'[n] = "created"
      /\ revision \in Nat
  BY DEF DelegateNext, MayDelegate, RInv, IInv, TypeOK
<1>4. \A n \in NodeId : Works(n)
  BY <1>2, <1>3 DEF Works, Started
<1>5. ASSUME NEW n \in NodeId, n \in W
      PROVE  Current(n)' = StartedAttempt(n) /\ StartedAttempt(n).wave = wave'
  BY <1>2, <1>3, <1>5, StartedAttempts DEF Current, Started, StartedAttempt
<1>6. \A n \in NodeId : Running(n)' => n \in W
  BY <1>2, <1>3, QuietWithoutWave DEF Same, Running
<1>7. WaveOwnsRunning'
  <2>1. (loaded => (wave # 0 <=> phase # "none"))'
    BY <1>1 DEF IInv, WaveHeld
  <2>2. \A n \in W : n \in Claimed'
    BY <1>3 DEF Claimed
  <2> QED
    BY <1>3, <1>5, <1>6, <2>1, <2>2 DEF WaveOwnsRunning
<1>8. RepositoryExclusive'
  <2>1. DOMAIN graph \subseteq NodeId
    BY GraphType DEF RInv, IInv, TypeOK
  <2>2. \A n \in DOMAIN graph : row'[n].runtime = "running" => n \in W
    BY <1>2, <1>3, <2>1, QuietWithoutWave DEF Same
  <2>3. \A m, n \in W : graph[m].repository = graph[n].repository => m = n
    BY DEF DelegateNext, MayDelegate, WaveSelection, MaximalConflictFree
  <2> QED
    BY <1>3, <2>2, <2>3 DEF RepositoryExclusive
<1> QED
  BY <1>1, <1>3, <1>4, <1>7, <1>8, WorkKeeps DEF RInv

LEMMA DelegateStartFailsKeepsR ==
    ASSUME RInv, NEW W \in SUBSET NodeId, NEW C \in SUBSET W, DelegateStartFails(W, C)
    PROVE  RInv'
<1>1. IInv'
  BY DelegateStartFailsKeeps DEF RInv
<1>2. \A n \in NodeId :
        IF n \in C THEN Started(n, [StartedAttempt(n) EXCEPT !.state = "failed"]) ELSE Same(n)
  BY DelegateStartFailsEffect
<1>3. UNCHANGED <<loaded, graph, wave, plans, task, phase>> /\ wave = 0
  BY DEF DelegateStartFails, MayDelegate
<1>4. ASSUME NEW n \in NodeId PROVE Works(n) /\ ~Running(n)'
                                    /\ (n \in DOMAIN graph => row'[n].runtime # "running")
  <2>1. CASE n \notin C
    BY <1>2, <1>3, <2>1, QuietWithoutWave DEF Works, Same, Running
  <2>2. CASE n \in C
    <3> DEFINE a == [StartedAttempt(n) EXCEPT !.state = "failed"]
    <3>1. Started(n, a) /\ a.state = "failed"
      BY <1>2, <2>2 DEF StartedAttempt
    <3> HIDE DEF a
    <3>2. \A k \in 1..Len(attempts'[n]) : k \in 1..Len(attempts[n]) \/ attempts'[n][k] = a
      BY <3>1, StartedAttempts
    <3>3. ~Running(n)'
      BY <3>1, <3>2, StartedAttempts DEF Running, Started
    <3>4. Works(n)
      BY <1>3, <3>1 DEF Works, Started
    <3> QED
      BY <3>1, <3>3, <3>4 DEF Started
  <2> QED
    BY <2>1, <2>2
<1>5. WaveOwnsRunning' /\ RepositoryExclusive'
  <2>1. (loaded => (wave # 0 <=> phase # "none"))'
    BY <1>1 DEF IInv, WaveHeld
  <2>2. DOMAIN graph' \subseteq NodeId /\ graph' = graph
    BY <1>3, GraphType DEF RInv, IInv, TypeOK
  <2> QED
    BY <1>4, <2>1, <2>2 DEF WaveOwnsRunning, RepositoryExclusive
<1> QED
  BY <1>1, <1>3, <1>4, <1>5, WorkKeeps DEF RInv

LEMMA TaskBeginsKeepsR ==
    ASSUME RInv, NEW n \in NodeId, TaskBegins(n)
    PROVE  RInv'
<1>1. IInv'
  BY TaskBeginsKeeps DEF RInv
<1> DEFINE a == [Current(n) EXCEPT !.inputs = [d \in NodeId |-> IF d \in graph[n].depends_on
                                                               THEN row[d].attempt ELSE 0]]
<1>2. Advanced(n, a) /\ \A m \in NodeId \ {n} : Same(m)
  BY TaskBeginsEffect
<1> HIDE DEF a
<1>3. a \in Attempt /\ UNCHANGED <<loaded, graph, wave, plans, phase>>
  BY <1>2 DEF Advanced, TaskBegins
<1>4. Claimed' = Claimed
  BY DEF Claimed, TaskBegins, RInv, IInv, TypeOK
<1>5. \A m \in NodeId : Works(m) /\ (Same(m) \/ \E b \in Attempt : Advanced(m, b))
  BY <1>2, <1>3 DEF Works
<1> QED
  BY <1>1, <1>3, <1>4, <1>5, WorkKeeps, NothingStarted DEF RInv

LEMMA ChildEndsKeepsR ==
    ASSUME RInv, NEW n \in NodeId,
           \/ \E s \in AttemptState, t \in Turn : AttemptFinishes(n, s, t)
           \/ \E s \in 0..Len(attempts[n]) : AttemptRaises(n, s)
    PROVE  RInv'
<1>1. IInv'
  BY ChildEndsKeeps DEF RInv
<1>2. /\ \E a \in Attempt : Advanced(n, a)
      /\ \A m \in NodeId \ {n} : Same(m)
      /\ task[n] = "executing" /\ task' = [task EXCEPT ![n] = "done"]
      /\ UNCHANGED <<loaded, graph, wave, plans, phase>>
  BY ChildEndsEffect
<1>3. Claimed' = Claimed
  BY <1>2 DEF Claimed, RInv, IInv, TypeOK
<1>4. \A m \in NodeId : Works(m) /\ (Same(m) \/ \E b \in Attempt : Advanced(m, b))
  BY <1>2 DEF Works
<1> QED
  BY <1>1, <1>2, <1>3, <1>4, WorkKeeps, NothingStarted DEF RInv

LEMMA CancelKeepsR == ASSUME RInv, Cancel PROVE RInv'
<1>1. IInv'
  BY CancelKeeps DEF RInv
<1>2. UNCHANGED <<loaded, graph, row, attempts, wave, revision, plans>>
  BY DEF Cancel
<1>3. Claimed' = Claimed
  BY DEF Claimed, Cancel, RInv, IInv, TypeOK
<1>4. \A m \in NodeId : Works(m) /\ Same(m)
  BY <1>2 DEF Works, Same
<1> QED
  BY <1>1, <1>2, <1>3, <1>4, WorkKeeps, NothingStarted DEF RInv

LEMMA CloseWaveKeepsR == ASSUME RInv, CloseWave PROVE RInv'
<1>1. IInv'
  BY CloseWaveKeeps DEF RInv
<1>2. \A n \in NodeId :
        IF n \in Unfinished THEN Advanced(n, [Current(n) EXCEPT !.state = "failed"])
                            ELSE Same(n)
  BY CloseWaveEffect
<1>3. UNCHANGED <<loaded, graph, plans>> /\ loaded
  BY DEF CloseWave, RInv, IInv, WaveHeld
<1>4. ASSUME NEW n \in NodeId
      PROVE  /\ Works(n) /\ ~Running(n)'
             /\ (n \in DOMAIN graph => row'[n].runtime # "running")
  <2>1. CASE n \in Unfinished
    <3> DEFINE c == Current(n)
               a == [c EXCEPT !.state = "failed"]
    <3>1. Advanced(n, a)
      BY <1>2, <2>1
    <3>2. c \in Attempt
      BY <2>1, ChildRuns
    <3> HIDE DEF c
    <3>3. a \in Attempt /\ a.state = "failed"
      BY <3>2 DEF Attempt, AttemptState
    <3> HIDE DEF a
    <3>4. Works(n)
      BY <1>3, <3>1, <3>3 DEF Works
    <3>5. row'[n].runtime = "failed" /\ NodeStep(n)
      BY <3>1, <3>3 DEF Advanced, NodeStep
    <3>6. Mirrors(n)'
      BY <3>5, NodeStepSound DEF RInv, NodesAreSound, IInv, TypeOK
    <3>7. ~Running(n)'
      BY <3>5, <3>6 DEF Mirrors, Running
    <3> QED
      BY <3>4, <3>5, <3>7
  <2>2. CASE n \notin Unfinished
    <3>1. Same(n)
      BY <1>2, <2>2
    <3>2. ~Running(n)
      BY <1>3, <2>2, RunningIsCurrent DEF Unfinished, RInv, WaveOwnsRunning
    <3>3. n \in DOMAIN graph => row[n].runtime # "running"
      BY <3>2, RunningIsCurrent DEF RInv, ActiveIsAuthored
    <3> QED
      BY <1>3, <3>1, <3>2, <3>3 DEF Works, Same, Running
  <2> QED
    BY <2>1, <2>2
<1>5. WaveOwnsRunning' /\ RepositoryExclusive'
  <2>1. (loaded => (wave # 0 <=> phase # "none"))'
    BY <1>1 DEF IInv, WaveHeld
  <2>2. DOMAIN graph' \subseteq NodeId /\ graph' = graph
    BY <1>3, GraphType DEF RInv, IInv, TypeOK
  <2> QED
    BY <1>4, <2>1, <2>2 DEF WaveOwnsRunning, RepositoryExclusive
<1> QED
  BY <1>1, <1>3, <1>4, <1>5, WorkKeeps DEF RInv

(* The Lead's decisions.                                                   *)
LEMMA SubmitDecisionsKeepsR ==
    ASSUME RInv, NEW D \in SUBSET NodeId, NEW decide \in [D -> Decision], NEW expected,
           SubmitDecisions(D, decide, expected)
    PROVE  RInv'
<1>1. IInv'
  BY SubmitDecisionsKeeps DEF RInv
<1>2. /\ D \subseteq Reviewable(graph, row)
      /\ \A n \in NodeId :
            IF n \in D
            THEN /\ Rested(n) /\ row'[n].active = row[n].active
                 /\ row'[n].semantic = SemanticAfter(decide[n])
                 /\ row[n].runtime # "running"
            ELSE Same(n)
  BY SubmitDecisionsEffect
<1>3. /\ UNCHANGED <<loaded, graph, attempts, wave, task, phase>>
      /\ \A n \in D : decide[n] = "accept" => row[n].turn = "captured"
      /\ \A n \in D : decide[n] = "resume" => row[n].session # 0
      /\ \A n \in NodeId : plans'[n] = IF n \in D THEN PlanAfter(n, decide[n]) ELSE plans[n]
  BY DEF SubmitDecisions, Acceptable
<1>4. /\ DOMAIN graph \subseteq NodeId /\ attempts \in [NodeId -> Seq(Attempt)]
      /\ \A n \in DOMAIN graph : graph[n].depends_on \subseteq NodeId
      /\ D \subseteq DOMAIN graph
      /\ \A n \in D : row[n].semantic = "pending" /\ row[n].runtime # "idle"
  BY <1>2, GraphType DEF RInv, IInv, TypeOK, Reviewable, ReviewableRuntime
<1>5. \A n \in NodeId :
        /\ row'[n].active = row[n].active /\ row'[n].attempt = row[n].attempt
        /\ row'[n].session = row[n].session /\ row'[n].turn = row[n].turn
        /\ row'[n].runtime = "running" => row[n].runtime = "running"
        /\ Current(n)' = Current(n)
  BY <1>2, <1>3 DEF Rested, Same, Current
<1>6. NodesAreSound'
  <2>1. \A n \in NodeId : NodeStep(n)
    BY <1>2 DEF NodeStep
  <2> QED
    BY <1>4, <2>1, NodeStepSound DEF RInv, NodesAreSound
<1>7. ActiveIsAuthored'
  BY <1>3, <1>5 DEF RInv, ActiveIsAuthored
<1>8. WaveOwnsRunning'
  <2>1. \A n \in NodeId : (Running(n)' <=> Running(n)) /\ (n \in Claimed' <=> n \in Claimed)
    BY <1>3 DEF Running, Claimed
  <2> QED
    BY <1>3, <1>5, <2>1 DEF RInv, WaveOwnsRunning
<1>9. RepositoryExclusive'
  BY <1>3, <1>4, <1>5 DEF RInv, RepositoryExclusive
<1>10. PlansAreCurrent'
  <2> SUFFICES ASSUME NEW n \in NodeId, plans'[n] # NoPlan
               PROVE  /\ n \in DOMAIN graph /\ row'[n].semantic = "pending"
                      /\ plans'[n].packet = graph[n].packet
                      /\ plans'[n].mode = "resume" =>
                            plans'[n].session = row'[n].session /\ row'[n].session # 0
    BY <1>3 DEF PlansAreCurrent
  <2>1. CASE n \in D
    <3>1. plans'[n] = PlanAfter(n, decide[n]) /\ decide[n] \in {"retry", "resume"}
      BY <1>3, <2>1 DEF PlanAfter, Decision
    <3>2. row'[n].semantic = "pending"
      BY <1>2, <2>1, <3>1 DEF SemanticAfter
    <3> QED
      BY <1>3, <1>4, <1>5, <2>1, <3>1, <3>2 DEF PlanAfter
  <2>2. CASE n \notin D
    BY <1>2, <1>3, <2>2 DEF RInv, PlansAreCurrent, Same
  <2> QED
    BY <2>1, <2>2
<1>11. RunningHasNoPlan'
  BY <1>2, <1>3 DEF RInv, RunningHasNoPlan, Same, Rested
<1>12. \A n \in NodeId : row[n].semantic = "satisfied" => row'[n].semantic = "satisfied"
  BY <1>2, <1>4 DEF Same
<1>13. \A n \in DOMAIN graph : row'[n].semantic # "blocked" => row[n].semantic # "blocked"
  BY <1>2, <1>4 DEF Same
<1>14. AttemptsStandOnAccepted'
  BY <1>3, <1>4, <1>5, <1>12, <1>13
    DEF RInv, AttemptsStandOnAccepted, DependenciesSatisfied
<1>15. EvidenceIsCurrent'
  <2> SUFFICES ASSUME NEW n \in DOMAIN graph, row'[n].attempt # 0
               PROVE  /\ Current(n)'.packet = graph[n].packet
                      /\ row'[n].semantic # "blocked" =>
                            \A d \in graph[n].depends_on :
                               Current(n)'.inputs[d] \in {0, row'[d].attempt}
    BY <1>3 DEF EvidenceIsCurrent
  <2>1. row[n].attempt # 0 /\ Current(n)' = Current(n)
    BY <1>4, <1>5
  <2>2. \A d \in graph[n].depends_on : row'[d].attempt = row[d].attempt
    BY <1>4, <1>5
  <2> QED
    BY <1>13, <2>1, <2>2 DEF RInv, EvidenceIsCurrent
<1>16. AcceptedWasCaptured'
  <2> SUFFICES ASSUME NEW n \in DOMAIN graph, row'[n].semantic = "satisfied"
               PROVE  /\ row[n].attempt # 0 /\ row[n].turn = "captured"
                      /\ Current(n).state \in {"settled", "failed"}
                      /\ Current(n).turn = "captured"
    BY <1>3, <1>4, <1>5 DEF AcceptedWasCaptured
  <2>1. CASE n \in D
    <3>1. decide[n] = "accept"
      BY <1>2, <1>4, <2>1 DEF SemanticAfter
    <3>2. row[n].turn = "captured" /\ row[n].attempt # 0 /\ n \in NodeId
      BY <1>3, <1>4, <2>1, <3>1 DEF RInv, NodesAreSound, BusyHasAttempt
    <3>3. Current(n).turn = "captured"
      BY <3>2 DEF RInv, NodesAreSound, Mirrors
    <3>4. row[n].attempt \in 1..Len(attempts[n])
      BY <1>4, <3>2 DEF RInv, IInv, RowPointsAtAttempt
    <3> QED
      BY <3>2, <3>3, <3>4 DEF RInv, NodesAreSound, TurnsFit, Current
  <2>2. CASE n \notin D
    BY <1>2, <1>4, <2>2 DEF RInv, AcceptedWasCaptured, Same
  <2> QED
    BY <2>1, <2>2
<1> QED
  BY <1>1, <1>6, <1>7, <1>8, <1>9, <1>10, <1>11, <1>14, <1>15, <1>16 DEF RInv

(* The reconciliation: a node that keeps its attempt keeps its inputs, for *)
(* a dependency that is reset would reset it too.                          *)
LEMMA ReconcileGraphKeepsR ==
    ASSUME RInv, NEW h \in Graph, NEW expected, ReconcileGraph(h, expected)
    PROVE  RInv'
<1> DEFINE reset == Reset(graph, h, Blocked)
<1>1. IInv'
  BY ReconcileGraphKeeps DEF RInv
<1>2. \A n \in NodeId :
        IF n \in reset THEN Cleared(n)
        ELSE IF n \in Removed(graph, h)
        THEN Rested(n) /\ ~row'[n].active /\ row'[n].semantic = "cancelled"
        ELSE Same(n)
  BY ReconcileGraphEffect
<1>3. /\ graph' = h /\ wave = 0 /\ UNCHANGED <<loaded, attempts, wave, task, phase>>
      /\ \A n \in NodeId : plans'[n] = IF n \in DOMAIN h /\ n \notin reset THEN plans[n]
                                       ELSE NoPlan
      /\ \A n \in NodeId : ~Running(n)
  BY DEF ReconcileGraph, PlanSurvives
<1>4. /\ graph \in Graph /\ DOMAIN graph \subseteq NodeId /\ DOMAIN h \subseteq NodeId
      /\ attempts \in [NodeId -> Seq(Attempt)]
      /\ \A n \in DOMAIN h : h[n].depends_on \subseteq DOMAIN h
  BY GraphType DEF RInv, IInv, TypeOK
<1>5. /\ reset \subseteq DOMAIN h
      /\ \A n \in DOMAIN h \ reset : n \in DOMAIN graph /\ graph[n] = h[n]
      /\ \A n \in DOMAIN h \ Blocked : h[n].depends_on \cap reset # {} => n \in reset
  BY <1>4, ResetClosed, KeptIsUnchanged
<1> HIDE DEF reset
<1>6. \A n \in DOMAIN h : IF n \in reset THEN row'[n] = Fresh ELSE row'[n] = row[n]
  BY <1>2, <1>4 DEF Removed, Cleared, Same
<1>7. NodesAreSound'
  <2>1. \A n \in NodeId : NodeStep(n)
    BY <1>2 DEF NodeStep
  <2> QED
    BY <1>4, <2>1, NodeStepSound DEF RInv, NodesAreSound
<1>8. ActiveIsAuthored'
  <2> SUFFICES ASSUME NEW n \in NodeId PROVE row'[n].active <=> n \in DOMAIN h
    BY <1>3 DEF ActiveIsAuthored
  <2>1. CASE n \in DOMAIN h
    BY <1>5, <1>6, <2>1 DEF RInv, ActiveIsAuthored, Fresh
  <2>2. CASE n \notin DOMAIN h
    BY <1>2, <1>5, <2>2 DEF RInv, ActiveIsAuthored, Same, Removed
  <2> QED
    BY <2>1, <2>2
<1>9. WaveOwnsRunning'
  <2>1. (loaded => (wave # 0 <=> phase # "none"))'
    BY <1>1 DEF IInv, WaveHeld
  <2>2. \A n \in NodeId : ~Running(n)'
    BY <1>3 DEF Running
  <2> QED
    BY <2>1, <2>2 DEF WaveOwnsRunning
<1>10. RepositoryExclusive'
  <2>1. \A n \in DOMAIN h : row'[n].runtime # "running"
    BY <1>3, <1>4, <1>5, <1>6, QuietWithoutWave DEF Fresh
  <2> QED
    BY <1>3, <2>1 DEF RepositoryExclusive
<1>11. PlansAreCurrent'
  <2> SUFFICES ASSUME NEW n \in NodeId, plans'[n] # NoPlan
               PROVE  /\ n \in DOMAIN h /\ row'[n].semantic = "pending"
                      /\ plans'[n].packet = h[n].packet
                      /\ plans'[n].mode = "resume" =>
                            plans'[n].session = row'[n].session /\ row'[n].session # 0
    BY <1>3 DEF PlansAreCurrent
  <2>1. n \in DOMAIN h \ reset /\ plans'[n] = plans[n]
    BY <1>3
  <2> QED
    BY <1>5, <1>6, <2>1 DEF RInv, PlansAreCurrent
<1>12. RunningHasNoPlan'
  <2> SUFFICES ASSUME NEW n \in NodeId, row'[n].runtime = "running" PROVE plans'[n] = NoPlan
    BY DEF RunningHasNoPlan
  <2>1. Same(n)
    BY <1>2 DEF Cleared, Rested, Fresh
  <2> QED
    BY <1>3, <2>1 DEF Same, RInv, RunningHasNoPlan
<1>13. ASSUME NEW n \in DOMAIN h, row'[n].attempt # 0, row'[n].semantic # "blocked"
       PROVE  /\ n \in DOMAIN graph /\ graph[n] = h[n] /\ row[n].attempt # 0
              /\ row'[n] = row[n] /\ DependenciesSatisfied(graph, row, n)
              /\ \A d \in h[n].depends_on : row'[d] = row[d]
  <2>1. n \notin reset
    BY <1>6, <1>13 DEF Fresh
  <2>2. n \in DOMAIN graph /\ graph[n] = h[n] /\ row'[n] = row[n]
    BY <1>5, <1>6, <2>1
  <2>3. DependenciesSatisfied(graph, row, n)
    BY <1>13, <2>2 DEF RInv, AttemptsStandOnAccepted
  <2>4. n \notin Blocked
    BY <1>13, <2>2 DEF Blocked
  <2>5. \A d \in h[n].depends_on : d \in DOMAIN h /\ d \notin reset
    BY <1>4, <1>5, <2>1, <2>4
  <2> QED
    BY <1>6, <1>13, <2>2, <2>3, <2>5
<1>14. AttemptsStandOnAccepted'
  BY <1>3, <1>13 DEF AttemptsStandOnAccepted, DependenciesSatisfied
<1>15. EvidenceIsCurrent'
  <2> SUFFICES ASSUME NEW n \in DOMAIN h, row'[n].attempt # 0
               PROVE  /\ Current(n)'.packet = h[n].packet
                      /\ row'[n].semantic # "blocked" =>
                            \A d \in h[n].depends_on :
                               Current(n)'.inputs[d] \in {0, row'[d].attempt}
    BY <1>3 DEF EvidenceIsCurrent
  <2>1. n \notin reset
    BY <1>6 DEF Fresh
  <2>2. n \in DOMAIN graph /\ graph[n] = h[n] /\ row'[n] = row[n]
    BY <1>5, <1>6, <2>1
  <2>3. Current(n)' = Current(n)
    BY <1>3, <2>2 DEF Current
  <2> QED
    BY <1>13, <2>2, <2>3 DEF RInv, EvidenceIsCurrent
<1>16. AcceptedWasCaptured'
  <2> SUFFICES ASSUME NEW n \in DOMAIN h, row'[n].semantic = "satisfied"
               PROVE  /\ row'[n].attempt # 0 /\ row'[n].turn = "captured"
                      /\ Current(n)'.state \in {"settled", "failed"}
                      /\ Current(n)'.turn = "captured"
    BY <1>3 DEF AcceptedWasCaptured
  <2>1. n \notin reset
    BY <1>6 DEF Fresh
  <2>2. n \in DOMAIN graph /\ row'[n] = row[n]
    BY <1>5, <1>6, <2>1
  <2> QED
    BY <1>3, <2>2 DEF Current, RInv, AcceptedWasCaptured
<1> QED
  BY <1>1, <1>7, <1>8, <1>9, <1>10, <1>11, <1>12, <1>14, <1>15, <1>16 DEF RInv

LEMMA CrashKeepsR == ASSUME RInv, Crash PROVE RInv'
<1>1. IInv'
  BY CrashKeeps DEF RInv
<1>2. /\ UNCHANGED <<graph, row, attempts, wave, revision>> /\ ~loaded'
      /\ \A n \in NodeId : plans'[n] = NoPlan
  BY DEF Crash
<1>3. \A n \in NodeId : Works(n) /\ (Running(n)' <=> Running(n)) /\ Current(n)' = Current(n)
  BY <1>2 DEF Works, Same, Running, Current
<1>4. WaveOwnsRunning' /\ RepositoryExclusive'
  BY <1>2, <1>3 DEF RInv, WaveOwnsRunning, RepositoryExclusive
<1> QED
  BY <1>1, <1>2, <1>3, <1>4, WorkKeeps DEF RInv

(* The start state satisfies the invariant.                                *)
LEMMA InitRInv == Init => RInv
<1> SUFFICES ASSUME Init PROVE RInv
  OBVIOUS
<1>1. IInv
  BY InitIInv
<1>2. DOMAIN graph \subseteq NodeId
  BY GraphType DEF Init
<1>3. \A n \in NodeId :
        /\ row[n] = IF n \in DOMAIN graph THEN Fresh ELSE Absent
        /\ attempts[n] = <<>> /\ plans[n] = NoPlan
  BY DEF Init
<1>4. NodesAreSound /\ ActiveIsAuthored /\ RunningHasNoPlan
  BY <1>3 DEF NodesAreSound, ActiveIsAuthored, RunningHasNoPlan, Mirrors, TurnsFit,
              BusyHasAttempt, Fresh, Absent
<1>5. WaveOwnsRunning
  BY <1>3 DEF WaveOwnsRunning, Running, Init
<1>6. \A n \in DOMAIN graph : row[n] = Fresh
  BY <1>2, <1>3
<1>7. RepositoryExclusive /\ PlansAreCurrent
  BY <1>3, <1>6 DEF RepositoryExclusive, PlansAreCurrent, Fresh
<1>8. AttemptsStandOnAccepted /\ EvidenceIsCurrent /\ AcceptedWasCaptured
  BY <1>6 DEF AttemptsStandOnAccepted, EvidenceIsCurrent, AcceptedWasCaptured, Fresh
<1> QED
  BY <1>1, <1>4, <1>5, <1>7, <1>8 DEF RInv

(* Every step, or none, keeps the invariant.                               *)
LEMMA StepRInv == RInv /\ [Next]_vars => RInv'
<1> SUFFICES ASSUME RInv, [Next]_vars PROVE RInv'
  OBVIOUS
<1>1. CASE \E W \in SUBSET NodeId : DelegateNext(W)
  BY <1>1, DelegateNextKeepsR
<1>2. CASE \E W \in SUBSET NodeId : \E C \in SUBSET W : DelegateStartFails(W, C)
  BY <1>2, DelegateStartFailsKeepsR
<1>3. CASE \E n \in NodeId : TaskBegins(n)
  BY <1>3, TaskBeginsKeepsR
<1>4. CASE \E n \in NodeId, s \in AttemptState, t \in Turn : AttemptFinishes(n, s, t)
  BY <1>4, ChildEndsKeepsR
<1>5. CASE \E n \in NodeId : \E s \in 0..Len(attempts[n]) : AttemptRaises(n, s)
  BY <1>5, ChildEndsKeepsR
<1>6. CASE Cancel
  BY <1>6, CancelKeepsR
<1>7. CASE CloseWave
  BY <1>7, CloseWaveKeepsR
<1>8. CASE \E D \in SUBSET NodeId : \E decide \in [D -> Decision] :
              SubmitDecisions(D, decide, revision)
  BY <1>8, SubmitDecisionsKeepsR
<1>9. CASE \E h \in Graph : ReconcileGraph(h, revision)
  BY <1>9, ReconcileGraphKeepsR
<1>10. CASE Crash
  BY <1>10, CrashKeepsR
<1>11. CASE UNCHANGED vars
  <2>1. IInv'
    BY <1>11, StepIInv DEF RInv
  <2>2. \A n \in NodeId : Works(n) /\ Same(n)
    BY <1>11 DEF vars, Works, Same
  <2>3. /\ UNCHANGED <<graph, wave, loaded, task>> /\ Claimed' = Claimed
    BY <1>11 DEF vars, Claimed
  <2> QED
    BY <2>1, <2>2, <2>3, WorkKeeps, NothingStarted DEF RInv
<1> QED
  BY <1>1, <1>2, <1>3, <1>4, <1>5, <1>6, <1>7, <1>8, <1>9, <1>10, <1>11 DEF Next

(* Every reachable state satisfies the invariant.                          *)
LEMMA InvarianceR == Spec => []RInv
BY InitRInv, StepRInv, PTL DEF Spec

-----------------------------------------------------------------------------
(* The theorems on the tables, the plans and the evidence.                 *)

(* The attempts, the node rows, the wave, its children and the             *)
(* repositories never disagree on what is running.                         *)
THEOREM RecordsAlwaysAgree == Spec => []RecordsAgree
<1>1. RInv => RecordsAgree
  BY DEF RInv, NodesAreSound, Mirrors, RecordsAgree, RowMirrorsAttempt
<1> QED
  BY <1>1, InvarianceR, PTL

(* A retry plan is always one that start_attempt accepts: for a pending    *)
(* node, with the authored packet and the session its row names.           *)
THEOREM PlansAlwaysCurrent == Spec => []PlansAreCurrent
<1>1. RInv => PlansAreCurrent
  BY DEF RInv
<1> QED
  BY <1>1, InvarianceR, PTL

(* No reconciliation and no retry leaves a result standing on an input     *)
(* that was replaced, and every accepted node has a captured turn.         *)
THEOREM EvidenceAlwaysSound == Spec => []EvidenceIsSound
<1>1. RInv => EvidenceIsSound
  BY DEF RInv, EvidenceIsSound
<1> QED
  BY <1>1, InvarianceR, PTL

(* Each step of the runtime does one of a few things to each node.         *)
LEMMA StepNodes == RInv /\ [Next]_vars => \A n \in NodeId : NodeStep(n)
<1> SUFFICES ASSUME RInv, [Next]_vars PROVE \A n \in NodeId : NodeStep(n)
  OBVIOUS
<1> USE DEF NodeStep
<1>1. ASSUME NEW W \in SUBSET NodeId, DelegateNext(W) PROVE \A n \in NodeId : NodeStep(n)
  BY <1>1, DelegateNextEffect DEF Started
<1>2. ASSUME NEW W \in SUBSET NodeId, NEW C \in SUBSET W, DelegateStartFails(W, C)
      PROVE  \A n \in NodeId : NodeStep(n)
  BY <1>2, DelegateStartFailsEffect DEF Started
<1>3. ASSUME NEW n \in NodeId, TaskBegins(n) PROVE \A m \in NodeId : NodeStep(m)
  BY <1>3, TaskBeginsEffect DEF Advanced
<1>4. ASSUME NEW n \in NodeId,
             \/ \E s \in AttemptState, t \in Turn : AttemptFinishes(n, s, t)
             \/ \E s \in 0..Len(attempts[n]) : AttemptRaises(n, s)
      PROVE  \A m \in NodeId : NodeStep(m)
  <2>1. \E a \in Attempt : Advanced(n, a)
    BY <1>4, ChildEndsEffect
  <2>2. \A m \in NodeId \ {n} : Same(m)
    BY <1>4, ChildEndsEffect
  <2> QED
    BY <2>1, <2>2
<1>5. CASE CloseWave
  BY <1>5, CloseWaveEffect DEF Advanced
<1>6. ASSUME NEW D \in SUBSET NodeId, NEW decide \in [D -> Decision],
             SubmitDecisions(D, decide, revision)
      PROVE  \A n \in NodeId : NodeStep(n)
  BY <1>6, SubmitDecisionsEffect
<1>7. ASSUME NEW h \in Graph, ReconcileGraph(h, revision)
      PROVE  \A n \in NodeId : NodeStep(n)
  BY <1>7, ReconcileGraphEffect
<1>8. CASE Cancel \/ Crash \/ UNCHANGED vars
  BY <1>8 DEF Cancel, Crash, vars, Same
<1> QED
  BY <1>1, <1>2, <1>3, <1>4, <1>5, <1>6, <1>7, <1>8 DEF Next

(* An attempt that ended keeps its outcome, session, turn and inputs       *)
(* through every later retry, cleanup and reconciliation.                  *)
THEOREM EndedAttemptsNeverChange == Spec => EndedAttemptsAreFixed
<1>1. RInv /\ [Next]_vars =>
        [\A n \in NodeId : \A i \in 1..Len(attempts[n]) :
            attempts[n][i].state # "running" =>
                i <= Len(attempts'[n]) /\ attempts'[n][i] = attempts[n][i]]_vars
  BY StepNodes, NodeStepSound DEF RInv, NodesAreSound, IInv, TypeOK
<1> QED
  BY <1>1, InvarianceR, PTL DEF Spec, EndedAttemptsAreFixed

(* A RESUME the Lead asked for is used up by an attempt that starts on     *)
(* that session, or given up for a reason the Lead knows.                  *)
THEOREM ResumeIntentNeverLost == Spec => ResumeIntentKept
<1> DEFINE A == \A n \in NodeId : plans[n].mode = "resume" /\ plans'[n] # plans[n] =>
                  \/ /\ Len(attempts'[n]) > Len(attempts[n])
                     /\ attempts'[n][Len(attempts'[n])].state = "running"
                     /\ attempts'[n][Len(attempts'[n])].session = plans[n].session
                  \/ row[n].runtime # "idle" /\ row'[n].runtime = "idle"
                  \/ row'[n].attempt = 0 \/ ~row'[n].active
                  \/ ~loaded'
<1>1. RInv /\ [Next]_vars => [A]_vars
  <2> SUFFICES ASSUME RInv, Next, NEW n \in NodeId, plans'[n] # plans[n],
                      plans[n].mode = "resume"
               PROVE  \/ /\ Len(attempts'[n]) > Len(attempts[n])
                         /\ attempts'[n][Len(attempts'[n])].state = "running"
                         /\ attempts'[n][Len(attempts'[n])].session = plans[n].session
                      \/ row[n].runtime # "idle" /\ row'[n].runtime = "idle"
                      \/ row'[n].attempt = 0 \/ ~row'[n].active
                      \/ ~loaded'
    OBVIOUS
  <2>1. ASSUME NEW W \in SUBSET NodeId, DelegateNext(W)
        PROVE  /\ Len(attempts'[n]) > Len(attempts[n])
               /\ attempts'[n][Len(attempts'[n])].state = "running"
               /\ attempts'[n][Len(attempts'[n])].session = plans[n].session
    <3>1. n \in W
      BY <2>1 DEF DelegateNext
    <3>2. Started(n, StartedAttempt(n)) /\ StartedAttempt(n).state = "running"
      BY <2>1, <3>1, DelegateNextEffect DEF StartedAttempt
    <3> QED
      BY <3>2, StartedAttempts DEF Started
  <2>2. ASSUME NEW D \in SUBSET NodeId, NEW decide \in [D -> Decision],
               SubmitDecisions(D, decide, revision)
        PROVE  row[n].runtime # "idle" /\ row'[n].runtime = "idle"
    <3>1. n \in D
      BY <2>2 DEF SubmitDecisions
    <3> QED
      BY <2>2, <3>1, SubmitDecisionsEffect DEF Rested, Reviewable, ReviewableRuntime
  <2>3. ASSUME NEW h \in Graph, ReconcileGraph(h, revision)
        PROVE  row'[n].attempt = 0 \/ ~row'[n].active
    <3>1. n \in Reset(graph, h, Blocked) \/ n \notin DOMAIN h
      BY <2>3 DEF ReconcileGraph, PlanSurvives
    <3>2. ActiveIsAuthored' /\ graph' = h
      BY <2>3, ReconcileGraphKeepsR DEF RInv, ReconcileGraph
    <3> QED
      BY <2>3, <3>1, <3>2, ReconcileGraphEffect DEF Cleared, Fresh, ActiveIsAuthored
  <2>4. CASE Crash
    BY <2>4 DEF Crash
  <2>5. CASE UNCHANGED plans
    BY <2>5
  <2> QED
    BY <2>1, <2>2, <2>3, <2>4, <2>5
      DEF Next, DelegateStartFails, TaskBegins, AttemptFinishes, AttemptRaises, Cancel,
          CloseWave
<1> QED
  BY <1>1, InvarianceR, PTL DEF Spec, ResumeIntentKept

-----------------------------------------------------------------------------
(* The revision.                                                           *)

(* A wave and a set of decisions are never empty.                          *)
LEMMA WavesAreNotEmpty ==
    ASSUME NEW W \in SUBSET NodeId, MayDelegate(W)
    PROVE  W # {}
<1>1. Runnable(graph, row) # {}
  BY DEF MayDelegate, GraphState
<1> QED
  BY <1>1 DEF MayDelegate, WaveSelection, MaximalConflictFree

(* A step never takes the revision back, and one that leaves it alone      *)
(* changes neither the graph nor a row.                                    *)
LEMMA StepRevision ==
    RInv /\ [Next]_vars => /\ revision \in Nat /\ revision' >= revision
                           /\ revision' = revision => graph' = graph /\ row' = row
<1> SUFFICES ASSUME RInv, [Next]_vars
             PROVE  /\ revision' >= revision
                    /\ revision' = revision => graph' = graph /\ row' = row
  BY DEF RInv, IInv, TypeOK
<1>0. revision \in Nat
  BY DEF RInv, IInv, TypeOK
<1>1. ASSUME NEW S \in SUBSET NodeId PROVE Cardinality(S) \in Nat /\ (S # {} => Cardinality(S) > 0)
  <2>1. IsFiniteSet(S)
    BY GraphAssumption, FS_Subset
  <2> QED
    BY <2>1, FS_CardinalityType, FS_EmptySet
<1>2. ASSUME NEW W \in SUBSET NodeId, DelegateNext(W) PROVE revision' > revision
  BY <1>0, <1>1, <1>2, WavesAreNotEmpty DEF DelegateNext
<1>3. ASSUME NEW W \in SUBSET NodeId, NEW C \in SUBSET W, DelegateStartFails(W, C)
      PROVE  revision' > revision
  <2>1. Cardinality(C) \in Nat /\ revision' = revision + 2 * Cardinality(C) + 1
    BY <1>1, <1>3 DEF DelegateStartFails
  <2> QED
    BY <1>0, <2>1
<1>4. ASSUME NEW n \in NodeId,
             \/ \E s \in AttemptState, t \in Turn : AttemptFinishes(n, s, t)
             \/ \E s \in 0..Len(attempts[n]) : AttemptRaises(n, s)
      PROVE  revision' > revision
  BY <1>0, <1>4, ChildEndsEffect
<1>5. ASSUME CloseWave PROVE revision' > revision
  <2>1. Unfinished \subseteq NodeId
    BY DEF Unfinished, Claimed
  <2>2. Cardinality(Unfinished) \in Nat /\ revision' = revision + Cardinality(Unfinished) + 1
    BY <1>1, <1>5, <2>1 DEF CloseWave
  <2> QED
    BY <1>0, <2>2
<1>6. ASSUME NEW D \in SUBSET NodeId, NEW decide \in [D -> Decision],
             SubmitDecisions(D, decide, revision)
      PROVE  revision' > revision
  <2>1. revision' = revision + 1
    BY <1>6 DEF SubmitDecisions
  <2> QED
    BY <1>0, <2>1
<1>7. ASSUME NEW h \in Graph, ReconcileGraph(h, revision) PROVE revision' > revision
  <2>1. revision' = revision + 1
    BY <1>7 DEF ReconcileGraph
  <2> QED
    BY <1>0, <2>1
<1>8. ASSUME NEW n \in NodeId, TaskBegins(n) PROVE UNCHANGED <<graph, row, revision>>
  BY <1>8 DEF TaskBegins
<1>9. ASSUME Cancel \/ Crash \/ UNCHANGED vars PROVE UNCHANGED <<graph, row, revision>>
  BY <1>9 DEF Cancel, Crash, vars
<1>10. ASSUME revision' > revision
       PROVE  /\ revision' >= revision
              /\ revision' = revision => graph' = graph /\ row' = row
  <2>1. revision' \in Nat
    BY StepRInv DEF RInv, IInv, TypeOK
  <2> QED
    BY <1>0, <1>10, <2>1
<1> QED
  BY <1>0, <1>2, <1>3, <1>4, <1>5, <1>6, <1>7, <1>8, <1>9, <1>10 DEF Next

(* A Lead that acts on an earlier read moves the run as any caller does.   *)
LEMMA ReviewStep == ReviewNext => [Next]_vars
<1> SUFFICES ASSUME ReviewNext PROVE [Next]_vars
  OBVIOUS
<1>1. CASE ReadGraph
  BY <1>1 DEF ReadGraph
<1>2. ASSUME NEW D \in SUBSET NodeId, NEW decide \in [D -> Decision], LeadDecides(D, decide)
      PROVE  SubmitDecisions(D, decide, revision)
  BY <1>2 DEF LeadDecides, SubmitDecisions
<1>3. ASSUME NEW h \in Graph, LeadReconciles(h) PROVE ReconcileGraph(h, revision)
  BY <1>3 DEF LeadReconciles, ReconcileGraph
<1>4. CASE OthersMove
  BY <1>4 DEF OthersMove
<1> QED
  BY <1>1, <1>2, <1>3, <1>4 DEF ReviewNext, Next

(* What holds of every run holds with such a Lead: a decision made on a    *)
(* stale read is no step of its own.                                       *)
THEOREM ReviewIsARun == ReviewSpec => Spec
<1>1. ReviewInit => Init
  BY DEF ReviewInit
<1>2. [ReviewNext]_reviewVars => [Next]_vars
  BY ReviewStep DEF reviewVars
<1> QED
  BY <1>1, <1>2, PTL DEF ReviewSpec, Spec

(* A caller that holds the current revision holds the current graph and    *)
(* rows: what it decides, it decides on what it changes.                   *)
THEOREM RevisionAlwaysIdentifies == ReviewSpec => []RevisionIdentifiesState
<1> DEFINE I == RInv /\ RevisionIdentifiesState /\ seen.revision \in Nat
<1>1. ReviewInit => I
  <2>1. ReviewInit => RInv /\ seen = Seen /\ revision = 0
    BY InitRInv DEF ReviewInit, Init
  <2> QED
    BY <2>1 DEF RevisionIdentifiesState, Seen
<1>2. I /\ [ReviewNext]_reviewVars => I'
  <2> SUFFICES ASSUME I, [ReviewNext]_reviewVars PROVE I'
    OBVIOUS
  <2>1. [Next]_vars
    BY ReviewStep DEF reviewVars
  <2>2. RInv' /\ revision' \in Nat
    BY <2>1, StepRInv DEF RInv, IInv, TypeOK
  <2>3. /\ revision \in Nat /\ revision' >= revision
        /\ revision' = revision => graph' = graph /\ row' = row
    BY <2>1, StepRevision
  <2>4. CASE ReadGraph
    <3>1. seen' = Seen /\ UNCHANGED vars
      BY <2>4 DEF ReadGraph
    <3> QED
      BY <2>2, <2>3, <3>1 DEF RevisionIdentifiesState, Seen, vars
  <2>5. CASE UNCHANGED seen
    <3>1. seen.revision <= revision /\ seen.revision \in Nat
      BY DEF RevisionIdentifiesState
    <3>2. seen.revision <= revision' /\ (seen.revision = revision' => revision' = revision)
      BY <2>2, <2>3, <3>1
    <3> QED
      BY <2>2, <2>3, <2>5, <3>1, <3>2 DEF RevisionIdentifiesState
  <2> QED
    BY <2>4, <2>5 DEF ReviewNext, LeadDecides, LeadReconciles, OthersMove, reviewVars
<1>3. I => RevisionIdentifiesState
  OBVIOUS
<1> QED
  BY <1>1, <1>2, <1>3, PTL DEF ReviewSpec

-----------------------------------------------------------------------------
(* The runtime keeps the promise made to the Lead: ReviewedGraph, under    *)
(* the mapping NodeStatus of the rows.                                     *)

Shown == [n \in NodeId |-> NodeStatus(row[n])]

(* What the Lead is shown of a node.                                       *)
LEMMA ShownIs ==
    ASSUME RInv, NEW n \in NodeId
    PROVE  /\ NodeStatus(row[n]) = "running" <=> Running(n)
           /\ NodeStatus(row[n]) = "absent" <=> n \notin DOMAIN graph
           /\ n \in DOMAIN graph =>
                 /\ NodeStatus(row[n]) = "accepted" <=> row[n].semantic = "satisfied"
                 /\ NodeStatus(row[n]) = "stopped" <=> row[n].semantic = "blocked"
                 /\ NodeStatus(row[n]) = "waiting" <=>
                       row[n].semantic = "pending" /\ row[n].runtime = "idle"
                 /\ NodeStatus(row[n]) = "review" <=> n \in Reviewable(graph, row)
<1> DEFINE r == row[n]
<1>1. r \in Row /\ (r.active <=> n \in DOMAIN graph)
  BY DEF RInv, IInv, TypeOK, ActiveIsAuthored
<1>2. Running(n) <=> r.active /\ r.runtime = "running"
  BY RunningIsCurrent
<1>3. r.semantic # "pending" => r.runtime = "idle"
  BY DEF RInv, IInv, DecidedIsIdle
<1>4. n \in DOMAIN graph => r.semantic # "cancelled"
  BY DEF RInv, IInv, AuthoredIsLive
<1>5. n \in Reviewable(graph, row) <=>
        /\ n \in DOMAIN graph /\ r.semantic = "pending"
        /\ r.runtime \in ReviewableRuntime
  BY DEF Reviewable
<1> HIDE DEF r
<1>6. r.active \in BOOLEAN /\ r.semantic \in SemanticState /\ r.runtime \in RuntimeState
  BY <1>1 DEF Row
<1>7. NodeStatus(r) =
        IF ~r.active THEN "absent"
        ELSE IF r.semantic = "satisfied" THEN "accepted"
        ELSE IF r.semantic = "blocked" THEN "stopped"
        ELSE IF r.semantic = "pending" /\ r.runtime = "idle" THEN "waiting"
        ELSE IF r.semantic = "pending" /\ r.runtime = "running" THEN "running"
        ELSE "review"
  BY <1>6 DEF NodeStatus
<1>8. /\ NodeStatus(r) = "running" <=> Running(n)
      /\ NodeStatus(r) = "absent" <=> n \notin DOMAIN graph
      /\ n \in DOMAIN graph =>
            /\ NodeStatus(r) = "accepted" <=> r.semantic = "satisfied"
            /\ NodeStatus(r) = "stopped" <=> r.semantic = "blocked"
            /\ NodeStatus(r) = "waiting" <=> r.semantic = "pending" /\ r.runtime = "idle"
            /\ NodeStatus(r) = "review" <=> n \in Reviewable(graph, row)
  BY <1>1, <1>2, <1>3, <1>4, <1>5, <1>6, <1>7
    DEF SemanticState, RuntimeState, ReviewableRuntime
<1> QED
  BY <1>8 DEF r

(* What the Lead is shown after a step on a node.                          *)
LEMMA ShownNext ==
    ASSUME RInv, RInv', NEW n \in NodeId
    PROVE  /\ Same(n) => NodeStatus(row'[n]) = NodeStatus(row[n])
           /\ \A a \in Attempt : Started(n, a) \/ Advanced(n, a) =>
                 NodeStatus(row'[n]) = IF a.state = "running" THEN "running" ELSE "review"
           /\ Cleared(n) => NodeStatus(row'[n]) = "waiting"
<1>1. Same(n) => NodeStatus(row'[n]) = NodeStatus(row[n])
  BY DEF Same
<1>2. ASSUME NEW a \in Attempt, Started(n, a) \/ Advanced(n, a)
      PROVE  NodeStatus(row'[n]) = IF a.state = "running" THEN "running" ELSE "review"
  <2>1. row'[n].active /\ row'[n].runtime = a.state /\ row'[n].semantic = row[n].semantic
    BY <1>2 DEF Started, Advanced
  <2>2. row[n].semantic = "pending"
    BY <1>2 DEF Started, Advanced, Runnable, RInv, IInv, DecidedIsIdle
  <2>3. a.state \in AttemptState
    BY DEF Attempt
  <2> QED
    BY <2>1, <2>2, <2>3 DEF NodeStatus, AttemptState
<1>3. Cleared(n) => NodeStatus(row'[n]) = "waiting"
  BY DEF Cleared, Fresh, NodeStatus
<1> QED
  BY <1>1, <1>2, <1>3

LEMMA PromiseInit == Init => Promise!Init
<1> SUFFICES ASSUME Init PROVE Promise!Init
  OBVIOUS
<1>1. \A n \in NodeId : NodeStatus(row[n]) = IF n \in DOMAIN graph THEN "waiting" ELSE "absent"
  BY DEF Init, Fresh, Absent, NodeStatus
<1> QED
  BY <1>1 DEF Promise!Init, Init

LEMMA DelegateNextStarts ==
    ASSUME RInv, RInv', NEW W \in SUBSET NodeId, DelegateNext(W)
    PROVE  Promise!Start(W)
<1>1. \A n \in NodeId : IF n \in W THEN Started(n, StartedAttempt(n)) ELSE Same(n)
  BY DelegateNextEffect
<1>2. W \subseteq Runnable(graph, row) /\ W # {} /\ graph' = graph
  BY WavesAreNotEmpty DEF DelegateNext, MayDelegate, WaveSelection, MaximalConflictFree
<1>3. \A m, n \in W : graph[m].repository = graph[n].repository => m = n
  BY DEF DelegateNext, MayDelegate, WaveSelection, MaximalConflictFree
<1>4. \A n \in NodeId : NodeStatus(row[n]) # "running"
  BY QuietWithoutWave, ShownIs DEF DelegateNext, MayDelegate
<1>5. DOMAIN graph \subseteq NodeId
      /\ \A n \in DOMAIN graph : graph[n].depends_on \subseteq DOMAIN graph
  BY GraphType DEF RInv, IInv, TypeOK
<1>6. ASSUME NEW n \in W
      PROVE  /\ NodeStatus(row[n]) = "waiting"
             /\ \A d \in graph[n].depends_on :
                   d \in NodeId /\ NodeStatus(row[d]) = "accepted"
  BY <1>2, <1>5, ShownIs DEF Runnable, DependenciesSatisfied
<1>7. \A n \in NodeId :
        NodeStatus(row'[n]) = IF n \in W THEN "running" ELSE NodeStatus(row[n])
  <2> TAKE n \in NodeId
  <2>1. CASE n \in W
    <3>1. \E a \in Attempt : Started(n, a) /\ a.state = "running"
      BY <1>1, <2>1 DEF Started, StartedAttempt
    <3> QED
      BY <2>1, <3>1, ShownNext
  <2>2. CASE n \notin W
    BY <1>1, <2>2, ShownNext
  <2> QED
    BY <2>1, <2>2
<1>8. Promise!Quiet
  BY <1>4 DEF Promise!Quiet
<1>9. Promise!Startable(W)
  BY <1>2, <1>3, <1>6, <1>8 DEF Promise!Startable
<1>10. [n \in NodeId |-> NodeStatus(row'[n])] = Promise!Moved(W, "running")
  BY <1>7 DEF Promise!Moved
<1> QED
  BY <1>2, <1>9, <1>10 DEF Promise!Start

LEMMA DelegateStartFailsReviews ==
    ASSUME RInv, RInv', NEW W \in SUBSET NodeId, NEW C \in SUBSET W, DelegateStartFails(W, C)
    PROVE  Promise!FailToStart(C)
<1>1. \A n \in NodeId :
        IF n \in C THEN Started(n, [StartedAttempt(n) EXCEPT !.state = "failed"]) ELSE Same(n)
  BY DelegateStartFailsEffect
<1>2. C \subseteq Runnable(graph, row) /\ C # {} /\ graph' = graph
  BY DEF DelegateStartFails, MayDelegate, WaveSelection, MaximalConflictFree
<1>3. \A m, n \in C : graph[m].repository = graph[n].repository => m = n
  BY DEF DelegateStartFails, MayDelegate, WaveSelection, MaximalConflictFree
<1>4. \A n \in NodeId : NodeStatus(row[n]) # "running"
  BY QuietWithoutWave, ShownIs DEF DelegateStartFails, MayDelegate
<1>5. DOMAIN graph \subseteq NodeId
      /\ \A n \in DOMAIN graph : graph[n].depends_on \subseteq DOMAIN graph
  BY GraphType DEF RInv, IInv, TypeOK
<1>6. ASSUME NEW n \in C
      PROVE  /\ NodeStatus(row[n]) = "waiting"
             /\ \A d \in graph[n].depends_on :
                   d \in NodeId /\ NodeStatus(row[d]) = "accepted"
  BY <1>2, <1>5, ShownIs DEF Runnable, DependenciesSatisfied
<1>7. \A n \in NodeId :
        NodeStatus(row'[n]) = IF n \in C THEN "review" ELSE NodeStatus(row[n])
  <2> TAKE n \in NodeId
  <2>1. CASE n \in C
    <3>1. \E a \in Attempt : Started(n, a) /\ a.state = "failed"
      BY <1>1, <2>1 DEF Started, StartedAttempt
    <3> QED
      BY <2>1, <3>1, ShownNext
  <2>2. CASE n \notin C
    BY <1>1, <2>2, ShownNext
  <2> QED
    BY <2>1, <2>2
<1>8. Promise!Quiet
  BY <1>4 DEF Promise!Quiet
<1>9. Promise!Startable(C)
  BY <1>2, <1>3, <1>6, <1>8 DEF Promise!Startable
<1>10. [n \in NodeId |-> NodeStatus(row'[n])] = Promise!Moved(C, "review")
  BY <1>7 DEF Promise!Moved
<1> QED
  BY <1>2, <1>9, <1>10 DEF Promise!FailToStart

(* The nodes of S come to an end: the Lead may review them.                *)
LEMMA EndsSettle ==
    ASSUME RInv, RInv', graph' = graph, NEW S \in SUBSET NodeId, S # {},
           \A n \in NodeId : IF n \in S
                             THEN \E a \in Attempt : Advanced(n, a) /\ a.state # "running"
                             ELSE Same(n)
    PROVE  Promise!Settle(S)
<1>1. \A n \in S : NodeStatus(row[n]) = "running"
  BY RunningIsCurrent, ShownIs DEF Advanced
<1>2. \A n \in NodeId : NodeStatus(row'[n]) = IF n \in S THEN "review" ELSE NodeStatus(row[n])
  BY ShownNext
<1>3. [n \in NodeId |-> NodeStatus(row'[n])] = Promise!Moved(S, "review")
  BY <1>2 DEF Promise!Moved
<1> QED
  BY <1>1, <1>3 DEF Promise!Settle

LEMMA SubmitDecisionsReviews ==
    ASSUME RInv, RInv', NEW D \in SUBSET NodeId, NEW decide \in [D -> Decision], NEW expected,
           SubmitDecisions(D, decide, expected)
    PROVE  Promise!Review(D)
<1>1. /\ D \subseteq Reviewable(graph, row) /\ D # {} /\ graph' = graph
      /\ \A n \in NodeId :
            IF n \in D
            THEN /\ Rested(n) /\ row'[n].active = row[n].active
                 /\ row'[n].semantic = SemanticAfter(decide[n])
            ELSE Same(n)
  BY SubmitDecisionsEffect DEF SubmitDecisions
<1>2. \A n \in DOMAIN graph : row[n].runtime # "running"
  BY DEF SubmitDecisions, GraphState
<1>3. \A n \in NodeId : NodeStatus(row[n]) # "running"
  BY <1>2, RunningIsCurrent, ShownIs DEF RInv, ActiveIsAuthored
<1>4. Promise!Quiet
  BY <1>3 DEF Promise!Quiet
<1>5. \A n \in D : NodeStatus(row[n]) = "review"
  BY <1>1, ShownIs DEF Reviewable
<1>6. ASSUME NEW n \in D PROVE NodeStatus(row'[n]) \in {"accepted", "waiting", "stopped"}
  <2>1. row'[n].semantic \in {"satisfied", "pending", "blocked"}
    BY <1>1 DEF SemanticAfter
  <2>2. row'[n].runtime = "idle" /\ row'[n].active
    BY <1>1 DEF Rested, Reviewable, RInv, ActiveIsAuthored
  <2> QED
    BY <2>1, <2>2 DEF NodeStatus
<1>7. \A n \in NodeId \ D : NodeStatus(row'[n]) = NodeStatus(row[n])
  BY <1>1, ShownNext
<1> QED
  BY <1>1, <1>4, <1>5, <1>6, <1>7 DEF Promise!Review

(* A node all of whose upstream is untouched is not reset: its upstream is *)
(* closed under dependencies, so the rest is closed under dependents.      *)
LEMMA UntouchedIsKept ==
    ASSUME NEW h \in Graph, graph \in Graph, NEW n \in DOMAIN h,
           \A m \in Promise!Upstream(h, n) : Promise!Untouched(h, m)
    PROVE  n \notin Reset(graph, h, Blocked)
<1> DEFINE U == Promise!Upstream(h, n)
           S == DOMAIN h \ U
<1>1. \A m \in DOMAIN h : h[m].depends_on \subseteq DOMAIN h
  BY GraphType
<1>2. U \subseteq DOMAIN h /\ n \in U
  BY DEF Promise!Upstream
<1>3. \A m \in U : h[m].depends_on \subseteq U
  BY <1>1 DEF Promise!Upstream
<1>4. \A m \in U : m \in DOMAIN graph /\ graph[m] = h[m]
  BY DEF Promise!Untouched
<1> HIDE DEF U
<1>5. Added(graph, h) \cup Changed(graph, h) \subseteq S
  BY <1>4 DEF Added, Changed
<1>6. ClosedUnderDependents(h, S, Added(graph, h) \cup Changed(graph, h),
                            Blocked \ Changed(graph, h))
  BY <1>3, <1>5 DEF ClosedUnderDependents
<1>7. S \in SUBSET DOMAIN h /\ n \notin S
  BY <1>2
<1> HIDE DEF S
<1> QED
  BY <1>6, <1>7 DEF Reset

(* An unchanged node that the Lead blocked is not reset.                   *)
LEMMA StoppedIsKept ==
    ASSUME NEW h \in Graph, NEW n \in DOMAIN h, n \in Blocked, n \in DOMAIN graph,
           graph[n] = h[n]
    PROVE  n \notin Reset(graph, h, Blocked)
<1> DEFINE S == DOMAIN h \ {n}
<1>1. Added(graph, h) \cup Changed(graph, h) \subseteq S /\ n \notin Changed(graph, h)
  BY DEF Added, Changed
<1>2. ClosedUnderDependents(h, S, Added(graph, h) \cup Changed(graph, h),
                            Blocked \ Changed(graph, h))
  BY <1>1 DEF ClosedUnderDependents
<1>3. S \in SUBSET DOMAIN h /\ n \notin S
  OBVIOUS
<1> HIDE DEF S
<1> QED
  BY <1>2, <1>3 DEF Reset

LEMMA ReconcileGraphRevises ==
    ASSUME RInv, RInv', NEW h \in Graph, NEW expected, ReconcileGraph(h, expected)
    PROVE  Promise!Revise(h, DOMAIN h \ Reset(graph, h, Blocked))
<1> DEFINE reset == Reset(graph, h, Blocked)
           kept == DOMAIN h \ reset
<1>1. \A n \in NodeId :
        IF n \in reset THEN Cleared(n)
        ELSE IF n \in Removed(graph, h)
        THEN Rested(n) /\ ~row'[n].active /\ row'[n].semantic = "cancelled"
        ELSE Same(n)
  BY ReconcileGraphEffect
<1>2. /\ graph \in Graph /\ DOMAIN h \subseteq NodeId /\ graph' = h
      /\ \A n \in DOMAIN h : h[n].depends_on \subseteq DOMAIN h
      /\ \A n \in NodeId : ~Running(n)
  BY GraphType DEF RInv, IInv, TypeOK, ReconcileGraph
<1>3. /\ \A n \in kept : n \in DOMAIN graph /\ graph[n] = h[n]
      /\ \A n \in DOMAIN h \ Blocked : h[n].depends_on \cap reset # {} => n \in reset
  BY <1>2, ResetClosed, KeptIsUnchanged
<1>4. \A n \in DOMAIN h : (\A m \in Promise!Upstream(h, n) : Promise!Untouched(h, m)) => n \in kept
  BY <1>2, UntouchedIsKept
<1>5. \A n \in DOMAIN h : n \in Blocked /\ n \in DOMAIN graph /\ graph[n] = h[n] => n \in kept
  BY StoppedIsKept
<1> HIDE DEF reset
<1>6. Promise!Quiet
  BY <1>2, ShownIs DEF Promise!Quiet
<1>7. \A n \in kept : Promise!Untouched(h, n)
  BY <1>3 DEF Promise!Untouched
<1>8. ASSUME NEW n \in kept, NodeStatus(row[n]) \in {"accepted", "review"},
             NEW d \in h[n].depends_on
      PROVE  d \in kept /\ d \in NodeId /\ NodeStatus(row[d]) = "accepted"
  <2>1. n \in DOMAIN graph /\ graph[n] = h[n] /\ n \in NodeId
    BY <1>2, <1>3
  <2>2. /\ row[n].semantic = "satisfied" \/ row[n].runtime # "idle"
        /\ row[n].semantic # "blocked"
    BY <1>8, <2>1, ShownIs DEF Reviewable, ReviewableRuntime
  <2>3. d \in kept
    BY <1>2, <1>3, <2>1, <2>2 DEF Blocked
  <2>4. row[d].semantic = "satisfied"
    BY <2>1, <2>2 DEF RInv, IInv, DependenciesAccepted, DependenciesSatisfied
  <2> QED
    BY <1>2, <1>3, <2>3, <2>4, ShownIs
<1>9. ASSUME NEW n \in DOMAIN h, n \in DOMAIN graph, graph[n] = h[n],
             NodeStatus(row[n]) = "stopped"
      PROVE  n \in kept
  <2>1. n \in Blocked
    BY <1>2, <1>9, ShownIs DEF Blocked
  <2> QED
    BY <1>5, <1>9, <2>1
<1>10. \A n \in NodeId :
         NodeStatus(row'[n]) = IF n \notin DOMAIN h THEN "absent"
                               ELSE IF n \in kept THEN NodeStatus(row[n]) ELSE "waiting"
  <2> TAKE n \in NodeId
  <2>1. CASE n \notin DOMAIN h
    <3>1. ~row'[n].active
      BY <1>2, <2>1 DEF RInv, ActiveIsAuthored
    <3> QED
      BY <2>1, <3>1 DEF NodeStatus
  <2>2. CASE n \in kept
    <3>1. Same(n)
      BY <1>1, <2>2 DEF Removed
    <3> QED
      BY <2>2, <3>1, ShownNext
  <2>3. CASE n \in DOMAIN h /\ n \in reset
    BY <1>1, <2>3, ShownNext
  <2> QED
    BY <2>1, <2>2, <2>3
<1>11. \A n \in DOMAIN h : Promise!Untouched(h, n) /\ NodeStatus(row[n]) = "stopped" => n \in kept
  BY <1>9 DEF Promise!Untouched
<1> HIDE DEF kept
<1>12. Promise!Revise(h, kept)
  <2>1. DOMAIN h \subseteq NodeId /\ kept \subseteq NodeId
    BY <1>2 DEF kept
  <2> QED
    BY <1>2, <1>4, <1>6, <1>7, <1>8, <1>10, <1>11, <2>1 DEF Promise!Revise
<1> QED
  BY <1>12 DEF kept, reset

(* Every step of the runtime is a step the Lead was promised, or none: work*)
(* starts on accepted dependencies only, one child per repository, only a  *)
(* review moves ended work on, and a revised graph leaves no work standing *)
(* on what it replaced.                                                    *)
THEOREM KeepsThePromise == Spec => ImplementsPromise
<1>1. Init => Promise!Init
  BY PromiseInit
<1>2. RInv /\ RInv' /\ [Next]_vars =>
        [Promise!Next]_(<<graph, [n \in NodeId |-> NodeStatus(row[n])]>>)
  <2> SUFFICES ASSUME RInv, RInv', [Next]_vars
               PROVE  \/ Promise!Next
                      \/ graph' = graph /\ [n \in NodeId |-> NodeStatus(row'[n])]
                                             = [n \in NodeId |-> NodeStatus(row[n])]
    OBVIOUS
  <2> USE DEF Promise!Next
  <2>1. ASSUME NEW W \in SUBSET NodeId, DelegateNext(W) PROVE Promise!Next
    BY <2>1, DelegateNextStarts
  <2>2. ASSUME NEW W \in SUBSET NodeId, NEW C \in SUBSET W, DelegateStartFails(W, C)
        PROVE  Promise!Next
    BY <2>2, DelegateStartFailsReviews
  <2>3. ASSUME NEW n \in NodeId,
               \/ \E s \in AttemptState, t \in Turn : AttemptFinishes(n, s, t)
               \/ \E s \in 0..Len(attempts[n]) : AttemptRaises(n, s)
        PROVE  Promise!Next
    <3>1. /\ \E a \in Attempt : Advanced(n, a) /\ a.state # "running"
          /\ \A m \in NodeId \ {n} : Same(m)
          /\ graph' = graph
      BY <2>3, ChildEndsEffect
    <3>2. Promise!Settle({n})
      BY <3>1, EndsSettle
    <3> QED
      BY <3>2
  <2>4. CASE CloseWave
    <3>1. /\ graph' = graph
          /\ \A n \in NodeId :
                IF n \in Unfinished THEN Advanced(n, [Current(n) EXCEPT !.state = "failed"])
                                    ELSE Same(n)
      BY <2>4, CloseWaveEffect DEF CloseWave
    <3>2. CASE Unfinished = {}
      <4>1. \A n \in NodeId : row'[n] = row[n]
        BY <3>1, <3>2 DEF Same
      <4> QED
        BY <3>1, <4>1
    <3>3. CASE Unfinished # {}
      <4>1. Unfinished \in SUBSET NodeId
        BY DEF Unfinished, Claimed
      <4>2. ASSUME NEW n \in Unfinished
            PROVE  \E a \in Attempt : Advanced(n, a) /\ a.state # "running"
        <5> DEFINE c == Current(n)
                   a == [c EXCEPT !.state = "failed"]
        <5>1. c \in Attempt /\ Advanced(n, a)
          BY <3>1, <4>1, <4>2, ChildRuns
        <5> HIDE DEF c
        <5>2. a \in Attempt /\ a.state = "failed"
          BY <5>1 DEF Attempt, AttemptState
        <5> QED
          BY <5>1, <5>2
      <4>3. Promise!Settle(Unfinished)
        BY <3>1, <3>3, <4>1, <4>2, EndsSettle
      <4> QED
        BY <4>1, <4>3
    <3> QED
      BY <3>2, <3>3
  <2>5. ASSUME NEW D \in SUBSET NodeId, NEW decide \in [D -> Decision],
               SubmitDecisions(D, decide, revision)
        PROVE  Promise!Next
    BY <2>5, SubmitDecisionsReviews
  <2>6. ASSUME NEW h \in Graph, ReconcileGraph(h, revision) PROVE Promise!Next
    BY <2>6, ReconcileGraphRevises
  <2>7. ASSUME UNCHANGED <<graph, row>>
        PROVE  graph' = graph /\ [n \in NodeId |-> NodeStatus(row'[n])]
                                  = [n \in NodeId |-> NodeStatus(row[n])]
    BY <2>7
  <2> QED
    BY <2>1, <2>2, <2>3, <2>4, <2>5, <2>6, <2>7 DEF Next, TaskBegins, Cancel, Crash, vars
<1> QED
  BY <1>1, <1>2, InvarianceR, PTL DEF Spec, ImplementsPromise, Promise!Spec
=============================================================================
