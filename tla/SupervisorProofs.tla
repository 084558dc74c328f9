-------------------------- MODULE SupervisorProofs --------------------------
(***************************************************************************)
(* Theorems about SemanticLedger, SupervisorBroker and SupervisorDelivery, *)
(* for every number of turns, sessions, revisions and events, batches of   *)
(* any size and every interleaving of writers, broker and daemon.          *)
(***************************************************************************)
EXTENDS SupervisorDelivery, FiniteSetTheorems, SequenceTheorems, TLAPS

-----------------------------------------------------------------------------
(* The ledger: what each event says of those before it.                    *)

(* The Lead may still rely on t after the first k events.                  *)
CurrentAt(t, k) ==
    \/ captured[t] = 0
    \/ LatestRevision(k) <= captured[t]
    \/ LastReconciled(t, {"revalidated"}, LatestRevision(k), k)

LegalAnswer(e, k) ==
    /\ e.type = "peer.response" => Seqs("peer.response", e.turn, k) = {}
    /\ e.type = "lead.disposition" =>
          /\ e.what \in Action /\ Dispositions(e.turn, k) = {}
          /\ Seqs("peer.response", e.turn, k) # {}

LegalRevision(e, k) ==
    e.type = "work_item.revision_changed" =>
       e.n # 0 /\ \A j \in RevisionSeqs(k) : log[j].n < e.n

LegalReconciliation(e, k) ==
    e.type = "candidate.reconciled" =>
       /\ e.what \in Resolution /\ Seqs("peer.response", e.turn, k) # {}
       /\ e.n = LatestRevision(k) /\ e.n > captured[e.turn]
       /\ ~Retired(e.turn, k)
       /\ \A j \in Reconciliations(e.turn, k) : log[j].n # e.n

LegalSignal(e) ==
    /\ e.type = "peer.signal" => e.what \in AnySignal \cup {"runtime_blocked"}
    /\ e.type = "peer.signal_resolved" => e.what \in AnySignal

LegalRemedy(e, k) ==
    e.type = "dependency.consumption_resolved" =>
       e.n \in Consumptions(k) /\ e.turn = log[e.n].turn

LegalReliance(e, k) ==
    /\ e.what = "accept" => e.type = "lead.disposition" /\ CurrentAt(e.turn, k)
    /\ e.what = "graph" =>
          /\ e.type = "dependency.consumed" /\ CurrentAt(e.turn, k)
          /\ Disposed(e.turn, {"accept"}, k)

(* The event e may follow the first k.                                     *)
Legal(e, k) ==
    /\ e.type # "work_item.revision_changed" => e.turn \in Turn
    /\ LegalAnswer(e, k) /\ LegalRevision(e, k) /\ LegalReconciliation(e, k)
    /\ LegalSignal(e) /\ LegalRemedy(e, k) /\ LegalReliance(e, k)

Lawful == \A i \in 1..Len(log) : Legal(log[i], i - 1)

LedgerInv == TypeOK /\ Lawful

-----------------------------------------------------------------------------
(* Lemmas on sets of seqs.                                                 *)

(* Strict inclusion of finite sets is well-founded, hence the order of the *)
(* natural numbers.                                                        *)
LEMMA Least ==
    ASSUME NEW S, S \subseteq Nat, S # {}
    PROVE  \E m \in S : \A n \in S : m <= n
<1> DEFINE T == {0..n : n \in S}
<1>1. T \subseteq FiniteSubsetsOf(Nat) /\ T # {}
  <2>1. ASSUME NEW n \in S PROVE 0..n \in FiniteSubsetsOf(Nat)
    <3>1. n \in Nat /\ 0..n \subseteq Nat
      OBVIOUS
    <3>2. IsFiniteSet(0..n)
      BY <3>1, FS_Interval
    <3> QED
      BY <3>1, <3>2 DEF FiniteSubsetsOf
  <2> QED
    BY <2>1
<1>2. IsWellFoundedOn(StrictSubsetOrdering(Nat), FiniteSubsetsOf(Nat))
  BY FS_StrictSubsetOrderingWellFounded
<1> HIDE DEF T
<1>3. PICK x \in T : \A y \in T : <<y, x>> \notin StrictSubsetOrdering(Nat)
  BY <1>1, <1>2, WFMin
<1> USE DEF T
<1>4. PICK m \in S : x = 0..m
  BY <1>3
<1>5. ASSUME NEW n \in S, n < m PROVE FALSE
  <2>1. 0..n \subseteq 0..m /\ 0..n # 0..m /\ 0..m \subseteq Nat
    <3>1. m \in 0..m /\ m \notin 0..n
      BY <1>5
    <3>2. 0..n \subseteq 0..m /\ 0..m \subseteq Nat
      BY <1>5
    <3> QED
      BY <3>1, <3>2
  <2>2. <<0..n, 0..m>> \in StrictSubsetOrdering(Nat)
    BY <2>1 DEF StrictSubsetOrdering
  <2> QED
    BY <1>3, <1>4, <2>2
<1> QED
  BY <1>5

LEMMA Greatest ==
    ASSUME NEW k \in Nat, NEW S, S \subseteq 1..k, S # {}
    PROVE  \E m \in S : \A n \in S : n <= m
<1> DEFINE B == {n \in Nat : \A j \in S : j <= n}
<1>1. k \in B
  OBVIOUS
<1>2. PICK b \in B : \A n \in B : b <= n
  BY <1>1, Least
<1>3. b \in Nat /\ \A j \in S : j <= b /\ j \in Nat /\ j >= 1
  BY <1>2
<1>4. ASSUME b \notin S PROVE FALSE
  <2>1. PICK j \in S : TRUE
    OBVIOUS
  <2>2. b # 0 /\ b - 1 \in Nat
    BY <1>3, <2>1
  <2>3. ASSUME NEW n \in S PROVE n <= b - 1
    <3>1. n \in Nat /\ n <= b /\ n # b
      BY <1>3, <1>4
    <3> QED
      BY <2>2, <3>1
  <2>4. b - 1 \in B
    BY <2>2, <2>3
  <2> QED
    BY <1>2, <1>3, <2>4
<1> QED
  BY <1>3, <1>4

-----------------------------------------------------------------------------
(* Lemmas on the ledger.                                                   *)

LEMMA EventAt ==
    ASSUME TypeOK, NEW i \in 1..Len(log)
    PROVE  /\ log[i] \in Event /\ log[i].type \in EventType /\ log[i].turn \in Turn \cup {NoTurn}
           /\ log[i].n \in Nat
<1>1. log[i] \in Event
  BY DEF TypeOK
<1> QED
  BY <1>1 DEF Event

LEMMA SeqFacts ==
    ASSUME TypeOK, NEW k \in 0..Len(log)
    PROVE  /\ Len(log) \in Nat /\ k \in Nat /\ \A i \in 1..k : i \in 1..Len(log)
           /\ RevisionSeqs(k) \subseteq 1..k /\ Consumptions(k) \subseteq 1..k
           /\ \A type, t : Seqs(type, t, k) = {i \in 1..k : log[i].type = type /\ log[i].turn = t}
BY DEF TypeOK, RevisionSeqs, Consumptions, Seqs

(* The latest revision is the greatest.                                    *)
LEMMA LatestFacts ==
    ASSUME LedgerInv, NEW k \in 0..Len(log)
    PROVE  /\ LatestRevision(k) \in Nat
           /\ \A j \in RevisionSeqs(k) : log[j].n <= LatestRevision(k)
           /\ RevisionSeqs(k) = {} => LatestRevision(k) = 0
           /\ RevisionSeqs(k) # {} =>
                 \E m \in RevisionSeqs(k) :
                    LatestRevision(k) = log[m].n /\ \A j \in RevisionSeqs(k) : j <= m
<1>1. TypeOK /\ Lawful
  BY DEF LedgerInv
<1>2. Len(log) \in Nat /\ k \in Nat /\ RevisionSeqs(k) \subseteq 1..k
  BY <1>1, SeqFacts
<1>3. CASE RevisionSeqs(k) = {}
  BY <1>3 DEF LatestRevision
<1>4. CASE RevisionSeqs(k) # {}
  <2> DEFINE m == CHOOSE i \in RevisionSeqs(k) : \A j \in RevisionSeqs(k) : j <= i
  <2>1. m \in RevisionSeqs(k) /\ \A j \in RevisionSeqs(k) : j <= m
    BY <1>2, <1>4, Greatest
  <2>2. LatestRevision(k) = log[m].n
    BY <1>4 DEF LatestRevision
  <2> HIDE DEF m
  <2>3. m \in 1..Len(log) /\ log[m].type = "work_item.revision_changed"
    BY <1>2, <2>1 DEF RevisionSeqs
  <2>4. \A j \in RevisionSeqs(m - 1) : log[j].n < log[m].n
    BY <1>1, <2>3 DEF Lawful, Legal, LegalRevision
  <2>5. ASSUME NEW j \in RevisionSeqs(k) PROVE log[j].n <= log[m].n
    <3>1. j = m \/ j \in RevisionSeqs(m - 1)
      BY <1>2, <2>1, <2>3 DEF RevisionSeqs
    <3>2. log[j].n \in Nat /\ log[m].n \in Nat
      BY <1>1, <1>2, <2>3, EventAt
    <3> QED
      BY <2>4, <3>1, <3>2
  <2>6. log[m].n \in Nat
    BY <1>1, <2>3, EventAt
  <2> QED
    BY <1>4, <2>1, <2>2, <2>5, <2>6
<1> QED
  BY <1>3, <1>4

(* What the first k events say stays so while they stay.                   *)
LEMMA PrefixFacts ==
    ASSUME TypeOK, TypeOK', NEW k \in 0..Len(log), k <= Len(log'),
           \A i \in 1..k : log'[i] = log[i]
    PROVE  /\ RevisionSeqs(k)' = RevisionSeqs(k) /\ Consumptions(k)' = Consumptions(k)
           /\ LatestRevision(k)' = LatestRevision(k)
           /\ \A type, t : Seqs(type, t, k)' = Seqs(type, t, k)
           /\ \A t : /\ Reconciliations(t, k)' = Reconciliations(t, k)
                     /\ Dispositions(t, k)' = Dispositions(t, k)
                     /\ Retired(t, k)' <=> Retired(t, k)
                     /\ CurrentAt(t, k)' <=> CurrentAt(t, k)
                     /\ \A S : Disposed(t, S, k)' <=> Disposed(t, S, k)
           /\ \A i : Remedied(i, k)' <=> Remedied(i, k)
<1>1. Len(log) \in Nat /\ k \in Nat /\ Len(log') \in Nat
  BY SeqFacts DEF TypeOK
<1>2. \A type, t : Seqs(type, t, k)' = Seqs(type, t, k)
  BY <1>1 DEF Seqs
<1>3. RevisionSeqs(k)' = RevisionSeqs(k) /\ RevisionSeqs(k) \subseteq 1..k
  BY DEF RevisionSeqs
<1>4. Consumptions(k)' = Consumptions(k)
  BY DEF Consumptions
<1>5. LatestRevision(k)' = LatestRevision(k)
  <2>1. CASE RevisionSeqs(k) = {}
    BY <1>3, <2>1 DEF LatestRevision
  <2>2. CASE RevisionSeqs(k) # {}
    <3> DEFINE m == CHOOSE i \in RevisionSeqs(k) : \A j \in RevisionSeqs(k) : j <= i
    <3>1. m \in RevisionSeqs(k)
      BY <1>1, <1>3, <2>2, Greatest
    <3>2. LatestRevision(k) = log[m].n
      BY <2>2 DEF LatestRevision
    <3>3. LatestRevision(k)' = log'[m].n
      BY <1>3, <2>2 DEF LatestRevision
    <3> QED
      BY <1>3, <3>1, <3>2, <3>3
  <2> QED
    BY <2>1, <2>2
<1>6. ASSUME NEW t
      PROVE  /\ Reconciliations(t, k)' = Reconciliations(t, k)
             /\ Reconciliations(t, k) \subseteq 1..k
             /\ Dispositions(t, k)' = Dispositions(t, k)
             /\ Dispositions(t, k) \subseteq 1..k
  BY <1>2 DEF Reconciliations, Dispositions, Seqs
<1>7. ASSUME NEW t
      PROVE  /\ Retired(t, k)' <=> Retired(t, k)
             /\ \A S : Disposed(t, S, k)' <=> Disposed(t, S, k)
  <2>1. Retired(t, k)' <=> Retired(t, k)
    BY <1>6 DEF Retired
  <2>2. \A S : Disposed(t, S, k)' <=> Disposed(t, S, k)
    BY <1>6 DEF Disposed
  <2> QED
    BY <2>1, <2>2
<1>8. ASSUME NEW t PROVE CurrentAt(t, k)' <=> CurrentAt(t, k)
  <2>1. \A r : LastReconciled(t, {"revalidated"}, r, k)'
                  <=> LastReconciled(t, {"revalidated"}, r, k)
    BY <1>6 DEF LastReconciled
  <2> QED
    BY <1>5, <2>1 DEF CurrentAt
<1>9. \A i : Remedied(i, k)' <=> Remedied(i, k)
  BY DEF Remedied
<1> QED
  BY <1>2, <1>3, <1>4, <1>5, <1>6, <1>7, <1>8, <1>9

(* So does what an event may follow.                                       *)
LEMMA LegalKept ==
    ASSUME TypeOK, TypeOK', NEW k \in 0..Len(log), k <= Len(log'),
           \A i \in 1..k : log'[i] = log[i], NEW e \in Event
    PROVE  Legal(e, k)' <=> Legal(e, k)
<1>1. /\ RevisionSeqs(k)' = RevisionSeqs(k) /\ Consumptions(k)' = Consumptions(k)
      /\ LatestRevision(k)' = LatestRevision(k)
      /\ \A type, t : Seqs(type, t, k)' = Seqs(type, t, k)
      /\ \A t : /\ Reconciliations(t, k)' = Reconciliations(t, k)
                /\ Dispositions(t, k)' = Dispositions(t, k)
                /\ Retired(t, k)' <=> Retired(t, k)
                /\ CurrentAt(t, k)' <=> CurrentAt(t, k)
                /\ \A S : Disposed(t, S, k)' <=> Disposed(t, S, k)
  BY PrefixFacts
<1>2. /\ RevisionSeqs(k) \subseteq 1..k /\ Consumptions(k) \subseteq 1..k
      /\ \A t : Reconciliations(t, k) \subseteq 1..k
  BY DEF RevisionSeqs, Consumptions, Reconciliations, Seqs
<1>3. LegalAnswer(e, k)' <=> LegalAnswer(e, k)
  BY <1>1 DEF LegalAnswer
<1>4. LegalRevision(e, k)' <=> LegalRevision(e, k)
  BY <1>1, <1>2 DEF LegalRevision
<1>5. LegalReconciliation(e, k)' <=> LegalReconciliation(e, k)
  <2>1. \A j \in Reconciliations(e.turn, k) : log'[j].n = log[j].n
    BY <1>2
  <2> QED
    BY <1>1, <2>1 DEF LegalReconciliation
<1>6. LegalRemedy(e, k)' <=> LegalRemedy(e, k)
  BY <1>1, <1>2 DEF LegalRemedy
<1>7. LegalReliance(e, k)' <=> LegalReliance(e, k)
  BY <1>1 DEF LegalReliance
<1> QED
  BY <1>3, <1>4, <1>5, <1>6, <1>7 DEF Legal, LegalSignal

(* Events are only added.                                                  *)
Grows ==
    /\ Len(log') \in Nat /\ Len(log) <= Len(log')
    /\ \A i \in 1..Len(log) : log'[i] = log[i]

LEMMA Growth ==
    ASSUME LedgerInv, NEW es \in Seq(Event), log' = log \o es
    PROVE  /\ TypeOK' /\ Grows /\ Len(log') = Len(log) + Len(es)
           /\ \A i \in 1..Len(log') :
                 i \in 1..Len(log) \/ \E j \in 1..Len(es) : i = Len(log) + j /\ log'[i] = es[j]
           /\ \A i \in 1..Len(log) : Legal(log[i], i - 1)'
<1>1. log \in Seq(Event) /\ Lawful /\ TypeOK
  BY DEF LedgerInv, TypeOK
<1>2. log' \in Seq(Event) /\ Len(log') = Len(log) + Len(es) /\ Len(log) \in Nat /\ Len(es) \in Nat
  BY <1>1, ConcatProperties
<1>3. \A i \in 1..Len(log') : log'[i] = IF i <= Len(log) THEN log[i] ELSE es[i - Len(log)]
  BY <1>1, ConcatProperties
<1>4. TypeOK' /\ Grows
  BY <1>2, <1>3 DEF TypeOK, Grows
<1>5. ASSUME NEW i \in 1..Len(log')
      PROVE  i \in 1..Len(log) \/ \E j \in 1..Len(es) : i = Len(log) + j /\ log'[i] = es[j]
  <2>1. CASE i <= Len(log)
    BY <2>1, <1>2
  <2>2. CASE i > Len(log)
    <3>1. i - Len(log) \in 1..Len(es) /\ i = Len(log) + (i - Len(log))
      BY <1>2, <2>2
    <3> QED
      BY <1>2, <1>3, <2>2, <3>1
  <2> QED
    BY <1>2, <2>1, <2>2
<1>6. ASSUME NEW i \in 1..Len(log) PROVE Legal(log[i], i - 1)'
  <2>1. PICK e \in Event : e = log[i]
    BY <1>1
  <2>2. e = log'[i]
    BY <1>4, <2>1 DEF Grows
  <2>3. Legal(e, i - 1)
    BY <1>1, <2>1 DEF Lawful
  <2>4. /\ i - 1 \in 0..Len(log) /\ i - 1 <= Len(log')
        /\ \A j \in 1..(i - 1) : log'[j] = log[j]
    BY <1>2, <1>4 DEF Grows
  <2>5. Legal(e, i - 1)'
    BY <1>1, <1>4, <2>3, <2>4, LegalKept
  <2> QED
    BY <2>2, <2>5
<1> QED
  BY <1>2, <1>4, <1>5, <1>6

LEMMA OneEvent ==
    ASSUME LedgerInv, NEW e \in Event, Legal(e, Len(log)), log' = Append(log, e)
    PROVE  LedgerInv' /\ Grows
<1>1. log \in Seq(Event) /\ TypeOK /\ Len(log) \in Nat
  BY DEF LedgerInv, TypeOK
<1>2. <<e>> \in Seq(Event) /\ log' = log \o <<e>> /\ Len(<<e>>) = 1
  BY <1>1
<1>3. /\ TypeOK' /\ Grows /\ Len(log') = Len(log) + 1
      /\ \A i \in 1..Len(log') :
            i \in 1..Len(log) \/ \E j \in 1..Len(<<e>>) : i = Len(log) + j /\ log'[i] = <<e>>[j]
      /\ \A i \in 1..Len(log) : Legal(log[i], i - 1)'
  BY <1>2, Growth
<1>4. PICK k \in Nat : k = Len(log)
  BY <1>1
<1>5. Legal(e, k)'
  BY <1>1, <1>3, <1>4, LegalKept DEF Grows
<1>6. log'[k + 1] = e /\ (k + 1) - 1 = k
  BY <1>1, <1>3, <1>4
<1>7. ASSUME NEW i \in 1..Len(log') PROVE Legal(log[i], i - 1)'
  <2>1. i \in 1..Len(log) \/ i = k + 1
    BY <1>3, <1>4
  <2> QED
    BY <1>3, <1>5, <1>6, <2>1
<1> QED
  BY <1>3, <1>7 DEF LedgerInv, Lawful

Word == {"", "runtime_blocked", "direct", "graph"} \cup AnySignal \cup Action \cup Resolution

LEMMA MakeEvent ==
    ASSUME NEW type \in EventType, NEW t \in Turn \cup {NoTurn}, NEW n \in Nat, NEW w \in Word
    PROVE  /\ event(type, t, n, w) \in Event
           /\ event(type, t, n, w).type = type /\ event(type, t, n, w).turn = t
           /\ event(type, t, n, w).n = n /\ event(type, t, n, w).what = w
BY DEF event, Event, Word

LEMMA Words ==
    /\ {"peer.dispatched", "peer.response", "peer.signal", "peer.signal_resolved",
        "lead.disposition", "candidate.accepted", "candidate.reconciled", "dependency.consumed",
        "dependency.consumption_resolved", "work_item.revision_changed"} \subseteq EventType
    /\ {"", "runtime_blocked", "direct", "graph", "accept"} \subseteq Word
    /\ Action \subseteq Word /\ Resolution \subseteq Word /\ AnySignal \subseteq Word
BY DEF EventType, Word, Action

(* An event that says nothing of a candidate may always be added.          *)
LEMMA PlainEvent ==
    ASSUME NEW type \in EventType, NEW t \in Turn, NEW n \in Nat, NEW w \in Word,
           type \in {"peer.dispatched", "peer.signal", "peer.signal_resolved",
                     "candidate.accepted", "dependency.consumed"},
           w \notin {"accept", "graph"},
           type = "peer.signal" => w \in AnySignal \cup {"runtime_blocked"},
           type = "peer.signal_resolved" => w \in AnySignal,
           NEW k
    PROVE  Legal(event(type, t, n, w), k) /\ Legal(event(type, t, n, w), k)'
<1>1. /\ event(type, t, n, w).type = type /\ event(type, t, n, w).turn = t
      /\ event(type, t, n, w).what = w
  BY MakeEvent
<1> QED
  BY <1>1 DEF Legal, LegalAnswer, LegalRevision, LegalReconciliation, LegalSignal, LegalRemedy,
              LegalReliance

LEMMA RevisionRecorded ==
    ASSUME LedgerInv, NEW r \in Nat, RecordRevision(r) PROVE LedgerInv' /\ Grows
<1> DEFINE e == event("work_item.revision_changed", NoTurn, r, "")
<1>0. "work_item.revision_changed" \in EventType /\ "" \in Word /\ NoTurn \in Turn \cup {NoTurn}
  BY Words
<1>1. /\ e \in Event /\ e.type = "work_item.revision_changed" /\ e.n = r /\ e.what = ""
  <2>1. e \in Event
    BY <1>0, MakeEvent
  <2>2. e.type = "work_item.revision_changed" /\ e.n = r /\ e.what = ""
    BY DEF event
  <2> QED
    BY <2>1, <2>2
<1>2. r > LatestRevision(Len(log)) /\ log' = Append(log, e)
  BY DEF RecordRevision, Append1
<1> HIDE DEF e
<1>3. TypeOK /\ Len(log) \in Nat
  BY DEF LedgerInv, TypeOK
<1>4. ASSUME NEW j \in RevisionSeqs(Len(log)) PROVE log[j].n < r
  <2>1. log[j].n <= LatestRevision(Len(log)) /\ LatestRevision(Len(log)) \in Nat
    BY <1>3, LatestFacts
  <2>2. j \in 1..Len(log)
    BY DEF RevisionSeqs
  <2>3. log[j].n \in Nat
    BY <1>3, <2>2, EventAt
  <2> QED
    BY <1>2, <2>1, <2>3
<1>5. r # 0
  <2>1. LatestRevision(Len(log)) \in Nat
    BY <1>3, LatestFacts
  <2> QED
    BY <1>2, <2>1
<1>6. Legal(e, Len(log))
  BY <1>1, <1>4, <1>5 DEF Legal, LegalAnswer, LegalRevision, LegalReconciliation, LegalSignal,
                    LegalRemedy, LegalReliance
<1> QED
  BY <1>1, <1>2, <1>6, OneEvent

LEMMA PeerRecorded ==
    ASSUME LedgerInv, NEW t \in Turn,
           RecordTurn(t) \/ RuntimeBlocked(t) \/ \E s \in Signal : RecordSignal(t, s)
    PROVE  LedgerInv' /\ Grows
<1>1. captured[t] \in Nat /\ Signal \subseteq AnySignal
  BY LedgerAssumption DEF AnySignal
<1>2. CASE RecordTurn(t)
  <2> DEFINE e == event("peer.response", t, captured[t], "")
  <2>0. "peer.response" \in EventType /\ "" \in Word
    BY Words
  <2>1. e \in Event /\ e.type = "peer.response" /\ e.turn = t /\ e.what = ""
    <3>1. e \in Event
      BY <1>1, <2>0, MakeEvent
    <3>2. e.type = "peer.response" /\ e.turn = t /\ e.what = ""
      BY DEF event
    <3> QED
      BY <3>1, <3>2
  <2>2. log' = Append(log, e) /\ Seqs("peer.response", t, Len(log)) = {}
    BY <1>2 DEF RecordTurn, Underway, Ended, Responded, Append1
  <2> HIDE DEF e
  <2>3. Legal(e, Len(log))
    BY <2>1, <2>2 DEF Legal, LegalAnswer, LegalRevision, LegalReconciliation, LegalSignal,
                      LegalRemedy, LegalReliance
  <2> QED
    BY <2>1, <2>2, <2>3, OneEvent
<1>3. ASSUME NEW w \in AnySignal \cup {"runtime_blocked"},
             log' = Append(log, event("peer.signal", t, captured[t], w))
      PROVE  LedgerInv' /\ Grows
  <2>1. /\ "peer.signal" \in EventType /\ w \in Word
        /\ w \notin {"accept", "graph"}
    BY DEF EventType, Word, AnySignal
  <2>2. event("peer.signal", t, captured[t], w) \in Event
    BY <1>1, <2>1, MakeEvent
  <2>3. Legal(event("peer.signal", t, captured[t], w), Len(log))
    BY <1>1, <2>1, PlainEvent
  <2> QED
    BY <1>3, <2>2, <2>3, OneEvent
<1>4. CASE RuntimeBlocked(t)
  BY <1>3, <1>4 DEF RuntimeBlocked, Append1
<1>5. ASSUME NEW s \in Signal, RecordSignal(t, s) PROVE LedgerInv' /\ Grows
  BY <1>1, <1>3, <1>5 DEF RecordSignal, Append1
<1> QED
  BY <1>2, <1>4, <1>5

LEMMA SignalRecordedResolved ==
    ASSUME LedgerInv, NEW t \in Turn, NEW s \in AnySignal, ResolveSignal(t, s)
    PROVE  LedgerInv' /\ Grows
<1>1. captured[t] \in Nat
  BY LedgerAssumption
<1>2. /\ "peer.signal_resolved" \in EventType /\ s \in Word /\ s \notin {"accept", "graph"}
  BY DEF EventType, Word, AnySignal
<1>3. event("peer.signal_resolved", t, captured[t], s) \in Event
  BY <1>1, <1>2, MakeEvent
<1>4. Legal(event("peer.signal_resolved", t, captured[t], s), Len(log))
  BY <1>1, <1>2, PlainEvent
<1> QED
  BY <1>3, <1>4, OneEvent DEF ResolveSignal, Append1

LEMMA ConsumptionRecorded ==
    ASSUME LedgerInv, NEW t \in Turn, ConsumeDirectly(t) PROVE LedgerInv' /\ Grows
<1>1. "dependency.consumed" \in EventType /\ "direct" \in Word
  BY DEF EventType, Word
<1>2. event("dependency.consumed", t, 0, "direct") \in Event
  BY <1>1, MakeEvent
<1>3. Legal(event("dependency.consumed", t, 0, "direct"), Len(log))
  BY <1>1, PlainEvent
<1> QED
  BY <1>2, <1>3, OneEvent DEF ConsumeDirectly, Append1

LEMMA ConsumptionRemedied ==
    ASSUME LedgerInv, NEW i \in 1..Len(log), ResolveConsumption(i) PROVE LedgerInv' /\ Grows
<1>0. Len(log) \in Nat
  BY DEF LedgerInv, TypeOK
<1>1. i \in Consumptions(Len(log)) /\ i \in Nat /\ Lawful
  <2>1. i \in Nat
    BY <1>0
  <2>2. i \in Consumptions(Len(log))
    BY DEF ResolveConsumption
  <2>3. Lawful
    BY DEF LedgerInv
  <2> QED
    BY <2>1, <2>2, <2>3
<1>2. log[i].turn \in Turn
  BY <1>1 DEF Lawful, Legal, Consumptions
<1>3. PICK t \in Turn : t = log[i].turn
  BY <1>2
<1> DEFINE e == event("dependency.consumption_resolved", t, i, "")
<1>4. /\ e \in Event /\ e.type = "dependency.consumption_resolved" /\ e.turn = t /\ e.what = ""
      /\ e.n = i
  <2>1. "dependency.consumption_resolved" \in EventType /\ "" \in Word
    BY Words
  <2>2. e \in Event
    BY <1>1, <2>1, MakeEvent
  <2>3. /\ e.type = "dependency.consumption_resolved" /\ e.turn = t /\ e.what = ""
        /\ e.n = i
    BY DEF event
  <2> QED
    BY <2>2, <2>3
<1>5. log' = Append(log, e)
  BY <1>3 DEF ResolveConsumption, Append1
<1> HIDE DEF e
<1>6. Legal(e, Len(log))
  BY <1>1, <1>3, <1>4 DEF Legal, LegalAnswer, LegalRevision, LegalReconciliation, LegalSignal,
                          LegalRemedy, LegalReliance
<1> QED
  BY <1>4, <1>5, <1>6, OneEvent

LEMMA ReconciliationRecorded ==
    ASSUME LedgerInv, NEW t \in Turn, NEW w \in Resolution, Reconcile(t, w)
    PROVE  LedgerInv' /\ Grows
<1>1. TypeOK /\ Len(log) \in Nat
  BY DEF LedgerInv, TypeOK
<1>2. PICK latest \in Nat : latest = LatestRevision(Len(log))
  BY <1>1, LatestFacts
<1> DEFINE e == event("candidate.reconciled", t, latest, w)
<1>3. w \in Word /\ "candidate.reconciled" \in EventType /\ w \notin {"accept", "graph"}
  BY DEF EventType, Word, Resolution, Terminal
<1>4. /\ e \in Event /\ e.type = "candidate.reconciled" /\ e.turn = t /\ e.what = w
      /\ e.n = latest
  BY <1>3, MakeEvent
<1>5. /\ log' = Append(log, e) /\ latest > captured[t] /\ MayReconcile(t, latest)
      /\ Seqs("peer.response", t, Len(log)) # {}
  BY <1>2 DEF Reconcile, Append1, Responded
<1> HIDE DEF e
<1>6. LegalReconciliation(e, Len(log))
  BY <1>2, <1>4, <1>5 DEF LegalReconciliation, MayReconcile
<1>7. Legal(e, Len(log))
  BY <1>3, <1>4, <1>6 DEF Legal, LegalAnswer, LegalRevision, LegalSignal, LegalRemedy,
                          LegalReliance
<1> QED
  BY <1>4, <1>5, <1>7, OneEvent

LEMMA DispositionRecorded ==
    ASSUME LedgerInv, NEW t \in Turn, NEW action \in Action, Dispose(t, action)
    PROVE  LedgerInv' /\ Grows
<1>1. TypeOK /\ captured[t] \in Nat
  BY LedgerAssumption DEF LedgerInv
<1>2. PICK len \in Nat : len = Len(log)
  BY <1>1 DEF TypeOK
<1> DEFINE e == event("lead.disposition", t, captured[t], action)
           a == event("candidate.accepted", t, captured[t], "")
<1>3. /\ "lead.disposition" \in EventType /\ "candidate.accepted" \in EventType
      /\ action \in Word /\ "" \in Word /\ action # "graph"
  BY Words DEF Action
<1>4. e \in Event /\ a \in Event
  BY <1>1, <1>3, MakeEvent
<1>5. e.type = "lead.disposition" /\ e.turn = t /\ e.what = action
  BY DEF event
<1>6. Legal(a, len + 1)'
  BY <1>1, <1>3, PlainEvent
<1>7. /\ Seqs("peer.response", t, len) # {} /\ Dispositions(t, len) = {}
      /\ action = "accept" => CurrentAt(t, len)
  BY <1>2 DEF Dispose, Responded, Current, CurrentAt
<1>8. IF action = "accept" THEN log' = log \o <<e, a>> ELSE log' = Append(log, e)
  BY DEF Dispose, Append1
<1> HIDE DEF e, a
<1>9. Legal(e, len)
  BY <1>3, <1>5, <1>7 DEF Legal, LegalAnswer, LegalRevision, LegalReconciliation, LegalSignal,
                          LegalRemedy, LegalReliance
<1>10. CASE action # "accept"
  BY <1>2, <1>4, <1>8, <1>9, <1>10, OneEvent
<1>11. CASE action = "accept"
  <2>1. <<e, a>> \in Seq(Event) /\ log' = log \o <<e, a>>
    BY <1>4, <1>8, <1>11
  <2>2. /\ TypeOK' /\ Grows /\ Len(log') = Len(log) + Len(<<e, a>>)
        /\ \A i \in 1..Len(log') :
              \/ i \in 1..Len(log)
              \/ \E j \in 1..Len(<<e, a>>) : i = Len(log) + j /\ log'[i] = <<e, a>>[j]
        /\ \A i \in 1..Len(log) : Legal(log[i], i - 1)'
    BY <2>1, Growth
  <2>3. Legal(e, len)'
    BY <1>1, <1>2, <1>4, <1>9, <2>2, LegalKept DEF Grows
  <2>4. ASSUME NEW i \in 1..Len(log') PROVE Legal(log[i], i - 1)'
    <3>1. CASE i \in 1..Len(log)
      BY <2>2, <3>1
    <3>2. CASE i = len + 1 /\ log'[i] = e
      <4>1. i - 1 = len
        BY <3>2
      <4> QED
        BY <2>3, <3>2, <4>1
    <3>3. CASE i = len + 2 /\ log'[i] = a
      <4>1. i - 1 = len + 1
        BY <3>3
      <4> QED
        BY <1>6, <3>3, <4>1
    <3>4. i \in 1..Len(log) \/ (i = len + 1 /\ log'[i] = e) \/ (i = len + 2 /\ log'[i] = a)
      BY <1>2, <2>2
    <3> QED
      BY <3>1, <3>2, <3>3, <3>4
  <2> QED
    BY <2>2, <2>4 DEF LedgerInv, Lawful
<1> QED
  BY <1>10, <1>11

(* Dispatches and consumptions outdate nothing.                            *)
LEMMA QuietTail ==
    ASSUME LedgerInv, NEW es \in Seq(Event), log' = log \o es,
           \A j \in 1..Len(es) : es[j].type \in {"peer.dispatched", "dependency.consumed"},
           NEW k \in Nat, Len(log) <= k, k <= Len(log'), NEW u
    PROVE  /\ CurrentAt(u, Len(log)) => CurrentAt(u, k)'
           /\ \A S : Disposed(u, S, Len(log)) => Disposed(u, S, k)'
<1>1. TypeOK /\ TypeOK' /\ Grows
  BY Growth DEF LedgerInv
<1>2. PICK l \in Nat : l = Len(log)
  BY <1>1 DEF TypeOK
<1>3. /\ RevisionSeqs(l)' = RevisionSeqs(l) /\ LatestRevision(l)' = LatestRevision(l)
      /\ Reconciliations(u, l)' = Reconciliations(u, l)
      /\ Dispositions(u, l)' = Dispositions(u, l)
      /\ CurrentAt(u, l)' <=> CurrentAt(u, l)
      /\ \A S : Disposed(u, S, l)' <=> Disposed(u, S, l)
  <2>1. /\ l \in 0..Len(log) /\ l <= Len(log') /\ \A i \in 1..l : log'[i] = log[i]
    BY <1>1, <1>2 DEF Grows
  <2> QED
    BY <1>1, <2>1, PrefixFacts
<1>4. \A i \in 1..k : i \in 1..l \/ log'[i].type \in {"peer.dispatched", "dependency.consumed"}
  <2>1. \A i \in 1..Len(log') :
           i \in 1..Len(log) \/ \E j \in 1..Len(es) : i = Len(log) + j /\ log'[i] = es[j]
    BY Growth
  <2> QED
    BY <1>1, <1>2, <2>1 DEF Grows
<1>5. 1..l \subseteq 1..k /\ l <= Len(log')
  BY <1>2
<1>6. RevisionSeqs(k)' = RevisionSeqs(l)'
  BY <1>4, <1>5 DEF RevisionSeqs
<1>7. Reconciliations(u, k)' = Reconciliations(u, l)'
  BY <1>4, <1>5 DEF Reconciliations, Seqs
<1>8. Dispositions(u, k)' = Dispositions(u, l)'
  BY <1>4, <1>5 DEF Dispositions, Seqs
<1>9. LatestRevision(k)' = LatestRevision(l)'
  BY <1>6 DEF LatestRevision
<1>10. CurrentAt(u, l)' => CurrentAt(u, k)'
  BY <1>7, <1>9 DEF CurrentAt, LastReconciled
<1>11. \A S : Disposed(u, S, l)' => Disposed(u, S, k)'
  BY <1>8 DEF Disposed
<1> QED
  BY <1>2, <1>3, <1>10, <1>11

LEMMA SetToSeqFacts ==
    ASSUME NEW S, IsFiniteSet(S) PROVE SetToSeq(S) \in Seq(S)
<1>1. Cardinality(S) \in Nat /\ ExistsBijection(1..Cardinality(S), S)
  BY FS_CardinalityType
<1>2. PICK f \in Bijection(1..Cardinality(S), S) : TRUE
  BY <1>1 DEF ExistsBijection
<1>3. f \in [1..Cardinality(S) -> S] /\ IsInjective(f)
  BY <1>2 DEF Bijection, Injection, IsInjective
<1>4. SetToSeq(S) \in [1..Cardinality(S) -> S]
  BY <1>3 DEF SetToSeq
<1> QED
  BY <1>1, <1>4, SeqDef

LEMMA DispatchRecorded ==
    ASSUME LedgerInv, NEW t \in Turn, NEW sources \in SUBSET (Turn \ {t}), Dispatch(t, sources)
    PROVE  LedgerInv' /\ Grows
<1> DEFINE Taken(u) == event("dependency.consumed", u, 0, "graph")
           consumed == {Taken(u) : u \in sources}
           cs == SetToSeq(consumed)
           d == event("peer.dispatched", t, 0, "")
           es == <<d>> \o cs
<1>1. /\ "dependency.consumed" \in EventType /\ "peer.dispatched" \in EventType
      /\ "graph" \in Word /\ "" \in Word
  BY Words
<1>2. d \in Event /\ \A u \in sources : Taken(u) \in Event
  BY <1>1, MakeEvent
<1>3. /\ \A u \in sources : /\ Taken(u).type = "dependency.consumed" /\ Taken(u).turn = u
                            /\ Taken(u).what = "graph"
      /\ d.type = "peer.dispatched"
  BY DEF event
<1>4. consumed \subseteq Event
  BY <1>2
<1>5. IsFiniteSet(consumed)
  <2>1. IsFiniteSet(sources)
    BY LedgerAssumption, FS_Subset
  <2> DEFINE g == [u \in sources |-> Taken(u)]
  <2>2. g \in Surjection(sources, consumed)
    BY DEF Surjection
  <2> QED
    BY <2>1, <2>2, FS_Surjection
<1>6. log' = (log \o <<d>>) \o cs
  BY DEF Dispatch
<1>7. ASSUME NEW u \in sources
      PROVE  CurrentAt(u, Len(log)) /\ Disposed(u, {"accept"}, Len(log))
  BY <1>7 DEF Dispatch, MayConsume, Current, CurrentAt
<1>8. TypeOK /\ log \in Seq(Event)
  BY DEF LedgerInv, TypeOK
<1> HIDE DEF consumed, d, Taken
<1>9. cs \in Seq(consumed)
  BY <1>5, SetToSeqFacts
<1> HIDE DEF cs
<1>10. /\ cs \in Seq(Event) /\ Len(cs) \in Nat
       /\ \A j \in 1..Len(cs) : cs[j] \in consumed
  BY <1>4, <1>9
<1>11. /\ es \in Seq(Event) /\ log' = log \o es /\ Len(es) = 1 + Len(cs)
       /\ es[1] = d /\ \A j \in 2..Len(es) : es[j] = cs[j - 1]
  BY <1>2, <1>6, <1>8, <1>10
<1> HIDE DEF es
<1>12. \A j \in 2..Len(es) : \E u \in sources : es[j] = Taken(u)
  <2> TAKE j \in 2..Len(es)
  <2>1. j - 1 \in 1..Len(cs) /\ es[j] = cs[j - 1]
    BY <1>10, <1>11
  <2>2. es[j] \in consumed
    BY <1>10, <2>1
  <2> QED
    BY <2>2 DEF consumed
<1>13. \A j \in 1..Len(es) : es[j].type \in {"peer.dispatched", "dependency.consumed"}
  <2> TAKE j \in 1..Len(es)
  <2>1. j = 1 \/ j \in 2..Len(es)
    BY <1>10, <1>11
  <2> QED
    BY <1>3, <1>11, <1>12, <2>1
<1>14. /\ TypeOK' /\ Grows /\ Len(log') = Len(log) + Len(es)
       /\ \A i \in 1..Len(log') :
             i \in 1..Len(log) \/ \E j \in 1..Len(es) : i = Len(log) + j /\ log'[i] = es[j]
       /\ \A i \in 1..Len(log) : Legal(log[i], i - 1)'
  BY <1>11, Growth
<1>15. ASSUME NEW i \in 1..Len(log') PROVE Legal(log[i], i - 1)'
  <2>1. CASE i \in 1..Len(log)
    BY <1>14, <2>1
  <2>2. ASSUME NEW j \in 1..Len(es), i = Len(log) + j, log'[i] = es[j]
        PROVE  Legal(log[i], i - 1)'
    <3>1. CASE j = 1
      <4>1. Legal(d, i - 1)'
        BY <1>1, PlainEvent DEF d
      <4> QED
        BY <1>11, <2>2, <3>1, <4>1
    <3>2. CASE j \in 2..Len(es)
      <4>1. PICK u \in sources : es[j] = Taken(u)
        BY <1>12, <3>2
      <4>2. i - 1 \in Nat /\ Len(log) <= i - 1 /\ i - 1 <= Len(log')
        BY <1>8, <1>14, <2>2
      <4>3. CurrentAt(u, i - 1)' /\ Disposed(u, {"accept"}, i - 1)'
        BY <1>7, <1>11, <1>13, <4>2, QuietTail
      <4>4. Legal(Taken(u), i - 1)'
        BY <1>3, <4>3 DEF Legal, LegalAnswer, LegalRevision, LegalReconciliation, LegalSignal,
                          LegalRemedy, LegalReliance
      <4> QED
        BY <2>2, <4>1, <4>4
    <3> QED
      BY <1>10, <1>11, <3>1, <3>2
  <2> QED
    BY <1>14, <2>1, <2>2
<1> QED
  BY <1>14, <1>15 DEF LedgerInv, Lawful

LEMMA WriteGrows == LedgerInv /\ Write => LedgerInv' /\ Grows
<1> SUFFICES ASSUME LedgerInv, Write PROVE LedgerInv' /\ Grows
  OBVIOUS
<1>1. ASSUME NEW i \in 1..Len(log), ResolveConsumption(i) PROVE LedgerInv' /\ Grows
  BY <1>1, ConsumptionRemedied
<1>2. ASSUME NEW r \in 1..MaxRevision, RecordRevision(r) PROVE LedgerInv' /\ Grows
  BY <1>2, LedgerAssumption, RevisionRecorded
<1>3. ASSUME NEW t \in Turn, NEW sources \in SUBSET (Turn \ {t}), Dispatch(t, sources)
      PROVE  LedgerInv' /\ Grows
  BY <1>3, DispatchRecorded
<1>4. ASSUME NEW t \in Turn,
             RecordTurn(t) \/ RuntimeBlocked(t) \/ \E s \in Signal : RecordSignal(t, s)
      PROVE  LedgerInv' /\ Grows
  BY <1>4, PeerRecorded
<1>5. ASSUME NEW t \in Turn, NEW s \in AnySignal, ResolveSignal(t, s)
      PROVE  LedgerInv' /\ Grows
  BY <1>5, SignalRecordedResolved
<1>6. ASSUME NEW t \in Turn, NEW a \in Action, Dispose(t, a) PROVE LedgerInv' /\ Grows
  BY <1>6, DispositionRecorded
<1>7. ASSUME NEW t \in Turn, NEW r \in Resolution, Reconcile(t, r) PROVE LedgerInv' /\ Grows
  BY <1>7, ReconciliationRecorded
<1>8. ASSUME NEW t \in Turn, ConsumeDirectly(t) PROVE LedgerInv' /\ Grows
  BY <1>8, ConsumptionRecorded
<1> QED
  BY <1>1, <1>2, <1>3, <1>4, <1>5, <1>6, <1>7, <1>8 DEF Write

-----------------------------------------------------------------------------
(* What a lawful ledger says of candidates.                                *)

LEMMA LatestGrows ==
    ASSUME LedgerInv, NEW k \in 0..Len(log), NEW l \in 0..Len(log), k <= l
    PROVE  /\ LatestRevision(k) <= LatestRevision(l)
           /\ \A j \in RevisionSeqs(l) : j > k => LatestRevision(k) < log[j].n
<1>1. TypeOK /\ Lawful
  BY DEF LedgerInv
<1>2. /\ LatestRevision(k) \in Nat
      /\ LatestRevision(k) = 0 \/ \E m \in RevisionSeqs(k) : LatestRevision(k) = log[m].n
  BY LatestFacts
<1>3. /\ LatestRevision(l) \in Nat
      /\ \A j \in RevisionSeqs(l) : log[j].n <= LatestRevision(l)
  BY LatestFacts
<1>4. RevisionSeqs(k) \subseteq RevisionSeqs(l)
  BY DEF RevisionSeqs
<1>5. ASSUME NEW j \in RevisionSeqs(l), j > k PROVE LatestRevision(k) < log[j].n
  <2>1. /\ j \in 1..Len(log) /\ j \in Nat /\ log[j].type = "work_item.revision_changed"
        /\ k <= j - 1
    BY <1>5 DEF RevisionSeqs
  <2>2. log[j].n # 0 /\ \A m \in RevisionSeqs(j - 1) : log[m].n < log[j].n
    BY <1>1, <2>1 DEF Lawful, Legal, LegalRevision
  <2>3. RevisionSeqs(k) \subseteq RevisionSeqs(j - 1)
    BY <2>1 DEF RevisionSeqs
  <2>4. log[j].n \in Nat
    BY <1>1, <2>1, EventAt
  <2> QED
    BY <1>2, <2>2, <2>3, <2>4
<1> QED
  BY <1>2, <1>3, <1>4, <1>5

(* A reconciliation is made at the latest revision, by which the candidate *)
(* is outdated, and of a candidate that was not retired.                   *)
LEMMA ReconciliationAt ==
    ASSUME LedgerInv, NEW k \in 0..Len(log), NEW t, NEW i \in Reconciliations(t, k)
    PROVE  /\ i \in 1..k /\ t \in Turn /\ captured[t] \in Nat
           /\ log[i].n = LatestRevision(i - 1) /\ log[i].n > captured[t]
           /\ log[i].n \in Nat /\ log[i].what \in Resolution
           /\ ~Retired(t, i - 1) /\ LatestRevision(i - 1) <= LatestRevision(k)
           /\ Seqs("peer.response", t, i - 1) # {}
<1>1. /\ i \in 1..k /\ i \in 1..Len(log) /\ log[i].type = "candidate.reconciled"
      /\ log[i].turn = t
  BY DEF Reconciliations, Seqs
<1>2. Legal(log[i], i - 1)
  BY <1>1 DEF LedgerInv, Lawful
<1>3. /\ t \in Turn /\ log[i].n = LatestRevision(i - 1) /\ log[i].n > captured[t]
      /\ ~Retired(t, i - 1) /\ log[i].what \in Resolution
      /\ Seqs("peer.response", t, i - 1) # {}
  BY <1>1, <1>2 DEF Legal, LegalReconciliation
<1>4. captured[t] \in Nat
  BY <1>3, LedgerAssumption
<1>5. log[i].n \in Nat
  BY <1>1, EventAt DEF LedgerInv
<1>6. i - 1 \in 0..Len(log) /\ i - 1 <= k
  BY <1>1
<1>7. LatestRevision(i - 1) <= LatestRevision(k)
  BY <1>6, LatestGrows
<1> QED
  BY <1>1, <1>3, <1>4, <1>5, <1>7

(* What was retired is not current any more.                               *)
LEMMA RetiredIsNotCurrent ==
    ASSUME LedgerInv, NEW k \in 0..Len(log), NEW t \in Turn, captured[t] # 0, Retired(t, k)
    PROVE  ~CurrentAt(t, k)
<1>1. PICK q \in Reconciliations(t, k) : log[q].what \in Terminal
  BY DEF Retired
<1>2. LatestRevision(k) > captured[t]
  <2>1. LatestRevision(k) \in Nat
    BY LatestFacts
  <2>2. /\ log[q].n > captured[t] /\ log[q].n <= LatestRevision(k) /\ captured[t] \in Nat
        /\ log[q].n \in Nat
    BY ReconciliationAt
  <2> QED
    BY <2>1, <2>2
<1>3. ASSUME LastReconciled(t, {"revalidated"}, LatestRevision(k), k) PROVE FALSE
  <2>1. PICK p \in Reconciliations(t, k) :
           log[p].what = "revalidated" /\ \A j \in Reconciliations(t, k) : j <= p
    BY <1>3 DEF LastReconciled
  <2>2. q < p
    <3>1. q <= p /\ q # p
      BY <1>1, <2>1 DEF Terminal
    <3>2. q \in 1..k /\ p \in 1..k
      BY DEF Reconciliations, Seqs
    <3> QED
      BY <3>1, <3>2
  <2>3. q \in Reconciliations(t, p - 1)
    BY <2>2 DEF Reconciliations, Seqs
  <2>4. ~Retired(t, p - 1)
    BY ReconciliationAt
  <2> QED
    BY <1>1, <2>3, <2>4 DEF Retired
<1>4. captured[t] \in Nat /\ LatestRevision(k) \in Nat
  BY LedgerAssumption, LatestFacts
<1> QED
  BY <1>2, <1>3, <1>4 DEF CurrentAt

LEMMA LedgerKeepsRetired == LedgerInv => RetiredStaysRetired
<1> SUFFICES ASSUME LedgerInv, NEW i \in 1..Len(log),
                    \/ log[i].type = "lead.disposition" /\ log[i].what = "accept"
                    \/ log[i].type = "candidate.reconciled"
                    \/ log[i].type = "dependency.consumed" /\ log[i].what = "graph",
                    captured[log[i].turn] # 0, Retired(log[i].turn, i - 1)
             PROVE  FALSE
  BY DEF RetiredStaysRetired
<1>1. Legal(log[i], i - 1)
  BY DEF LedgerInv, Lawful
<1>2. PICK t \in Turn : t = log[i].turn
  BY <1>1 DEF Legal
<1>3. i - 1 \in 0..Len(log)
  OBVIOUS
<1>4. CASE log[i].what \in {"accept", "graph"}
  <2>1. CurrentAt(t, i - 1)
    BY <1>1, <1>2, <1>4 DEF Legal, LegalReliance
  <2> QED
    BY <1>2, <1>3, <2>1, RetiredIsNotCurrent
<1>5. CASE log[i].type = "candidate.reconciled"
  BY <1>1, <1>2, <1>5 DEF Legal, LegalReconciliation
<1> QED
  BY <1>4, <1>5

LEMMA LedgerIsUpToDate == LedgerInv => EvidenceIsUpToDate
<1> SUFFICES ASSUME LedgerInv, NEW i \in 1..Len(log)
             PROVE  /\ log[i].what = "graph" => Disposed(log[i].turn, {"accept"}, i)
                    /\ log[i].what \in {"accept", "graph"} /\ captured[log[i].turn] # 0
                       => \A j \in RevisionSeqs(i) :
                             log[j].n > captured[log[i].turn] =>
                                \E k \in j+1..i : /\ k \in Reconciliations(log[i].turn, i)
                                                  /\ log[k].what = "revalidated"
  BY DEF EvidenceIsUpToDate
<1>1. Legal(log[i], i - 1) /\ i \in Nat /\ i - 1 \in 0..Len(log)
  BY DEF LedgerInv, Lawful
<1>2. ASSUME log[i].what = "graph" PROVE Disposed(log[i].turn, {"accept"}, i)
  <2>1. Disposed(log[i].turn, {"accept"}, i - 1)
    BY <1>1, <1>2 DEF Legal, LegalReliance
  <2> QED
    BY <1>1, <2>1 DEF Disposed, Dispositions, Seqs
<1>3. ASSUME log[i].what \in {"accept", "graph"}, captured[log[i].turn] # 0,
             NEW j \in RevisionSeqs(i), log[j].n > captured[log[i].turn]
      PROVE  \E k \in j+1..i : /\ k \in Reconciliations(log[i].turn, i)
                               /\ log[k].what = "revalidated"
  <2>1. /\ CurrentAt(log[i].turn, i - 1) /\ log[i].turn \in Turn
        /\ log[i].type # "work_item.revision_changed"
    BY <1>1, <1>3 DEF Legal, LegalReliance
  <2>2. PICK t \in Turn : t = log[i].turn
    BY <2>1
  <2>3. j \in RevisionSeqs(i - 1) /\ j \in 1..i /\ j # i
    BY <1>1, <2>1 DEF RevisionSeqs
  <2>4. LatestRevision(i - 1) > captured[t] /\ log[j].n <= LatestRevision(i - 1)
    <3>1. log[j].n <= LatestRevision(i - 1) /\ LatestRevision(i - 1) \in Nat
      BY <1>1, <2>3, LatestFacts
    <3>2. log[j].n \in Nat /\ captured[t] \in Nat
      <4>1. j \in 1..Len(log)
        BY <2>3
      <4> QED
        BY <4>1, EventAt, LedgerAssumption DEF LedgerInv
    <3> QED
      BY <1>3, <2>2, <3>1, <3>2
  <2>5. LastReconciled(t, {"revalidated"}, LatestRevision(i - 1), i - 1)
    <3>1. captured[t] \in Nat /\ LatestRevision(i - 1) \in Nat
      BY <1>1, LatestFacts, LedgerAssumption
    <3> QED
      BY <1>3, <2>1, <2>2, <2>4, <3>1 DEF CurrentAt
  <2>6. PICK k \in Reconciliations(t, i - 1) :
           log[k].what = "revalidated" /\ log[k].n = LatestRevision(i - 1)
    BY <2>5 DEF LastReconciled
  <2>7. k \in 1..(i - 1) /\ log[k].n = LatestRevision(k - 1)
    BY <1>1, <2>6, ReconciliationAt
  <2>8. k \in Reconciliations(t, i) /\ log[k].type = "candidate.reconciled"
    BY <1>1, <2>6, <2>7 DEF Reconciliations, Seqs
  <2>9. ASSUME k <= j PROVE FALSE
    <3>1. k - 1 \in 0..Len(log) /\ k - 1 <= i - 1 /\ j > k - 1
      BY <1>1, <2>7, <2>9, <2>3
    <3>2. LatestRevision(k - 1) < log[j].n
      BY <1>1, <2>3, <3>1, LatestGrows
    <3>3. log[j].n \in Nat /\ LatestRevision(i - 1) \in Nat
      <4>1. j \in 1..Len(log)
        BY <2>3
      <4> QED
        BY <1>1, <4>1, EventAt, LatestFacts DEF LedgerInv
    <3> QED
      BY <2>4, <2>6, <2>7, <3>2, <3>3
  <2>10. k \in j+1..i
    BY <1>1, <2>3, <2>7, <2>9
  <2> QED
    BY <2>2, <2>6, <2>8, <2>10
<1> QED
  BY <1>2, <1>3

-----------------------------------------------------------------------------
(* Theorems about the ledger.                                              *)

LEMMA LedgerStarts == LedgerInit => LedgerInv
BY DEF LedgerInit, LedgerInv, TypeOK, Lawful

LEMMA LedgerStep == LedgerInv /\ [Write]_log => LedgerInv'
<1> SUFFICES ASSUME LedgerInv, UNCHANGED log PROVE LedgerInv'
  BY WriteGrows
<1>1. /\ TypeOK' /\ Len(log') = Len(log) /\ \A i \in 1..Len(log) : log'[i] = log[i]
      /\ TypeOK /\ Lawful /\ Len(log) \in Nat
  BY DEF LedgerInv, TypeOK
<1>2. ASSUME NEW i \in 1..Len(log') PROVE Legal(log[i], i - 1)'
  <2>1. PICK e \in Event : e = log[i]
    BY <1>1 DEF TypeOK
  <2>2. i - 1 \in 0..Len(log) /\ i - 1 <= Len(log') /\ \A j \in 1..(i - 1) : log'[j] = log[j]
    BY <1>1
  <2>3. Legal(e, i - 1)
    BY <1>1, <2>1 DEF Lawful
  <2>4. Legal(e, i - 1)'
    BY <1>1, <2>2, <2>3, LegalKept
  <2> QED
    BY <1>1, <2>1, <2>4
<1> QED
  BY <1>1, <1>2 DEF LedgerInv, Lawful

LEMMA LedgerInvariance == LedgerSpec => []LedgerInv
BY LedgerStarts, LedgerStep, PTL DEF LedgerSpec

(* What the Lead retired is out for good: no later event accepts it,       *)
(* reconciles it or lets a TaskGraph child rest on it                      *)
(* (record_candidate_reconciliation, record_lead_disposition).             *)
THEOREM RetiredForGood == LedgerSpec => []RetiredStaysRetired
BY LedgerInvariance, LedgerKeepsRetired, PTL

(* No acceptance and no start of a TaskGraph child ever rested on evidence *)
(* that was not accepted or that a revision had outdated                   *)
(* (assert_turn_current_for_acceptance_in_transaction).                    *)
THEOREM EvidenceAlwaysUpToDate == LedgerSpec => []EvidenceIsUpToDate
BY LedgerInvariance, LedgerIsUpToDate, PTL

-----------------------------------------------------------------------------
(* The replay of a batch.                                                  *)

(* f[k] holds the cases after the events up to k.                          *)
Replay1(f, n) ==
    /\ f[cursor] = cases
    /\ \A k \in cursor+1..n : f[k] = Applied(f[k - 1], k)

LEMMA ReplayExists ==
    ASSUME cursor \in Nat, NEW n \in Nat, cursor <= n
    PROVE  \E f : f = [k \in cursor..n |-> IF k = cursor THEN cases ELSE Applied(f[k - 1], k)]
<1> DEFINE Eq(f, m) ==
             f = [k \in cursor..m |-> IF k = cursor THEN cases ELSE Applied(f[k - 1], k)]
           Bad == {m \in Nat : cursor <= m /\ ~\E f : Eq(f, m)}
<1>1. ASSUME Bad # {} PROVE FALSE
  <2>1. PICK m \in Bad : \A l \in Bad : m <= l
    BY <1>1, Least
  <2>2. m \in Nat /\ cursor <= m /\ ~\E f : Eq(f, m)
    BY <2>1
  <2>3. CASE m = cursor
    <3> DEFINE f == [k \in cursor..m |-> cases]
    <3>1. \A k \in cursor..m : k = cursor
      BY <2>3
    <3>2. Eq(f, m)
      BY <3>1
    <3> QED
      BY <2>2, <3>2
  <2>4. CASE m # cursor
    <3>1. m - 1 \in Nat /\ cursor <= m - 1 /\ m - 1 \notin Bad
      <4>1. m - 1 \in Nat /\ cursor <= m - 1 /\ ~(m <= m - 1)
        BY <2>2, <2>4
      <4> HIDE DEF Bad
      <4>2. m - 1 \notin Bad
        BY <2>1, <4>1
      <4> QED
        BY <4>1, <4>2
    <3>2. PICK f : Eq(f, m - 1)
      BY <3>1
    <3> DEFINE g == [k \in cursor..m |-> IF k = m THEN Applied(f[m - 1], m) ELSE f[k]]
    <3>3. ASSUME NEW k \in cursor..m
          PROVE  g[k] = IF k = cursor THEN cases ELSE Applied(g[k - 1], k)
      <4>1. CASE k = cursor
        <5>1. k \in cursor..(m - 1) /\ k # m
          BY <2>2, <2>4, <4>1
        <5>2. f[k] = cases
          BY <3>2, <4>1, <5>1
        <5> QED
          BY <4>1, <5>1, <5>2
      <4>2. CASE k = m
        <5>1. m - 1 \in cursor..m /\ m - 1 # m
          BY <2>2, <3>1
        <5>2. g[m - 1] = f[m - 1]
          BY <5>1
        <5> QED
          BY <2>4, <4>2, <5>2
      <4>3. CASE k # cursor /\ k # m
        <5>1. k \in cursor..(m - 1) /\ k - 1 \in cursor..m /\ k - 1 # m
          BY <2>2, <4>3
        <5>2. g[k - 1] = f[k - 1] /\ g[k] = f[k]
          BY <4>3, <5>1
        <5>3. f[k] = Applied(f[k - 1], k)
          BY <3>2, <4>3, <5>1
        <5> QED
          BY <4>3, <5>2, <5>3
      <4> QED
        BY <4>1, <4>2, <4>3
    <3>4. Eq(g, m)
      BY <3>3
    <3> QED
      BY <2>2, <3>4
  <2> QED
    BY <2>3, <2>4
<1> QED
  BY <1>1

LEMMA Replays ==
    ASSUME TypeOK, BrokerTypeOK, ProcessPending
    PROVE  /\ cursor' \in Nat /\ cursor < cursor' /\ cursor' <= Len(log)
           /\ \E f : Replay1(f, cursor') /\ cases' = f[cursor']
<1>1. /\ cursor \in Nat /\ Len(log) \in Nat /\ cursor < Len(log) /\ BatchLimit \in Nat \ {0}
      /\ cursor' = BatchEnd
  BY BatchAssumption DEF TypeOK, BrokerTypeOK, ProcessPending
<1>2. BatchEnd \in Nat /\ cursor < BatchEnd /\ BatchEnd <= Len(log)
  BY <1>1 DEF BatchEnd
<1>3. PICK n \in Nat : n = BatchEnd
  BY <1>2
<1> DEFINE f0 == CHOOSE f :
                   f = [k \in cursor..n |-> IF k = cursor THEN cases ELSE Applied(f[k - 1], k)]
<1>4. f0 = [k \in cursor..n |-> IF k = cursor THEN cases ELSE Applied(f0[k - 1], k)]
  <2>1. \E f : f = [k \in cursor..n |-> IF k = cursor THEN cases ELSE Applied(f[k - 1], k)]
    <3>1. cursor \in Nat /\ cursor <= n
      BY <1>1, <1>2, <1>3
    <3> QED
      BY <3>1, ReplayExists, Zenon
  <2> QED
    BY <2>1
<1>5. cases' = f0[n]
  BY <1>3 DEF ProcessPending
<1> HIDE DEF f0
<1>6. f0[cursor] = cases
  <2>1. cursor \in cursor..n
    BY <1>1, <1>2, <1>3
  <2> QED
    BY <1>4, <2>1
<1>7. ASSUME NEW k \in cursor+1..n PROVE f0[k] = Applied(f0[k - 1], k)
  <2>1. k \in cursor..n /\ k # cursor
    BY <1>1, <1>3
  <2> QED
    BY <1>4, <2>1
<1>8. Replay1(f0, n)
  BY <1>6, <1>7 DEF Replay1
<1> QED
  BY <1>1, <1>2, <1>3, <1>5, <1>8

-----------------------------------------------------------------------------
(* What the event k does to the cases C.                                   *)

Label(e) == IF e.what = "runtime_blocked" THEN "BLOCKED" ELSE e.what

(* The cases that a revision overtakes: unreviewed, they are refreshed,    *)
(* otherwise closed and replaced.                                          *)
Overtaken(C, k) ==
    {s \in DOMAIN C : \E t \in Outdated(k) : s \in ActiveR5(C, t) /\ C[s].revision < log[k].n}

Refreshed(C, k) == {s \in Overtaken(C, k) : C[s].status = "OPEN" /\ C[s].verdict = "none"}

Due(C, k) ==
    {t \in Outdated(k) : ActiveR5(C, t) \subseteq Overtaken(C, k) \ Refreshed(C, k)}

OpensOn(C, k, s) ==
    LET e == log[k]
    IN  \/ /\ e.type = "peer.response"
           /\ \/ s = R1(e.turn) /\ ~Decided(e.turn, Action)
              \/ s = R5(e.turn, LatestRevision(k)) /\ StaleAt(e.turn, k)
        \/ /\ e.type = "dependency.consumed"
           /\ s = R2(e.turn, k) /\ ~Disposed(e.turn, {"accept"}, k - 1)
        \/ /\ e.type = "peer.signal"
           /\ s = R4(e.turn, Label(e)) /\ ~Decided(e.turn, {"accept", "reject"})
        \/ /\ e.type = "work_item.revision_changed"
           /\ \E t \in Due(C, k) : s = R5(t, e.n)

ClosesOn(C, k, s) ==
    LET e == log[k]
    IN  \/ /\ e.type = "peer.response"
           /\ C[s].runtimeBlocked /\ session[s.turn] = session[e.turn]
        \/ /\ e.type = "lead.disposition" /\ s.turn = e.turn
           /\ \/ s.rule = "R1"
              \/ s.rule = "R4" /\ e.what # "defer"
              \/ s.rule = "R5" /\ e.what = "reject"
        \/ /\ e.type = "candidate.reconciled" /\ s.turn = e.turn
           /\ s.rule = "R5" /\ C[s].revision <= e.n
        \/ e.type = "dependency.consumption_resolved" /\ s.rule = "R2" /\ s.n = e.n
        \/ e.type = "peer.signal_resolved" /\ s = R4(e.turn, e.what)
        \/ /\ e.type = "work_item.revision_changed"
           /\ s \in Overtaken(C, k) \ Refreshed(C, k)

RefreshesOn(C, k, s) ==
    log[k].type = "work_item.revision_changed" /\ s \in Refreshed(C, k)

Opened(C, k) == {s \in Subject \ DOMAIN C : OpensOn(C, k, s)}

(* D holds the cases after the event k.                                    *)
Effect(C, D, k) ==
    /\ DOMAIN D = DOMAIN C \cup Opened(C, k)
    /\ \A s \in DOMAIN C :
          /\ D[s] \in Case /\ D[s].opened = C[s].opened /\ D[s].verdict = C[s].verdict
          /\ D[s].runtimeBlocked = C[s].runtimeBlocked
          /\ D[s].status = IF ClosesOn(C, k, s) THEN "CLOSED" ELSE C[s].status
          /\ D[s].revision = IF RefreshesOn(C, k, s) THEN log[k].n ELSE C[s].revision
    /\ \A s \in Opened(C, k) :
          /\ D[s] \in Case /\ D[s].status = "OPEN" /\ D[s].verdict = "none"
          /\ D[s].revision = IF s.rule = "R5" THEN LatestRevision(k) ELSE 0
          /\ D[s].runtimeBlocked <=> s.rule = "R4" /\ log[k].what = "runtime_blocked"

(* A subject is named after its rule.                                      *)
Named(s) ==
    \/ \E t \in Turn : s = R1(t)
    \/ \E t \in Turn, n \in Nat : s = R2(t, n)
    \/ \E t \in Turn, x \in AnySignal : s = R4(t, x)
    \/ \E t \in Turn, n \in Nat : s = R5(t, n)

WellFormed(C) ==
    \A s \in DOMAIN C :
        /\ C[s] \in Case /\ Named(s)
        /\ C[s].runtimeBlocked => s.rule = "R4"

LEMMA SubjectFacts ==
    /\ \A t : R1(t).rule = "R1" /\ R1(t).turn = t
    /\ \A t, n : R2(t, n).rule = "R2" /\ R2(t, n).turn = t /\ R2(t, n).n = n
    /\ \A t, x : R4(t, x).rule = "R4" /\ R4(t, x).turn = t /\ R4(t, x).what = x
    /\ \A t, n : R5(t, n).rule = "R5" /\ R5(t, n).turn = t /\ R5(t, n).n = n
BY DEF R1, R2, R4, R5, subject

LEMMA SubjectTypes ==
    ASSUME NEW t \in Turn
    PROVE  /\ R1(t) \in Subject
           /\ \A n \in Nat : R2(t, n) \in Subject /\ R5(t, n) \in Subject
           /\ \A x \in AnySignal : R4(t, x) \in Subject
BY DEF R1, R2, R4, R5, subject, Subject

LEMMA NamedFacts ==
    ASSUME NEW s, Named(s)
    PROVE  /\ s \in Subject /\ s.turn \in Turn /\ s.rule \in {"R1", "R2", "R4", "R5"}
           /\ s.rule = "R1" => s = R1(s.turn)
           /\ s.rule = "R2" => s = R2(s.turn, s.n) /\ s.n \in Nat
           /\ s.rule = "R4" => s = R4(s.turn, s.what) /\ s.what \in AnySignal
           /\ s.rule = "R5" => s = R5(s.turn, s.n) /\ s.n \in Nat
<1>1. CASE \E t \in Turn : s = R1(t)
  BY <1>1, SubjectFacts, SubjectTypes
<1>2. CASE \E t \in Turn, n \in Nat : s = R2(t, n)
  BY <1>2, SubjectFacts, SubjectTypes
<1>3. CASE \E t \in Turn, x \in AnySignal : s = R4(t, x)
  BY <1>3, SubjectFacts, SubjectTypes
<1>4. CASE \E t \in Turn, n \in Nat : s = R5(t, n)
  BY <1>4, SubjectFacts, SubjectTypes
<1> QED
  BY <1>1, <1>2, <1>3, <1>4 DEF Named

LEMMA CaseFacts ==
    ASSUME NEW k \in Nat, NEW r \in Nat, NEW b \in BOOLEAN
    PROVE  /\ case(k, r, b) \in Case /\ case(k, r, b).status = "OPEN"
           /\ case(k, r, b).revision = r /\ case(k, r, b).runtimeBlocked = b
           /\ case(k, r, b).verdict = "none"
BY DEF case, Case

LEMMA OpeningFacts ==
    ASSUME NEW C, NEW S, NEW c
    PROVE  /\ DOMAIN Opening(C, S, c) = DOMAIN C \cup S
           /\ \A s \in DOMAIN C : Opening(C, S, c)[s] = C[s]
           /\ \A s \in S \ DOMAIN C : Opening(C, S, c)[s] = c
BY DEF Opening

LEMMA ClosingFacts ==
    ASSUME NEW C, NEW S
    PROVE  /\ DOMAIN Closing(C, S) = DOMAIN C
           /\ \A s \in DOMAIN C : C[s] \in Case =>
                 /\ Closing(C, S)[s] \in Case
                 /\ Closing(C, S)[s].status = IF s \in S THEN "CLOSED" ELSE C[s].status
                 /\ Closing(C, S)[s].opened = C[s].opened
                 /\ Closing(C, S)[s].verdict = C[s].verdict
                 /\ Closing(C, S)[s].revision = C[s].revision
                 /\ Closing(C, S)[s].runtimeBlocked = C[s].runtimeBlocked
                 /\ C[s].status = "CLOSED" => Closing(C, S)[s] = C[s]
<1>1. DOMAIN Closing(C, S) = DOMAIN C
  BY DEF Closing
<1>2. ASSUME NEW s \in DOMAIN C, C[s] \in Case
      PROVE  /\ Closing(C, S)[s] \in Case
             /\ Closing(C, S)[s].status = IF s \in S THEN "CLOSED" ELSE C[s].status
             /\ Closing(C, S)[s].opened = C[s].opened
             /\ Closing(C, S)[s].verdict = C[s].verdict
             /\ Closing(C, S)[s].revision = C[s].revision
             /\ Closing(C, S)[s].runtimeBlocked = C[s].runtimeBlocked
             /\ C[s].status = "CLOSED" => Closing(C, S)[s] = C[s]
  <2>1. Closing(C, S)[s] = IF s \in S THEN [C[s] EXCEPT !.status = "CLOSED"] ELSE C[s]
    BY DEF Closing
  <2> QED
    BY <1>2, <2>1 DEF Case
<1> QED
  BY <1>1, <1>2

LEMMA EventTypes ==
    ASSUME LedgerInv, NEW k \in 1..Len(log)
    PROVE  /\ log[k] \in Event /\ k \in Nat /\ k \in 0..Len(log) /\ k - 1 \in 0..Len(log)
           /\ log[k].type # "work_item.revision_changed" => log[k].turn \in Turn
           /\ log[k].n \in Nat /\ Legal(log[k], k - 1)
           /\ LatestRevision(k) \in Nat
<1>1. TypeOK /\ Lawful /\ Len(log) \in Nat
  BY DEF LedgerInv, TypeOK
<1>2. log[k] \in Event /\ log[k].n \in Nat
  BY <1>1, EventAt
<1>3. Legal(log[k], k - 1)
  BY <1>1 DEF Lawful
<1>4. k \in Nat /\ k \in 0..Len(log) /\ k - 1 \in 0..Len(log)
  BY <1>1
<1>5. LatestRevision(k) \in Nat
  BY <1>4, LatestFacts
<1> QED
  BY <1>2, <1>3, <1>4, <1>5 DEF Legal

(* The handlers that only close.                                           *)
LEMMA ClosingEffect ==
    ASSUME NEW C, WellFormed(C), NEW k, NEW S, NEW D, D = Closing(C, S),
           \A s \in DOMAIN C : s \in S <=> ClosesOn(C, k, s),
           \A s \in Subject \ DOMAIN C : ~OpensOn(C, k, s),
           log[k].type # "work_item.revision_changed"
    PROVE  Effect(C, D, k)
<1>1. Opened(C, k) = {}
  BY DEF Opened
<1>2. \A s \in DOMAIN C : C[s] \in Case /\ ~RefreshesOn(C, k, s)
  BY DEF WellFormed, RefreshesOn
<1> QED
  BY <1>1, <1>2, ClosingFacts DEF Effect

(* The handlers that only open, of at most one subject.                    *)
LEMMA OpeningEffect ==
    ASSUME NEW C, WellFormed(C), NEW k \in Nat, NEW S \in SUBSET Subject, NEW b \in BOOLEAN,
           NEW D, D = Opening(C, S, case(k, 0, b)),
           \A s \in DOMAIN C : ~ClosesOn(C, k, s),
           \A s \in Subject \ DOMAIN C : OpensOn(C, k, s) <=> s \in S,
           \A s \in S : s.rule # "R5" /\ (b <=> s.rule = "R4" /\ log[k].what = "runtime_blocked"),
           log[k].type # "work_item.revision_changed"
    PROVE  Effect(C, D, k)
<1>1. Opened(C, k) = S \ DOMAIN C
  BY DEF Opened
<1>2. \A s \in DOMAIN C : C[s] \in Case /\ ~RefreshesOn(C, k, s)
  BY DEF WellFormed, RefreshesOn
<1>3. case(k, 0, b) \in Case /\ case(k, 0, b).status = "OPEN" /\ case(k, 0, b).revision = 0
      /\ case(k, 0, b).runtimeBlocked = b /\ case(k, 0, b).verdict = "none"
  BY CaseFacts
<1> DEFINE c == case(k, 0, b)
<1> HIDE DEF c
<1>4. /\ DOMAIN D = DOMAIN C \cup S
      /\ \A s \in DOMAIN C : D[s] = C[s]
      /\ \A s \in S \ DOMAIN C : D[s] = c
  <2>1. D = [s \in DOMAIN C \cup S |-> IF s \in DOMAIN C THEN C[s] ELSE c]
    BY DEF c, Opening
  <2>2. DOMAIN D = DOMAIN C \cup S
    BY <2>1
  <2>3. \A s \in DOMAIN C : D[s] = C[s]
    BY <2>1
  <2>4. \A s \in S \ DOMAIN C : D[s] = c
    BY <2>1
  <2> QED
    BY <2>2, <2>3, <2>4
<1>5. DOMAIN D = DOMAIN C \cup Opened(C, k)
  BY <1>1, <1>4
<1>6. ASSUME NEW s \in DOMAIN C
      PROVE  D[s] = C[s] /\ D[s] \in Case /\ ~ClosesOn(C, k, s) /\ ~RefreshesOn(C, k, s)
  BY <1>2, <1>4
<1>7. ASSUME NEW s \in Opened(C, k)
      PROVE  /\ D[s] \in Case /\ D[s].status = "OPEN" /\ D[s].verdict = "none"
             /\ s.rule # "R5" /\ D[s].revision = 0
             /\ D[s].runtimeBlocked <=> s.rule = "R4" /\ log[k].what = "runtime_blocked"
  BY <1>1, <1>3, <1>4 DEF c
<1> QED
  BY <1>5, <1>6, <1>7 DEF Effect

(* Nothing happens.                                                        *)
LEMMA NoEffect ==
    ASSUME NEW C, WellFormed(C), NEW k,
           \A s \in DOMAIN C : ~ClosesOn(C, k, s),
           \A s \in Subject \ DOMAIN C : ~OpensOn(C, k, s),
           log[k].type # "work_item.revision_changed"
    PROVE  Effect(C, C, k)
<1>1. Opened(C, k) = {}
  BY DEF Opened
<1>2. \A s \in DOMAIN C : C[s] \in Case /\ ~RefreshesOn(C, k, s)
  BY DEF WellFormed, RefreshesOn
<1> QED
  BY <1>1, <1>2 DEF Effect

LEMMA AnswerEffect ==
    ASSUME LedgerInv, NEW C, WellFormed(C), NEW k \in 1..Len(log),
           log[k].type = "lead.disposition"
    PROVE  Effect(C, Answered(C, k), k)
<1> DEFINE S == {s \in DOMAIN C : /\ s.turn = log[k].turn
                                  /\ \/ s.rule = "R1"
                                     \/ s.rule = "R4" /\ log[k].what # "defer"
                                     \/ s.rule = "R5" /\ log[k].what = "reject"}
<1>1. Answered(C, k) = Closing(C, S)
  BY DEF Answered
<1>2. \A s \in DOMAIN C : s \in S <=> ClosesOn(C, k, s)
  BY DEF ClosesOn
<1>3. \A s \in Subject \ DOMAIN C : ~OpensOn(C, k, s)
  BY DEF OpensOn
<1> QED
  BY <1>1, <1>2, <1>3, ClosingEffect

LEMMA ReconciliationEffect ==
    ASSUME LedgerInv, NEW C, WellFormed(C), NEW k \in 1..Len(log),
           log[k].type = "candidate.reconciled"
    PROVE  Effect(C, Reconciled(C, k), k)
<1> DEFINE S == {s \in DOMAIN C : s.rule = "R5" /\ s.turn = log[k].turn
                                  /\ C[s].revision <= log[k].n}
<1>1. Reconciled(C, k) = Closing(C, S)
  BY DEF Reconciled
<1>2. \A s \in DOMAIN C : s \in S <=> ClosesOn(C, k, s)
  BY DEF ClosesOn
<1>3. \A s \in Subject \ DOMAIN C : ~OpensOn(C, k, s)
  BY DEF OpensOn
<1> QED
  BY <1>1, <1>2, <1>3, ClosingEffect

LEMMA RemedyEffect ==
    ASSUME LedgerInv, NEW C, WellFormed(C), NEW k \in 1..Len(log),
           log[k].type = "dependency.consumption_resolved"
    PROVE  Effect(C, Resolved(C, k), k)
<1> DEFINE S == {s \in DOMAIN C : s.rule = "R2" /\ s.n = log[k].n}
<1>1. Resolved(C, k) = Closing(C, S)
  BY DEF Resolved
<1>2. \A s \in DOMAIN C : s \in S <=> ClosesOn(C, k, s)
  BY DEF ClosesOn
<1>3. \A s \in Subject \ DOMAIN C : ~OpensOn(C, k, s)
  BY DEF OpensOn
<1> QED
  BY <1>1, <1>2, <1>3, ClosingEffect

LEMMA SignalResolvedEffect ==
    ASSUME LedgerInv, NEW C, WellFormed(C), NEW k \in 1..Len(log),
           log[k].type = "peer.signal_resolved"
    PROVE  Effect(C, SignalResolved(C, k), k)
<1>1. SignalResolved(C, k) = Closing(C, {R4(log[k].turn, log[k].what)})
  BY DEF SignalResolved
<1>2. \A s \in DOMAIN C : s \in {R4(log[k].turn, log[k].what)} <=> ClosesOn(C, k, s)
  BY DEF ClosesOn
<1>3. \A s \in Subject \ DOMAIN C : ~OpensOn(C, k, s)
  BY DEF OpensOn
<1> QED
  BY <1>1, <1>2, <1>3, ClosingEffect

LEMMA ConsumptionEffect ==
    ASSUME LedgerInv, NEW C, WellFormed(C), NEW k \in 1..Len(log),
           log[k].type = "dependency.consumed"
    PROVE  Effect(C, Consumed(C, k), k)
<1>1. /\ k \in Nat /\ log[k].turn \in Turn
  BY EventTypes
<1>2. \A s \in DOMAIN C : ~ClosesOn(C, k, s)
  BY DEF ClosesOn
<1>3. CASE Disposed(log[k].turn, {"accept"}, k - 1)
  <2>1. \A s \in Subject \ DOMAIN C : ~OpensOn(C, k, s)
    BY <1>3 DEF OpensOn
  <2> QED
    BY <1>2, <1>3, <2>1, NoEffect DEF Consumed
<1>4. CASE ~Disposed(log[k].turn, {"accept"}, k - 1)
  <2> DEFINE s0 == R2(log[k].turn, k)
  <2>1. s0 \in Subject /\ s0.rule = "R2"
    BY <1>1, SubjectFacts, SubjectTypes
  <2>2. \A s \in Subject \ DOMAIN C : OpensOn(C, k, s) <=> s \in {s0}
    BY <1>4 DEF OpensOn
  <2>3. Consumed(C, k) = Opening(C, {s0}, case(k, 0, FALSE))
    BY <1>4 DEF Consumed
  <2> HIDE DEF s0
  <2>4. {s0} \in SUBSET Subject /\ FALSE \in BOOLEAN
    BY <2>1
  <2> QED
    BY <1>1, <1>2, <2>1, <2>2, <2>3, <2>4, OpeningEffect
<1> QED
  BY <1>3, <1>4

LEMMA SignalEffect ==
    ASSUME LedgerInv, NEW C, WellFormed(C), NEW k \in 1..Len(log),
           log[k].type = "peer.signal"
    PROVE  Effect(C, Signalled(C, k), k)
<1> DEFINE b == log[k].what = "runtime_blocked"
           s0 == R4(log[k].turn, Label(log[k]))
<1>1. /\ k \in Nat /\ log[k].turn \in Turn /\ Label(log[k]) \in AnySignal
  BY EventTypes DEF Legal, LegalSignal, Label, AnySignal
<1>2. \A s \in DOMAIN C : ~ClosesOn(C, k, s)
  BY DEF ClosesOn
<1>3. Action \ {"defer"} = {"accept", "reject"}
  BY DEF Action
<1>4. CASE Decided(log[k].turn, {"accept", "reject"})
  <2>1. \A s \in Subject \ DOMAIN C : ~OpensOn(C, k, s)
    BY <1>4 DEF OpensOn
  <2>2. Signalled(C, k) = C
    BY <1>3, <1>4 DEF Signalled
  <2> QED
    BY <1>2, <2>1, <2>2, NoEffect
<1>5. CASE ~Decided(log[k].turn, {"accept", "reject"})
  <2>1. s0 \in Subject /\ s0.rule = "R4"
    BY <1>1, SubjectFacts, SubjectTypes
  <2>2. \A s \in Subject \ DOMAIN C : OpensOn(C, k, s) <=> s \in {s0}
    BY <1>5 DEF OpensOn
  <2>3. Signalled(C, k) = Opening(C, {s0}, case(k, 0, b))
    BY <1>3, <1>5 DEF Signalled, Label
  <2>4. {s0} \in SUBSET Subject /\ b \in BOOLEAN
    BY <2>1
  <2>5. \A s \in {s0} : s.rule # "R5" /\ (b <=> s.rule = "R4" /\ log[k].what = "runtime_blocked")
    BY <2>1
  <2> HIDE DEF s0, b
  <2> QED
    BY <1>1, <1>2, <2>2, <2>3, <2>4, <2>5, OpeningEffect
<1> QED
  BY <1>4, <1>5

(* A revision is the latest when it is recorded.                           *)
LEMMA LatestAtRevision ==
    ASSUME LedgerInv, NEW k \in 1..Len(log), log[k].type = "work_item.revision_changed"
    PROVE  LatestRevision(k) = log[k].n
<1>1. /\ k \in Nat /\ k \in 0..Len(log) /\ Len(log) \in Nat
  BY EventTypes DEF LedgerInv, TypeOK
<1>2. k \in RevisionSeqs(k) /\ RevisionSeqs(k) \subseteq 1..k
  BY <1>1 DEF RevisionSeqs
<1>3. PICK m \in RevisionSeqs(k) :
         LatestRevision(k) = log[m].n /\ \A j \in RevisionSeqs(k) : j <= m
  BY <1>1, <1>2, LatestFacts
<1>4. m = k
  BY <1>1, <1>2, <1>3
<1> QED
  BY <1>3, <1>4

LEMMA ResponseEffect ==
    ASSUME LedgerInv, NEW C, WellFormed(C), NEW k \in 1..Len(log),
           log[k].type = "peer.response"
    PROVE  Effect(C, Response(C, k), k)
<1> DEFINE t == log[k].turn
           r == LatestRevision(k)
           decided == Decided(t, Action)
           stale == StaleAt(t, k)
           c1 == case(k, 0, FALSE)
           c5 == case(k, r, FALSE)
           A == IF decided THEN C ELSE Opening(C, {R1(t)}, c1)
           Q == {s \in DOMAIN C : C[s].runtimeBlocked /\ session[s.turn] = session[t]}
           B == Closing(A, Q)
           D == IF stale THEN Opening(B, {R5(t, r)}, c5) ELSE B
<1>1. Response(C, k) = D
  BY DEF Response
<1>2. k \in Nat /\ t \in Turn /\ r \in Nat
  BY EventTypes
<1>3. R1(t) \in Subject /\ R5(t, r) \in Subject /\ R1(t).rule = "R1" /\ R5(t, r).rule = "R5"
  BY <1>2, SubjectFacts, SubjectTypes
<1>4. /\ c1 \in Case /\ c1.status = "OPEN" /\ c1.revision = 0
      /\ c1.runtimeBlocked = FALSE /\ c1.verdict = "none"
  BY <1>2 DEF case, Case
<1>5. /\ c5 \in Case /\ c5.status = "OPEN" /\ c5.revision = r
      /\ c5.runtimeBlocked = FALSE /\ c5.verdict = "none"
  BY <1>2 DEF case, Case
<1>6. \A s : OpensOn(C, k, s) <=> (s = R1(t) /\ ~decided) \/ (s = R5(t, r) /\ stale)
  BY DEF OpensOn
<1>7. \A s \in DOMAIN C : /\ s \in Q <=> ClosesOn(C, k, s)
                          /\ ~RefreshesOn(C, k, s) /\ C[s] \in Case
  BY DEF ClosesOn, RefreshesOn, WellFormed
<1>8. Q \subseteq DOMAIN C
  OBVIOUS
<1> HIDE DEF t, r, decided, stale, c1, c5, Q
<1>9. /\ \A s : s \in DOMAIN A <=> s \in DOMAIN C \/ (s = R1(t) /\ ~decided)
      /\ \A s \in DOMAIN C : A[s] = C[s]
      /\ \A s \in DOMAIN A \ DOMAIN C : A[s] = c1
  <2>1. CASE decided
    BY <2>1
  <2>2. CASE ~decided
    <3>1. A = [s \in DOMAIN C \cup {R1(t)} |-> IF s \in DOMAIN C THEN C[s] ELSE c1]
      BY <2>2 DEF Opening
    <3> HIDE DEF A
    <3> QED
      BY <2>2, <3>1
  <2> QED
    BY <2>1, <2>2
<1> HIDE DEF A
<1>10. \A s \in DOMAIN A : A[s] \in Case
  BY <1>4, <1>7, <1>9
<1>11. /\ DOMAIN B = DOMAIN A
       /\ \A s \in DOMAIN A :
             /\ B[s] \in Case /\ B[s].opened = A[s].opened /\ B[s].verdict = A[s].verdict
             /\ B[s].revision = A[s].revision /\ B[s].runtimeBlocked = A[s].runtimeBlocked
             /\ B[s].status = IF s \in Q THEN "CLOSED" ELSE A[s].status
  BY <1>10, ClosingFacts
<1> HIDE DEF B
<1>12. /\ \A s : s \in DOMAIN D <=> s \in DOMAIN B \/ (s = R5(t, r) /\ stale)
       /\ \A s \in DOMAIN B : D[s] = B[s]
       /\ \A s \in DOMAIN D \ DOMAIN B : D[s] = c5 /\ s = R5(t, r)
  <2>1. CASE ~stale
    BY <2>1
  <2>2. CASE stale
    <3>1. D = [s \in DOMAIN B \cup {R5(t, r)} |-> IF s \in DOMAIN B THEN B[s] ELSE c5]
      BY <2>2 DEF Opening
    <3> HIDE DEF D
    <3> QED
      BY <2>2, <3>1
  <2> QED
    BY <2>1, <2>2
<1> HIDE DEF D
<1>13. \A s : s \in Opened(C, k) <=> s \in DOMAIN D /\ s \notin DOMAIN C
  BY <1>3, <1>6, <1>9, <1>11, <1>12 DEF Opened
<1>14. DOMAIN D = DOMAIN C \cup Opened(C, k)
  BY <1>9, <1>11, <1>12, <1>13
<1>15. ASSUME NEW s \in DOMAIN C
       PROVE  /\ D[s] \in Case /\ D[s].opened = C[s].opened /\ D[s].verdict = C[s].verdict
              /\ D[s].runtimeBlocked = C[s].runtimeBlocked
              /\ D[s].status = IF ClosesOn(C, k, s) THEN "CLOSED" ELSE C[s].status
              /\ D[s].revision = C[s].revision
  <2>1. s \in DOMAIN A /\ A[s] = C[s] /\ D[s] = B[s]
    BY <1>9, <1>11, <1>12
  <2> QED
    BY <1>7, <1>11, <2>1
<1>16. ASSUME NEW s \in Opened(C, k)
       PROVE  /\ D[s] \in Case /\ D[s].status = "OPEN" /\ D[s].verdict = "none"
              /\ D[s].revision = IF s.rule = "R5" THEN r ELSE 0
              /\ D[s].runtimeBlocked = FALSE /\ s.rule # "R4"
  <2>1. s \in DOMAIN D /\ s \notin DOMAIN C /\ s \notin Q
    BY <1>8, <1>13
  <2>2. CASE s \in DOMAIN A
    <3>1. A[s] = c1 /\ s = R1(t) /\ D[s] = B[s] /\ s.rule = "R1"
      BY <1>3, <1>9, <1>11, <1>12, <2>1, <2>2
    <3> QED
      BY <1>4, <1>11, <2>1, <2>2, <3>1
  <2>3. CASE s \notin DOMAIN A
    <3>1. D[s] = c5 /\ s.rule = "R5"
      BY <1>3, <1>11, <1>12, <2>1, <2>3
    <3> QED
      BY <1>5, <3>1
  <2> QED
    BY <2>2, <2>3
<1>17. Effect(C, D, k)
  BY <1>7, <1>14, <1>15, <1>16 DEF Effect, r
<1> QED
  BY <1>1, <1>17

LEMMA RevisionEffect ==
    ASSUME LedgerInv, NEW C, WellFormed(C), NEW k \in 1..Len(log),
           log[k].type = "work_item.revision_changed"
    PROVE  Effect(C, Revised(C, k), k)
<1> DEFINE r == log[k].n
           late == Overtaken(C, k)
           fresh == Refreshed(C, k)
           M == [s \in DOMAIN C |-> IF s \in fresh THEN [C[s] EXCEPT !.revision = r] ELSE C[s]]
           N == Closing(M, late \ fresh)
           S == {R5(t, r) : t \in Due(C, k)}
           c == case(k, r, FALSE)
           D == Opening(N, S, c)
<1>1. Revised(C, k) = D
  BY DEF Revised, Overtaken, Refreshed, Due
<1>2. k \in Nat /\ r \in Nat /\ LatestRevision(k) = r
  BY EventTypes, LatestAtRevision
<1>3. c \in Case /\ c.status = "OPEN" /\ c.revision = r /\ c.runtimeBlocked = FALSE
      /\ c.verdict = "none"
  BY <1>2 DEF case, Case
<1>4. Due(C, k) \subseteq Turn
  BY DEF Due, Outdated
<1>5. \A s \in S : s \in Subject /\ s.rule = "R5"
  BY <1>2, <1>4, SubjectFacts, SubjectTypes
<1>6. \A s : OpensOn(C, k, s) <=> s \in S
  BY DEF OpensOn
<1>7. \A s \in DOMAIN C : /\ s \in late \ fresh <=> ClosesOn(C, k, s)
                          /\ s \in fresh <=> RefreshesOn(C, k, s)
                          /\ C[s] \in Case
  BY DEF ClosesOn, RefreshesOn, WellFormed
<1> HIDE DEF r, late, fresh, S, c
<1>8. /\ DOMAIN M = DOMAIN C
      /\ \A s \in DOMAIN C :
            /\ M[s] \in Case /\ M[s].opened = C[s].opened /\ M[s].verdict = C[s].verdict
            /\ M[s].runtimeBlocked = C[s].runtimeBlocked /\ M[s].status = C[s].status
            /\ M[s].revision = IF s \in fresh THEN r ELSE C[s].revision
  BY <1>2, <1>7 DEF Case
<1> HIDE DEF M
<1>9. /\ DOMAIN N = DOMAIN C
      /\ \A s \in DOMAIN C :
            /\ N[s] \in Case /\ N[s].opened = M[s].opened /\ N[s].verdict = M[s].verdict
            /\ N[s].runtimeBlocked = M[s].runtimeBlocked /\ N[s].revision = M[s].revision
            /\ N[s].status = IF s \in late \ fresh THEN "CLOSED" ELSE M[s].status
  BY <1>8, ClosingFacts
<1> HIDE DEF N
<1>10. /\ DOMAIN D = DOMAIN N \cup S
       /\ \A s \in DOMAIN N : D[s] = N[s]
       /\ \A s \in S \ DOMAIN N : D[s] = c
  BY OpeningFacts
<1> HIDE DEF D
<1>11. \A s : s \in Opened(C, k) <=> s \in S /\ s \notin DOMAIN C
  BY <1>5, <1>6 DEF Opened
<1>12. DOMAIN D = DOMAIN C \cup Opened(C, k)
  BY <1>9, <1>10, <1>11
<1>13. ASSUME NEW s \in DOMAIN C
       PROVE  /\ D[s] \in Case /\ D[s].opened = C[s].opened /\ D[s].verdict = C[s].verdict
              /\ D[s].runtimeBlocked = C[s].runtimeBlocked
              /\ D[s].status = IF ClosesOn(C, k, s) THEN "CLOSED" ELSE C[s].status
              /\ D[s].revision = IF RefreshesOn(C, k, s) THEN r ELSE C[s].revision
  <2>1. D[s] = N[s]
    BY <1>9, <1>10
  <2> QED
    BY <1>7, <1>8, <1>9, <2>1
<1>14. ASSUME NEW s \in Opened(C, k)
       PROVE  /\ D[s] \in Case /\ D[s].status = "OPEN" /\ D[s].verdict = "none"
              /\ s.rule = "R5" /\ D[s].revision = r /\ D[s].runtimeBlocked = FALSE
  <2>1. D[s] = c /\ s.rule = "R5"
    BY <1>5, <1>9, <1>10, <1>11
  <2> QED
    BY <1>3, <2>1
<1>15. Effect(C, D, k)
  BY <1>2, <1>12, <1>13, <1>14 DEF Effect, r
<1> QED
  BY <1>1, <1>15

(* Applying an event has its effect.                                       *)
LEMMA AppliedEffect ==
    ASSUME LedgerInv, NEW C, WellFormed(C), NEW k \in 1..Len(log)
    PROVE  Effect(C, Applied(C, k), k)
<1>1. CASE log[k].type = "peer.response"
  BY <1>1, ResponseEffect DEF Applied
<1>2. CASE log[k].type = "lead.disposition"
  BY <1>2, AnswerEffect DEF Applied
<1>3. CASE log[k].type = "candidate.reconciled"
  BY <1>3, ReconciliationEffect DEF Applied
<1>4. CASE log[k].type = "dependency.consumed"
  BY <1>4, ConsumptionEffect DEF Applied
<1>5. CASE log[k].type = "dependency.consumption_resolved"
  BY <1>5, RemedyEffect DEF Applied
<1>6. CASE log[k].type = "peer.signal"
  BY <1>6, SignalEffect DEF Applied
<1>7. CASE log[k].type = "peer.signal_resolved"
  BY <1>7, SignalResolvedEffect DEF Applied
<1>8. CASE log[k].type = "work_item.revision_changed"
  BY <1>8, RevisionEffect DEF Applied
<1>9. CASE log[k].type \notin {"peer.response", "lead.disposition", "candidate.reconciled",
                               "dependency.consumed", "dependency.consumption_resolved",
                               "peer.signal", "peer.signal_resolved",
                               "work_item.revision_changed"}
  <2>1. Applied(C, k) = C
    BY <1>9 DEF Applied
  <2>2. \A s \in DOMAIN C : ~ClosesOn(C, k, s)
    BY <1>9 DEF ClosesOn
  <2>3. \A s \in Subject \ DOMAIN C : ~OpensOn(C, k, s)
    BY <1>9 DEF OpensOn
  <2> QED
    BY <1>9, <2>1, <2>2, <2>3, NoEffect
<1> QED
  BY <1>1, <1>2, <1>3, <1>4, <1>5, <1>6, <1>7, <1>8, <1>9

-----------------------------------------------------------------------------
(* What an event never does to the cases.                                  *)

(* A case stays, a finding stays with its revision, a closed case is as it *)
(* was.                                                                    *)
Keeps(C, D) ==
    \A s \in DOMAIN C :
        /\ s \in DOMAIN D
        /\ C[s].verdict # "none" => D[s].verdict = C[s].verdict /\ D[s].revision = C[s].revision
        /\ C[s].status = "CLOSED" => D[s] = C[s]

LEMMA SameCase ==
    ASSUME NEW c \in Case, NEW d \in Case, c.status = d.status, c.opened = d.opened,
           c.revision = d.revision, c.runtimeBlocked = d.runtimeBlocked, c.verdict = d.verdict
    PROVE  c = d
BY DEF Case

LEMMA EffectKeeps ==
    ASSUME LedgerInv, NEW C, WellFormed(C), NEW k \in 1..Len(log), NEW D, Effect(C, D, k)
    PROVE  WellFormed(D) /\ Keeps(C, D)
<1>1. ASSUME NEW s \in DOMAIN C
      PROVE  /\ C[s] \in Case /\ Named(s) /\ (C[s].runtimeBlocked => s.rule = "R4")
             /\ s \in DOMAIN D /\ D[s] \in Case
             /\ D[s].opened = C[s].opened /\ D[s].verdict = C[s].verdict
             /\ D[s].runtimeBlocked = C[s].runtimeBlocked
             /\ C[s].status = "CLOSED" => D[s].status = "CLOSED"
             /\ RefreshesOn(C, k, s) \/ D[s].revision = C[s].revision
  BY DEF WellFormed, Effect
<1>2. \A s : RefreshesOn(C, k, s) => C[s].status = "OPEN" /\ C[s].verdict = "none"
  BY DEF RefreshesOn, Refreshed
<1>3. ASSUME NEW s \in DOMAIN C, C[s].status = "CLOSED" PROVE D[s] = C[s]
  <2>1. ~RefreshesOn(C, k, s)
    BY <1>2, <1>3
  <2>2. /\ C[s] \in Case /\ D[s] \in Case /\ D[s].status = C[s].status
        /\ D[s].opened = C[s].opened /\ D[s].revision = C[s].revision
        /\ D[s].runtimeBlocked = C[s].runtimeBlocked /\ D[s].verdict = C[s].verdict
    BY <1>1, <1>3, <2>1
  <2> QED
    BY <2>2, SameCase
<1>4. Keeps(C, D)
  BY <1>1, <1>2, <1>3 DEF Keeps
<1>5. ASSUME NEW s \in Opened(C, k)
      PROVE  D[s] \in Case /\ Named(s) /\ (D[s].runtimeBlocked => s.rule = "R4")
  <2>1. OpensOn(C, k, s) /\ s \in Subject
    BY DEF Opened
  <2>2. /\ log[k].type # "work_item.revision_changed" => log[k].turn \in Turn
        /\ log[k].n \in Nat /\ k \in Nat /\ LatestRevision(k) \in Nat /\ Legal(log[k], k - 1)
    BY EventTypes
  <2>3. log[k].type = "peer.signal" => Label(log[k]) \in AnySignal
    BY <2>2 DEF Legal, LegalSignal, Label, AnySignal
  <2>4. Due(C, k) \subseteq Turn
    BY DEF Due, Outdated
  <2>5. Named(s)
    BY <2>1, <2>2, <2>3, <2>4 DEF OpensOn, Named
  <2> QED
    BY <2>5 DEF Effect
<1>6. \A s \in DOMAIN D : s \in DOMAIN C \/ s \in Opened(C, k)
  BY DEF Effect
<1>7. WellFormed(D)
  BY <1>1, <1>5, <1>6 DEF WellFormed
<1> QED
  BY <1>4, <1>7

-----------------------------------------------------------------------------
(* What one more event adds.                                               *)

LEMMA OneMore ==
    ASSUME LedgerInv, NEW k \in 1..Len(log)
    PROVE  /\ k \in Nat /\ k - 1 \in Nat /\ k - 1 \in 0..Len(log) /\ k \in 0..Len(log)
           /\ \A type, t : Seqs(type, t, k - 1) \subseteq 1..(k - 1)
           /\ \A type, t : Seqs(type, t, k) =
                 Seqs(type, t, k - 1)
                    \cup {i \in {k} : log[k].type = type /\ log[k].turn = t}
           /\ RevisionSeqs(k - 1) \subseteq 1..(k - 1) /\ Consumptions(k - 1) \subseteq 1..(k - 1)
           /\ RevisionSeqs(k) =
                 RevisionSeqs(k - 1) \cup {i \in {k} : log[k].type = "work_item.revision_changed"}
           /\ Consumptions(k) =
                 Consumptions(k - 1) \cup {i \in {k} : log[k].type = "dependency.consumed"}
<1>1. Len(log) \in Nat
  BY DEF LedgerInv, TypeOK
<1>2. k \in Nat /\ k - 1 \in Nat /\ k - 1 \in 0..Len(log) /\ k \in 0..Len(log)
  BY <1>1
<1>3. \A i : i \in 1..k <=> i \in 1..(k - 1) \/ i = k
  BY <1>2
<1>4. \A type, t : /\ Seqs(type, t, k - 1) \subseteq 1..(k - 1)
                   /\ Seqs(type, t, k) = Seqs(type, t, k - 1)
                        \cup {i \in {k} : log[k].type = type /\ log[k].turn = t}
  BY <1>1, <1>2, <1>3 DEF Seqs
<1>5. /\ RevisionSeqs(k - 1) \subseteq 1..(k - 1)
      /\ RevisionSeqs(k) =
           RevisionSeqs(k - 1) \cup {i \in {k} : log[k].type = "work_item.revision_changed"}
  BY <1>3 DEF RevisionSeqs
<1>6. /\ Consumptions(k - 1) \subseteq 1..(k - 1)
      /\ Consumptions(k) =
           Consumptions(k - 1) \cup {i \in {k} : log[k].type = "dependency.consumed"}
  BY <1>3 DEF Consumptions
<1> QED
  BY <1>2, <1>4, <1>5, <1>6

(* Without a revision the latest stays.                                    *)
LEMMA LatestStays ==
    ASSUME LedgerInv, NEW k \in 1..Len(log), log[k].type # "work_item.revision_changed"
    PROVE  LatestRevision(k) = LatestRevision(k - 1)
<1>1. RevisionSeqs(k) = RevisionSeqs(k - 1)
  BY OneMore
<1> QED
  BY <1>1 DEF LatestRevision

(* What was decided by the k-th event is decided.                          *)
LEMMA DecidedByThen ==
    ASSUME LedgerInv, NEW k \in 0..Len(log)
    PROVE  \A t, S : Disposed(t, S, k) => Decided(t, S)
<1>1. Len(log) \in Nat
  BY DEF LedgerInv, TypeOK
<1>2. \A t : Dispositions(t, k) \subseteq Dispositions(t, Len(log))
  BY <1>1 DEF Dispositions, Seqs
<1> QED
  BY <1>2 DEF Disposed, Decided

-----------------------------------------------------------------------------
(* R1: the case of a response, once the first k events are applied.        *)

Supervised(t, k) == After(Seqs("peer.response", t, k), floor)

R1Holds(C, k) ==
    \A t \in Turn :
        IF R1(t) \in DOMAIN C
        THEN /\ Supervised(t, k) # {}
             /\ C[R1(t)].status = "CLOSED" <=> Dispositions(t, k) # {}
        ELSE Supervised(t, k) # {} => Decided(t, Action)

LEMMA SupervisedOneMore ==
    ASSUME LedgerInv, floor \in Nat, NEW k \in 1..Len(log), floor < k
    PROVE  \A t : /\ Supervised(t, k - 1) \subseteq Supervised(t, k)
                  /\ Supervised(t, k) # {} <=>
                        \/ Supervised(t, k - 1) # {}
                        \/ log[k].type = "peer.response" /\ log[k].turn = t
<1> SUFFICES ASSUME NEW t
             PROVE  /\ Supervised(t, k - 1) \subseteq Supervised(t, k)
                    /\ Supervised(t, k) # {} <=>
                          \/ Supervised(t, k - 1) # {}
                          \/ log[k].type = "peer.response" /\ log[k].turn = t
  OBVIOUS
<1>1. Seqs("peer.response", t, k) =
        Seqs("peer.response", t, k - 1)
           \cup {i \in {k} : log[k].type = "peer.response" /\ log[k].turn = t}
  BY OneMore
<1>2. Supervised(t, k) =
        Supervised(t, k - 1)
           \cup {i \in {k} : log[k].type = "peer.response" /\ log[k].turn = t}
  BY <1>1 DEF Supervised, After
<1> QED
  BY <1>2

LEMMA R1Step ==
    ASSUME LedgerInv, floor \in Nat, NEW k \in 1..Len(log), floor < k,
           NEW C, WellFormed(C), NEW D, Effect(C, D, k), R1Holds(C, k - 1)
    PROVE  R1Holds(D, k)
<1> SUFFICES ASSUME NEW t \in Turn
             PROVE  IF R1(t) \in DOMAIN D
                    THEN /\ Supervised(t, k) # {}
                         /\ D[R1(t)].status = "CLOSED" <=> Dispositions(t, k) # {}
                    ELSE Supervised(t, k) # {} => Decided(t, Action)
  BY DEF R1Holds
<1> DEFINE s == R1(t)
<1>1. s \in Subject /\ s.rule = "R1" /\ s.turn = t
  BY SubjectFacts, SubjectTypes
<1>2. /\ \A n, u : s # R2(u, n) /\ s # R5(u, n) /\ s # R4(u, n)
      /\ \A u : s = R1(u) => u = t
  BY SubjectFacts
<1>3. /\ Supervised(t, k - 1) \subseteq Supervised(t, k)
      /\ Supervised(t, k) # {} <=>
            Supervised(t, k - 1) # {} \/ (log[k].type = "peer.response" /\ log[k].turn = t)
  BY SupervisedOneMore
<1>4. Dispositions(t, k) =
        Dispositions(t, k - 1)
           \cup {i \in {k} : log[k].type = "lead.disposition" /\ log[k].turn = t}
  BY OneMore DEF Dispositions
<1>5. IF s \in DOMAIN C
      THEN /\ Supervised(t, k - 1) # {}
           /\ C[s].status = "CLOSED" <=> Dispositions(t, k - 1) # {}
      ELSE Supervised(t, k - 1) # {} => Decided(t, Action)
  BY DEF R1Holds
<1>6. OpensOn(C, k, s) <=>
        log[k].type = "peer.response" /\ log[k].turn = t /\ ~Decided(t, Action)
  BY <1>2 DEF OpensOn
<1>7. s \in DOMAIN D <=> s \in DOMAIN C \/ OpensOn(C, k, s)
  BY <1>1 DEF Effect, Opened
<1>8. CASE s \in DOMAIN C
  <2>1. ~C[s].runtimeBlocked /\ s \notin Overtaken(C, k)
    BY <1>1, <1>8 DEF WellFormed, Overtaken, ActiveR5
  <2>2. ClosesOn(C, k, s) <=> log[k].type = "lead.disposition" /\ log[k].turn = t
    BY <1>1, <1>2, <2>1 DEF ClosesOn
  <2>3. D[s].status = IF ClosesOn(C, k, s) THEN "CLOSED" ELSE C[s].status
    BY <1>8 DEF Effect
  <2> QED
    BY <1>3, <1>4, <1>5, <1>7, <1>8, <2>2, <2>3
<1>9. CASE s \notin DOMAIN C /\ OpensOn(C, k, s)
  <2>1. D[s].status = "OPEN"
    BY <1>1, <1>9 DEF Effect, Opened
  <2>2. ASSUME NEW j \in Dispositions(t, k) PROVE FALSE
    <3>1. j \in 1..Len(log) /\ j \in 1..k /\ log[j].type = "lead.disposition"
      BY OneMore DEF Dispositions, Seqs
    <3>2. log[j].what \in Action
      BY <3>1, EventTypes DEF Legal, LegalAnswer
    <3>3. Disposed(t, Action, k)
      BY <3>2 DEF Disposed
    <3> QED
      BY <1>6, <1>9, <3>3, OneMore, DecidedByThen
  <2> QED
    BY <1>3, <1>6, <1>7, <1>9, <2>1, <2>2
<1>10. CASE s \notin DOMAIN C /\ ~OpensOn(C, k, s)
  BY <1>3, <1>5, <1>6, <1>7, <1>10
<1> QED
  BY <1>8, <1>9, <1>10

-----------------------------------------------------------------------------
(* R2: the cases of the dependencies consumed early.                       *)

R2Justified(C, s, k) ==
    /\ s.n \in Consumptions(k) /\ s = R2(log[s.n].turn, s.n)
    /\ s.n > floor /\ ~Disposed(s.turn, {"accept"}, s.n)
    /\ C[s].status = "CLOSED" <=> Remedied(s.n, k)

R2Holds(C, k) ==
    /\ \A s \in DOMAIN C : s.rule = "R2" => R2Justified(C, s, k)
    /\ \A i \in Consumptions(k) :
          i > floor /\ ~Disposed(log[i].turn, {"accept"}, i) => R2(log[i].turn, i) \in DOMAIN C

LEMMA RemediedOneMore ==
    ASSUME LedgerInv, NEW k \in 1..Len(log)
    PROVE  \A i : Remedied(i, k) <=>
              \/ Remedied(i, k - 1)
              \/ log[k].type = "dependency.consumption_resolved" /\ log[k].n = i
<1>1. k \in Nat /\ \A i : i \in 1..k <=> i \in 1..(k - 1) \/ i = k
  BY OneMore
<1> QED
  BY <1>1 DEF Remedied

LEMMA R2Step ==
    ASSUME LedgerInv, floor \in Nat, NEW k \in 1..Len(log), floor < k,
           NEW C, WellFormed(C), NEW D, Effect(C, D, k), R2Holds(C, k - 1)
    PROVE  R2Holds(D, k)
<1>1. k \in Nat
  BY OneMore
<1>2. \A s : s \in DOMAIN D <=> s \in DOMAIN C \/ (s \in Subject /\ OpensOn(C, k, s))
  BY DEF Effect, Opened
<1>3. ASSUME NEW s \in DOMAIN C, s.rule = "R2" PROVE R2Justified(D, s, k)
  <2>1. /\ s.n \in Consumptions(k - 1) /\ s = R2(log[s.n].turn, s.n)
        /\ s.n > floor /\ ~Disposed(s.turn, {"accept"}, s.n)
        /\ C[s].status = "CLOSED" <=> Remedied(s.n, k - 1)
    BY <1>3 DEF R2Holds, R2Justified
  <2>2. ~C[s].runtimeBlocked /\ s \notin Overtaken(C, k) /\ \A t, x : s # R4(t, x)
    BY <1>3, SubjectFacts DEF WellFormed, Overtaken, ActiveR5
  <2>3. ClosesOn(C, k, s) <=>
          log[k].type = "dependency.consumption_resolved" /\ log[k].n = s.n
    BY <1>3, <2>2 DEF ClosesOn
  <2>4. D[s].status = IF ClosesOn(C, k, s) THEN "CLOSED" ELSE C[s].status
    BY DEF Effect
  <2>5. D[s].status = "CLOSED" <=> Remedied(s.n, k)
    BY <2>1, <2>3, <2>4, RemediedOneMore
  <2>6. s.n \in Consumptions(k)
    BY <2>1, OneMore
  <2> QED
    BY <2>1, <2>5, <2>6 DEF R2Justified
<1>4. \A s : s.rule = "R2" =>
         (OpensOn(C, k, s) <=> /\ log[k].type = "dependency.consumed" /\ s = R2(log[k].turn, k)
                               /\ ~Disposed(log[k].turn, {"accept"}, k - 1))
  <2>1. \A s : s.rule = "R2" => \A t, x : s # R1(t) /\ s # R4(t, x) /\ s # R5(t, x)
    BY SubjectFacts
  <2> QED
    BY <2>1 DEF OpensOn
<1>5. log[k].type = "dependency.consumed" =>
         \A t : Disposed(t, {"accept"}, k) <=> Disposed(t, {"accept"}, k - 1)
  <2>1. ASSUME log[k].type = "dependency.consumed", NEW t
        PROVE  Dispositions(t, k) = Dispositions(t, k - 1)
    <3>1. Seqs("lead.disposition", t, k) =
            Seqs("lead.disposition", t, k - 1)
               \cup {i \in {k} : log[k].type = "lead.disposition" /\ log[k].turn = t}
      BY OneMore
    <3> QED
      BY <2>1, <3>1 DEF Dispositions
  <2> QED
    BY <2>1 DEF Disposed
<1>6. ASSUME NEW s \in Subject, s \notin DOMAIN C, OpensOn(C, k, s), s.rule = "R2"
      PROVE  R2Justified(D, s, k)
  <2>1. /\ log[k].type = "dependency.consumed" /\ s = R2(log[k].turn, k)
        /\ ~Disposed(log[k].turn, {"accept"}, k - 1)
    BY <1>4, <1>6
  <2>2. s.n = k /\ s.turn = log[k].turn
    BY <2>1, SubjectFacts
  <2>3. k \in Consumptions(k)
    BY <2>1, OneMore
  <2>4. D[s].status = "OPEN"
    BY <1>6 DEF Effect, Opened
  <2>5. ASSUME Remedied(k, k) PROVE FALSE
    <3>1. PICK j \in 1..k : log[j].type = "dependency.consumption_resolved" /\ log[j].n = k
      BY <2>5 DEF Remedied
    <3>2. j \in 1..Len(log) /\ j \in Nat /\ j <= k
      BY <1>1
    <3>3. k \in Consumptions(j - 1)
      BY <3>1, <3>2, EventTypes DEF Legal, LegalRemedy
    <3> QED
      BY <1>1, <3>2, <3>3, OneMore
  <2> QED
    BY <1>1, <1>5, <2>1, <2>2, <2>3, <2>4, <2>5 DEF R2Justified
<1>7. ASSUME NEW i \in Consumptions(k), i > floor, ~Disposed(log[i].turn, {"accept"}, i)
      PROVE  R2(log[i].turn, i) \in DOMAIN D
  <2>1. CASE i \in Consumptions(k - 1)
    BY <1>2, <1>7, <2>1 DEF R2Holds
  <2>2. CASE i \notin Consumptions(k - 1)
    <3>1. i = k /\ log[k].type = "dependency.consumed"
      BY <2>2, OneMore
    <3>2. ~Disposed(log[k].turn, {"accept"}, k - 1)
      BY <1>5, <1>7, <3>1
    <3>3. R2(log[k].turn, k) \in Subject /\ R2(log[k].turn, k).rule = "R2"
      <4>1. log[k].turn \in Turn
        BY <3>1, EventTypes
      <4> QED
        BY <1>1, <4>1, SubjectFacts, SubjectTypes
    <3> QED
      BY <1>2, <1>4, <3>1, <3>2, <3>3
  <2> QED
    BY <2>1, <2>2
<1> QED
  BY <1>2, <1>3, <1>6, <1>7 DEF R2Holds

-----------------------------------------------------------------------------
(* R4: the case of a signal, from its first time on.                       *)

RaisedBy(t, s, k) == {i \in Seqs("peer.signal", t, k) : i > floor /\ Matches(log[i], s)}

SettledBy(t, s, i, k) ==
    \/ Disposed(t, {"accept", "reject"}, k)
    \/ \E j \in After(Seqs("peer.signal_resolved", t, k), i) : log[j].what = s
    \/ /\ log[i].what = "runtime_blocked"
       /\ \E u \in Turn : session[u] = session[t] /\ After(Seqs("peer.response", u, k), i) # {}

(* i is the signal that the case of s on t is about.                       *)
R4About(C, t, s, i, k) ==
    /\ i \in RaisedBy(t, s, k) /\ \A j \in RaisedBy(t, s, k) : i <= j
    /\ C[R4(t, s)].runtimeBlocked <=> log[i].what = "runtime_blocked"
    /\ C[R4(t, s)].status = "CLOSED" <=> SettledBy(t, s, i, k)

R4Holds(C, k) ==
    \A t \in Turn, s \in AnySignal :
        IF R4(t, s) \in DOMAIN C
        THEN \E i \in Nat : R4About(C, t, s, i, k)
        ELSE RaisedBy(t, s, k) # {} => Decided(t, {"accept", "reject"})

(* What settles the signal i of t at the event k.                          *)
SettlesNow(t, s, i, k) ==
    \/ log[k].type = "lead.disposition" /\ log[k].turn = t /\ log[k].what \in {"accept", "reject"}
    \/ log[k].type = "peer.signal_resolved" /\ log[k].turn = t /\ log[k].what = s
    \/ /\ log[i].what = "runtime_blocked"
       /\ log[k].type = "peer.response" /\ session[log[k].turn] = session[t]

LEMMA SettledOneMore ==
    ASSUME LedgerInv, NEW k \in 1..Len(log), NEW t, NEW s, NEW i \in Nat, i < k
    PROVE  SettledBy(t, s, i, k) <=> SettledBy(t, s, i, k - 1) \/ SettlesNow(t, s, i, k)
<1>1. k \in Nat /\ (log[k].type = "peer.response" => log[k].turn \in Turn)
  BY OneMore, EventTypes
<1>2. Disposed(t, {"accept", "reject"}, k) <=>
         \/ Disposed(t, {"accept", "reject"}, k - 1)
         \/ /\ log[k].type = "lead.disposition" /\ log[k].turn = t
            /\ log[k].what \in {"accept", "reject"}
  <2>1. Dispositions(t, k) =
          Dispositions(t, k - 1)
             \cup {j \in {k} : log[k].type = "lead.disposition" /\ log[k].turn = t}
    BY OneMore DEF Dispositions
  <2> QED
    BY <2>1 DEF Disposed
<1>3. (\E j \in After(Seqs("peer.signal_resolved", t, k), i) : log[j].what = s) <=>
         \/ \E j \in After(Seqs("peer.signal_resolved", t, k - 1), i) : log[j].what = s
         \/ log[k].type = "peer.signal_resolved" /\ log[k].turn = t /\ log[k].what = s
  <2>1. Seqs("peer.signal_resolved", t, k) =
          Seqs("peer.signal_resolved", t, k - 1)
             \cup {j \in {k} : log[k].type = "peer.signal_resolved" /\ log[k].turn = t}
    BY OneMore
  <2> QED
    BY <2>1 DEF After
<1>4. \A u : After(Seqs("peer.response", u, k), i) # {} <=>
         \/ After(Seqs("peer.response", u, k - 1), i) # {}
         \/ log[k].type = "peer.response" /\ log[k].turn = u
  <2> SUFFICES ASSUME NEW u
               PROVE  After(Seqs("peer.response", u, k), i) # {} <=>
                         \/ After(Seqs("peer.response", u, k - 1), i) # {}
                         \/ log[k].type = "peer.response" /\ log[k].turn = u
    OBVIOUS
  <2>1. Seqs("peer.response", u, k) =
          Seqs("peer.response", u, k - 1)
             \cup {j \in {k} : log[k].type = "peer.response" /\ log[k].turn = u}
    BY OneMore
  <2>2. After(Seqs("peer.response", u, k), i) =
          After(Seqs("peer.response", u, k - 1), i)
             \cup {j \in {k} : log[k].type = "peer.response" /\ log[k].turn = u}
    BY <2>1 DEF After
  <2> QED
    BY <2>2
<1> QED
  BY <1>1, <1>2, <1>3, <1>4 DEF SettledBy, SettlesNow

LEMMA RaisedOneMore ==
    ASSUME LedgerInv, floor \in Nat, NEW k \in 1..Len(log), floor < k,
           NEW t, NEW s \in AnySignal
    PROVE  /\ RaisedBy(t, s, k - 1) \subseteq 1..(k - 1)
           /\ RaisedBy(t, s, k) =
                RaisedBy(t, s, k - 1)
                   \cup {i \in {k} : /\ log[k].type = "peer.signal" /\ log[k].turn = t
                                     /\ Label(log[k]) = s}
<1>1. /\ Seqs("peer.signal", t, k - 1) \subseteq 1..(k - 1)
      /\ Seqs("peer.signal", t, k) =
           Seqs("peer.signal", t, k - 1)
              \cup {i \in {k} : log[k].type = "peer.signal" /\ log[k].turn = t}
  BY OneMore
<1>2. log[k].type = "peer.signal" => (Matches(log[k], s) <=> Label(log[k]) = s)
  BY EventTypes DEF Legal, LegalSignal, Matches, Label, AnySignal
<1> QED
  BY <1>1, <1>2 DEF RaisedBy

LEMMA R4Step ==
    ASSUME LedgerInv, floor \in Nat, NEW k \in 1..Len(log), floor < k,
           NEW C, WellFormed(C), NEW D, Effect(C, D, k), R4Holds(C, k - 1)
    PROVE  R4Holds(D, k)
<1> SUFFICES ASSUME NEW t \in Turn, NEW x \in AnySignal
             PROVE  IF R4(t, x) \in DOMAIN D
                    THEN \E i \in Nat : R4About(D, t, x, i, k)
                    ELSE RaisedBy(t, x, k) # {} => Decided(t, {"accept", "reject"})
  BY DEF R4Holds
<1> DEFINE s == R4(t, x)
<1>1. s \in Subject /\ s.rule = "R4" /\ s.turn = t /\ s.what = x /\ k \in Nat
  BY SubjectFacts, SubjectTypes, OneMore
<1>2. /\ \A u, n : s # R1(u) /\ s # R2(u, n) /\ s # R5(u, n)
      /\ \A u, y : s = R4(u, y) <=> u = t /\ y = x
  BY SubjectFacts
<1>3. OpensOn(C, k, s) <=>
        /\ log[k].type = "peer.signal" /\ log[k].turn = t /\ Label(log[k]) = x
        /\ ~Decided(t, {"accept", "reject"})
  BY <1>2 DEF OpensOn
<1>4. s \in DOMAIN D <=> s \in DOMAIN C \/ OpensOn(C, k, s)
  BY <1>1 DEF Effect, Opened
<1>5. /\ RaisedBy(t, x, k - 1) \subseteq 1..(k - 1)
      /\ RaisedBy(t, x, k) =
           RaisedBy(t, x, k - 1)
              \cup {i \in {k} : /\ log[k].type = "peer.signal" /\ log[k].turn = t
                                /\ Label(log[k]) = x}
  BY RaisedOneMore
<1>6. IF s \in DOMAIN C
      THEN \E i \in Nat : R4About(C, t, x, i, k - 1)
      ELSE RaisedBy(t, x, k - 1) # {} => Decided(t, {"accept", "reject"})
  BY DEF R4Holds
<1>7. CASE s \in DOMAIN C
  <2>1. PICK i \in Nat : R4About(C, t, x, i, k - 1)
    BY <1>6, <1>7
  <2>2. /\ i \in RaisedBy(t, x, k - 1) /\ \A j \in RaisedBy(t, x, k - 1) : i <= j
        /\ C[s].runtimeBlocked <=> log[i].what = "runtime_blocked"
        /\ C[s].status = "CLOSED" <=> SettledBy(t, x, i, k - 1)
    BY <2>1 DEF R4About
  <2>3. i < k /\ i \in RaisedBy(t, x, k) /\ \A j \in RaisedBy(t, x, k) : i <= j
    BY <1>1, <1>5, <2>2
  <2>4. s \notin Overtaken(C, k)
    BY <1>1 DEF Overtaken, ActiveR5
  <2>5. ClosesOn(C, k, s) <=> SettlesNow(t, x, i, k)
    <3>1. log[k].type = "lead.disposition" =>
            (log[k].what # "defer" <=> log[k].what \in {"accept", "reject"})
      BY EventTypes DEF Legal, LegalAnswer, Action
    <3>2. CASE log[k].type = "peer.response"
      BY <1>1, <2>2, <3>2 DEF ClosesOn, SettlesNow
    <3>3. CASE log[k].type = "lead.disposition"
      BY <1>1, <3>1, <3>3 DEF ClosesOn, SettlesNow
    <3>4. CASE log[k].type = "peer.signal_resolved"
      BY <1>2, <3>4 DEF ClosesOn, SettlesNow
    <3>5. CASE log[k].type \notin {"peer.response", "lead.disposition", "peer.signal_resolved"}
      BY <1>1, <2>4, <3>5 DEF ClosesOn, SettlesNow
    <3> QED
      BY <3>2, <3>3, <3>4, <3>5
  <2>6. /\ D[s].status = IF ClosesOn(C, k, s) THEN "CLOSED" ELSE C[s].status
        /\ D[s].runtimeBlocked = C[s].runtimeBlocked
    BY <1>7 DEF Effect
  <2>7. SettledBy(t, x, i, k) <=> SettledBy(t, x, i, k - 1) \/ SettlesNow(t, x, i, k)
    BY <2>3, SettledOneMore
  <2>8. R4About(D, t, x, i, k)
    BY <2>2, <2>3, <2>5, <2>6, <2>7 DEF R4About
  <2> QED
    BY <1>4, <1>7, <2>8
<1>8. CASE s \notin DOMAIN C /\ OpensOn(C, k, s)
  <2>1. RaisedBy(t, x, k - 1) = {}
    BY <1>3, <1>6, <1>8
  <2>2. k \in RaisedBy(t, x, k) /\ \A j \in RaisedBy(t, x, k) : k <= j
    BY <1>1, <1>3, <1>5, <1>8, <2>1
  <2>3. D[s].status = "OPEN" /\ (D[s].runtimeBlocked <=> log[k].what = "runtime_blocked")
    BY <1>1, <1>8 DEF Effect, Opened
  <2>4. ~Disposed(t, {"accept", "reject"}, k)
    BY <1>3, <1>8, OneMore, DecidedByThen
  <2>5. ASSUME NEW type, NEW u PROVE After(Seqs(type, u, k), k) = {}
    BY <1>1 DEF After, Seqs
  <2>6. ~SettledBy(t, x, k, k)
    BY <2>4, <2>5 DEF SettledBy
  <2>7. R4About(D, t, x, k, k)
    BY <2>2, <2>3, <2>6 DEF R4About
  <2> QED
    BY <1>1, <1>4, <1>8, <2>7
<1>9. CASE s \notin DOMAIN C /\ ~OpensOn(C, k, s)
  BY <1>3, <1>4, <1>5, <1>6, <1>9
<1> QED
  BY <1>7, <1>8, <1>9

-----------------------------------------------------------------------------
(* R5: the case of a candidate that a revision outdated.                   *)

(* After k events the Lead still has to say what becomes of t.             *)
Open(t, k) ==
    /\ Supervised(t, k) # {} /\ ~Retired(t, k)
    /\ \A j \in Reconciliations(t, k) : log[j].n # LatestRevision(k)
    /\ \A j \in Dispositions(t, k) :
          log[j].what = "reject" => \E r \in RevisionSeqs(k) : r > j

R5About(C, t, k) ==
    /\ \A s \in ActiveR5(C, t) : C[s].revision = LatestRevision(k)
    /\ \A s, u \in ActiveR5(C, t) : s = u
    /\ ActiveR5(C, t) # {} <=> StaleAt(t, k) /\ Open(t, k)
    /\ \A s \in DOMAIN C : s.rule = "R5" /\ s.turn = t =>
          s.n <= LatestRevision(k) /\ Supervised(t, k) # {}

R5Holds(C, k) == \A t \in Turn : R5About(C, t, k)

(* Every event but these leaves the case of t alone.                       *)
Concerns(t, k) ==
    \/ log[k].type = "work_item.revision_changed"
    \/ /\ log[k].type \in {"peer.response", "lead.disposition", "candidate.reconciled"}
       /\ log[k].turn = t

LEMMA R5Untouched ==
    ASSUME LedgerInv, floor \in Nat, NEW k \in 1..Len(log), floor < k,
           NEW C, WellFormed(C), NEW D, Effect(C, D, k), NEW t \in Turn,
           R5About(C, t, k - 1), ~Concerns(t, k)
    PROVE  R5About(D, t, k)
<1>1. LatestRevision(k) = LatestRevision(k - 1) /\ RevisionSeqs(k) = RevisionSeqs(k - 1)
  BY LatestStays, OneMore DEF Concerns
<1>2. \A type \in {"lead.disposition", "candidate.reconciled"} :
         Seqs(type, t, k) = Seqs(type, t, k - 1)
  <2> SUFFICES ASSUME NEW type \in {"lead.disposition", "candidate.reconciled"}
               PROVE  Seqs(type, t, k) = Seqs(type, t, k - 1)
    OBVIOUS
  <2>1. Seqs(type, t, k) =
          Seqs(type, t, k - 1) \cup {i \in {k} : log[k].type = type /\ log[k].turn = t}
    BY OneMore
  <2>2. ~(log[k].type = type /\ log[k].turn = t)
    BY DEF Concerns
  <2> QED
    BY <2>1, <2>2
<1>3. Supervised(t, k) # {} <=> Supervised(t, k - 1) # {}
  BY SupervisedOneMore DEF Concerns
<1>4. /\ Reconciliations(t, k) = Reconciliations(t, k - 1)
      /\ Dispositions(t, k) = Dispositions(t, k - 1)
  BY <1>2 DEF Reconciliations, Dispositions
<1>5. (Open(t, k) <=> Open(t, k - 1)) /\ (StaleAt(t, k) <=> StaleAt(t, k - 1))
  BY <1>1, <1>3, <1>4 DEF Open, Retired, StaleAt
<1>6. ASSUME NEW s, s.rule = "R5", s.turn = t
      PROVE  /\ s \in DOMAIN D <=> s \in DOMAIN C
             /\ s \in DOMAIN C => D[s].status = C[s].status /\ D[s].revision = C[s].revision
  <2>1. \A u, n : s # R1(u) /\ s # R2(u, n) /\ s # R4(u, n) /\ (s = R5(u, n) => u = t)
    BY <1>6, SubjectFacts
  <2>2. ~OpensOn(C, k, s)
    BY <2>1 DEF OpensOn, Concerns
  <2>3. s \in DOMAIN C => ~ClosesOn(C, k, s) /\ ~RefreshesOn(C, k, s)
    <3>1. s \in DOMAIN C => ~C[s].runtimeBlocked
      BY <1>6 DEF WellFormed
    <3> QED
      BY <1>6, <2>1, <3>1 DEF ClosesOn, RefreshesOn, Concerns
  <2> QED
    BY <2>2, <2>3 DEF Effect, Opened
<1>7. /\ ActiveR5(D, t) = ActiveR5(C, t)
      /\ \A s \in ActiveR5(C, t) : D[s].revision = C[s].revision
  BY <1>6 DEF ActiveR5, Active
<1> QED
  BY <1>1, <1>3, <1>5, <1>6, <1>7 DEF R5About

LEMMA R5Response ==
    ASSUME LedgerInv, floor \in Nat, NEW k \in 1..Len(log), floor < k,
           NEW C, WellFormed(C), NEW D, Effect(C, D, k), NEW t \in Turn,
           R5About(C, t, k - 1), log[k].type = "peer.response", log[k].turn = t
    PROVE  R5About(D, t, k)
<1> DEFINE r == LatestRevision(k)
           s0 == R5(t, r)
<1>1. r \in Nat /\ k \in Nat /\ Legal(log[k], k - 1)
  BY EventTypes
<1>2. s0 \in Subject /\ s0.rule = "R5" /\ s0.turn = t /\ s0.n = r
  BY <1>1, SubjectFacts, SubjectTypes
<1> HIDE DEF r
<1>3. Seqs("peer.response", t, k - 1) = {}
  BY <1>1 DEF Legal, LegalAnswer
<1>4. Supervised(t, k - 1) = {} /\ Supervised(t, k) # {}
  BY <1>3, SupervisedOneMore DEF Supervised, After
<1>5. \A s \in DOMAIN C : ~(s.rule = "R5" /\ s.turn = t)
  BY <1>4 DEF R5About
<1>6. ASSUME NEW type \in {"lead.disposition", "candidate.reconciled"},
             NEW j \in Seqs(type, t, k)
      PROVE  FALSE
  <2>1. j \in 1..(k - 1) /\ j \in 1..Len(log) /\ log[j].type = type /\ log[j].turn = t
    BY <1>1, OneMore DEF Seqs
  <2>2. Seqs("peer.response", t, j - 1) # {}
    BY <2>1, EventTypes DEF Legal, LegalAnswer, LegalReconciliation
  <2>3. Seqs("peer.response", t, j - 1) \subseteq Seqs("peer.response", t, k - 1)
    BY <1>1, <2>1 DEF Seqs
  <2> QED
    BY <1>3, <2>2, <2>3
<1>7. Reconciliations(t, k) = {} /\ Dispositions(t, k) = {}
  BY <1>6 DEF Reconciliations, Dispositions
<1>8. Open(t, k)
  BY <1>4, <1>7 DEF Open, Retired
<1>9. ASSUME NEW s, s.rule = "R5", s.turn = t
      PROVE  s \in DOMAIN D <=> s = s0 /\ StaleAt(t, k)
  <2>1. OpensOn(C, k, s) <=> s = s0 /\ StaleAt(t, k)
    <3>1. s # R1(t)
      BY <1>9, SubjectFacts
    <3> QED
      BY <3>1 DEF OpensOn, r
  <2> QED
    BY <1>2, <1>5, <1>9, <2>1 DEF Effect, Opened
<1>10. s0 \in DOMAIN D => D[s0].status = "OPEN" /\ D[s0].revision = r
  <2>1. s0 \in DOMAIN D => s0 \in Opened(C, k)
    BY <1>2, <1>5 DEF Effect
  <2> QED
    BY <1>2, <2>1 DEF Effect, r
<1> HIDE DEF s0
<1>11. \A s : s \in ActiveR5(D, t) <=> s = s0 /\ StaleAt(t, k)
  BY <1>2, <1>9, <1>10 DEF ActiveR5, Active
<1>12. \A s \in DOMAIN D : s.rule = "R5" /\ s.turn = t => s.n <= r
  BY <1>1, <1>2, <1>9
<1>13. \A s \in ActiveR5(D, t) : s \in DOMAIN D
  BY DEF ActiveR5
<1> QED
  BY <1>4, <1>8, <1>10, <1>11, <1>12, <1>13 DEF R5About, r

(* A rejection closes the case, another disposition leaves it.             *)
LEMMA R5Disposition ==
    ASSUME LedgerInv, floor \in Nat, NEW k \in 1..Len(log), floor < k,
           NEW C, WellFormed(C), NEW D, Effect(C, D, k), NEW t \in Turn,
           R5About(C, t, k - 1), log[k].type = "lead.disposition", log[k].turn = t
    PROVE  R5About(D, t, k)
<1>1. /\ LatestRevision(k) = LatestRevision(k - 1) /\ RevisionSeqs(k) = RevisionSeqs(k - 1)
      /\ RevisionSeqs(k) \subseteq 1..(k - 1) /\ k \in Nat
  BY LatestStays, OneMore
<1>2. Supervised(t, k) # {} <=> Supervised(t, k - 1) # {}
  BY SupervisedOneMore
<1>3. Reconciliations(t, k) = Reconciliations(t, k - 1)
  <2>1. Seqs("candidate.reconciled", t, k) =
          Seqs("candidate.reconciled", t, k - 1)
             \cup {i \in {k} : log[k].type = "candidate.reconciled" /\ log[k].turn = t}
    BY OneMore
  <2> QED
    BY <2>1 DEF Reconciliations
<1>4. Dispositions(t, k) = Dispositions(t, k - 1) \cup {k}
  <2>1. Seqs("lead.disposition", t, k) =
          Seqs("lead.disposition", t, k - 1)
             \cup {i \in {k} : log[k].type = "lead.disposition" /\ log[k].turn = t}
    BY OneMore
  <2> QED
    BY <2>1 DEF Dispositions
<1>5. ASSUME NEW s, s.rule = "R5", s.turn = t
      PROVE  /\ s \in DOMAIN D <=> s \in DOMAIN C
             /\ s \in DOMAIN C =>
                  /\ D[s].revision = C[s].revision
                  /\ D[s].status = IF log[k].what = "reject" THEN "CLOSED" ELSE C[s].status
  <2>1. ~OpensOn(C, k, s)
    BY DEF OpensOn
  <2>2. s \in DOMAIN C => (ClosesOn(C, k, s) <=> log[k].what = "reject")
    BY <1>5 DEF ClosesOn
  <2>3. ~RefreshesOn(C, k, s)
    BY DEF RefreshesOn
  <2> QED
    BY <2>1, <2>2, <2>3 DEF Effect, Opened
<1>6. CASE log[k].what = "reject"
  <2>1. ActiveR5(D, t) = {}
    BY <1>5, <1>6 DEF ActiveR5, Active
  <2>2. ~Open(t, k)
    <3>1. ~\E i \in RevisionSeqs(k) : i > k
      BY <1>1
    <3> QED
      BY <1>4, <1>6, <3>1 DEF Open
  <2> QED
    BY <1>1, <1>2, <1>5, <2>1, <2>2 DEF R5About
<1>7. CASE log[k].what # "reject"
  <2>1. /\ ActiveR5(D, t) = ActiveR5(C, t)
        /\ \A s \in ActiveR5(C, t) : D[s].revision = C[s].revision
    BY <1>5, <1>7 DEF ActiveR5, Active
  <2>2. (Open(t, k) <=> Open(t, k - 1)) /\ (StaleAt(t, k) <=> StaleAt(t, k - 1))
    BY <1>1, <1>2, <1>3, <1>4, <1>7 DEF Open, Retired, StaleAt
  <2> QED
    BY <1>1, <1>2, <1>5, <2>1, <2>2 DEF R5About
<1> QED
  BY <1>6, <1>7

LEMMA R5Reconciliation ==
    ASSUME LedgerInv, floor \in Nat, NEW k \in 1..Len(log), floor < k,
           NEW C, WellFormed(C), NEW D, Effect(C, D, k), NEW t \in Turn,
           R5About(C, t, k - 1), log[k].type = "candidate.reconciled", log[k].turn = t
    PROVE  R5About(D, t, k)
<1>1. LatestRevision(k) = LatestRevision(k - 1) /\ LatestRevision(k) \in Nat
  BY LatestStays, EventTypes
<1>2. log[k].n = LatestRevision(k)
  BY <1>1, EventTypes DEF Legal, LegalReconciliation
<1>3. Supervised(t, k) # {} <=> Supervised(t, k - 1) # {}
  BY SupervisedOneMore
<1>4. k \in Reconciliations(t, k)
  <2>1. Seqs("candidate.reconciled", t, k) =
          Seqs("candidate.reconciled", t, k - 1)
             \cup {i \in {k} : log[k].type = "candidate.reconciled" /\ log[k].turn = t}
    BY OneMore
  <2> QED
    BY <2>1 DEF Reconciliations
<1>5. ~Open(t, k)
  BY <1>2, <1>4 DEF Open
<1>6. ASSUME NEW s, s.rule = "R5", s.turn = t
      PROVE  /\ s \in DOMAIN D <=> s \in DOMAIN C
             /\ s \in ActiveR5(C, t) => D[s].status = "CLOSED"
             /\ s \in DOMAIN C => (C[s].status = "CLOSED" => D[s].status = "CLOSED")
  <2>1. ~OpensOn(C, k, s)
    BY DEF OpensOn
  <2>2. s \in DOMAIN C /\ C[s].revision <= log[k].n => ClosesOn(C, k, s)
    BY <1>6 DEF ClosesOn
  <2>3. s \in ActiveR5(C, t) => s \in DOMAIN C /\ C[s].revision <= log[k].n
    BY <1>1, <1>2 DEF R5About, ActiveR5
  <2> QED
    BY <2>1, <2>2, <2>3 DEF Effect, Opened
<1>7. ActiveR5(D, t) = {}
  BY <1>6 DEF ActiveR5, Active
<1> QED
  BY <1>1, <1>3, <1>5, <1>6, <1>7 DEF R5About

(* A revision is above everything recorded before.                         *)
LEMMA RevisionIsAbove ==
    ASSUME LedgerInv, NEW k \in 1..Len(log), log[k].type = "work_item.revision_changed"
    PROVE  \A j \in 0..(k - 1) : LatestRevision(j) \in Nat /\ LatestRevision(j) < log[k].n
<1>1. /\ log[k].n \in Nat /\ log[k].n # 0 /\ k \in Nat /\ Len(log) \in Nat
      /\ \A m \in RevisionSeqs(k - 1) : log[m].n < log[k].n
  BY EventTypes DEF Legal, LegalRevision, LedgerInv, TypeOK
<1> SUFFICES ASSUME NEW j \in 0..(k - 1)
             PROVE  LatestRevision(j) \in Nat /\ LatestRevision(j) < log[k].n
  OBVIOUS
<1>2. j \in 0..Len(log)
  BY <1>1
<1>3. RevisionSeqs(j) \subseteq RevisionSeqs(k - 1)
  BY <1>1 DEF RevisionSeqs
<1>4. /\ LatestRevision(j) \in Nat
      /\ RevisionSeqs(j) = {} => LatestRevision(j) = 0
      /\ RevisionSeqs(j) # {} => \E m \in RevisionSeqs(j) : LatestRevision(j) = log[m].n
  BY <1>2, LatestFacts
<1> QED
  BY <1>1, <1>3, <1>4

(* Nothing is reconciled after it was retired.                             *)
LEMMA RetirementIsLast ==
    ASSUME LedgerInv, NEW k \in 0..Len(log), NEW t,
           NEW i \in Reconciliations(t, k), log[i].what \in Terminal
    PROVE  \A j \in Reconciliations(t, k) : j <= i
<1>1. Len(log) \in Nat /\ i \in Nat /\ \A j \in Reconciliations(t, k) : j \in 1..Len(log)
  BY DEF LedgerInv, TypeOK, Reconciliations, Seqs
<1>2. ASSUME NEW j \in Reconciliations(t, k), i < j PROVE FALSE
  <2>1. j \in 1..Len(log) /\ log[j].type = "candidate.reconciled" /\ log[j].turn = t
    BY <1>1 DEF Reconciliations, Seqs
  <2>2. ~Retired(t, j - 1)
    BY <2>1, EventTypes DEF Legal, LegalReconciliation
  <2>3. i \in Reconciliations(t, j - 1)
    BY <1>1, <1>2, <2>1 DEF Reconciliations, Seqs
  <2> QED
    BY <2>2, <2>3 DEF Retired
<1> QED
  BY <1>1, <1>2

(* The candidates that a revision outdates are those the Lead has to speak *)
(* about once it is recorded.                                              *)
LEMMA OutdatedFacts ==
    ASSUME LedgerInv, floor \in Nat, NEW k \in 1..Len(log), floor < k,
           log[k].type = "work_item.revision_changed", NEW t \in Turn
    PROVE  /\ t \in Outdated(k) <=> StaleAt(t, k) /\ Open(t, k)
           /\ Open(t, k) <=> Supervised(t, k - 1) # {} /\ ~Retired(t, k - 1)
<1> DEFINE r == log[k].n
<1>1. /\ r \in Nat /\ r # 0 /\ k \in Nat /\ k - 1 \in 0..Len(log) /\ Len(log) \in Nat
      /\ LatestRevision(k) = r /\ k \in RevisionSeqs(k)
  BY EventTypes, LatestAtRevision, OneMore DEF Legal, LegalRevision, LedgerInv, TypeOK
<1>2. ASSUME NEW type \in {"lead.disposition", "candidate.reconciled", "peer.response"}
      PROVE  Seqs(type, t, k) = Seqs(type, t, k - 1) /\ Seqs(type, t, k - 1) \subseteq 1..(k - 1)
  <2>1. /\ Seqs(type, t, k) =
             Seqs(type, t, k - 1) \cup {i \in {k} : log[k].type = type /\ log[k].turn = t}
        /\ Seqs(type, t, k - 1) \subseteq 1..(k - 1)
    BY OneMore
  <2> QED
    BY <2>1
<1>3. /\ Reconciliations(t, k) = Reconciliations(t, k - 1)
      /\ Reconciliations(t, k - 1) \subseteq 1..(k - 1)
      /\ Dispositions(t, k) \subseteq 1..(k - 1)
      /\ Supervised(t, k) = Supervised(t, k - 1)
  BY <1>2 DEF Reconciliations, Dispositions, Supervised
<1>4. \A j \in Reconciliations(t, k) : log[j].n \in Nat /\ log[j].n < r
  <2> SUFFICES ASSUME NEW j \in Reconciliations(t, k)
               PROVE  log[j].n \in Nat /\ log[j].n < r
    OBVIOUS
  <2>1. j \in 1..(k - 1) /\ j \in 1..Len(log) /\ log[j].type = "candidate.reconciled"
    BY <1>1, <1>3 DEF Reconciliations, Seqs
  <2>2. log[j].n = LatestRevision(j - 1) /\ j - 1 \in 0..(k - 1)
    BY <1>1, <2>1, EventTypes DEF Legal, LegalReconciliation
  <2> QED
    BY <2>2, RevisionIsAbove
<1>5. Open(t, k) <=> Supervised(t, k - 1) # {} /\ ~Retired(t, k - 1)
  <2>1. \A j \in Dispositions(t, k) : \E i \in RevisionSeqs(k) : i > j
    BY <1>1, <1>3
  <2>2. \A j \in Reconciliations(t, k) : log[j].n # LatestRevision(k)
    BY <1>1, <1>4
  <2>3. Retired(t, k) <=> Retired(t, k - 1)
    BY <1>3 DEF Retired
  <2> QED
    BY <1>3, <2>1, <2>2, <2>3 DEF Open
<1>6. (\E i \in Reconciliations(t, k - 1) :
         /\ \A j \in Reconciliations(t, k - 1) : j <= i
         /\ log[i].what \in Terminal \/ (log[i].what = "revalidated" /\ log[i].n >= r))
      <=> Retired(t, k - 1)
  <2>1. \A i \in Reconciliations(t, k - 1) : ~(log[i].n >= r)
    BY <1>1, <1>3, <1>4
  <2>2. \A i \in Reconciliations(t, k - 1) :
           log[i].what \in Terminal => \A j \in Reconciliations(t, k - 1) : j <= i
    BY <1>1, RetirementIsLast
  <2> QED
    BY <2>1, <2>2 DEF Retired
<1>7. Supervised(t, k - 1) # {} <=> \E i \in Seqs("peer.response", t, k - 1) : i > floor
  BY DEF Supervised, After
<1>8. t \in Outdated(k) <=> Supervised(t, k - 1) # {} /\ StaleAt(t, k) /\ ~Retired(t, k - 1)
  BY <1>6, <1>7 DEF Outdated
<1> QED
  BY <1>5, <1>8

LEMMA R5Revision ==
    ASSUME LedgerInv, floor \in Nat, NEW k \in 1..Len(log), floor < k,
           NEW C, WellFormed(C), NEW D, Effect(C, D, k), NEW t \in Turn,
           R5About(C, t, k - 1), log[k].type = "work_item.revision_changed"
    PROVE  R5About(D, t, k)
<1> DEFINE r == log[k].n
           s0 == R5(t, r)
<1>1. /\ r \in Nat /\ LatestRevision(k) = r /\ k \in Nat
      /\ LatestRevision(k - 1) \in Nat /\ LatestRevision(k - 1) < r
  <2>1. k - 1 \in 0..(k - 1)
    BY EventTypes
  <2> QED
    BY <2>1, EventTypes, LatestAtRevision, RevisionIsAbove
<1>2. s0 \in Subject /\ s0.rule = "R5" /\ s0.turn = t /\ s0.n = r
  BY <1>1, SubjectFacts, SubjectTypes
<1>3. /\ t \in Outdated(k) <=> StaleAt(t, k) /\ Open(t, k)
      /\ Open(t, k) <=> Supervised(t, k - 1) # {} /\ ~Retired(t, k - 1)
  BY OutdatedFacts
<1>4. /\ \A s \in ActiveR5(C, t) : C[s].revision = LatestRevision(k - 1)
      /\ \A s, u \in ActiveR5(C, t) : s = u
      /\ ActiveR5(C, t) # {} <=> StaleAt(t, k - 1) /\ Open(t, k - 1)
      /\ \A s \in DOMAIN C : s.rule = "R5" /\ s.turn = t =>
            s.n <= LatestRevision(k - 1) /\ Supervised(t, k - 1) # {}
  BY DEF R5About
<1>5. ActiveR5(C, t) # {} => t \in Outdated(k)
  <2>1. Open(t, k - 1) => Supervised(t, k - 1) # {} /\ ~Retired(t, k - 1)
    BY DEF Open
  <2>2. StaleAt(t, k - 1) => StaleAt(t, k)
    <3>1. captured[t] \in Nat
      BY LedgerAssumption
    <3> QED
      BY <1>1, <3>1 DEF StaleAt
  <2> QED
    BY <1>3, <1>4, <2>1, <2>2
<1>6. Supervised(t, k) # {} <=> Supervised(t, k - 1) # {}
  BY SupervisedOneMore
<1>7. s0 \notin DOMAIN C
  BY <1>1, <1>2, <1>4
<1>8. ASSUME NEW s, s.rule = "R5", s.turn = t
      PROVE  /\ s \in DOMAIN D <=> s \in DOMAIN C \/ (s = s0 /\ t \in Due(C, k))
             /\ s \in DOMAIN C =>
                  /\ s \in Overtaken(C, k) <=> s \in ActiveR5(C, t)
                  /\ D[s].revision = IF s \in Refreshed(C, k) THEN r ELSE C[s].revision
                  /\ D[s].status = IF s \in ActiveR5(C, t) \ Refreshed(C, k) THEN "CLOSED"
                                   ELSE C[s].status
  <2>1. OpensOn(C, k, s) <=> s = s0 /\ t \in Due(C, k)
    <3>1. \A u : s = R5(u, r) <=> u = t /\ s = s0
      BY <1>8, SubjectFacts
    <3> QED
      BY <3>1 DEF OpensOn
  <2>2. s \in DOMAIN C => (s \in Overtaken(C, k) <=> s \in ActiveR5(C, t))
    <3>1. \A u : s \in ActiveR5(C, u) => u = t
      BY <1>8 DEF ActiveR5
    <3>2. s \in ActiveR5(C, t) => t \in Outdated(k) /\ C[s].revision < r
      BY <1>1, <1>4, <1>5
    <3> QED
      BY <3>1, <3>2 DEF Overtaken
  <2>3. s \in DOMAIN C => /\ ClosesOn(C, k, s) <=> s \in Overtaken(C, k) \ Refreshed(C, k)
                          /\ RefreshesOn(C, k, s) <=> s \in Refreshed(C, k)
    BY DEF ClosesOn, RefreshesOn
  <2> QED
    BY <1>2, <2>1, <2>2, <2>3 DEF Effect, Opened
<1>9. s0 \in DOMAIN D => D[s0].status = "OPEN" /\ D[s0].revision = r
  <2>1. s0 \in DOMAIN D => s0 \in Opened(C, k)
    BY <1>7 DEF Effect
  <2> QED
    BY <1>1, <1>2, <2>1 DEF Effect
<1>10. Refreshed(C, k) \subseteq Overtaken(C, k) /\ \A s \in Refreshed(C, k) : C[s].status = "OPEN"
  BY DEF Refreshed
<1>11. t \in Due(C, k) <=> /\ t \in Outdated(k)
                           /\ \A s \in ActiveR5(C, t) : s \notin Refreshed(C, k)
  <2>1. \A s \in ActiveR5(C, t) : s \in Overtaken(C, k)
    BY <1>8 DEF ActiveR5
  <2> QED
    BY <2>1 DEF Due
<1> HIDE DEF s0, r
<1>12. \A s : s \in ActiveR5(D, t) <=>
          \/ s \in ActiveR5(C, t) /\ s \in Refreshed(C, k)
          \/ s = s0 /\ t \in Due(C, k)
  <2> SUFFICES ASSUME NEW s
               PROVE  s \in ActiveR5(D, t) <=>
                         \/ s \in ActiveR5(C, t) /\ s \in Refreshed(C, k)
                         \/ s = s0 /\ t \in Due(C, k)
    OBVIOUS
  <2>1. CASE s = s0
    BY <1>2, <1>7, <1>8, <1>9, <2>1 DEF ActiveR5, Active
  <2>2. CASE s # s0
    BY <1>8, <1>10, <2>2 DEF ActiveR5, Active
  <2> QED
    BY <2>1, <2>2
<1>13. \A s \in ActiveR5(D, t) : D[s].revision = r
  <2>1. \A s \in ActiveR5(C, t) : s \in DOMAIN C /\ s.rule = "R5" /\ s.turn = t
    BY DEF ActiveR5
  <2>2. \A s \in ActiveR5(D, t) : s \in DOMAIN D
    BY DEF ActiveR5
  <2> QED
    BY <1>8, <1>9, <1>12, <2>1, <2>2
<1>14. \A s, u \in ActiveR5(D, t) : s = u
  BY <1>4, <1>11, <1>12
<1>15. ActiveR5(D, t) # {} <=> t \in Outdated(k)
  BY <1>5, <1>11, <1>12
<1>16. \A s \in DOMAIN D : s.rule = "R5" /\ s.turn = t => s.n <= r /\ Supervised(t, k) # {}
  <2> SUFFICES ASSUME NEW s \in DOMAIN D, s.rule = "R5", s.turn = t
               PROVE  s.n <= r /\ Supervised(t, k) # {}
    OBVIOUS
  <2>1. CASE s \in DOMAIN C
    <3>1. s.n \in Nat
      BY <2>1, NamedFacts DEF WellFormed
    <3> QED
      BY <1>1, <1>4, <1>6, <2>1, <3>1
  <2>2. CASE s \notin DOMAIN C
    <3>1. s = s0 /\ t \in Due(C, k)
      BY <1>8, <2>2
    <3> QED
      BY <1>1, <1>2, <1>3, <1>6, <1>11, <3>1
  <2> QED
    BY <2>1, <2>2
<1> QED
  BY <1>1, <1>3, <1>13, <1>14, <1>15, <1>16 DEF R5About

LEMMA R5Step ==
    ASSUME LedgerInv, floor \in Nat, NEW k \in 1..Len(log), floor < k,
           NEW C, WellFormed(C), NEW D, Effect(C, D, k), R5Holds(C, k - 1)
    PROVE  R5Holds(D, k)
<1> SUFFICES ASSUME NEW t \in Turn
             PROVE  R5About(D, t, k)
  BY DEF R5Holds
<1>1. R5About(C, t, k - 1)
  BY DEF R5Holds
<1>2. CASE ~Concerns(t, k)
  BY <1>1, <1>2, R5Untouched
<1>3. CASE log[k].type = "work_item.revision_changed"
  BY <1>1, <1>3, R5Revision
<1>4. CASE log[k].type = "peer.response" /\ log[k].turn = t
  BY <1>1, <1>4, R5Response
<1>5. CASE log[k].type = "lead.disposition" /\ log[k].turn = t
  BY <1>1, <1>5, R5Disposition
<1>6. CASE log[k].type = "candidate.reconciled" /\ log[k].turn = t
  BY <1>1, <1>6, R5Reconciliation
<1> QED
  BY <1>2, <1>3, <1>4, <1>5, <1>6 DEF Concerns

-----------------------------------------------------------------------------
(* The cases C are those that the first k events call for.                 *)

Governs(C, k) ==
    WellFormed(C) /\ R1Holds(C, k) /\ R2Holds(C, k) /\ R4Holds(C, k) /\ R5Holds(C, k)

LEMMA GovernsOneMore ==
    ASSUME LedgerInv, floor \in Nat, NEW k \in 1..Len(log), floor < k,
           NEW C, Governs(C, k - 1)
    PROVE  Governs(Applied(C, k), k) /\ Keeps(C, Applied(C, k))
<1>1. /\ WellFormed(C) /\ R1Holds(C, k - 1) /\ R2Holds(C, k - 1)
      /\ R4Holds(C, k - 1) /\ R5Holds(C, k - 1)
  BY DEF Governs
<1>2. PICK D : D = Applied(C, k)
  OBVIOUS
<1>3. Effect(C, D, k)
  BY <1>1, <1>2, AppliedEffect
<1>4. WellFormed(D) /\ Keeps(C, D)
  BY <1>1, <1>3, EffectKeeps
<1>5. R1Holds(D, k)
  BY <1>1, <1>3, R1Step
<1>6. R2Holds(D, k)
  BY <1>1, <1>3, R2Step
<1>7. R4Holds(D, k)
  BY <1>1, <1>3, R4Step
<1>8. R5Holds(D, k)
  BY <1>1, <1>3, R5Step
<1> QED
  BY <1>2, <1>4, <1>5, <1>6, <1>7, <1>8 DEF Governs

(* A whole batch, by induction over its events.                            *)
LEMMA GovernsBatch ==
    ASSUME LedgerInv, floor \in Nat, cursor \in Nat, floor <= cursor, Governs(cases, cursor),
           NEW n \in Nat, cursor <= n, n <= Len(log), NEW f, Replay1(f, n)
    PROVE  Governs(f[n], n) /\ Keeps(cases, f[n])
<1> DEFINE Fine(k) == Governs(f[k], k) /\ Keeps(cases, f[k])
           Bad == {k \in Nat : cursor <= k /\ k <= n /\ ~Fine(k)}
<1>1. Len(log) \in Nat
  BY DEF LedgerInv, TypeOK
<1>2. Fine(cursor)
  BY DEF Replay1, Keeps
<1>3. ASSUME NEW k \in Nat, cursor < k, k <= n, Fine(k - 1) PROVE Fine(k)
  <2>1. k \in 1..Len(log) /\ floor < k /\ k \in cursor+1..n
    BY <1>1, <1>3
  <2>2. PICK C : C = f[k - 1]
    OBVIOUS
  <2>3. f[k] = Applied(C, k)
    BY <2>1, <2>2 DEF Replay1
  <2>4. Governs(C, k - 1) /\ Keeps(cases, C)
    BY <1>3, <2>2
  <2>5. Governs(Applied(C, k), k) /\ Keeps(C, Applied(C, k))
    BY <2>1, <2>4, GovernsOneMore
  <2>6. Keeps(cases, Applied(C, k))
    BY <2>4, <2>5 DEF Keeps
  <2> QED
    BY <2>3, <2>5, <2>6
<1>4. ASSUME Bad # {} PROVE FALSE
  <2>1. PICK k \in Bad : \A j \in Bad : k <= j
    BY <1>4, Least
  <2>2. k \in Nat /\ cursor <= k /\ k <= n /\ ~Fine(k)
    BY <2>1
  <2> HIDE DEF Fine
  <2>3. k # cursor
    BY <1>2, <2>2
  <2>4. k - 1 \in Nat /\ cursor <= k - 1 /\ k - 1 <= n /\ ~(k <= k - 1)
    BY <2>2, <2>3
  <2>5. Fine(k - 1)
    BY <2>1, <2>4
  <2> QED
    BY <1>3, <2>2, <2>3, <2>5
<1>5. Fine(n)
  BY <1>4
<1> QED
  BY <1>5

(* Before the first supervised event no case is called for.                *)
LEMMA GovernsNothing ==
    LedgerInv /\ floor \in Nat /\ floor <= Len(log) => Governs(<<>>, floor)
<1> SUFFICES ASSUME LedgerInv, floor \in Nat, floor <= Len(log)
             PROVE  Governs(<<>>, floor)
  OBVIOUS
<1>1. Len(log) \in Nat /\ DOMAIN <<>> = {}
  BY DEF LedgerInv, TypeOK
<1>2. \A type, t : After(Seqs(type, t, floor), floor) = {}
  BY DEF After, Seqs
<1>3. \A t : Supervised(t, floor) = {}
  BY <1>2 DEF Supervised
<1>4. \A t, s : RaisedBy(t, s, floor) = {}
  BY <1>2 DEF RaisedBy, After
<1>5. \A i \in Consumptions(floor) : ~(i > floor)
  BY DEF Consumptions
<1>6. R1Holds(<<>>, floor)
  BY <1>1, <1>3 DEF R1Holds
<1>7. R2Holds(<<>>, floor)
  BY <1>1, <1>5 DEF R2Holds
<1>8. R4Holds(<<>>, floor)
  BY <1>1, <1>4 DEF R4Holds
<1>9. R5Holds(<<>>, floor)
  <2>1. \A t : ActiveR5(<<>>, t) = {}
    BY <1>1 DEF ActiveR5
  <2> QED
    BY <1>1, <1>3, <2>1 DEF R5Holds, R5About, Open
<1> QED
  BY <1>1, <1>6, <1>7, <1>8, <1>9 DEF Governs, WellFormed

(* A verdict or a delivery neither closes a case nor opens one.            *)
LEMMA GovernsAlike ==
    ASSUME NEW C, NEW D, NEW k, Governs(C, k), DOMAIN D = DOMAIN C,
           \A s \in DOMAIN C :
              /\ D[s] \in Case /\ D[s].revision = C[s].revision
              /\ D[s].runtimeBlocked = C[s].runtimeBlocked
              /\ D[s].status = "CLOSED" <=> C[s].status = "CLOSED"
    PROVE  Governs(D, k)
<1>1. WellFormed(D)
  BY DEF Governs, WellFormed
<1>2. R1Holds(D, k)
  BY DEF Governs, R1Holds
<1>3. R2Holds(D, k)
  BY DEF Governs, R2Holds, R2Justified
<1>4. R4Holds(D, k)
  BY DEF Governs, R4Holds, R4About
<1>5. R5Holds(D, k)
  <2>1. \A t : ActiveR5(D, t) = ActiveR5(C, t)
    BY DEF ActiveR5, Active
  <2>2. \A t : \A s \in ActiveR5(C, t) : D[s].revision = C[s].revision
    BY DEF ActiveR5
  <2> QED
    BY <2>1, <2>2 DEF Governs, R5Holds, R5About
<1> QED
  BY <1>1, <1>2, <1>3, <1>4, <1>5 DEF Governs

(* Events that come after the k-th do not change what the first k call     *)
(* for.                                                                    *)
LEMMA GovernsLonger ==
    ASSUME LedgerInv, LedgerInv', Grows, floor \in Nat, floor' = floor,
           NEW k \in 0..Len(log), NEW C, Governs(C, k)
    PROVE  Governs(C, k)'
<1>1. /\ TypeOK /\ TypeOK' /\ Len(log) \in Nat /\ k \in Nat /\ k <= Len(log')
      /\ Len(log') \in Nat /\ \A i \in 1..k : log'[i] = log[i]
  BY DEF LedgerInv, TypeOK, Grows
<1>2. /\ RevisionSeqs(k)' = RevisionSeqs(k) /\ Consumptions(k)' = Consumptions(k)
      /\ LatestRevision(k)' = LatestRevision(k)
      /\ \A type, t : Seqs(type, t, k)' = Seqs(type, t, k)
      /\ \A t : /\ Reconciliations(t, k)' = Reconciliations(t, k)
                /\ Dispositions(t, k)' = Dispositions(t, k)
                /\ Retired(t, k)' <=> Retired(t, k)
                /\ \A S : Disposed(t, S, k)' <=> Disposed(t, S, k)
      /\ \A i : Remedied(i, k)' <=> Remedied(i, k)
  BY <1>1, PrefixFacts
<1>3. \A j \in 0..k : \A t, S : Disposed(t, S, j)' <=> Disposed(t, S, j)
  <2> SUFFICES ASSUME NEW j \in 0..k
               PROVE  \A t, S : Disposed(t, S, j)' <=> Disposed(t, S, j)
    OBVIOUS
  <2>1. j \in 0..Len(log) /\ j <= Len(log') /\ \A i \in 1..j : log'[i] = log[i]
    BY <1>1
  <2> QED
    BY <1>1, <2>1, PrefixFacts
<1>4. \A t, S : Decided(t, S) => Decided(t, S)'
  <2> SUFFICES ASSUME NEW t, NEW S, Decided(t, S) PROVE Decided(t, S)'
    OBVIOUS
  <2>1. PICK i \in Dispositions(t, Len(log)) : log[i].what \in S
    BY DEF Decided, Disposed
  <2>2. i \in 1..Len(log) /\ log'[i] = log[i] /\ log[i].type = "lead.disposition" /\ log[i].turn = t
    BY <2>1 DEF Dispositions, Seqs, Grows
  <2>3. i \in Dispositions(t, Len(log))'
    BY <1>1, <2>2 DEF Dispositions, Seqs, Grows
  <2> QED
    BY <2>1, <2>2, <2>3 DEF Decided, Disposed
<1>5. \A t : (Supervised(t, k)' = Supervised(t, k)) /\ (StaleAt(t, k)' <=> StaleAt(t, k))
  BY <1>2 DEF Supervised, After, StaleAt
<1>6. R1Holds(C, k)'
  BY <1>2, <1>4, <1>5 DEF Governs, R1Holds
<1>7. R2Holds(C, k)'
  <2>1. Consumptions(k) \subseteq 1..k
    BY DEF Consumptions
  <2>2. \A s \in DOMAIN C : R2Justified(C, s, k) => R2Justified(C, s, k)'
    <3> SUFFICES ASSUME NEW s \in DOMAIN C, R2Justified(C, s, k)
                 PROVE  R2Justified(C, s, k)'
      OBVIOUS
    <3>1. /\ s.n \in Consumptions(k) /\ s = R2(log[s.n].turn, s.n) /\ s.n > floor
          /\ ~Disposed(s.turn, {"accept"}, s.n) /\ (C[s].status = "CLOSED" <=> Remedied(s.n, k))
      BY DEF R2Justified
    <3>2. s.n \in 1..k /\ s.n \in 0..k /\ log'[s.n] = log[s.n]
      BY <1>1, <2>1, <3>1
    <3>3. ~Disposed(s.turn, {"accept"}, s.n)'
      BY <1>3, <3>1, <3>2
    <3> QED
      BY <1>2, <3>1, <3>2, <3>3 DEF R2Justified
  <2>3. ASSUME NEW i \in Consumptions(k)', i > floor,
               ~Disposed(log[i].turn, {"accept"}, i)'
        PROVE  R2(log'[i].turn, i) \in DOMAIN C
    <3>1. i \in Consumptions(k) /\ i \in 1..k /\ i \in 0..k /\ log'[i] = log[i]
      BY <1>1, <1>2, <2>1
    <3>2. ~Disposed(log[i].turn, {"accept"}, i)
      BY <1>3, <2>3, <3>1
    <3> QED
      BY <2>3, <3>1, <3>2 DEF Governs, R2Holds
  <2>4. \A s \in DOMAIN C : s.rule = "R2" => R2Justified(C, s, k)
    BY DEF Governs, R2Holds
  <2> QED
    BY <2>2, <2>3, <2>4 DEF R2Holds
<1>8. R4Holds(C, k)'
  <2>1. \A t, s : RaisedBy(t, s, k)' = RaisedBy(t, s, k)
    <3>1. \A t : Seqs("peer.signal", t, k) \subseteq 1..k
      BY DEF Seqs
    <3> QED
      BY <1>1, <1>2, <3>1 DEF RaisedBy, Matches
  <2>2. ASSUME NEW t, NEW s, NEW i \in 1..k
        PROVE  SettledBy(t, s, i, k)' <=> SettledBy(t, s, i, k)
    <3>1. \A type, u : After(Seqs(type, u, k), i)' = After(Seqs(type, u, k), i)
      BY <1>2 DEF After
    <3>2. \A j \in After(Seqs("peer.signal_resolved", t, k), i) : log'[j] = log[j]
      BY <1>1 DEF After, Seqs
    <3>3. log'[i] = log[i]
      BY <1>1
    <3> QED
      BY <1>2, <3>1, <3>2, <3>3 DEF SettledBy
  <2>3. ASSUME NEW t, NEW s, NEW i \in Nat, R4About(C, t, s, i, k)
        PROVE  R4About(C, t, s, i, k)'
    <3>1. i \in RaisedBy(t, s, k) /\ i \in 1..k /\ log'[i] = log[i]
      BY <1>1, <2>3 DEF R4About, RaisedBy, Seqs
    <3>2. SettledBy(t, s, i, k)' <=> SettledBy(t, s, i, k)
      BY <2>2, <3>1
    <3> QED
      BY <2>1, <2>3, <3>1, <3>2 DEF R4About
  <2> QED
    BY <1>4, <2>1, <2>3 DEF Governs, R4Holds
<1>9. R5Holds(C, k)'
  <2>1. \A t : Open(t, k)' <=> Open(t, k)
    <3>1. \A t : Reconciliations(t, k) \subseteq 1..k /\ Dispositions(t, k) \subseteq 1..k
      BY DEF Reconciliations, Dispositions, Seqs
    <3> QED
      BY <1>1, <1>2, <1>5, <3>1 DEF Open
  <2> QED
    BY <1>2, <1>5, <2>1 DEF Governs, R5Holds, R5About
<1> QED
  BY <1>6, <1>7, <1>8, <1>9 DEF Governs

-----------------------------------------------------------------------------
(* The broker.                                                             *)

BrokerInv ==
    /\ LedgerInv /\ BrokerTypeOK
    /\ floor <= cursor /\ cursor <= Len(log)
    /\ enabled \/ cases = <<>>
    /\ Governs(cases, cursor)

LEMMA BrokerStarts == BrokerInit => BrokerInv
<1> SUFFICES ASSUME BrokerInit PROVE BrokerInv
  OBVIOUS
<1>1. LedgerInv /\ log = <<>> /\ enabled = FALSE /\ floor = 0 /\ cursor = 0 /\ cases = <<>>
  BY LedgerStarts DEF BrokerInit, LedgerInit
<1>2. BrokerTypeOK
  <2>1. DOMAIN cases = {}
    BY <1>1
  <2> QED
    BY <1>1, <2>1 DEF BrokerTypeOK
<1>3. Governs(cases, cursor)
  BY <1>1, GovernsNothing
<1> QED
  BY <1>1, <1>2, <1>3 DEF BrokerInv

(* The cases of a well-formed broker are typed.                            *)
LEMMA GovernsTypes ==
    ASSUME NEW C, NEW k, Governs(C, k)
    PROVE  DOMAIN C \subseteq Subject /\ \A s \in DOMAIN C : C[s] \in Case
BY NamedFacts DEF Governs, WellFormed

LEMMA BrokerWrites ==
    ASSUME BrokerInv, Write, UNCHANGED <<enabled, floor, cursor, cases>>
    PROVE  BrokerInv'
<1>1. LedgerInv /\ BrokerTypeOK /\ Governs(cases, cursor) /\ LedgerInv' /\ Grows
  BY WriteGrows DEF BrokerInv
<1>2. /\ floor \in Nat /\ cursor \in 0..Len(log) /\ Len(log) \in Nat
      /\ cursor <= Len(log') /\ floor <= cursor
  BY <1>1 DEF BrokerInv, BrokerTypeOK, LedgerInv, TypeOK, Grows
<1>3. PICK C, k : C = cases /\ k = cursor
  OBVIOUS
<1>4. Governs(C, k)'
  BY <1>1, <1>2, <1>3, GovernsLonger
<1>5. Governs(cases, cursor)'
  BY <1>3, <1>4
<1>6. BrokerTypeOK'
  BY <1>1 DEF BrokerTypeOK
<1> QED
  BY <1>1, <1>2, <1>5, <1>6 DEF BrokerInv

(* A step that leaves the ledger and the floor.                            *)
LEMMA GovernsStill ==
    ASSUME LedgerInv, log' = log, floor \in Nat, floor' = floor,
           NEW k \in 0..Len(log), NEW C, Governs(C, k), cases' = C, cursor' = k
    PROVE  LedgerInv' /\ Governs(cases, cursor)'
<1>1. LedgerInv'
  BY LedgerStep
<1>2. Grows
  BY DEF Grows, LedgerInv, TypeOK
<1>3. Governs(C, k)'
  BY <1>1, <1>2, GovernsLonger
<1> QED
  BY <1>1, <1>3

LEMMA BrokerEnables ==
    ASSUME BrokerInv, Enable
    PROVE  BrokerInv'
<1>1. /\ LedgerInv /\ BrokerTypeOK /\ cases = <<>> /\ cases' = <<>> /\ enabled' = TRUE
      /\ floor' = Len(log) /\ cursor' = Len(log) /\ log' = log /\ Len(log) \in Nat
  BY DEF BrokerInv, Enable, LedgerInv, TypeOK
<1>2. LedgerInv'
  BY <1>1, LedgerStep
<1>3. (LedgerInv /\ floor \in Nat /\ floor <= Len(log))'
  BY <1>1, <1>2
<1>4. Governs(<<>>, floor)'
  BY <1>3, GovernsNothing, PTL
<1>5. BrokerTypeOK'
  BY <1>1 DEF BrokerTypeOK
<1> QED
  BY <1>1, <1>2, <1>4, <1>5 DEF BrokerInv

LEMMA BrokerProcesses ==
    ASSUME BrokerInv, ProcessPending
    PROVE  BrokerInv' /\ Keeps(cases, cases')
<1>1. /\ LedgerInv /\ TypeOK /\ BrokerTypeOK /\ Governs(cases, cursor) /\ log' = log
      /\ floor' = floor /\ enabled' = enabled /\ enabled
      /\ floor \in Nat /\ cursor \in Nat /\ floor <= cursor /\ Len(log) \in Nat
  BY DEF BrokerInv, ProcessPending, LedgerInv, TypeOK, BrokerTypeOK
<1>2. /\ cursor' \in Nat /\ cursor < cursor' /\ cursor' <= Len(log)
      /\ \E f : Replay1(f, cursor') /\ cases' = f[cursor']
  BY <1>1, Replays
<1>3. PICK n \in Nat : n = cursor'
  BY <1>2
<1>4. PICK f : Replay1(f, n) /\ cases' = f[n]
  BY <1>2, <1>3
<1>5. PICK D : D = f[n]
  OBVIOUS
<1>6. Governs(D, n) /\ Keeps(cases, D)
  <2>1. cursor <= n /\ n <= Len(log)
    BY <1>1, <1>2, <1>3
  <2> QED
    BY <1>1, <1>4, <1>5, <2>1, GovernsBatch
<1>7. LedgerInv' /\ Governs(cases, cursor)'
  <2>1. n \in 0..Len(log) /\ cases' = D /\ cursor' = n
    BY <1>1, <1>2, <1>3, <1>4, <1>5
  <2> QED
    BY <1>1, <1>6, <2>1, GovernsStill
<1>8. BrokerTypeOK'
  <2>1. DOMAIN D \subseteq Subject /\ \A s \in DOMAIN D : D[s] \in Case
    BY <1>6, GovernsTypes
  <2> QED
    BY <1>1, <1>2, <1>4, <1>5, <2>1 DEF BrokerTypeOK
<1>9. floor' <= cursor' /\ cursor' <= Len(log')
  BY <1>1, <1>2
<1> QED
  BY <1>1, <1>4, <1>5, <1>6, <1>7, <1>8, <1>9 DEF BrokerInv

(* A verdict, or the delivery of one.                                      *)
LEMMA BrokerMarks ==
    ASSUME BrokerInv, UNCHANGED <<log, enabled, floor, cursor>>,
           NEW s \in DOMAIN cases, cases[s].status # "CLOSED", NEW c \in Case,
           c.status # "CLOSED", c.revision = cases[s].revision,
           c.runtimeBlocked = cases[s].runtimeBlocked,
           cases' = [cases EXCEPT ![s] = c]
    PROVE  BrokerInv'
<1>1. LedgerInv /\ BrokerTypeOK /\ Governs(cases, cursor)
  BY DEF BrokerInv
<1>2. /\ floor \in Nat /\ cursor \in Nat /\ floor <= cursor /\ cursor \in 0..Len(log)
      /\ Len(log) \in Nat /\ cursor <= Len(log)
  BY <1>1 DEF BrokerInv, BrokerTypeOK, LedgerInv, TypeOK
<1>3. PICK C, D, k : C = cases /\ D = cases' /\ k = cursor
  OBVIOUS
<1>4. /\ DOMAIN D = DOMAIN C
      /\ \A u \in DOMAIN C : D[u] = IF u = s THEN c ELSE C[u]
      /\ \A u \in DOMAIN C : C[u] \in Case
  BY <1>1, <1>3 DEF BrokerTypeOK
<1>5. \A u \in DOMAIN C : /\ D[u] \in Case /\ D[u].revision = C[u].revision
                          /\ D[u].runtimeBlocked = C[u].runtimeBlocked
                          /\ D[u].status = "CLOSED" <=> C[u].status = "CLOSED"
  BY <1>3, <1>4
<1>6. Governs(D, k)
  BY <1>1, <1>3, <1>4, <1>5, GovernsAlike
<1>7. LedgerInv' /\ Governs(cases, cursor)'
  <2>1. k \in 0..Len(log) /\ cases' = D /\ cursor' = k
    BY <1>2, <1>3
  <2> QED
    BY <1>1, <1>2, <1>6, <2>1, GovernsStill
<1>8. BrokerTypeOK'
  <2>1. DOMAIN D \subseteq Subject /\ \A u \in DOMAIN D : D[u] \in Case
    BY <1>6, GovernsTypes
  <2> QED
    BY <1>1, <1>3, <2>1 DEF BrokerTypeOK
<1>9. enabled' \/ cases' = <<>>
  <2>1. cases # <<>>
    OBVIOUS
  <2> QED
    BY <2>1 DEF BrokerInv
<1> QED
  BY <1>2, <1>7, <1>8, <1>9 DEF BrokerInv

LEMMA BrokerFinds ==
    ASSUME BrokerInv, NEW s, NEW verdict \in {"issue", "no_issue"}, RecordFinding(s, verdict)
    PROVE  BrokerInv' /\ Keeps(cases, cases')
<1>1. /\ s \in DOMAIN cases /\ cases[s].status = "OPEN" /\ cases[s].verdict = "none"
      /\ UNCHANGED <<log, enabled, floor, cursor>> /\ cases[s] \in Case
  BY DEF RecordFinding, BrokerInv, BrokerTypeOK
<1> DEFINE c == [cases[s] EXCEPT !.verdict = verdict,
                   !.status = IF verdict = "no_issue" THEN "WAITING_FOR_EVIDENCE" ELSE @]
<1>2. cases' = [cases EXCEPT ![s] = c]
  BY <1>1 DEF RecordFinding
<1>3. /\ c \in Case /\ c.status # "CLOSED" /\ c.revision = cases[s].revision
      /\ c.runtimeBlocked = cases[s].runtimeBlocked
  BY <1>1 DEF Case
<1> HIDE DEF c
<1>4. BrokerInv'
  BY <1>1, <1>2, <1>3, BrokerMarks
<1>5. Keeps(cases, cases')
  BY <1>1, <1>2 DEF Keeps
<1> QED
  BY <1>4, <1>5

LEMMA BrokerStep ==
    BrokerInv /\ [BrokerNext]_brokerVars => BrokerInv' /\ Keeps(cases, cases')
<1> SUFFICES ASSUME BrokerInv, [BrokerNext]_brokerVars
             PROVE  BrokerInv' /\ Keeps(cases, cases')
  OBVIOUS
<1>1. cases' = cases => Keeps(cases, cases')
  BY DEF Keeps
<1>2. CASE WriteEvent
  BY <1>1, <1>2, BrokerWrites DEF WriteEvent
<1>3. CASE Enable
  BY <1>1, <1>3, BrokerEnables DEF Enable
<1>4. CASE ProcessPending
  BY <1>4, BrokerProcesses
<1>5. CASE \E s \in DOMAIN cases, verdict \in {"issue", "no_issue"} : RecordFinding(s, verdict)
  BY <1>5, BrokerFinds
<1>6. CASE UNCHANGED brokerVars
  <2>1. UNCHANGED log /\ UNCHANGED <<enabled, floor, cursor, cases>>
    BY <1>6 DEF brokerVars
  <2>2. LedgerInv'
    BY <2>1, LedgerStep DEF BrokerInv
  <2>3. PICK C, k : C = cases /\ k = cursor
    OBVIOUS
  <2>4. /\ floor \in Nat /\ k \in 0..Len(log) /\ Governs(C, k) /\ LedgerInv
        /\ cases' = C /\ cursor' = k
    BY <2>1, <2>3 DEF BrokerInv, BrokerTypeOK, LedgerInv, TypeOK
  <2>5. Governs(cases, cursor)'
    BY <2>1, <2>4, GovernsStill
  <2> QED
    BY <1>1, <2>1, <2>2, <2>5 DEF BrokerInv, BrokerTypeOK
<1> QED
  BY <1>2, <1>3, <1>4, <1>5, <1>6 DEF BrokerNext

LEMMA BrokerInvariance == BrokerSpec => []BrokerInv
BY BrokerStarts, BrokerStep, PTL DEF BrokerSpec

-----------------------------------------------------------------------------
(* What the cases say of the ledger once the broker caught up.             *)

LEMMA AnyDisposition ==
    ASSUME LedgerInv, NEW t
    PROVE  Decided(t, Action) <=> Dispositions(t, Len(log)) # {}
<1>1. ASSUME NEW j \in Dispositions(t, Len(log)) PROVE log[j].what \in Action
  <2>1. j \in 1..Len(log) /\ log[j].type = "lead.disposition"
    BY DEF Dispositions, Seqs
  <2> QED
    BY <2>1, EventTypes DEF Legal, LegalAnswer
<1> QED
  BY <1>1 DEF Decided, Disposed

LEMMA UndisposedAreCases == BrokerInv => UndisposedHaveCases
<1> SUFFICES ASSUME BrokerInv, CaughtUp, NEW t \in Turn
             PROVE  Active(cases, R1(t)) <=> Undisposed(t)
  BY DEF UndisposedHaveCases
<1>1. LedgerInv /\ R1Holds(cases, Len(log))
  BY DEF BrokerInv, Governs, CaughtUp
<1>2. Undisposed(t) <=> Supervised(t, Len(log)) # {} /\ ~Decided(t, Action)
  BY DEF Undisposed, Supervised
<1> QED
  BY <1>1, <1>2, AnyDisposition DEF R1Holds, Active

LEMMA EarlyConsumptionsAreCases == BrokerInv => EarlyConsumptionsHaveCases
<1> SUFFICES ASSUME BrokerInv, CaughtUp, NEW i \in Consumptions(Len(log))
             PROVE  Active(cases, R2(log[i].turn, i)) <=> ConsumedEarly(i)
  BY DEF EarlyConsumptionsHaveCases
<1> DEFINE s == R2(log[i].turn, i)
<1>1. R2Holds(cases, Len(log))
  BY DEF BrokerInv, Governs, CaughtUp
<1>2. s.rule = "R2" /\ s.turn = log[i].turn /\ s.n = i
  BY SubjectFacts
<1>3. CASE s \in DOMAIN cases
  <2>1. R2Justified(cases, s, Len(log))
    BY <1>1, <1>2, <1>3 DEF R2Holds
  <2> QED
    BY <1>2, <1>3, <2>1 DEF R2Justified, Active, ConsumedEarly
<1>4. CASE s \notin DOMAIN cases
  BY <1>1, <1>4 DEF R2Holds, Active, ConsumedEarly
<1> QED
  BY <1>3, <1>4

(* The one case of a signal is about the first time it was raised.         *)
LEMMA FirstSignalIsCase ==
    ASSUME BrokerInv, CaughtUp, NEW t \in Turn, NEW x \in AnySignal
    PROVE  Active(cases, R4(t, x)) <=> FirstUnresolved(t, x)
<1> DEFINE k == Len(log)
<1>1. LedgerInv /\ R4Holds(cases, k)
  BY DEF BrokerInv, Governs, CaughtUp
<1>2. Raised(t, x) = RaisedBy(t, x, k) /\ RaisedBy(t, x, k) \subseteq Nat
  BY DEF Raised, RaisedBy, Seqs
<1>3. \A i : SignalSettled(t, x, i) <=> SettledBy(t, x, i, k)
  BY DEF SignalSettled, SettledBy, Decided
<1>4. FirstUnresolved(t, x) <=>
        \E i \in RaisedBy(t, x, k) :
           (\A j \in RaisedBy(t, x, k) : i <= j) /\ ~SettledBy(t, x, i, k)
  BY <1>2, <1>3 DEF FirstUnresolved
<1>5. CASE R4(t, x) \in DOMAIN cases
  <2>1. PICK i \in Nat : R4About(cases, t, x, i, k)
    BY <1>1, <1>5 DEF R4Holds
  <2>2. /\ i \in RaisedBy(t, x, k) /\ \A j \in RaisedBy(t, x, k) : i <= j
        /\ cases[R4(t, x)].status = "CLOSED" <=> SettledBy(t, x, i, k)
    BY <2>1 DEF R4About
  <2>3. \A l \in RaisedBy(t, x, k) : (\A j \in RaisedBy(t, x, k) : l <= j) => l = i
    BY <1>2, <2>2
  <2> QED
    BY <1>4, <1>5, <2>2, <2>3 DEF Active
<1>6. CASE R4(t, x) \notin DOMAIN cases
  <2>1. RaisedBy(t, x, k) # {} => \A i : SettledBy(t, x, i, k)
    BY <1>1, <1>6 DEF R4Holds, SettledBy, Decided
  <2> QED
    BY <1>4, <1>6, <2>1 DEF Active
<1> QED
  BY <1>5, <1>6

LEMMA SignalsAreCases == BrokerInv => SignalsHaveCases
<1> SUFFICES ASSUME BrokerInv, CaughtUp, NEW t \in Turn, NEW x \in AnySignal
             PROVE  /\ FirstUnresolved(t, x) => Active(cases, R4(t, x))
                    /\ Active(cases, R4(t, x)) => Unresolved(t, x)
  BY DEF SignalsHaveCases
<1>1. Active(cases, R4(t, x)) <=> FirstUnresolved(t, x)
  BY FirstSignalIsCase
<1>2. FirstUnresolved(t, x) => Unresolved(t, x)
  BY DEF FirstUnresolved, Unresolved
<1> QED
  BY <1>1, <1>2

(* The Lead still has to speak about t: in the words of the contract, and  *)
(* in those of the inductive invariant.                                    *)
LEMMA OpenIsUnreconciled ==
    ASSUME LedgerInv, floor \in Nat, NEW t \in Turn
    PROVE  Open(t, Len(log)) <=> Unreconciled(t)
<1> DEFINE k == Len(log)
           settling == {j \in Reconciliations(t, k) : log[j].n = LatestRevision(k)}
                          \cup {j \in Dispositions(t, k) : log[j].what = "reject"}
<1>1. k \in Nat /\ k \in 0..k /\ Supervised(t, k) = After(Seqs("peer.response", t, k), floor)
  BY DEF LedgerInv, TypeOK, Supervised
<1>2. Unreconciled(t) <=>
        \E i \in Supervised(t, k) :
           /\ ~Retired(t, k)
           /\ \A j \in settling : \E l \in After(RevisionSeqs(k), j) : l > i
  BY <1>1 DEF Unreconciled
<1>3. ASSUME NEW j \in Reconciliations(t, k), log[j].n = LatestRevision(k),
             NEW l \in RevisionSeqs(k), l > j
      PROVE  FALSE
  <2>1. j \in 1..k /\ log[j].type = "candidate.reconciled"
    BY DEF Reconciliations, Seqs
  <2>2. l \in 1..k /\ log[l].type = "work_item.revision_changed" /\ j - 1 \in 0..(l - 1)
    BY <1>1, <1>3, <2>1 DEF RevisionSeqs
  <2>3. log[j].n = LatestRevision(j - 1)
    BY <2>1, EventTypes DEF Legal, LegalReconciliation
  <2>4. LatestRevision(j - 1) \in Nat /\ LatestRevision(j - 1) < log[l].n
    BY <2>2, RevisionIsAbove
  <2>5. log[l].n <= LatestRevision(k) /\ log[l].n \in Nat
    BY <1>1, <1>3, <2>2, LatestFacts, EventTypes
  <2> QED
    BY <1>3, <2>3, <2>4, <2>5
<1>4. ASSUME NEW i \in Seqs("peer.response", t, k), NEW j \in Dispositions(t, k)
      PROVE  i < j
  <2>1. /\ i \in 1..k /\ log[i].type = "peer.response" /\ log[i].turn = t
        /\ j \in 1..k /\ log[j].type = "lead.disposition" /\ log[j].turn = t
    BY DEF Dispositions, Seqs
  <2>2. PICK m \in Seqs("peer.response", t, j - 1) : TRUE
    BY <2>1, EventTypes DEF Legal, LegalAnswer
  <2>3. m \in 1..k /\ m < j /\ log[m].type = "peer.response" /\ log[m].turn = t
    BY <1>1, <2>1 DEF Seqs
  <2>4. Seqs("peer.response", t, m - 1) = {} /\ Seqs("peer.response", t, i - 1) = {}
    BY <2>1, <2>3, EventTypes DEF Legal, LegalAnswer
  <2>5. ~(m < i) /\ ~(i < m)
    BY <1>1, <2>1, <2>3, <2>4 DEF Seqs
  <2> QED
    BY <2>1, <2>3, <2>5
<1>5. ASSUME Open(t, k) PROVE Unreconciled(t)
  <2>1. PICK i \in Supervised(t, k) : TRUE
    BY <1>5 DEF Open
  <2>2. i \in Seqs("peer.response", t, k) /\ i \in Nat
    BY <1>1 DEF After, Seqs
  <2>3. ASSUME NEW j \in settling PROVE \E l \in After(RevisionSeqs(k), j) : l > i
    <3>1. j \in Dispositions(t, k) /\ log[j].what = "reject" /\ j \in Nat
      BY <1>5 DEF Open, Dispositions, Seqs
    <3>2. PICK l \in RevisionSeqs(k) : l > j
      BY <1>5, <3>1 DEF Open
    <3>3. i < j /\ l \in Nat
      BY <1>4, <2>2, <3>1 DEF RevisionSeqs
    <3> QED
      BY <2>2, <3>1, <3>2, <3>3 DEF After
  <2> QED
    BY <1>2, <1>5, <2>1, <2>3 DEF Open
<1>6. ASSUME Unreconciled(t) PROVE Open(t, k)
  <2>1. PICK i \in Supervised(t, k) :
           /\ ~Retired(t, k)
           /\ \A j \in settling : \E l \in After(RevisionSeqs(k), j) : l > i
    BY <1>2, <1>6
  <2>2. \A j \in Reconciliations(t, k) : log[j].n # LatestRevision(k)
    BY <1>3, <2>1 DEF After
  <2>3. \A j \in Dispositions(t, k) : log[j].what = "reject" => \E l \in RevisionSeqs(k) : l > j
    BY <2>1 DEF After
  <2> QED
    BY <2>1, <2>2, <2>3 DEF Open
<1> QED
  BY <1>5, <1>6

LEMMA AtMostOne ==
    ASSUME NEW S, \A s, u \in S : s = u
    PROVE  Cardinality(S) <= 1
<1>1. CASE S = {}
  BY <1>1, FS_EmptySet
<1>2. CASE S # {}
  <2>1. PICK s \in S : TRUE
    BY <1>2
  <2>2. S = {s}
    BY <2>1
  <2>3. Cardinality({s}) = 1
    BY FS_Singleton
  <2> QED
    BY <2>2, <2>3
<1> QED
  BY <1>1, <1>2

LEMMA StaleCandidatesAreCases == BrokerInv => StaleCandidatesHaveOneCase
<1> SUFFICES ASSUME BrokerInv, CaughtUp, NEW t \in Turn
             PROVE  /\ Cardinality(ActiveR5(cases, t)) <= 1
                    /\ \A s \in ActiveR5(cases, t) :
                          cases[s].revision = LatestRevision(Len(log))
                    /\ ActiveR5(cases, t) # {} <=> StaleCandidate(t)
  BY DEF StaleCandidatesHaveOneCase
<1>1. LedgerInv /\ floor \in Nat /\ R5About(cases, t, Len(log))
  BY DEF BrokerInv, BrokerTypeOK, Governs, CaughtUp, R5Holds
<1>2. Open(t, Len(log)) <=> Unreconciled(t)
  BY <1>1, OpenIsUnreconciled
<1>3. Cardinality(ActiveR5(cases, t)) <= 1
  BY <1>1, AtMostOne DEF R5About
<1> QED
  BY <1>1, <1>2, <1>3 DEF R5About, StaleCandidate

(* The ledger holds events, and the broker cases of its four rules.        *)
THEOREM BrokerTypeCorrect == BrokerSpec => [](TypeOK /\ BrokerTypeOK)
<1>1. BrokerInv => TypeOK /\ BrokerTypeOK
  BY DEF BrokerInv, LedgerInv
<1> QED
  BY <1>1, BrokerInvariance, PTL

(* Once the broker caught up, exactly the supervised responses without a   *)
(* disposition have an active R1 case (_handle_peer_response).             *)
THEOREM UndisposedAlwaysHaveCases == BrokerSpec => []UndisposedHaveCases
BY BrokerInvariance, UndisposedAreCases, PTL

(* Exactly the consumptions before an acceptance that nobody remedied have *)
(* an active R2 case (_handle_dependency_consumed).                        *)
THEOREM EarlyConsumptionsAlwaysHaveCases == BrokerSpec => []EarlyConsumptionsHaveCases
BY BrokerInvariance, EarlyConsumptionsAreCases, PTL

(* A signal raised for the first time has an active R4 case until it is    *)
(* settled, and no case is active for a settled one (_handle_peer_signal). *)
(* Of a signal that is raised again after it was settled it says only      *)
(* that it may have a case.                                                *)
THEOREM SignalsAlwaysHaveCases == BrokerSpec => []SignalsHaveCases
BY BrokerInvariance, SignalsAreCases, PTL

(* Exactly the candidates that a revision outdated and the Lead did not    *)
(* speak about since have an active R5 case, one each, at the latest       *)
(* revision (_handle_work_item_revision_changed).                          *)
THEOREM StaleCandidatesAlwaysHaveOneCase == BrokerSpec => []StaleCandidatesHaveOneCase
BY BrokerInvariance, StaleCandidatesAreCases, PTL

LEMMA KeepsFindings ==
    Keeps(cases, cases') <=>
      \A s \in DOMAIN cases :
         /\ s \in DOMAIN cases'
         /\ cases[s].verdict # "none" =>
               /\ cases'[s].verdict = cases[s].verdict
               /\ cases'[s].revision = cases[s].revision
         /\ cases[s].status = "CLOSED" => cases'[s] = cases[s]
BY DEF Keeps

(* A replay never moves a finding to another revision, removes a case or   *)
(* opens a closed one again (_open_case, _close_cases, record_finding).    *)
THEOREM FindingsAlwaysKept == BrokerSpec => FindingsAreKept
BY KeepsFindings, BrokerInvariance, BrokerStep, PTL DEF BrokerSpec, FindingsAreKept

(* Whatever the broker does, the ledger is written as SemanticLedger says: *)
(* its theorems hold beside the broker.                                    *)
THEOREM BrokerKeepsLedger == BrokerSpec => LedgerSpec
<1>1. BrokerInit => LedgerInit
  BY DEF BrokerInit
<1>2. [BrokerNext]_brokerVars => [Write]_log
  BY DEF BrokerNext, brokerVars, WriteEvent, Enable, ProcessPending, RecordFinding
<1> QED
  BY <1>1, <1>2, PTL DEF BrokerSpec, LedgerSpec

-----------------------------------------------------------------------------
(* The daemon.                                                             *)

(* A case stays marked after a wake that did not fail, until it is closed. *)
WokenAreMarked ==
    /\ \A s \in DOMAIN woken :
          woken[s] = "failed" \/ s \in DOMAIN delivery \/ cases[s].status = "CLOSED"
    /\ pc \in {"waking", "marking"} => current \in DOMAIN delivery

DeliveryInv == BrokerInv /\ DeliveryTypeOK /\ WokenAreMarked

Places == {"replaying", "replaying_again", "replaying_before_wake", "down", "to review",
           "reviewing", "to deliver", "delivering", "reserving", "waking", "marking", "probing",
           "idle"}

LEMMA ReplayedFacts ==
    /\ DOMAIN Replayed = {"replaying", "replaying_again", "replaying_before_wake"}
    /\ \A place \in DOMAIN Replayed :
          Replayed[place] \in {"to review", "to deliver", "reserving"}
    /\ DOMAIN Replayed \cup {"down", "to review", "reviewing", "to deliver", "delivering",
                             "reserving", "waking", "marking", "probing", "idle"} = Places
<1>1. DOMAIN Replayed = {"replaying", "replaying_again", "replaying_before_wake"}
  BY DEF Replayed
<1>2. /\ Replayed["replaying"] = "to review"
      /\ Replayed["replaying_again"] = "to deliver"
      /\ Replayed["replaying_before_wake"] = "reserving"
  BY DEF Replayed
<1> QED
  BY <1>1, <1>2 DEF Places

LEMMA DeliveryStarts == DeliveryInit => DeliveryInv
<1> SUFFICES ASSUME DeliveryInit PROVE DeliveryInv
  OBVIOUS
<1>1. BrokerInv
  BY BrokerStarts DEF DeliveryInit
<1>2. /\ pc = "down" /\ todo = {} /\ DOMAIN woken = {} /\ current = NoCase /\ DOMAIN delivery = {}
      /\ failed = FALSE /\ full = FALSE /\ pending = FALSE
  BY DEF DeliveryInit
<1>3. DeliveryTypeOK
  BY <1>1, <1>2 DEF DeliveryTypeOK, BrokerInv
<1>4. WokenAreMarked
  BY <1>2 DEF WokenAreMarked
<1> QED
  BY <1>1, <1>3, <1>4 DEF DeliveryInv

(* The cases go on: what every step of the daemon does to them.            *)
CasesGoOn == BrokerInv' /\ Keeps(cases, cases')

(* A step that leaves the marks and the ends of the wakes, and goes    *)
(* nowhere near a wake.                                                    *)
LEMMA Elsewhere ==
    ASSUME DeliveryInv, CasesGoOn, UNCHANGED <<delivery, woken>>,
           pc' \in Places \ {"waking", "marking"},
           todo' \subseteq DOMAIN cases, current' \in DOMAIN cases \cup {NoCase},
           failed' \in BOOLEAN, full' \in BOOLEAN, pending' \in BOOLEAN
    PROVE  DeliveryInv'
<1>1. /\ DOMAIN cases \subseteq DOMAIN cases'
      /\ \A s \in DOMAIN cases : cases[s].status = "CLOSED" => cases'[s].status = "CLOSED"
  BY DEF CasesGoOn, Keeps
<1>2. DeliveryTypeOK'
  BY <1>1, ReplayedFacts DEF DeliveryInv, DeliveryTypeOK, CasesGoOn, BrokerInv
<1>3. WokenAreMarked'
  BY <1>1 DEF DeliveryInv, DeliveryTypeOK, WokenAreMarked
<1> QED
  BY <1>2, <1>3 DEF DeliveryInv, CasesGoOn

(* So does one that stays where it is.                                     *)
LEMMA InPlace ==
    ASSUME DeliveryInv, CasesGoOn, UNCHANGED <<delivery, woken, pc, current>>,
           todo' \subseteq DOMAIN cases, failed' \in BOOLEAN, full' \in BOOLEAN,
           pending' \in BOOLEAN
    PROVE  DeliveryInv'
<1>1. /\ DOMAIN cases \subseteq DOMAIN cases'
      /\ \A s \in DOMAIN cases : cases[s].status = "CLOSED" => cases'[s].status = "CLOSED"
  BY DEF CasesGoOn, Keeps
<1>2. DeliveryTypeOK'
  BY <1>1 DEF DeliveryInv, DeliveryTypeOK, CasesGoOn, BrokerInv
<1>3. WokenAreMarked'
  BY <1>1 DEF DeliveryInv, DeliveryTypeOK, WokenAreMarked
<1> QED
  BY <1>2, <1>3 DEF DeliveryInv, CasesGoOn

LEMMA BrokerWaits ==
    ASSUME BrokerInv, UNCHANGED brokerVars
    PROVE  CasesGoOn
BY BrokerStep DEF CasesGoOn

LEMMA BrokerActs ==
    ASSUME BrokerInv, BrokerNext
    PROVE  CasesGoOn
BY BrokerStep DEF CasesGoOn

LEMMA ProcessesFacts ==
    ASSUME BrokerInv, NEW n, Processes(n)
    PROVE  CasesGoOn
<1>1. CASE Enable
  BY <1>1, BrokerActs DEF BrokerNext
<1>2. CASE ProcessPending
  BY <1>2, BrokerActs DEF BrokerNext
<1>3. CASE UNCHANGED brokerVars
  BY <1>3, BrokerWaits
<1> QED
  BY <1>1, <1>2, <1>3 DEF Processes

LEMMA DeliveryTypes ==
    ASSUME DeliveryInv
    PROVE  /\ BrokerInv /\ todo \subseteq DOMAIN cases /\ current \in DOMAIN cases \cup {NoCase}
           /\ failed \in BOOLEAN /\ full \in BOOLEAN /\ pending \in BOOLEAN /\ pc \in Places
           /\ DOMAIN woken \subseteq DOMAIN cases /\ DOMAIN delivery \subseteq DOMAIN cases
           /\ NoCase \notin DOMAIN cases
<1>1. NoCase \notin Subject
  BY DEF NoCase, Subject
<1> QED
  BY <1>1, ReplayedFacts DEF DeliveryInv, DeliveryTypeOK, BrokerTypeOK

LEMMA LedgerGrowsKeeps == ASSUME DeliveryInv, LedgerGrows PROVE DeliveryInv' /\ Keeps(cases, cases')
<1>1. CasesGoOn
  BY DeliveryTypes, BrokerActs DEF LedgerGrows, BrokerNext
<1> QED
  BY <1>1, DeliveryTypes, InPlace DEF LedgerGrows, CasesGoOn

(* Beginning a drain.                                                      *)
LEMMA BeginKeeps ==
    ASSUME DeliveryInv, CasesGoOn, Begin, pending' \in BOOLEAN, UNCHANGED <<delivery, woken>>
    PROVE  DeliveryInv'
BY Elsewhere DEF Begin, Goto, Places

LEMMA StartKeeps == ASSUME DeliveryInv, Start PROVE DeliveryInv' /\ Keeps(cases, cases')
<1>1. /\ CasesGoOn /\ pc' = "replaying" /\ todo' = {} /\ current' = NoCase /\ failed' = FALSE
      /\ full' = FALSE /\ pending' = TRUE /\ DOMAIN woken' = {} /\ cases' = cases
      /\ delivery' = Withdrawn(delivery)
  BY DeliveryTypes, BrokerWaits DEF Start, Serve, Begin, Goto, brokerVars
<1>2. /\ DOMAIN delivery' \subseteq DOMAIN delivery
      /\ \A s \in DOMAIN delivery' : delivery'[s] = "delivered"
  BY <1>1 DEF Withdrawn
<1>3. DeliveryTypeOK'
  BY <1>1, <1>2, DeliveryTypes, ReplayedFacts DEF DeliveryTypeOK, CasesGoOn, BrokerInv
<1>4. WokenAreMarked'
  BY <1>1 DEF WokenAreMarked
<1> QED
  BY <1>1, <1>3, <1>4 DEF DeliveryInv, CasesGoOn

LEMMA CrashKeeps == ASSUME DeliveryInv, Crash PROVE DeliveryInv' /\ Keeps(cases, cases')
<1>1. CasesGoOn
  BY DeliveryTypes, BrokerWaits DEF Crash
<1> QED
  BY <1>1, Elsewhere DEF Crash, Goto, CasesGoOn, Places

LEMMA ServeKeeps == ASSUME DeliveryInv, DrainFails PROVE DeliveryInv' /\ Keeps(cases, cases')
<1>1. CasesGoOn
  BY DeliveryTypes, BrokerWaits DEF DrainFails
<1> QED
  BY <1>1, BeginKeeps DEF DrainFails, Serve, CasesGoOn

LEMMA WakeupKeeps == ASSUME DeliveryInv, Wakeup PROVE DeliveryInv' /\ Keeps(cases, cases')
<1>1. CasesGoOn
  BY DeliveryTypes, BrokerWaits DEF Wakeup
<1> QED
  BY <1>1, BeginKeeps DEF Wakeup, CasesGoOn

LEMMA ReplayKeeps == ASSUME DeliveryInv, Replay PROVE DeliveryInv' /\ Keeps(cases, cases')
<1>1. CasesGoOn
  BY DeliveryTypes, ProcessesFacts DEF Replay
<1>2. pc' \in Places \ {"waking", "marking"}
  <2>1. pc \in DOMAIN Replayed /\ (pc' = pc \/ pc' = Replayed[pc])
    BY DEF Replay, Goto
  <2> QED
    BY <2>1, ReplayedFacts DEF Places
<1> QED
  BY <1>1, <1>2, DeliveryTypes, Elsewhere DEF Replay, CasesGoOn

LEMMA ReviewKeeps ==
    ASSUME DeliveryInv,
           SelectCases \/ (\E s \in todo : ReviewSucceeds(s) \/ ReviewFails(s)) \/ EndReviews
    PROVE  DeliveryInv' /\ Keeps(cases, cases')
<1>1. CASE SelectCases
  <2>1. CasesGoOn
    BY <1>1, DeliveryTypes, BrokerWaits DEF SelectCases
  <2>2. todo' \subseteq DOMAIN cases
    BY <1>1 DEF SelectCases, Oldest, Unreviewed
  <2>3. /\ full' \in BOOLEAN /\ pc' = "reviewing"
        /\ UNCHANGED <<current, failed, pending, delivery, woken>>
    <3> DEFINE large == Cardinality(todo') >= ReviewLimit
    <3>1. large \in BOOLEAN
      OBVIOUS
    <3> HIDE DEF large
    <3>2. full' = large
      BY <1>1 DEF SelectCases, large
    <3> QED
      BY <1>1, <3>1, <3>2 DEF SelectCases, Goto
  <2> QED
    BY <2>1, <2>2, <2>3, DeliveryTypes, Elsewhere DEF CasesGoOn, Places
<1>2. CASE \E s \in todo : ReviewSucceeds(s)
  <2>1. CasesGoOn
    BY <1>2, DeliveryTypes, BrokerFinds DEF ReviewSucceeds, CasesGoOn
  <2> QED
    BY <1>2, <2>1, DeliveryTypes, InPlace DEF ReviewSucceeds, CasesGoOn
<1>3. CASE \E s \in todo : ReviewFails(s)
  <2>1. CasesGoOn
    BY <1>3, DeliveryTypes, BrokerWaits DEF ReviewFails
  <2> QED
    BY <1>3, <2>1, DeliveryTypes, InPlace DEF ReviewFails, CasesGoOn
<1>4. CASE EndReviews
  <2>1. CasesGoOn
    BY <1>4, DeliveryTypes, BrokerWaits DEF EndReviews
  <2> QED
    BY <1>4, <2>1, DeliveryTypes, Elsewhere DEF EndReviews, Goto, CasesGoOn, Places
<1> QED
  BY <1>1, <1>2, <1>3, <1>4

LEMMA DeliverKeeps ==
    ASSUME DeliveryInv, SelectFindings \/ (\E s \in todo : Deliver(s)) \/ EndDeliveries \/ Probe
    PROVE  DeliveryInv' /\ Keeps(cases, cases')
<1>1. CASE SelectFindings
  <2>1. CasesGoOn
    BY <1>1, DeliveryTypes, BrokerWaits DEF SelectFindings
  <2>2. todo' \subseteq DOMAIN cases
    BY <1>1 DEF SelectFindings, Oldest, Undelivered
  <2>3. /\ full' \in BOOLEAN /\ pc' = "delivering"
        /\ UNCHANGED <<current, failed, pending, delivery, woken>>
    BY <1>1 DEF SelectFindings, Goto
  <2> QED
    BY <2>1, <2>2, <2>3, DeliveryTypes, Elsewhere DEF CasesGoOn, Places
<1>2. CASE \E s \in todo : Deliver(s)
  <2>1. CasesGoOn
    BY <1>2, DeliveryTypes, BrokerWaits DEF Deliver
  <2>2. /\ pc' = "replaying_before_wake" /\ todo' \subseteq todo /\ current' \in todo
        /\ UNCHANGED <<failed, full, pending, delivery, woken>>
    BY <1>2 DEF Deliver, Goto
  <2> QED
    BY <2>1, <2>2, DeliveryTypes, Elsewhere DEF CasesGoOn, Places
<1>3. CASE EndDeliveries
  <2>1. CasesGoOn
    BY <1>3, DeliveryTypes, BrokerWaits DEF EndDeliveries
  <2>2. CASE failed
    BY <1>3, <2>1, <2>2, BeginKeeps DEF EndDeliveries, Serve, CasesGoOn
  <2>3. CASE ~failed
    BY <1>3, <2>1, <2>3, DeliveryTypes, Elsewhere DEF EndDeliveries, Goto, CasesGoOn, Places
  <2> QED
    BY <2>2, <2>3
<1>4. CASE Probe
  <2>1. PICK n \in 0..BatchLimit :
           /\ Processes(n)
           /\ IF Again(n) THEN Begin
              ELSE Goto("idle") /\ UNCHANGED <<todo, current, failed, full>>
    BY <1>4 DEF Probe
  <2>2. CasesGoOn /\ UNCHANGED <<pending, delivery, woken>>
    BY <1>4, <2>1, DeliveryTypes, ProcessesFacts DEF Probe
  <2>3. CASE Again(n)
    BY <2>1, <2>2, <2>3, DeliveryTypes, BeginKeeps DEF CasesGoOn
  <2>4. CASE ~Again(n)
    BY <2>1, <2>2, <2>4, DeliveryTypes, Elsewhere DEF Goto, CasesGoOn, Places
  <2> QED
    BY <2>3, <2>4
<1> QED
  BY <1>1, <1>2, <1>3, <1>4

LEMMA ReserveKeeps == ASSUME DeliveryInv, Reserve PROVE DeliveryInv' /\ Keeps(cases, cases')
<1>1. CasesGoOn /\ UNCHANGED <<cases, todo, failed, full, pending, woken>>
  BY DeliveryTypes, BrokerWaits DEF Reserve, brokerVars
<1>2. CASE CaughtUpNow /\ current \in Undelivered
  <2>1. /\ pc' = "waking" /\ current' = current
        /\ DOMAIN delivery' = DOMAIN delivery \cup {current}
        /\ \A s \in DOMAIN delivery' :
              delivery'[s] = IF s = current THEN "reserved" ELSE delivery[s]
    BY <1>2 DEF Reserve, Goto
  <2>2. /\ current \in DOMAIN cases /\ current \notin DOMAIN delivery
        /\ cases[current].status # "CLOSED"
    BY <1>2 DEF Undelivered, Active, Unmarked
  <2>3. DeliveryTypeOK'
    BY <1>1, <2>1, <2>2, DeliveryTypes, ReplayedFacts
       DEF DeliveryInv, DeliveryTypeOK, CasesGoOn, BrokerInv, Places
  <2>4. WokenAreMarked'
    BY <1>1, <2>1, <2>2 DEF DeliveryInv, WokenAreMarked
  <2> QED
    BY <1>1, <2>3, <2>4 DEF DeliveryInv, CasesGoOn
<1>3. CASE ~(CaughtUpNow /\ current \in Undelivered)
  <2>1. pc' = "delivering" /\ current' = NoCase /\ delivery' = delivery
    BY <1>3 DEF Reserve, Goto
  <2> QED
    BY <1>1, <2>1, DeliveryTypes, Elsewhere DEF CasesGoOn, Places
<1> QED
  BY <1>2, <1>3

LEMMA WokeFacts ==
    ASSUME DeliveryInv, NEW outcome \in {"told", "failed", "aborted"}, Woke(outcome),
           pc \in {"waking", "marking"}
    PROVE  /\ current \in DOMAIN delivery /\ current \in DOMAIN cases
           /\ DOMAIN woken' = DOMAIN woken \cup {current}
           /\ \A s \in DOMAIN woken' :
                 woken'[s] = IF s = current THEN outcome ELSE woken[s]
<1>1. current \in DOMAIN delivery /\ current \in DOMAIN cases
  BY DeliveryTypes DEF DeliveryInv, WokenAreMarked
<1> QED
  BY <1>1 DEF Woke

LEMMA WakeKeeps ==
    ASSUME DeliveryInv, WakeSucceeds \/ WakeFails \/ WakeAborts
    PROVE  DeliveryInv' /\ Keeps(cases, cases')
<1>1. CasesGoOn /\ pc \in {"waking", "marking"} /\ UNCHANGED cases
  BY DeliveryTypes, BrokerWaits DEF WakeSucceeds, WakeFails, WakeAborts, brokerVars
<1>2. CASE WakeSucceeds
  <2>1. /\ pc' = "marking" /\ Woke("told")
        /\ UNCHANGED <<todo, current, failed, full, pending, delivery>>
    BY <1>2 DEF WakeSucceeds, Goto
  <2>2. /\ current \in DOMAIN delivery /\ current \in DOMAIN cases
        /\ DOMAIN woken' = DOMAIN woken \cup {current}
        /\ \A s \in DOMAIN woken' : woken'[s] = IF s = current THEN "told" ELSE woken[s]
    BY <1>1, <2>1, WokeFacts
  <2>3. DeliveryTypeOK'
    BY <1>1, <2>1, <2>2, DeliveryTypes, ReplayedFacts
       DEF DeliveryInv, DeliveryTypeOK, CasesGoOn, BrokerInv, Places
  <2>4. WokenAreMarked'
    BY <1>1, <2>1, <2>2 DEF DeliveryInv, WokenAreMarked
  <2> QED
    BY <1>1, <2>3, <2>4 DEF DeliveryInv, CasesGoOn
<1>3. CASE WakeFails
  <2>1. /\ pc' = "delivering" /\ current' = NoCase /\ failed' = TRUE /\ Woke("failed")
        /\ DOMAIN delivery' = DOMAIN delivery \ {current}
        /\ \A s \in DOMAIN delivery' : delivery'[s] = delivery[s]
        /\ UNCHANGED <<todo, full, pending>>
    BY <1>3 DEF WakeFails, Unreserved, Goto
  <2>2. /\ current \in DOMAIN delivery /\ current \in DOMAIN cases
        /\ DOMAIN woken' = DOMAIN woken \cup {current}
        /\ \A s \in DOMAIN woken' : woken'[s] = IF s = current THEN "failed" ELSE woken[s]
    BY <1>1, <2>1, WokeFacts
  <2>3. DeliveryTypeOK'
    BY <1>1, <2>1, <2>2, DeliveryTypes, ReplayedFacts
       DEF DeliveryInv, DeliveryTypeOK, CasesGoOn, BrokerInv, Places
  <2>4. WokenAreMarked'
    BY <1>1, <2>1, <2>2 DEF DeliveryInv, WokenAreMarked
  <2> QED
    BY <1>1, <2>3, <2>4 DEF DeliveryInv, CasesGoOn
<1>4. CASE WakeAborts
  <2>1. /\ pc' = "replaying" /\ todo' = {} /\ current' = NoCase /\ failed' = FALSE
        /\ full' = FALSE /\ pending' = TRUE /\ Woke("aborted") /\ UNCHANGED delivery
    BY <1>4 DEF WakeAborts, Serve, Begin, Goto
  <2>2. /\ current \in DOMAIN delivery /\ current \in DOMAIN cases
        /\ DOMAIN woken' = DOMAIN woken \cup {current}
        /\ \A s \in DOMAIN woken' : woken'[s] = IF s = current THEN "aborted" ELSE woken[s]
    BY <1>1, <2>1, WokeFacts
  <2>3. DeliveryTypeOK'
    BY <1>1, <2>1, <2>2, DeliveryTypes, ReplayedFacts
       DEF DeliveryInv, DeliveryTypeOK, CasesGoOn, BrokerInv, Places
  <2>4. WokenAreMarked'
    BY <1>1, <2>1, <2>2 DEF DeliveryInv, WokenAreMarked
  <2> QED
    BY <1>1, <2>3, <2>4 DEF DeliveryInv, CasesGoOn
<1> QED
  BY <1>2, <1>3, <1>4

(* The mark of a case that was closed since goes, with the case.           *)
LEMMA MarkKeeps == ASSUME DeliveryInv, Mark PROVE DeliveryInv' /\ Keeps(cases, cases')
<1>1. /\ BrokerInv /\ pc = "marking" /\ pc' = "delivering" /\ current' = NoCase
      /\ UNCHANGED <<log, enabled, floor, cursor, todo, failed, full, pending, woken>>
  BY DeliveryTypes DEF Mark, Goto
<1>2. current \in DOMAIN delivery /\ current \in DOMAIN cases
  BY <1>1, DeliveryTypes DEF DeliveryInv, WokenAreMarked
<1>3. cases[current] \in Case
  BY <1>1, <1>2 DEF BrokerInv, BrokerTypeOK
<1>4. CASE Active(cases, current)
  <2> DEFINE c == [cases[current] EXCEPT !.status = "WAITING_FOR_EVIDENCE"]
  <2>1. /\ delivery' = [delivery EXCEPT ![current] = "delivered"]
        /\ cases' = [cases EXCEPT ![current] = c]
    BY <1>4 DEF Mark
  <2>2. /\ c \in Case /\ c.status # "CLOSED" /\ c.revision = cases[current].revision
        /\ c.runtimeBlocked = cases[current].runtimeBlocked
        /\ c.verdict = cases[current].verdict
    BY <1>3 DEF Case
  <2>3. cases[current].status # "CLOSED"
    BY <1>4 DEF Active
  <2> HIDE DEF c
  <2>4. BrokerInv'
    BY <1>1, <1>2, <2>1, <2>2, <2>3, BrokerMarks
  <2>5. Keeps(cases, cases')
    BY <1>2, <2>1, <2>2, <2>3 DEF Keeps
  <2>6. /\ DOMAIN cases' = DOMAIN cases /\ DOMAIN delivery' = DOMAIN delivery
        /\ \A s \in DOMAIN cases : cases[s].status = "CLOSED" => cases'[s].status = "CLOSED"
        /\ \A s \in DOMAIN delivery :
              delivery'[s] = IF s = current THEN "delivered" ELSE delivery[s]
    BY <1>2, <2>1, <2>3
  <2>7. DeliveryTypeOK'
    BY <1>1, <2>4, <2>6, DeliveryTypes, ReplayedFacts
       DEF DeliveryInv, DeliveryTypeOK, BrokerInv, Places
  <2>8. WokenAreMarked'
    BY <1>1, <2>6, DeliveryTypes DEF DeliveryInv, WokenAreMarked
  <2> QED
    BY <2>4, <2>5, <2>7, <2>8 DEF DeliveryInv
<1>5. CASE ~Active(cases, current)
  <2>1. /\ cases' = cases
        /\ DOMAIN delivery' = DOMAIN delivery \ {current}
        /\ \A s \in DOMAIN delivery' : delivery'[s] = delivery[s]
    BY <1>5 DEF Mark, Unreserved
  <2>2. cases[current].status = "CLOSED"
    BY <1>2, <1>5 DEF Active
  <2>3. CasesGoOn
    BY <1>1, <2>1, BrokerWaits DEF brokerVars
  <2>4. DeliveryTypeOK'
    BY <1>1, <2>1, <2>3, DeliveryTypes, ReplayedFacts
       DEF DeliveryInv, DeliveryTypeOK, CasesGoOn, BrokerInv, Places
  <2>5. WokenAreMarked'
    BY <1>1, <2>1, <2>2 DEF DeliveryInv, WokenAreMarked
  <2> QED
    BY <2>3, <2>4, <2>5 DEF DeliveryInv, CasesGoOn
<1> QED
  BY <1>4, <1>5

LEMMA DeliveryStep ==
    DeliveryInv /\ [DeliveryNext]_deliveryVars => DeliveryInv' /\ Keeps(cases, cases')
<1> SUFFICES ASSUME DeliveryInv, [DeliveryNext]_deliveryVars
             PROVE  DeliveryInv' /\ Keeps(cases, cases')
  OBVIOUS
<1>1. CASE UNCHANGED deliveryVars
  <2>1. /\ UNCHANGED brokerVars
        /\ UNCHANGED <<pc, todo, current, failed, full, pending, delivery, woken>>
    BY <1>1 DEF deliveryVars
  <2>2. CasesGoOn
    BY <2>1, DeliveryTypes, BrokerWaits
  <2> QED
    BY <2>1, <2>2, DeliveryTypes, InPlace DEF CasesGoOn
<1>2. CASE DeliveryNext
  BY <1>2, LedgerGrowsKeeps, StartKeeps, CrashKeeps, ServeKeeps, WakeupKeeps, ReplayKeeps,
     ReviewKeeps, DeliverKeeps, ReserveKeeps, WakeKeeps, MarkKeeps
     DEF DeliveryNext, Daemon
<1> QED
  BY <1>1, <1>2

LEMMA DeliveryInvariance == DeliverySpec => []DeliveryInv
BY DeliveryStarts, DeliveryStep, PTL DEF DeliverySpec

(* The daemon's selections, reservations and marks stay among the cases    *)
(* there are (reserve_issue_finding_for_delivery).                         *)
THEOREM DeliveryTypeCorrect == DeliverySpec => []DeliveryTypeOK
<1>1. DeliveryInv => DeliveryTypeOK
  BY DEF DeliveryInv
<1> QED
  BY <1>1, DeliveryInvariance, PTL

(* The four rules hold in the daemon too, whose deliveries the broker of   *)
(* BrokerSpec does not make.                                               *)
THEOREM CasesStayJustified ==
    DeliverySpec => [](/\ UndisposedHaveCases /\ EarlyConsumptionsHaveCases
                       /\ SignalsHaveCases /\ StaleCandidatesHaveOneCase)
<1>1. DeliveryInv => /\ UndisposedHaveCases /\ EarlyConsumptionsHaveCases
                     /\ SignalsHaveCases /\ StaleCandidatesHaveOneCase
  BY UndisposedAreCases, EarlyConsumptionsAreCases, SignalsAreCases,
     StaleCandidatesAreCases DEF DeliveryInv
<1> QED
  BY <1>1, DeliveryInvariance, PTL

(* Nor does a delivery touch a finding or open a closed case               *)
(* (mark_delivered_to_lead).                                               *)
THEOREM FindingsKeptByDelivery == DeliverySpec => FindingsAreKept
BY KeepsFindings, DeliveryInvariance, DeliveryStep, PTL DEF DeliverySpec, FindingsAreKept

-----------------------------------------------------------------------------
(* Which steps reach a wake.                                               *)

LEMMA ReservesOnly ==
    ASSUME [DeliveryNext]_deliveryVars, pc = "reserving", pc' = "waking"
    PROVE  Reserve
<1>1. ~(UNCHANGED pc)
  OBVIOUS
<1>2. ~(\E s \in todo : Deliver(s))
  BY DEF Deliver, Goto
<1>3. ~(\E s \in todo : ReviewSucceeds(s) \/ ReviewFails(s))
  BY DEF ReviewSucceeds, ReviewFails
<1>4. ~Replay
  BY ReplayedFacts DEF Replay
<1>5. ~LedgerGrows /\ ~Start /\ ~SelectCases /\ ~EndReviews /\ ~SelectFindings /\ ~Mark
      /\ ~EndDeliveries /\ ~Probe
  BY DEF LedgerGrows, Start, SelectCases, EndReviews, SelectFindings, Mark, EndDeliveries, Probe
<1>6. ~WakeSucceeds /\ ~WakeFails /\ ~WakeAborts /\ ~DrainFails /\ ~Wakeup /\ ~Crash
  BY DEF WakeSucceeds, WakeFails, WakeAborts, DrainFails, Wakeup, Crash, Goto
<1> QED
  BY <1>1, <1>2, <1>3, <1>4, <1>5, <1>6 DEF DeliveryNext, Daemon, deliveryVars

(* What the ledger calls for, case by case.                                *)
LEMMA ActiveIsCalled ==
    ASSUME BrokerInv, CaughtUp, NEW s, Active(cases, s)
    PROVE  Called(s)
<1>1. /\ UndisposedHaveCases /\ EarlyConsumptionsHaveCases
      /\ SignalsHaveCases /\ StaleCandidatesHaveOneCase
  BY UndisposedAreCases, EarlyConsumptionsAreCases, SignalsAreCases, StaleCandidatesAreCases
<1>2. s \in DOMAIN cases /\ WellFormed(cases) /\ R2Holds(cases, Len(log))
  BY DEF Active, BrokerInv, Governs, CaughtUp
<1>3. /\ s.turn \in Turn /\ s.rule \in {"R1", "R2", "R4", "R5"}
      /\ s.rule = "R1" => s = R1(s.turn)
      /\ s.rule = "R2" => s = R2(s.turn, s.n) /\ s.n \in Nat
      /\ s.rule = "R4" => s = R4(s.turn, s.what) /\ s.what \in AnySignal
      /\ s.rule = "R5" => s = R5(s.turn, s.n) /\ s.n \in Nat
  <2>1. Named(s)
    BY <1>2 DEF WellFormed
  <2> QED
    BY <2>1, NamedFacts
<1>4. CASE s.rule = "R1"
  <2>1. Undisposed(s.turn)
    BY <1>1, <1>3, <1>4 DEF UndisposedHaveCases
  <2> QED
    BY <1>4, <2>1 DEF Called
<1>5. CASE s.rule = "R2"
  <2>1. s.n \in Consumptions(Len(log)) /\ s = R2(log[s.n].turn, s.n)
    BY <1>2, <1>5 DEF R2Holds, R2Justified
  <2>2. ConsumedEarly(s.n)
    BY <1>1, <2>1 DEF EarlyConsumptionsHaveCases
  <2> QED
    BY <1>5, <2>2 DEF Called
<1>6. CASE s.rule = "R4"
  <2>1. Unresolved(s.turn, s.what)
    BY <1>1, <1>3, <1>6 DEF SignalsHaveCases
  <2> QED
    BY <1>6, <2>1 DEF Called
<1>7. CASE s.rule = "R5"
  <2>1. s \in ActiveR5(cases, s.turn)
    BY <1>2, <1>7 DEF ActiveR5
  <2>2. cases[s].revision = LatestRevision(Len(log)) /\ StaleCandidate(s.turn)
    BY <1>1, <1>3, <2>1 DEF StaleCandidatesHaveOneCase
  <2> QED
    BY <1>7, <2>2 DEF Called
<1> QED
  BY <1>3, <1>4, <1>5, <1>6, <1>7

(* A wake is decided on only for a case that the ledger calls for up to    *)
(* its last event (reserve_issue_finding_for_delivery).                    *)
THEOREM OnlyOpenIssuesReserved == DeliverySpec => OnlyOpenIssuesAreReserved
<1>1. ASSUME DeliveryInv, [DeliveryNext]_deliveryVars, pc = "reserving", pc' = "waking"
      PROVE  Called(current)
  <2>1. Reserve
    BY <1>1, ReservesOnly
  <2>2. CaughtUpNow /\ current \in Undelivered
    BY <1>1, <2>1 DEF Reserve, Goto
  <2>3. Active(cases, current) /\ current \in DOMAIN cases
    BY <2>2 DEF Undelivered
  <2>4. BrokerInv /\ CaughtUp
    BY <1>1, <2>2, <2>3 DEF DeliveryInv, BrokerInv, CaughtUp, CaughtUpNow
  <2> QED
    BY <2>3, <2>4, ActiveIsCalled
<1>2. DeliveryInv /\ [DeliveryNext]_deliveryVars
        => [pc = "reserving" /\ pc' = "waking" => Called(current)]_deliveryVars
  BY <1>1
<1> QED
  BY <1>2, DeliveryInvariance, PTL DEF DeliverySpec, OnlyOpenIssuesAreReserved

(* A wake is repeated only after one that failed                           *)
(* (release_delivery_reservation, mark_delivered_to_lead).                 *)
THEOREM RepeatsOnlyFailedWakes == DeliverySpec => OnlyFailedWakesAreRepeated
<1>1. ASSUME DeliveryInv, [DeliveryNext]_deliveryVars, pc = "reserving", pc' = "waking",
             current \in DOMAIN woken
      PROVE  woken[current] = "failed"
  <2>1. Reserve
    BY <1>1, ReservesOnly
  <2>2. current \in Undelivered
    BY <1>1, <2>1 DEF Reserve, Goto
  <2>3. current \notin DOMAIN delivery /\ cases[current].status # "CLOSED"
    BY <2>2 DEF Undelivered, Unmarked, Active
  <2> QED
    BY <1>1, <2>3 DEF DeliveryInv, WokenAreMarked
<1>2. DeliveryInv /\ [DeliveryNext]_deliveryVars
        => [pc = "reserving" /\ pc' = "waking" /\ current \in DOMAIN woken =>
               woken[current] = "failed"]_deliveryVars
  BY <1>1
<1> QED
  BY <1>2, DeliveryInvariance, PTL DEF DeliverySpec, OnlyFailedWakesAreRepeated

(* The ledger is written as SemanticLedger says beside the daemon as well. *)
THEOREM DeliveryKeepsLedger == DeliverySpec => LedgerSpec
<1>1. DeliveryInit => LedgerInit
  BY DEF DeliveryInit, BrokerInit
<1>2. \A n : Processes(n) => UNCHANGED log
  BY DEF Processes, Enable, ProcessPending, brokerVars
<1>3. \A s, verdict : RecordFinding(s, verdict) => UNCHANGED log
  BY DEF RecordFinding
<1>4. ASSUME [DeliveryNext]_deliveryVars PROVE [Write]_log
  <2>1. CASE LedgerGrows
    BY <2>1 DEF LedgerGrows, WriteEvent
  <2>2. CASE Replay \/ Probe
    BY <1>2, <2>2 DEF Replay, Probe
  <2>3. CASE \E s \in todo : ReviewSucceeds(s) \/ ReviewFails(s)
    BY <1>3, <2>3 DEF ReviewSucceeds, ReviewFails, brokerVars
  <2>4. CASE \E s \in todo : Deliver(s)
    BY <2>4 DEF Deliver, brokerVars
  <2>5. CASE \/ Start \/ SelectCases \/ EndReviews \/ SelectFindings
             \/ Reserve \/ Mark \/ EndDeliveries
    BY <2>5 DEF Start, SelectCases, EndReviews, SelectFindings, Reserve, Mark, EndDeliveries,
                brokerVars
  <2>6. CASE WakeSucceeds \/ WakeFails \/ WakeAborts \/ DrainFails \/ Wakeup \/ Crash
    BY <2>6 DEF WakeSucceeds, WakeFails, WakeAborts, DrainFails, Wakeup, Crash, brokerVars
  <2>7. CASE UNCHANGED deliveryVars
    BY <2>7 DEF deliveryVars, brokerVars
  <2> QED
    BY <1>4, <2>1, <2>2, <2>3, <2>4, <2>5, <2>6, <2>7 DEF DeliveryNext, Daemon
<1> QED
  BY <1>1, <1>4, PTL DEF DeliverySpec, LedgerSpec
=============================================================================
