-------------------------- MODULE SupervisorBroker --------------------------
(***************************************************************************)
(* SupervisorBroker (supervisor_broker.py): replays the semantic ledger    *)
(* and opens and closes one governance case per subject.  A transaction    *)
(* applies the next batch of events and moves the cursor; within it the    *)
(* handlers read the whole ledger, which may be ahead of the event they    *)
(* apply.  A broker that dies leaves the last committed transaction.       *)
(*                                                                         *)
(* Left out: R3, since the one scope any caller claims is a whole          *)
(* repository that must be free, and so never overlaps another claim; the  *)
(* repair of a state row without a floor; case ids, details and health.    *)
(***************************************************************************)
EXTENDS SemanticLedger

CONSTANT BatchLimit  \* BROKER_BATCH_LIMIT

ASSUME BatchAssumption == BatchLimit \in Nat \ {0}

VARIABLES
    enabled,  \* the broker has written its state row
    floor,    \* supervision_floor_seq
    cursor,   \* last_processed_seq
    cases     \* supervisor_cases with supervisor_findings, by subject

brokerVars == <<log, enabled, floor, cursor, cases>>

-----------------------------------------------------------------------------
(* A subject has one case ever: its fingerprint is UNIQUE.                 *)
Subject == [rule: {"R1", "R2", "R4", "R5"}, turn: Turn, n: Nat, what: AnySignal \cup {""}]

subject(rule, t, n, what) == [rule |-> rule, turn |-> t, n |-> n, what |-> what]

R1(t) == subject("R1", t, 0, "")
R2(t, seq) == subject("R2", t, seq, "")
R4(t, signal) == subject("R4", t, 0, signal)
R5(t, revision) == subject("R5", t, revision, "")

(* revision is the current_revision of an R5 case, and 0 elsewhere.        *)
Case == [status: {"OPEN", "WAITING_FOR_EVIDENCE", "CLOSED"}, opened: Nat, revision: Nat,
         runtimeBlocked: BOOLEAN, verdict: {"none", "issue", "no_issue"}]

case(k, revision, blocked) ==
    [status |-> "OPEN", opened |-> k, revision |-> revision, runtimeBlocked |-> blocked,
     verdict |-> "none"]

BrokerTypeOK ==
    /\ enabled \in BOOLEAN
    /\ floor \in Nat /\ cursor \in Nat
    /\ DOMAIN cases \subseteq Subject
    /\ \A s \in DOMAIN cases : cases[s] \in Case

Active(C, s) == s \in DOMAIN C /\ C[s].status # "CLOSED"

ActiveR5(C, t) == {s \in DOMAIN C : s.rule = "R5" /\ s.turn = t /\ Active(C, s)}

(* _open_case: INSERT OR IGNORE.                                           *)
Opening(C, S, c) ==
    [s \in DOMAIN C \cup S |-> IF s \in DOMAIN C THEN C[s] ELSE c]

(* _close_cases                                                            *)
Closing(C, S) ==
    [s \in DOMAIN C |-> IF s \in S THEN [C[s] EXCEPT !.status = "CLOSED"] ELSE C[s]]

-----------------------------------------------------------------------------
(* The handlers: the cases after the k-th event, C those before.           *)

Decided(t, actions) == Disposed(t, actions, Len(log))

StaleAt(t, k) == captured[t] # 0 /\ LatestRevision(k) > captured[t]

Response(C, k) ==
    LET t == log[k].turn
        unanswered == IF Decided(t, Action) THEN C ELSE Opening(C, {R1(t)}, case(k, 0, FALSE))
        unblocked == Closing(unanswered, {s \in DOMAIN C : C[s].runtimeBlocked
                                                            /\ session[s.turn] = session[t]})
        latest == LatestRevision(k)
    IN  IF StaleAt(t, k) THEN Opening(unblocked, {R5(t, latest)}, case(k, latest, FALSE))
        ELSE unblocked

ConsumedLate(C, k) ==
    IF Decided(log[k].turn, {"accept"}) THEN C
    ELSE Opening(C, {R2(log[k].turn, k)}, case(k, 0, FALSE))

Consumed(C, k) ==
    IF Disposed(log[k].turn, {"accept"}, k - 1) THEN C
    ELSE Opening(C, {R2(log[k].turn, k)}, case(k, 0, FALSE))

Resolved(C, k) == Closing(C, {s \in DOMAIN C : s.rule = "R2" /\ s.n = log[k].n})

SignalledUnlessDecided(C, k) ==
    LET e == log[k]
        blocked == e.what = "runtime_blocked"
    IN  IF Decided(e.turn, Action) THEN C
        ELSE Opening(C, {R4(e.turn, IF blocked THEN "BLOCKED" ELSE e.what)},
                     case(k, 0, blocked))

Signalled(C, k) ==
    LET e == log[k]
        blocked == e.what = "runtime_blocked"
    IN  IF Decided(e.turn, Action \ {"defer"}) THEN C
        ELSE Opening(C, {R4(e.turn, IF blocked THEN "BLOCKED" ELSE e.what)},
                     case(k, 0, blocked))

SignalResolved(C, k) == Closing(C, {R4(log[k].turn, log[k].what)})

OutdatedOrRetired(k) ==
    {t \in Turn :
        /\ \E i \in Seqs("peer.response", t, k - 1) : i > floor
        /\ StaleAt(t, k)
        /\ ~\E i \in Reconciliations(t, k - 1) :
              log[i].what = "revalidated" /\ log[i].n >= log[k].n}

(* The responses after the floor that the revision of event k outdates.    *)
Outdated(k) ==
    {t \in Turn :
        /\ \E i \in Seqs("peer.response", t, k - 1) : i > floor
        /\ StaleAt(t, k)
        /\ ~\E i \in Reconciliations(t, k - 1) :
              /\ \A j \in Reconciliations(t, k - 1) : j <= i
              /\ log[i].what \in Terminal
                 \/ (log[i].what = "revalidated" /\ log[i].n >= log[k].n)}

RevisedInPlace(C, k) ==
    LET r == log[k].n
        behind == {s \in DOMAIN C : \E t \in Outdated(k) : s \in ActiveR5(C, t)}
        due == {t \in Outdated(k) : ActiveR5(C, t) = {}}
        moved == [s \in DOMAIN C |->
                    IF s \in behind THEN [C[s] EXCEPT !.revision = r] ELSE C[s]]
    IN  Opening(moved, {R5(t, r) : t \in due}, case(k, r, FALSE))

(* An unreviewed case is refreshed in place, a reviewed one is replaced.   *)
Revised(C, k) ==
    LET r == log[k].n
        behind == {s \in DOMAIN C : \E t \in Outdated(k) : s \in ActiveR5(C, t)
                                                            /\ C[s].revision < r}
        fresh == {s \in behind : C[s].status = "OPEN" /\ C[s].verdict = "none"}
        due == {t \in Outdated(k) : ActiveR5(C, t) \subseteq behind \ fresh}
        moved == [s \in DOMAIN C |->
                    IF s \in fresh THEN [C[s] EXCEPT !.revision = r] ELSE C[s]]
    IN  Opening(Closing(moved, behind \ fresh), {R5(t, r) : t \in due}, case(k, r, FALSE))

Reconciled(C, k) ==
    Closing(C, {s \in DOMAIN C : s.rule = "R5" /\ s.turn = log[k].turn
                                 /\ C[s].revision <= log[k].n})

AnsweredUnlessDeferred(C, k) ==
    IF log[k].what = "defer" THEN C
    ELSE Closing(C, {s \in DOMAIN C : /\ s.turn = log[k].turn
                                      /\ \/ s.rule \in {"R1", "R4"}
                                         \/ s.rule = "R5" /\ log[k].what = "reject"})

Answered(C, k) ==
    LET action == log[k].what
    IN  Closing(C, {s \in DOMAIN C : /\ s.turn = log[k].turn
                                     /\ \/ s.rule = "R1"
                                        \/ s.rule = "R4" /\ action # "defer"
                                        \/ s.rule = "R5" /\ action = "reject"})

(* _apply_event                                                            *)
Applied(C, k) ==
    CASE log[k].type = "peer.response" -> Response(C, k)
      [] log[k].type = "lead.disposition" -> Answered(C, k)
      [] log[k].type = "candidate.reconciled" -> Reconciled(C, k)
      [] log[k].type = "dependency.consumed" -> Consumed(C, k)
      [] log[k].type = "dependency.consumption_resolved" -> Resolved(C, k)
      [] log[k].type = "peer.signal" -> Signalled(C, k)
      [] log[k].type = "peer.signal_resolved" -> SignalResolved(C, k)
      [] log[k].type = "work_item.revision_changed" -> Revised(C, k)
      [] OTHER -> C

-----------------------------------------------------------------------------
BrokerInit ==
    /\ LedgerInit
    /\ enabled = FALSE /\ floor = 0 /\ cursor = 0 /\ cases = <<>>

(* _ensure_state, the first time: what happened before is not supervised.  *)
Enable ==
    /\ ~enabled /\ enabled' = TRUE
    /\ floor' = Len(log) /\ cursor' = Len(log)
    /\ UNCHANGED <<log, cases>>

BatchEnd == IF cursor + BatchLimit < Len(log) THEN cursor + BatchLimit ELSE Len(log)

(* process_pending: one transaction.                                       *)
ProcessPending ==
    LET replayed[k \in cursor..BatchEnd] ==
            IF k = cursor THEN cases ELSE Applied(replayed[k - 1], k)
    IN  /\ enabled /\ cursor < Len(log)
        /\ cases' = replayed[BatchEnd]
        /\ cursor' = BatchEnd
        /\ UNCHANGED <<log, enabled, floor>>

(* record_finding, for a case it was asked to review: a case that was      *)
(* closed meanwhile gets none.                                             *)
RecordFinding(s, verdict) ==
    /\ s \in DOMAIN cases /\ cases[s].status = "OPEN" /\ cases[s].verdict = "none"
    /\ cases' = [cases EXCEPT ![s].verdict = verdict,
                              ![s].status = IF verdict = "no_issue" THEN "WAITING_FOR_EVIDENCE"
                                            ELSE @]
    /\ UNCHANGED <<log, enabled, floor, cursor>>

WriteEvent == Write /\ UNCHANGED <<enabled, floor, cursor, cases>>

BrokerNext ==
    \/ WriteEvent
    \/ Enable
    \/ ProcessPending
    \/ \E s \in DOMAIN cases, verdict \in {"issue", "no_issue"} : RecordFinding(s, verdict)

BrokerSpec == BrokerInit /\ [][BrokerNext]_brokerVars

-----------------------------------------------------------------------------
(* Properties.  Once the broker caught up with the ledger, the cases it    *)
(* holds open are those that the contract of each rule names.              *)

CaughtUp == enabled /\ cursor = Len(log)

After(S, k) == {i \in S : i > k}

(* R1: a supervised response that the Lead has not disposed of.            *)
Undisposed(t) ==
    After(Seqs("peer.response", t, Len(log)), floor) # {} /\ ~Decided(t, Action)

UndisposedHaveCases ==
    CaughtUp => \A t \in Turn : Active(cases, R1(t)) <=> Undisposed(t)

(* R2: a dependency consumed before the Lead accepted it, until exactly    *)
(* that consumption is remedied; a later acceptance does not erase it.     *)
ConsumedEarly(i) ==
    i > floor /\ ~Disposed(log[i].turn, {"accept"}, i) /\ ~Remedied(i, Len(log))

EarlyConsumptionsHaveCases ==
    CaughtUp => \A i \in Consumptions(Len(log)) :
        Active(cases, R2(log[i].turn, i)) <=> ConsumedEarly(i)

Raised(t, s) == {i \in Seqs("peer.signal", t, Len(log)) : i > floor /\ Matches(log[i], s)}

SignalSettled(t, s, i) ==
    \/ Decided(t, {"accept", "reject"})
    \/ \E j \in After(Seqs("peer.signal_resolved", t, Len(log)), i) : log[j].what = s
    \/ /\ log[i].what = "runtime_blocked"
       /\ \E u \in Turn : /\ session[u] = session[t]
                          /\ After(Seqs("peer.response", u, Len(log)), i) # {}

(* The signal s was raised on t for the first time and is not settled.     *)
FirstUnresolved(t, s) ==
    \E i \in Raised(t, s) : (\A j \in Raised(t, s) : i <= j) /\ ~SignalSettled(t, s, i)

(* s was raised on t, perhaps again, and is not settled since.             *)
Unresolved(t, s) == \E i \in Raised(t, s) : ~SignalSettled(t, s, i)

(* R4: a signal has its case from the first time it is raised until it is  *)
(* resolved, the Lead disposes of the turn for good, or the session of a   *)
(* blocked Peer answers after all; no case is left for what is settled.    *)
SignalsHaveCases ==
    CaughtUp => \A t \in Turn, s \in AnySignal :
        /\ FirstUnresolved(t, s) => Active(cases, R4(t, s))
        /\ Active(cases, R4(t, s)) => Unresolved(t, s)

(* R4 as documented, for a signal that is raised again too: "REOPEN_REQUEST *)
(* / DEPENDENCY_REQUEST / BLOCKED remains unresolved".                     *)
UnresolvedSignalsHaveCases ==
    CaughtUp => \A t \in Turn, s \in AnySignal :
        Unresolved(t, s) => Active(cases, R4(t, s))

(* Since its response or the latest revision, whichever came last, the     *)
(* candidate was neither reconciled nor rejected, and it was not retired.  *)
Unreconciled(t) ==
    \E i \in After(Seqs("peer.response", t, Len(log)), floor) :
        LET settling == {j \in Reconciliations(t, Len(log)) :
                            log[j].n = LatestRevision(Len(log))}
                        \cup {j \in Dispositions(t, Len(log)) : log[j].what = "reject"}
        IN  /\ ~Retired(t, Len(log))
            /\ \A j \in settling : \E k \in After(RevisionSeqs(Len(log)), j) : k > i

StaleCandidate(t) == StaleAt(t, Len(log)) /\ Unreconciled(t)

(* R5: one active case for every unreconciled response to a revision that  *)
(* is not the latest, at the latest revision, and none for any other.      *)
StaleCandidatesHaveOneCase ==
    CaughtUp => \A t \in Turn :
        /\ Cardinality(ActiveR5(cases, t)) <= 1
        /\ \A s \in ActiveR5(cases, t) : cases[s].revision = LatestRevision(Len(log))
        /\ ActiveR5(cases, t) # {} <=> StaleCandidate(t)

(* A finding stays with the case and the revision that was reviewed, and a *)
(* closed case is never opened again.                                      *)
FindingsAreKept ==
    [][\A s \in DOMAIN cases :
          /\ s \in DOMAIN cases'
          /\ cases[s].verdict # "none" =>
                /\ cases'[s].verdict = cases[s].verdict
                /\ cases'[s].revision = cases[s].revision
          /\ cases[s].status = "CLOSED" => cases'[s] = cases[s]]_brokerVars
=============================================================================
