--------------------------- MODULE SemanticLedger ---------------------------
(***************************************************************************)
(* The semantic ledger of SessionStore (core.py): slp_events, an           *)
(* append-only table that the delegation tool, the Lead's tools and the    *)
(* TaskGraph write, each call in one transaction.  The rows of turns and   *)
(* lead_dispositions are written with their event, so the log determines   *)
(* them.  What a call reads before it starts its transaction (a turn, a    *)
(* signal) never goes away, so every call is one action.                   *)
(*                                                                         *)
(* The ledger is that of one Work Item: an untracked turn names none, and  *)
(* nothing relates the events of two Work Items.  Texts, routes, owners,   *)
(* the write-scope events (module Delegation) and the capture reviews,     *)
(* which nobody reads back, are left out.                                  *)
(***************************************************************************)
EXTENDS Naturals, Sequences, FiniteSets, SequencesExt

CONSTANTS
    Turn,         \* delegated turns
    NoTurn,       \* the turn of an event without one
    session,      \* session[t]: the native session turn t runs in
    captured,     \* captured[t]: the revision in its TaskPacket, 0 if untracked
    Signal,       \* the signals that are raised
    MaxRevision,  \* bound on the revisions of the Work Item
    MaxConsumed,  \* bound on the dependencies consumed
    MaxLog        \* bound on the events written

ASSUME LedgerAssumption ==
    /\ NoTurn \notin Turn /\ IsFiniteSet(Turn)
    /\ captured \in [Turn -> Nat]
    /\ DOMAIN session = Turn
    /\ Signal \subseteq {"REOPEN_REQUEST", "BLOCKED"}
    /\ MaxRevision \in Nat /\ MaxConsumed \in Nat /\ MaxLog \in Nat

VARIABLE log  \* slp_events, by seq

-----------------------------------------------------------------------------
(* The events; n is a Work Item revision or the seq of another event.      *)
(* DEPENDENCY_REQUEST is treated as REOPEN_REQUEST is, repair and resolve  *)
(* as reject, abandoned as superseded: one of each is enough.              *)

AnySignal == {"REOPEN_REQUEST", "BLOCKED"}

Action == {"accept", "reject", "defer"}

Terminal == {"superseded"}

Resolution == Terminal \cup {"revalidated"}

EventType == {"peer.dispatched", "peer.response", "peer.signal", "peer.signal_resolved",
              "lead.disposition", "candidate.accepted", "candidate.reconciled",
              "dependency.consumed", "dependency.consumption_resolved",
              "work_item.revision_changed"}

Event == [type: EventType, turn: Turn \cup {NoTurn}, n: Nat,
          what: {"", "runtime_blocked", "direct", "graph"} \cup AnySignal \cup Action \cup Resolution]

event(type, turn, n, what) == [type |-> type, turn |-> turn, n |-> n, what |-> what]

TypeOK == log \in Seq(Event)

(* The seqs, up to k, of the events of a type on a turn.                   *)
Seqs(type, t, k) == {i \in 1..k : i <= Len(log) /\ log[i].type = type /\ log[i].turn = t}

Responded(t) == Seqs("peer.response", t, Len(log)) # {}

Dispositions(t, k) == Seqs("lead.disposition", t, k)

(* What the Lead decided on t by seq k: the row of t in lead_dispositions. *)
Disposed(t, actions, k) == \E i \in Dispositions(t, k) : log[i].what \in actions

(* The latest recorded revision of the Work Item by seq k, 0 if none.      *)
RevisionSeqs(k) == {i \in 1..k : log[i].type = "work_item.revision_changed"}

LatestRevision(k) ==
    IF RevisionSeqs(k) = {} THEN 0
    ELSE log[CHOOSE i \in RevisionSeqs(k) : \A j \in RevisionSeqs(k) : j <= i].n

Reconciliations(t, k) == Seqs("candidate.reconciled", t, k)

(* The last reconciliation of t by seq k is one of these, at revision r.   *)
LastReconciled(t, resolutions, r, k) ==
    \E i \in Reconciliations(t, k) :
        /\ \A j \in Reconciliations(t, k) : j <= i
        /\ log[i].what \in resolutions /\ log[i].n = r

Retired(t, k) == \E i \in Reconciliations(t, k) : log[i].what \in Terminal

-----------------------------------------------------------------------------
LedgerInit == log = <<>>

Append1(e) == Len(log) < MaxLog /\ log' = Append(log, e)

(* record_work_item_revision: the current revision again changes nothing,  *)
(* an older one is refused.                                                *)
RecordRevision(r) ==
    /\ r > LatestRevision(Len(log))
    /\ Append1(event("work_item.revision_changed", NoTurn, r, ""))

(* delegate_repo_task records the revision in its TaskPacket, and refuses  *)
(* an older one; the dispatch comes some awaits later.                     *)
Observed(t) == captured[t] # 0 => \E i \in RevisionSeqs(Len(log)) : log[i].n = captured[t]

Ended(t) ==
    Responded(t) \/ \E i \in Seqs("peer.signal", t, Len(log)) : log[i].what = "runtime_blocked"

(* A delegation holds its repository, hence its session, until it is over. *)
Underway(t) ==
    /\ ~Ended(t)
    /\ \E i \in Seqs("peer.dispatched", t, Len(log)) :
          \A j \in i+1..Len(log) :
             log[j].type = "peer.dispatched" => session[log[j].turn] # session[t]

(* record_turn, or the signal of a delegation whose agent blocked.         *)
RecordTurn(t) == Underway(t) /\ Append1(event("peer.response", t, captured[t], ""))

RuntimeBlocked(t) == Underway(t) /\ Append1(event("peer.signal", t, captured[t], "runtime_blocked"))

RecordSignal(t, s) == Responded(t) /\ Append1(event("peer.signal", t, captured[t], s))

(* An explicit BLOCKED and a blocked agent are one signal.                 *)
Matches(e, s) == e.what = s \/ (s = "BLOCKED" /\ e.what = "runtime_blocked")

ResolveSignal(t, s) ==
    /\ \E i \in Seqs("peer.signal", t, Len(log)) : Matches(log[i], s)
    /\ Append1(event("peer.signal_resolved", t, captured[t], s))

-----------------------------------------------------------------------------
(* Candidates.                                                             *)

AlwaysCurrent(t) == TRUE

(* The turn was captured at the latest revision, or revalidated for it:    *)
(* assert_turn_current_for_acceptance_in_transaction, and the same test of *)
(* record_dependency_consumed_in_transaction.                              *)
Current(t) ==
    LET latest == LatestRevision(Len(log))
    IN  captured[t] = 0 \/ latest <= captured[t]
        \/ LastReconciled(t, {"revalidated"}, latest, Len(log))

(* record_lead_disposition: a turn is disposed of once.  An acceptance is  *)
(* followed, in its transaction, by candidate.accepted.                    *)
Dispose(t, action) ==
    /\ Responded(t) /\ Dispositions(t, Len(log)) = {}
    /\ action = "accept" => Current(t)
    /\ LET e == event("lead.disposition", t, captured[t], action)
       IN  IF action = "accept"
           THEN /\ Len(log) + 1 < MaxLog
                /\ log' = log \o <<e, event("candidate.accepted", t, captured[t], "")>>
           ELSE Append1(e)

MayReconcileAgain(t, latest) ==
    \A i \in Reconciliations(t, Len(log)) : log[i].n # latest

(* record_candidate_reconciliation, at the latest revision: refused for a  *)
(* candidate that is current, retired, or reconciled at that revision      *)
(* already (the same reconciliation again changes nothing).                *)
MayReconcile(t, latest) ==
    /\ ~Retired(t, Len(log))
    /\ \A i \in Reconciliations(t, Len(log)) : log[i].n # latest

Reconcile(t, resolution) ==
    LET latest == LatestRevision(Len(log))
    IN  /\ Responded(t) /\ latest > captured[t]
        /\ MayReconcile(t, latest)
        /\ Append1(event("candidate.reconciled", t, latest, resolution))

-----------------------------------------------------------------------------
(* Dependencies: consumed by a direct delegation, as the Lead reports it,  *)
(* or by the dispatch of a TaskGraph child, in one transaction.            *)

Consumptions(k) == {i \in 1..k : log[i].type = "dependency.consumed"}

MayRecord(n) == Cardinality(Consumptions(Len(log))) + n <= MaxConsumed

MayConsume(sources) ==
    \A t \in sources : Responded(t) /\ Disposed(t, {"accept"}, Len(log)) /\ Current(t)

Dispatch(t, sources) ==
    LET consumed == {event("dependency.consumed", u, 0, "graph") : u \in sources}
    IN  /\ Seqs("peer.dispatched", t, Len(log)) = {} /\ Observed(t)
        /\ MayConsume(sources)
        /\ MayRecord(Cardinality(sources)) /\ Len(log) + Cardinality(sources) < MaxLog
        /\ log' = log \o <<event("peer.dispatched", t, 0, "")>> \o SetToSeq(consumed)

ConsumeDirectly(t) ==
    Responded(t) /\ MayRecord(1) /\ Append1(event("dependency.consumed", t, 0, "direct"))

Remedied(i, k) ==
    \E j \in 1..k : log[j].type = "dependency.consumption_resolved" /\ log[j].n = i

ResolveConsumption(i) ==
    /\ i \in Consumptions(Len(log)) /\ ~Remedied(i, Len(log))
    /\ Append1(event("dependency.consumption_resolved", log[i].turn, i, ""))

-----------------------------------------------------------------------------
Write ==
    \/ \E r \in 1..MaxRevision : RecordRevision(r)
    \/ \E t \in Turn : \E sources \in SUBSET (Turn \ {t}) : Dispatch(t, sources)
    \/ \E t \in Turn : RecordTurn(t) \/ RuntimeBlocked(t)
    \/ \E t \in Turn, s \in Signal : RecordSignal(t, s)
    \/ \E t \in Turn, s \in AnySignal : ResolveSignal(t, s)
    \/ \E t \in Turn, a \in Action : Dispose(t, a)
    \/ \E t \in Turn, r \in Resolution : Reconcile(t, r)
    \/ \E t \in Turn : ConsumeDirectly(t)
    \/ \E i \in 1..Len(log) : ResolveConsumption(i)

LedgerSpec == LedgerInit /\ [][Write]_log

-----------------------------------------------------------------------------
(* Properties.                                                             *)

(* What the Lead retired is out for good: whatever revisions follow, a     *)
(* tracked candidate is not accepted, reconciled or consumed by a graph    *)
(* again.                                                                  *)
RetiredStaysRetired ==
    \A i \in 1..Len(log) :
        /\ \/ log[i].type = "lead.disposition" /\ log[i].what = "accept"
           \/ log[i].type = "candidate.reconciled"
           \/ log[i].type = "dependency.consumed" /\ log[i].what = "graph"
        /\ captured[log[i].turn] # 0
        => ~Retired(log[i].turn, i - 1)

(* No TaskGraph child starts on evidence that the Lead did not accept, and *)
(* neither an acceptance nor a start rests on evidence that a material     *)
(* revision outdated, unless the Lead revalidated it after that revision.  *)
EvidenceIsUpToDate ==
    \A i \in 1..Len(log) :
        /\ log[i].what = "graph" => Disposed(log[i].turn, {"accept"}, i)
        /\ log[i].what \in {"accept", "graph"} /\ captured[log[i].turn] # 0
           => \A j \in RevisionSeqs(i) :
                 log[j].n > captured[log[i].turn] =>
                     \E k \in j+1..i : k \in Reconciliations(log[i].turn, i)
                                        /\ log[k].what = "revalidated"
=============================================================================
