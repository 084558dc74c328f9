------------------------- MODULE SupervisorDelivery -------------------------
(***************************************************************************)
(* The daemon around SupervisorBroker: serve and _drain_durable            *)
(* (supervisor_broker.py) with AutonomousSupervisorRuntime                 *)
(* (supervisor_control.py).  A drain replays the ledger, asks the          *)
(* Supervisor to review open cases, replays again, and wakes the Lead for  *)
(* each issue, replaying before every wake; it is one task, so no event is *)
(* applied while it waits for an agent, but the ledger grows meanwhile.    *)
(* BrokerInstanceLock keeps a second daemon out; --once is one replay and  *)
(* --supervise-once one drain of the same steps.                           *)
(*                                                                         *)
(* Within a batch the cases are taken in any order.  The control plane of  *)
(* two agents is left out but for its failures.                            *)
(***************************************************************************)
EXTENDS SupervisorBroker

CONSTANTS
    ReviewLimit,  \* SUPERVISOR_BATCH_LIMIT
    MayCrash      \* the daemon may die and be started again

ASSUME DeliveryAssumption == ReviewLimit \in Nat \ {0} /\ MayCrash \in BOOLEAN

VARIABLES
    pc,        \* where the drain is
    todo,      \* the cases of its current batch still to be handled
    current,   \* the case it wakes the Lead for
    failed,    \* a review or a wake of this drain failed
    full,      \* a batch of this drain was as large as its limit
    pending,   \* a drain is due: serve begins with two, a Herdr event is buffered
    delivery,  \* the delivery marks of the findings
    woken      \* how this daemon's last wake about a case ended (not in the code)

deliveryVars == <<brokerVars, pc, todo, current, failed, full, pending, delivery, woken>>

NoCase == [rule |-> "", turn |-> NoTurn, n |-> 0, what |-> ""]

(* The replays of a drain, and where each of them leads.                   *)
Replayed == [replaying |-> "to review", replaying_again |-> "to deliver",
             replaying_before_wake |-> "reserving"]

DeliveryTypeOK ==
    /\ BrokerTypeOK
    /\ pc \in DOMAIN Replayed \cup {"down", "to review", "reviewing", "to deliver", "delivering",
                                     "reserving", "waking", "marking", "probing", "idle"}
    /\ todo \subseteq DOMAIN cases
    /\ current \in DOMAIN cases \cup {NoCase}
    /\ {failed, full, pending} \subseteq BOOLEAN
    /\ DOMAIN delivery \subseteq DOMAIN cases
    /\ \A s \in DOMAIN delivery : delivery[s] \in {"reserved", "delivered"}
    /\ DOMAIN woken \subseteq DOMAIN cases
    /\ \A s \in DOMAIN woken : woken[s] \in {"told", "failed", "aborted"}

-----------------------------------------------------------------------------
(* What is selected: pending_unreviewed_cases and                          *)
(* issue_findings_needing_delivery, the oldest cases up to the limit.      *)

Unreviewed == {s \in DOMAIN cases : cases[s].status = "OPEN" /\ cases[s].verdict = "none"}

UnmarkedOrDelivered(s) == s \in DOMAIN delivery => delivery[s] = "delivered"

Unmarked(s) == s \notin DOMAIN delivery

Undelivered ==
    {s \in DOMAIN cases : cases[s].verdict = "issue" /\ Active(cases, s) /\ Unmarked(s)}

Oldest(S) ==
    {B \in SUBSET S :
        /\ Cardinality(B) = IF Cardinality(S) < ReviewLimit THEN Cardinality(S) ELSE ReviewLimit
        /\ \A s \in B, u \in S \ B : cases[s].opened <= cases[u].opened}

-----------------------------------------------------------------------------
DeliveryInit ==
    /\ BrokerInit
    /\ pc = "down" /\ todo = {} /\ current = NoCase /\ failed = FALSE /\ full = FALSE
    /\ pending = FALSE /\ delivery = <<>> /\ woken = <<>>

(* The steps below leave to the drain what only some of them change.       *)
Goto(place) == pc' = place

Begin == Goto("replaying") /\ todo' = {} /\ current' = NoCase /\ failed' = FALSE /\ full' = FALSE

Serve == Begin /\ pending' = TRUE

WithdrawnNever(marks) == marks

(* The undelivered reservations of a daemon that died are withdrawn.       *)
Withdrawn(marks) == [s \in {u \in DOMAIN marks : marks[u] = "delivered"} |-> "delivered"]

Start ==
    /\ pc = "down" /\ Serve /\ woken' = <<>>
    /\ delivery' = Withdrawn(delivery)
    /\ UNCHANGED brokerVars

Crash ==
    /\ MayCrash /\ pc # "down" /\ Goto("down")
    /\ todo' = {} /\ current' = NoCase /\ failed' = FALSE /\ full' = FALSE
    /\ pending' = FALSE
    /\ UNCHANGED <<brokerVars, delivery, woken>>

(* The drain ends with an error (the control plane does not start, or a    *)
(* review raises what handle_pending_cases does not catch): serve begins   *)
(* another.                                                                *)
DrainFails ==
    /\ pc \in {"to review", "to deliver"} \/ (pc = "reviewing" /\ todo # {})
    /\ Serve
    /\ UNCHANGED <<brokerVars, delivery, woken>>

(* process_pending processed n events; the first call writes the state     *)
(* row.                                                                    *)
Processes(n) ==
    \/ Enable /\ n = 0
    \/ enabled /\ cursor = Len(log) /\ n = 0 /\ UNCHANGED brokerVars
    \/ ProcessPending /\ n = BatchEnd - cursor

(* replay_to_quiescence: a full batch is followed by another.              *)
Replay ==
    /\ pc \in DOMAIN Replayed
    /\ \E n \in 0..BatchLimit : Processes(n) /\ Goto(IF n = BatchLimit THEN pc ELSE Replayed[pc])
    /\ UNCHANGED <<todo, current, failed, full, pending, delivery, woken>>

SelectCases ==
    /\ pc = "to review" /\ Goto("reviewing")
    /\ todo' \in Oldest(Unreviewed) /\ full' = (Cardinality(todo') >= ReviewLimit)
    /\ UNCHANGED <<brokerVars, current, failed, pending, delivery, woken>>

ReviewSucceeds(s) ==
    /\ pc = "reviewing" /\ s \in todo /\ todo' = todo \ {s}
    /\ \E verdict \in {"issue", "no_issue"} : RecordFinding(s, verdict)
    /\ UNCHANGED <<pc, current, failed, full, pending, delivery, woken>>

ReviewFails(s) ==
    /\ pc = "reviewing" /\ s \in todo /\ todo' = todo \ {s} /\ failed' = TRUE
    /\ UNCHANGED <<brokerVars, pc, current, full, pending, delivery, woken>>

EndReviews ==
    /\ pc = "reviewing" /\ todo = {} /\ Goto("replaying_again")
    /\ UNCHANGED <<brokerVars, todo, current, failed, full, pending, delivery, woken>>

SelectFindings ==
    /\ pc = "to deliver" /\ Goto("delivering")
    /\ todo' \in Oldest(Undelivered) /\ full' = (full \/ Cardinality(todo') >= ReviewLimit)
    /\ UNCHANGED <<brokerVars, current, failed, pending, delivery, woken>>

Deliver(s) ==
    /\ pc = "delivering" /\ s \in todo /\ Goto("replaying_before_wake")
    /\ todo' = todo \ {s} /\ current' = s
    /\ UNCHANGED <<brokerVars, failed, full, pending, delivery, woken>>

NothingMissed == TRUE

CaughtUpNow == cursor = Len(log)

(* reserve_issue_finding_for_delivery, in one transaction.                 *)
Reserve ==
    /\ pc = "reserving"
    /\ IF CaughtUpNow /\ current \in Undelivered
       THEN /\ Goto("waking")
            /\ delivery' = [s \in DOMAIN delivery \cup {current} |->
                              IF s = current THEN "reserved" ELSE delivery[s]]
            /\ UNCHANGED current
       ELSE Goto("delivering") /\ current' = NoCase /\ UNCHANGED delivery
    /\ UNCHANGED <<brokerVars, todo, failed, full, pending, woken>>

Unreserved == [s \in DOMAIN delivery \ {current} |-> delivery[s]]

Woke(outcome) ==
    woken' = [s \in DOMAIN woken \cup {current} |-> IF s = current THEN outcome ELSE woken[s]]

WakeSucceeds ==
    /\ pc = "waking" /\ Goto("marking") /\ Woke("told")
    /\ UNCHANGED <<brokerVars, todo, current, failed, full, pending, delivery>>

(* A wake that raises RuntimeError or ValueError: the prompt may have      *)
(* reached the Lead all the same, when the command ran into its timeout or *)
(* failed after it was sent.                                               *)
WakeFails ==
    /\ pc = "waking" /\ Goto("delivering") /\ Woke("failed")
    /\ current' = NoCase /\ failed' = TRUE /\ delivery' = Unreserved
    /\ UNCHANGED <<brokerVars, todo, full, pending>>

(* Another error: an OSError of the wake, or a DatabaseError when it is    *)
(* marked or its reservation released.  The drain ends and serve begins    *)
(* another; the reservation stays.                                         *)
WakeAborts ==
    /\ pc \in {"waking", "marking"} /\ Serve /\ Woke("aborted")
    /\ UNCHANGED <<brokerVars, delivery>>

(* mark_delivered_to_lead                                                  *)
Mark ==
    /\ pc = "marking" /\ Goto("delivering") /\ current' = NoCase
    /\ IF Active(cases, current)
       THEN /\ delivery' = [delivery EXCEPT ![current] = "delivered"]
            /\ cases' = [cases EXCEPT ![current].status = "WAITING_FOR_EVIDENCE"]
       ELSE delivery' = Unreserved /\ UNCHANGED cases
    /\ UNCHANGED <<log, enabled, floor, cursor, todo, failed, full, pending, woken>>

EndDeliveries ==
    /\ pc = "delivering" /\ todo = {}
    /\ IF failed THEN Serve
       ELSE Goto("probing") /\ UNCHANGED <<todo, current, failed, full, pending>>
    /\ UNCHANGED <<brokerVars, delivery, woken>>

AgainForEvents(n) == n # 0

Again(n) == n # 0 \/ full

(* The last replay finds events, or a batch may have left cases behind.    *)
Probe ==
    /\ pc = "probing"
    /\ \E n \in 0..BatchLimit :
          /\ Processes(n)
          /\ IF Again(n) THEN Begin
             ELSE Goto("idle") /\ UNCHANGED <<todo, current, failed, full>>
    /\ UNCHANGED <<pending, delivery, woken>>

(* A Herdr event, perhaps about nothing, or the second drain of serve.     *)
Wakeup ==
    /\ pc = "idle" /\ Begin /\ pending' = FALSE
    /\ UNCHANGED <<brokerVars, delivery, woken>>

(* Whoever writes an event makes Herdr report something soon after.        *)
LedgerGrows ==
    /\ WriteEvent /\ pending' = (pc # "down")
    /\ UNCHANGED <<pc, todo, current, failed, full, delivery, woken>>

Daemon ==
    \/ Start \/ Replay \/ SelectCases \/ EndReviews
    \/ SelectFindings \/ (\E s \in todo : Deliver(s)) \/ Reserve \/ Mark
    \/ EndDeliveries \/ Probe

DeliveryNext ==
    \/ LedgerGrows
    \/ Daemon
    \/ \E s \in todo : ReviewSucceeds(s) \/ ReviewFails(s)
    \/ WakeSucceeds \/ WakeFails \/ WakeAborts
    \/ DrainFails \/ Wakeup \/ Crash

DeliverySpec == DeliveryInit /\ [][DeliveryNext]_deliveryVars

-----------------------------------------------------------------------------
(* Fairness: the daemon runs and, at last, does not die any more; the      *)
(* control plane does not fail for ever, nor every review, nor every wake. *)
Fairness ==
    /\ WF_deliveryVars(Daemon) /\ <>[][pc' # "down"]_deliveryVars
    /\ SF_deliveryVars(SelectCases) /\ SF_deliveryVars(SelectFindings)
    /\ SF_deliveryVars(\E s \in todo : ReviewSucceeds(s))
    /\ SF_deliveryVars(WakeSucceeds)
    /\ WF_deliveryVars(pending /\ Wakeup)

LiveSpec == DeliverySpec /\ Fairness

-----------------------------------------------------------------------------
(* Properties.                                                             *)

Called(s) ==
    CASE s.rule = "R1" -> Undisposed(s.turn)
      [] s.rule = "R2" -> ConsumedEarly(s.n)
      [] s.rule = "R4" -> Unresolved(s.turn, s.what)
      [] s.rule = "R5" -> StaleCandidate(s.turn) /\ cases[s].revision = LatestRevision(Len(log))

(* A wake is decided on only while the ledger, up to its very last event,  *)
(* calls for the case: a closure that was committed before suppresses it.  *)
OnlyOpenIssuesAreReserved ==
    [][pc = "reserving" /\ pc' = "waking" => Called(current)]_deliveryVars

(* A daemon wakes the Lead again about a case only after a wake that       *)
(* failed, of which it cannot know whether it reached the Lead: never      *)
(* after one that succeeded, whatever became of its mark.                  *)
OnlyFailedWakesAreRepeated ==
    [][pc = "reserving" /\ pc' = "waking" /\ current \in DOMAIN woken =>
          woken[current] = "failed"]_deliveryVars

(* Whatever is raised, in batches of any size and through failures and     *)
(* crashes: in the end every event is applied and every case reviewed.     *)
EveryCaseIsReviewed == <>[](cursor = Len(log) /\ Unreviewed = {})

(* In the end the Lead was told of every issue that is not closed, but for *)
(* those whose wake, or the mark of it, ended in an error that serve alone *)
(* catches: their reservation stays until the daemon is started again.     *)
EveryIssueReachesLead ==
    <>[](\A s \in DOMAIN cases :
            cases[s].verdict = "issue" /\ Active(cases, s) =>
                /\ s \in DOMAIN delivery
                /\ delivery[s] = "delivered" \/ (s \in DOMAIN woken /\ woken[s] = "aborted"))
=============================================================================
