------------------------------ MODULE Delegation ------------------------------
(***************************************************************************)
(* delegate_repo_task and release_write_scope_claim (server.py): how a     *)
(* repository is owned while a Peer writes in it.  Several server          *)
(* processes share one SQLite ledger and one Herdr server.  A process      *)
(* keeps the repositories and sessions of its own calls in memory, the     *)
(* ledger keeps durable write claims, and Herdr keeps the workspaces in    *)
(* which the Peers run: the last two survive the death of a process.       *)
(*                                                                         *)
(* A call is a coroutine; an action is what it does between two awaits.    *)
(* Every await may raise CancelledError instead of returning.              *)
(***************************************************************************)
EXTENDS FiniteSets, Naturals

CONSTANTS
    Call,        \* delegations, each made once: a call is also its turn id and claim id
    Process,     \* server processes; one that dies is started again
    Repository,  \* repositories of repos.yaml
    NoSession,   \* the session of a call that STARTs one
    Arguments    \* what the calls may be asked to do: see Argument

(* A call runs in a process, works in a repository and may resume a        *)
(* session; a session is named by the call that started it.                *)
Argument == [process: Process, repository: Repository, session: Call \cup {NoSession}]

ASSUME CallAssumption ==
    /\ NoSession \notin Call
    /\ Arguments \subseteq [Call -> Argument]

VARIABLES
    args,        \* the arguments of each call
    pc,          \* where each call stands
    guard,       \* _active_repositories of each process
    inUse,       \* _active_sessions of each process
    claims,      \* the active durable write claims
    dispatched,  \* calls with a peer.dispatched event
    sessions,    \* the sessions table: the sessions that may be resumed
    turns,       \* calls whose captured turn is recorded
    result,      \* what the call has to return to its caller
    unconfirmed, \* calls that ended without a confirmed cleanup
    workspace,   \* Herdr: the workspace of each call
    peer         \* Herdr: whether an agent runs in it

callVars == <<args, pc>>
memory == <<guard, inUse>>
ledger == <<claims, dispatched, sessions, turns>>
herdr == <<workspace, peer>>
outcome == <<result, unconfirmed>>
vars == <<callVars, memory, ledger, outcome, herdr>>

-----------------------------------------------------------------------------
Underway == {"preparing", "creating", "starting", "working", "capturing", "closing"}

Over == {"ended", "lost"}

Result == {"none", "refused", "error", "cancelled", "blocked", "captured", "ambiguous"}

TypeOK ==
    /\ pc \in [Call -> {"idle"} \cup Underway \cup Over]
    /\ args \in Arguments
    /\ guard \in [Process -> SUBSET Repository]
    /\ inUse \in [Process -> SUBSET Call]
    /\ claims \subseteq Call
    /\ dispatched \subseteq Call
    /\ sessions \subseteq Call
    /\ turns \subseteq Call
    /\ result \in [Call -> Result]
    /\ unconfirmed \subseteq Call
    /\ workspace \in [Call -> {"none", "open", "closed"}]
    /\ peer \in [Call -> BOOLEAN]

Init ==
    /\ args \in Arguments
    /\ pc = [c \in Call |-> "idle"]
    /\ guard = [p \in Process |-> {}]
    /\ inUse = [p \in Process |-> {}]
    /\ claims = {} /\ dispatched = {} /\ sessions = {} /\ turns = {}
    /\ result = [c \in Call |-> "none"] /\ unconfirmed = {}
    /\ workspace = [c \in Call |-> "none"]
    /\ peer = [c \in Call |-> FALSE]

process(c) == args[c].process

repository(c) == args[c].repository

(* The session of its Peer, and the sessions the call asks for.            *)
Native(c) == IF args[c].session = NoSession THEN c ELSE args[c].session

Resumed(c) == {args[c].session} \ {NoSession}

Goto(c, label) == pc' = [pc EXCEPT ![c] = label] /\ UNCHANGED args

Returns(c, value) == result' = [result EXCEPT ![c] = value] /\ UNCHANGED unconfirmed

-----------------------------------------------------------------------------
(* Before anything is claimed.                                             *)

MayResumeAnywhere(c) == Resumed(c) \subseteq sessions

(* _prepare_resume: the session is registered, for this repository.        *)
MayResume(c) ==
    \A s \in Resumed(c) : s \in sessions /\ repository(s) = repository(c)

Prepare(c) ==
    /\ pc[c] = "idle" /\ MayResume(c)
    /\ Goto(c, "preparing")
    /\ UNCHANGED <<memory, ledger, outcome, herdr>>

(* The repository or the session is in use in this process, another        *)
(* process holds a durable claim on it, or the ledger cannot be written.   *)
Refuse(c) ==
    /\ pc[c] = "preparing"
    /\ Goto(c, "ended") /\ Returns(c, "refused")
    /\ UNCHANGED <<memory, ledger, herdr>>

-----------------------------------------------------------------------------
(* Claiming, in one step: no await suspends between the two claims and the *)
(* dispatch.                                                               *)

GuardFree(c) ==
    /\ repository(c) \notin guard[process(c)]
    /\ Resumed(c) \cap inUse[process(c)] = {}

AlwaysClear(c) == TRUE

(* require_repository_clear, read in the transaction that adds the claim.  *)
RepositoryClear(c) == \A d \in claims : repository(d) # repository(c)

(* _claim_resources, record_write_scope_claim and _record_peer_dispatch.   *)
Dispatch(c) ==
    /\ pc[c] = "preparing" /\ GuardFree(c) /\ RepositoryClear(c)
    /\ guard' = [guard EXCEPT ![process(c)] = @ \cup {repository(c)}]
    /\ inUse' = [inUse EXCEPT ![process(c)] = @ \cup Resumed(c)]
    /\ claims' = claims \cup {c}
    /\ dispatched' = dispatched \cup {c}
    /\ Goto(c, "creating")
    /\ UNCHANGED <<sessions, turns, outcome, herdr>>

(* The dispatch transaction is rolled back (the ledger, or the TaskGraph   *)
(* hook in it, raised).  The claim is taken back, unless that fails too.   *)
DispatchFails(c, taken_back) ==
    /\ pc[c] = "preparing" /\ GuardFree(c) /\ RepositoryClear(c)
    /\ claims' = IF taken_back THEN claims ELSE claims \cup {c}
    /\ Goto(c, "ended") /\ Returns(c, "refused")
    /\ UNCHANGED <<memory, dispatched, sessions, turns, herdr>>

-----------------------------------------------------------------------------
(* Herdr.                                                                  *)

HerdrCreates(c) ==
    /\ pc[c] = "creating" /\ workspace[c] = "none"
    /\ workspace' = [workspace EXCEPT ![c] = "open"]
    /\ UNCHANGED <<callVars, memory, ledger, outcome, peer>>

HerdrStarts(c) ==
    /\ pc[c] = "starting" /\ workspace[c] = "open" /\ ~peer[c]
    /\ peer' = [peer EXCEPT ![c] = TRUE]
    /\ UNCHANGED <<callVars, memory, ledger, outcome, workspace>>

Closed(c) ==
    /\ workspace' = [workspace EXCEPT ![c] = "closed"]
    /\ peer' = [peer EXCEPT ![c] = FALSE]

HerdrCloses(c) ==
    /\ pc[c] = "closing" /\ workspace[c] = "open"
    /\ Closed(c)
    /\ UNCHANGED <<callVars, memory, ledger, outcome>>

(* Somebody closes by hand the workspace of a delegation that is over.     *)
OperatorCloses(c) ==
    /\ pc[c] \in Over /\ workspace[c] = "open"
    /\ Closed(c)
    /\ UNCHANGED <<callVars, memory, ledger, outcome>>

-----------------------------------------------------------------------------
(* The finally clause.                                                     *)

ReleaseGuard(c) ==
    /\ guard' = [guard EXCEPT ![process(c)] = @ \ {repository(c)}]
    /\ inUse' = [inUse EXCEPT ![process(c)] = @ \ Resumed(c)]

CleanupIgnored(c) == UNCHANGED outcome

CleanupFailsDiscarding(c) ==
    /\ unconfirmed' = unconfirmed \cup {c}
    /\ result' = [result EXCEPT ![c] = "error"]

(* The cleanup is not confirmed: a result that was captured is returned    *)
(* with the recovery locators, and without one the call raises.            *)
CleanupFails(c) ==
    /\ unconfirmed' = unconfirmed \cup {c}
    /\ result' = [result EXCEPT ![c] =
                    IF @ \in {"blocked", "captured", "ambiguous"} THEN @ ELSE "error"]

(* There is nothing to close, or it is closed: the durable claim is        *)
(* released if the ledger can be written, the in-process one in any case.  *)
Release(c, written, value) ==
    /\ claims' = IF written THEN claims \ {c} ELSE claims
    /\ ReleaseGuard(c)
    /\ Goto(c, "ended")
    /\ IF written THEN Returns(c, value) ELSE CleanupFails(c)
    /\ UNCHANGED <<dispatched, sessions, turns, herdr>>

(* No workspace id was returned: Herdr refused, or its answer is unusable. *)
CreateFails(c, written) == pc[c] = "creating" /\ Release(c, written, "error")

CloseReturns(c, written) ==
    pc[c] = "closing" /\ workspace[c] = "closed" /\ Release(c, written, result[c])

NeverFails(c) == FALSE

CloseFailsButReleases(c) ==
    /\ pc[c] = "closing"
    /\ ReleaseGuard(c)
    /\ Goto(c, "ended") /\ CleanupFails(c)
    /\ claims' = claims \ {c}
    /\ UNCHANGED <<dispatched, sessions, turns, herdr>>

(* The close command fails, whether or not Herdr closed the workspace: the *)
(* durable claim is retained.                                              *)
CloseFails(c) ==
    /\ pc[c] = "closing"
    /\ ReleaseGuard(c)
    /\ Goto(c, "ended") /\ CleanupFails(c)
    /\ UNCHANGED <<ledger, herdr>>

-----------------------------------------------------------------------------
(* From the workspace to the result.                                       *)

CreateReturns(c) ==
    /\ pc[c] = "creating" /\ workspace[c] = "open"
    /\ Goto(c, "starting")
    /\ UNCHANGED <<memory, ledger, outcome, herdr>>

StartReturns(c) ==
    /\ pc[c] = "starting" /\ peer[c]
    /\ Goto(c, "working")
    /\ UNCHANGED <<memory, ledger, outcome, herdr>>

(* The Peer settles or blocks.  Its session is registered as soon as it is *)
(* known, before anything is made of the outcome.                          *)
Settles(c) ==
    /\ pc[c] = "working"
    /\ sessions' = sessions \cup {Native(c)}
    /\ Goto(c, "capturing")
    /\ UNCHANGED <<memory, claims, dispatched, turns, outcome, herdr>>

(* It blocks: there is no response to wait for.                            *)
Blocks(c, value) ==
    /\ pc[c] = "working" /\ value \in {"blocked", "error"}
    /\ sessions' = sessions \cup {Native(c)}
    /\ Goto(c, "closing") /\ Returns(c, value)
    /\ UNCHANGED <<memory, claims, dispatched, turns, herdr>>

(* A captured response is recorded as a turn, an ambiguous capture only    *)
(* for review.                                                             *)
Captures(c, value) ==
    /\ pc[c] = "capturing" /\ value \in {"captured", "ambiguous", "error"}
    /\ turns' = IF value = "captured" THEN turns \cup {c} ELSE turns
    /\ Goto(c, "closing") /\ Returns(c, value)
    /\ UNCHANGED <<memory, claims, dispatched, sessions, herdr>>

(* Starting, prompting or identifying the agent raises.                    *)
WorkFails(c) ==
    /\ pc[c] \in {"starting", "working"}
    /\ Goto(c, "closing") /\ Returns(c, "error")
    /\ UNCHANGED <<memory, ledger, herdr>>

-----------------------------------------------------------------------------
(* CancelledError, by the await it is raised at.                           *)

CancelPreparing(c) ==
    /\ pc[c] = "preparing"
    /\ Goto(c, "ended") /\ Returns(c, "cancelled")
    /\ UNCHANGED <<memory, ledger, herdr>>

CancelCreating(c, written) == pc[c] = "creating" /\ Release(c, written, "cancelled")

CancelWork(c) ==
    /\ pc[c] \in {"starting", "working", "capturing"}
    /\ Goto(c, "closing") /\ Returns(c, "cancelled")
    /\ UNCHANGED <<memory, ledger, herdr>>

(* The finally clause catches Exception, not CancelledError: it is left    *)
(* at the close, before either claim is released.                          *)
CancelClosing(c) ==
    /\ pc[c] = "closing"
    /\ Goto(c, "ended") /\ Returns(c, "cancelled")
    /\ UNCHANGED <<memory, ledger, herdr>>

-----------------------------------------------------------------------------
(* A process dies, with the calls it runs, and starts again.               *)
Crash(p) ==
    /\ \E c \in Call : process(c) = p /\ pc[c] \in Underway
    /\ pc' = [c \in Call |-> IF process(c) = p /\ pc[c] \in Underway THEN "lost" ELSE pc[c]]
    /\ guard' = [guard EXCEPT ![p] = {}]
    /\ inUse' = [inUse EXCEPT ![p] = {}]
    /\ UNCHANGED <<args, ledger, outcome, herdr>>

(* What the tool asks its caller to verify: the delegation is over and its *)
(* Peer terminated.                                                        *)
Verified(c) == pc[c] \in Over /\ workspace[c] # "open"

(* release_write_scope_claim, called in process p.                         *)
Recover(p, c) ==
    /\ Verified(c) /\ c \in claims
    /\ repository(c) \notin guard[p]
    /\ claims' = claims \ {c}
    /\ UNCHANGED <<callVars, memory, dispatched, sessions, turns, outcome, herdr>>

-----------------------------------------------------------------------------
Next ==
    \/ \E c \in Call : Prepare(c) \/ Refuse(c) \/ Dispatch(c)
    \/ \E c \in Call, b \in BOOLEAN : DispatchFails(c, b)
    \/ \E c \in Call : HerdrCreates(c) \/ HerdrStarts(c) \/ HerdrCloses(c) \/ OperatorCloses(c)
    \/ \E c \in Call, b \in BOOLEAN : CreateFails(c, b) \/ CloseReturns(c, b)
    \/ \E c \in Call : CreateReturns(c) \/ StartReturns(c) \/ WorkFails(c) \/ CloseFails(c)
    \/ \E c \in Call : Settles(c)
    \/ \E c \in Call, v \in Result : Blocks(c, v) \/ Captures(c, v)
    \/ \E c \in Call : CancelPreparing(c) \/ CancelWork(c) \/ CancelClosing(c)
    \/ \E c \in Call, b \in BOOLEAN : CancelCreating(c, b)
    \/ \E p \in Process : Crash(p)
    \/ \E p \in Process, c \in Call : Recover(p, c)

Spec == Init /\ [][Next]_vars

(* The event loop runs, Herdr and the Peer answer with success or failure. *)
Answered(c) ==
    \/ Refuse(c) \/ Dispatch(c)
    \/ \E b \in BOOLEAN : CreateFails(c, b) \/ CloseReturns(c, b)
    \/ CreateReturns(c) \/ StartReturns(c) \/ WorkFails(c) \/ CloseFails(c)
    \/ Settles(c)
    \/ \E v \in Result : Blocks(c, v) \/ Captures(c, v)

FairSpec == Spec /\ \A c \in Call : WF_vars(Answered(c))

-----------------------------------------------------------------------------
(* Properties.                                                             *)

(* At most one Peer works in a repository, whatever processes run, die or  *)
(* start again, as long as recovery is used as the tool asks.              *)
OneWriter ==
    \A c, d \in Call : peer[c] /\ peer[d] /\ c # d => repository(c) # repository(d)

(* No native session is ever driven by two Peers at once.                  *)
OneSessionDriver == \A c, d \in Call : peer[c] /\ peer[d] /\ c # d => Native(c) # Native(d)

(* A Peer works only under the durable claim of its call, until it is      *)
(* gone: no cleanup, cancellation, crash or recovery takes it back before. *)
PeerIsClaimed == \A c \in Call : peer[c] => c \in claims

(* What a call answers tells all, however its cleanup went: a turn that    *)
(* was captured reaches the caller, unless the call was cancelled; and a   *)
(* claim that outlives its call is explained, since the process died, or   *)
(* the caller was told that the cleanup is not confirmed, or cancelled, or *)
(* the dispatch failed.                                                    *)
AnswersTellAll ==
    \A c \in Call : pc[c] = "ended" =>
        /\ c \in turns => result[c] \in {"captured", "cancelled"}
        /\ c \in claims => c \in unconfirmed \/ result[c] \in {"cancelled", "refused"}

(* Every call ends, and gives its caller an answer, unless it is lost.     *)
EveryCallEnds == \A c \in Call : pc[c] = "preparing" ~> pc[c] \in Over

-----------------------------------------------------------------------------
(* What the documentation says and the code does not do.                   *)

(* The claim of a Peer that is verified to be gone can be released         *)
(* explicitly in any process that works on nothing in the repository.      *)
RecoveryIsPossible ==
    \A c \in claims, p \in Process :
        /\ Verified(c)
        /\ \A d \in Call : process(d) = p /\ repository(d) = repository(c) => pc[d] \notin Underway
        => repository(c) \notin guard[p]
=============================================================================
