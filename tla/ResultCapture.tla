----------------------------- MODULE ResultCapture -----------------------------
(***************************************************************************)
(* How the answer of a Peer is found.  The prompt is given through Herdr,  *)
(* which may find the agent stalled (_prompt_and_wait); whenever the       *)
(* native agent stops, its Stop hook runs result_hook.py, which appends an *)
(* event to the sink of this turn; once the agent seems settled the server *)
(* polls the sink (_wait_for_result_capture) and resolves the events to    *)
(* one response, an ambiguity or an error (resolve_capture_events).        *)
(*                                                                         *)
(* Herdr's view of the agent and the hook are not in step: the agent may   *)
(* be seen idle before its event is written.  A response is a name with a  *)
(* length.  Time is a count of ticks to the deadline in force.  What       *)
(* surrounds the turn (claims, workspace, session) is in Delegation.       *)
(***************************************************************************)
EXTENDS Naturals, Sequences, FiniteSets, FiniteSetsExt, Functions

CONSTANTS
    Response,         \* what an agent may say
    Nothing,          \* no response
    length,           \* the length of each response, stripped
    MaxResponses,     \* CAPTURE_MAX_RESPONSES
    MaxChars,         \* CAPTURE_MAX_RESPONSE_CHARS
    SignificantDrop,  \* CAPTURE_MIN_SIGNIFICANT_DROP_CHARS
    ResultWait,       \* NATIVE_RESULT_WAIT_SECONDS, in ticks
    PendingWait,      \* NATIVE_PENDING_RESULT_WAIT_SECONDS, in ticks
    MaxEvents         \* bound: the events of a turn

ASSUME CaptureAssumption ==
    /\ length \in [Response -> Nat \ {0}] /\ Response # {} /\ Nothing \notin Response
    /\ MaxResponses \in Nat \ {0} /\ MaxChars \in Nat /\ SignificantDrop \in Nat
    /\ ResultWait \in Nat /\ PendingWait \in Nat /\ MaxEvents \in Nat

AcceptPercent == 35  \* CAPTURE_LATEST_ACCEPT_RATIO
RejectPercent == 15  \* CAPTURE_HOUSEKEEPING_REJECT_RATIO

(* "quiet" is idle or done; only a stalled prompt tells them apart.        *)
Settled == {"quiet", "blocked"}

VARIABLES
    status,     \* Herdr's agent_status
    submitted,  \* the agent took the prompt
    hook,       \* the hook that runs, as a sequence of at most one event
    sink,       \* the events in the sink of this turn
    moved,      \* its status changed since the recovery of a stalled prompt began
    phase,      \* where the call is
    timer,      \* ticks to the deadline in force
    latest,     \* the event that the deadline was last extended for
    outcome,    \* how the call ended
    result,     \* the response it returns
    review      \* the responses of its capture review, by their places in the sink

agent == <<status, submitted, hook, sink, moved>>
ended == <<outcome, result, review>>
vars == <<agent, phase, timer, latest, ended>>

(* The native session, or one that the agent started beside it; a hook     *)
(* that cannot read its input knows of none.                               *)
Event ==
    [state: {"pending_async", "settled", "failed", "capture_error"},
     session: {"native", "other", "unknown"}, response: Response \cup {Nothing}]

(* What normalize_hook_payload makes of a Stop with or without background  *)
(* tasks (or without a report of them) and of a StopFailure.  Only what is *)
(* said in the first two is ever compared: the others say any one thing.   *)
Whatever == CHOOSE r \in Response : TRUE

Normalized(session) ==
    [state: {"pending_async", "settled"}, session: {session}, response: Response]
        \cup [state: {"failed", "capture_error"}, session: {session}, response: {Whatever}]

(* What _hook_failure_event makes of a payload that normalize_hook_payload *)
(* rejects, or that cannot be read.                                        *)
HookFailure(session) == [state |-> "capture_error", session |-> session, response |-> Nothing]

TypeOK ==
    /\ status \in {"quiet", "working", "blocked"}
    /\ submitted \in BOOLEAN /\ moved \in BOOLEAN
    /\ hook \in Seq(Event) /\ Len(hook) <= 1 /\ sink \in Seq(Event)
    /\ phase \in {"prompt", "stalled", "settling", "recovering", "capture", "over"}
    /\ timer \in 0..(ResultWait + PendingWait) /\ latest \in 0..Len(sink)
    /\ outcome \in {"none", "blocked", "settled", "failed", "ambiguous", "error"}
    /\ result \in Response \cup {Nothing}
    /\ \E places \in SUBSET (1..Len(sink)) : review \in [places -> Response]

Init ==
    /\ status = "quiet" /\ submitted = FALSE /\ hook = <<>> /\ sink = <<>>
    /\ moved = FALSE
    /\ phase = "prompt" /\ timer = 0 /\ latest = 0
    /\ outcome = "none" /\ result = Nothing /\ review = <<>>

-----------------------------------------------------------------------------
(* The native agent, its hooks and what Herdr sees of them.                *)

Lives ==
    /\ moved' = (phase = "recovering" /\ (moved \/ status' # status))
    /\ UNCHANGED <<phase, timer, latest, ended>>

TakesPrompt ==
    /\ phase # "over" /\ ~submitted
    /\ submitted' = TRUE /\ status' = "working"
    /\ UNCHANGED <<hook, sink>>
    /\ Lives

(* The agent ends a turn; its hook starts.                                 *)
Stops(e) ==
    /\ phase # "over" /\ status = "working" /\ hook = <<>> /\ Len(sink) < MaxEvents
    /\ hook' = <<e>>
    /\ status' = "quiet"
    /\ UNCHANGED <<submitted, sink>>
    /\ Lives

(* A background task, another hook or the user makes it go on.             *)
GoesOn ==
    /\ phase # "over" /\ submitted /\ status \in Settled /\ hook = <<>>
    /\ status' = "working"
    /\ UNCHANGED <<submitted, hook, sink>>
    /\ Lives

Blocks ==
    /\ phase # "over" /\ status # "blocked" /\ hook = <<>>
    /\ status' = "blocked"
    /\ UNCHANGED <<submitted, hook, sink>>
    /\ Lives

(* _write_event: the file of an event appears as a whole.                  *)
HookWrites ==
    /\ phase # "over" /\ hook # <<>>
    /\ sink' = sink \o hook /\ hook' = <<>>
    /\ UNCHANGED <<status, submitted>>
    /\ Lives

(* The hook fails: it reports so, or cannot even write that.               *)
HookFails ==
    /\ phase # "over" /\ hook # <<>> /\ hook' = <<>>
    /\ \/ sink' = Append(sink, HookFailure("unknown"))
       \/ UNCHANGED sink
    /\ UNCHANGED <<status, submitted>>
    /\ Lives

(* An event of another session that inherited the hook; what it says is    *)
(* never read.                                                             *)
OtherWrites(e) ==
    /\ phase # "over" /\ submitted /\ Len(sink) < MaxEvents
    /\ sink' = Append(sink, e)
    /\ UNCHANGED <<status, submitted, hook>>
    /\ Lives

-----------------------------------------------------------------------------
(* _prompt_and_wait                                                        *)

(* The workspace is closed, and the agent and its hook with it.            *)
Ends(how, response) ==
    /\ phase' = "over" /\ outcome' = how /\ result' = response /\ timer' = 0 /\ latest' = 0
    /\ status' = "quiet" /\ submitted' = FALSE /\ hook' = <<>> /\ moved' = FALSE
    /\ UNCHANGED sink

Raises == Ends("error", Nothing) /\ UNCHANGED review

(* A status ends the wait: the call reports a blocked agent, or captures.  *)
SettlesWith(seen) ==
    IF seen = "blocked" THEN Ends("blocked", Nothing) /\ UNCHANGED review
    ELSE /\ phase' = "capture" /\ timer' = ResultWait
         /\ UNCHANGED <<agent, latest, ended>>

PromptReturns == phase = "prompt" /\ submitted /\ status \in Settled /\ SettlesWith(status)

(* Whatever error but a stall of Claude.                                        *)
PromptFails == phase = "prompt" /\ Raises

PromptStalls ==
    /\ phase = "prompt" /\ phase' = "stalled"
    /\ UNCHANGED <<agent, timer, latest, ended>>

(* done or blocked                                                         *)
StalledSettled == phase = "stalled" /\ status \in Settled /\ SettlesWith(status)

StalledWorks ==
    /\ phase = "stalled" /\ status = "working" /\ phase' = "settling"
    /\ UNCHANGED <<agent, timer, latest, ended>>

(* idle; the Enter that may submit the prompt follows.                     *)
StalledIdle ==
    /\ phase = "stalled" /\ status = "quiet" /\ phase' = "recovering" /\ moved' = FALSE
    /\ UNCHANGED <<status, submitted, hook, sink, timer, latest, ended>>

(* _wait_for_agent_settled: no deadline.                                   *)
WaitSettles == phase = "settling" /\ status \in Settled /\ SettlesWith(status)

(* _wait_for_claude_enter_recovery: the status is another, or its sequence *)
(* number shows that it was meanwhile.                                     *)
SeesActivity ==
    /\ phase = "recovering" /\ moved /\ phase' = "settling" /\ moved' = FALSE
    /\ UNCHANGED <<status, submitted, hook, sink, timer, latest, ended>>

StaysStalled == phase = "recovering" /\ ~moved /\ Raises

-----------------------------------------------------------------------------
(* select_capture_events and resolve_capture_events                        *)

Reported(e) == e.session = "native" /\ e.response # Nothing

IsStop(e) == e.state \in {"pending_async", "settled"}

(* Events by their places in the sink.                                     *)
Matching == {i \in DOMAIN sink : Reported(sink[i])}

Stopped == {i \in Matching : IsStop(sink[i])}

Latest == sink[Max(Matching)]

Said(i) == sink[i].response

Size(i) == length[Said(i)]

Overflows ==
    Cardinality(Matching) > MaxResponses \/ MapThenSumSet(Size, Matching) > MaxChars

Longest == Max({Size(i) : i \in Stopped})

Substantial == {i \in Stopped : 100 * Size(i) >= AcceptPercent * Longest}

Housekeeping(i) ==
    100 * Size(i) <= RejectPercent * Longest /\ Longest - Size(i) >= SignificantDrop

OneResponse == Cardinality({Said(i) : i \in Stopped}) = 1

LatestStop == OneResponse \/ Max(Stopped) \in Substantial

FirstReport == Said(Min(Substantial))

(* The last substantial response, if the latest is but housekeeping.       *)
LastReport == Said(Max(Substantial))

Report == IF LatestStop THEN Said(Max(Stopped)) ELSE LastReport

Clear == LatestStop \/ Housekeeping(Max(Stopped))

-----------------------------------------------------------------------------
(* _wait_for_result_capture, one poll at a time.                           *)

HookFailed == \E e \in Range(sink) : e.response = Nothing /\ e.session # "other"

(* The poll resolves what is there, and the last that was reported is one  *)
(* of these.                                                               *)
Resolves(states) ==
    phase = "capture" /\ Matching # {} /\ Latest.state \in states /\ ~HookFailed /\ ~Overflows

PollFails ==
    /\ phase = "capture"
    /\ \/ HookFailed
       \/ Matching # {} /\ (Overflows \/ Latest.state = "capture_error")
    /\ Raises

FinalStatesEarly == {"settled", "pending_async"}

FinalStates == {"settled"}

PollReturns ==
    /\ Resolves(FinalStates) /\ Clear
    /\ Ends("settled", Report)
    /\ UNCHANGED review

PollReturnsFailure ==
    /\ Resolves({"failed"})
    /\ Ends("failed", Latest.response)
    /\ UNCHANGED review

(* record_capture_review                                                   *)
PollFindsAmbiguity ==
    /\ Resolves(FinalStates) /\ ~Clear
    /\ Ends("ambiguous", Nothing)
    /\ review' = [i \in Stopped |-> Said(i)]

Pending == Resolves({"pending_async"})

ExtendsAlways == Pending

(* captured_at_ns differs from that of the last pending event.             *)
ExtendsDeadline == Pending /\ Max(Matching) # latest

PollExtends ==
    /\ ExtendsDeadline
    /\ latest' = Max(Matching) /\ timer' = PendingWait
    /\ UNCHANGED <<agent, phase, ended>>

TimesOut ==
    /\ phase = "capture" /\ timer = 0 /\ ~HookFailed
    /\ Matching = {} \/ (Pending /\ ~ExtendsDeadline)
    /\ Raises

Tick ==
    /\ phase = "capture" /\ timer > 0 /\ timer' = timer - 1
    /\ UNCHANGED <<agent, phase, latest, ended>>

Poll == PollFails \/ PollReturns \/ PollReturnsFailure \/ PollFindsAmbiguity \/ PollExtends \/ TimesOut

Agent ==
    \/ TakesPrompt \/ GoesOn \/ Blocks \/ HookWrites \/ HookFails
    \/ \E e \in Normalized("native") : Stops(e)
    \/ \E e \in {[state |-> "settled", session |-> "other", response |-> Whatever], HookFailure("other")} :
          OtherWrites(e)

Prompts ==
    \/ PromptReturns \/ PromptFails \/ PromptStalls \/ StalledSettled \/ StalledWorks \/ StalledIdle
    \/ WaitSettles \/ SeesActivity \/ StaysStalled

Next == Agent \/ Prompts \/ Poll \/ Tick

(* The loop of the wait goes on: time passes, or it polls.                 *)
Spec == Init /\ [][Next]_vars /\ WF_vars(Tick \/ Poll)

-----------------------------------------------------------------------------
(* Properties                                                              *)

(* The Stops of the native session that the hook could tell of, as the     *)
(* agent made them.                                                        *)
Told ==
    {i \in DOMAIN sink : sink[i].session = "native" /\ sink[i].response # Nothing /\ IsStop(sink[i])}

Short(r, s) == 100 * length[r] < AcceptPercent * length[s]

(* Whatever the agent said between its background tasks, and however its   *)
(* words are cut into Stops, its report is not lost (resolve_capture_      *)
(* events, record_capture_review): the response returned is the last that  *)
(* is not short beside the longest one, and where the code cannot tell,    *)
(* the review has all of them.                                             *)
ReportIsKept ==
    /\ outcome = "settled" =>
          \E i \in Told :
              /\ result = sink[i].response
              /\ \A j \in Told : ~Short(result, sink[j].response)
              /\ \A j \in Told : j > i => \E k \in Told : Short(sink[j].response, sink[k].response)
    /\ outcome = "ambiguous" =>
          {sink[i].response : i \in Told} = Range(review) /\ Cardinality(Range(review)) > 1

(* Nothing is taken for the answer while the last that the agent reported  *)
(* is that background tasks are pending (_wait_for_result_capture).        *)
NoInterimResult ==
    outcome \in {"settled", "ambiguous"} => sink[Max(Told)].state = "settled"

(* The wait for a capture ends, whatever the agent goes on to do           *)
(* (initial_deadline, pending_deadline and the overflow).                  *)
CaptureEnds == phase = "capture" ~> phase = "over"
=============================================================================
