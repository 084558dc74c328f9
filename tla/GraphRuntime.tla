---------------------------- MODULE GraphRuntime ----------------------------
(***************************************************************************)
(* One TaskGraph run: GraphRuntime (task_graph_runtime.py) over            *)
(* GraphRuntimeStore (task_graph_store.py), driven through the MCP tools   *)
(* of task_graph_mcp.py.                                                   *)
(*                                                                         *)
(* The tools are coroutines of one asyncio process, so an action is what   *)
(* runs between two awaits.  delegate_next awaits its children, and        *)
(* get_graph, submit_decisions, reconcile_graph and further delegate_next  *)
(* calls run while it waits.  Everything in SQLite survives a crash of the *)
(* process; the authored graph and the retry plans do not.                 *)
(***************************************************************************)
EXTENDS TaskGraph, Integers, Sequences

CONSTANTS
    NoPacket,      \* the packet field of a node without retry plan
    MaxRevision,   \* bound: no wave or reconciliation starts at this revision
    MayCrash       \* whether the process may die

ASSUME BoundAssumption ==
    /\ MaxRevision \in Nat
    /\ MayCrash \in BOOLEAN
    /\ NoPacket \notin Packet

VARIABLES
    loaded,    \* _graphs holds the authored graph (process memory)
    graph,     \* the authored graph, and the fingerprint persisted with the run
    row,       \* graph_node_states: one row per node id
    attempts,  \* graph_attempts: the attempts of each node, by attempt_number
    wave,      \* graph_runs.current_wave_id, 0 for NULL
    revision,  \* graph_runs.revision
    plans,     \* _retry_plans (process memory)
    task,      \* the child tasks of the delegate_next call that holds the wave
    phase      \* where that call stands

vars == <<loaded, graph, row, attempts, wave, revision, plans, task, phase>>

-----------------------------------------------------------------------------
(* A turn id is known to a row or attempt as "captured" when a turns row   *)
(* holds the final response, as "transport" when the child was blocked or  *)
(* its capture was ambiguous, as "none" when the executor raised.          *)
Turn == {"none", "transport", "captured"}

(* Attempt 0 and session 0 are NULL.  A native session is named by the     *)
(* number of the START attempt of the node that created it.                *)
Row == [semantic: SemanticState, runtime: RuntimeState, active: BOOLEAN,
        attempt: Nat, session: Nat, turn: Turn]

AttemptState == {"running", "settled", "failed", "blocked"}

(* inputs: the attempt of each dependency whose turn was consumed when the *)
(* child began, 0 where nothing was consumed.                              *)
Attempt == [state: AttemptState, wave: Nat, resume: BOOLEAN, session: Nat,
            turn: Turn, packet: Packet, inputs: [NodeId -> Nat]]

Plan == [mode: {"start", "resume"}, session: Nat, packet: Packet]

NoPlan == [mode |-> "none", session |-> 0, packet |-> NoPacket]

(* A node id the run does not know: no row, or a retired one.              *)
Absent == [semantic |-> "cancelled", runtime |-> "idle", active |-> FALSE,
           attempt |-> 0, session |-> 0, turn |-> "none"]

Fresh == [semantic |-> "pending", runtime |-> "idle", active |-> TRUE,
          attempt |-> 0, session |-> 0, turn |-> "none"]

NothingConsumed == [d \in NodeId |-> 0]

Current(n) == attempts[n][row[n].attempt]

Running(n) == \E i \in 1..Len(attempts[n]) : attempts[n][i].state = "running"

Claimed == {n \in NodeId : task[n] # "none"}

TypeOK ==
    /\ loaded \in BOOLEAN
    /\ graph \in Graph
    /\ row \in [NodeId -> Row]
    /\ attempts \in [NodeId -> Seq(Attempt)]
    /\ wave \in Nat
    /\ revision \in Nat
    /\ plans \in [NodeId -> Plan \cup {NoPlan}]
    /\ task \in [NodeId -> {"none", "created", "executing", "done"}]
    /\ phase \in {"none", "waiting", "cancelling"}

(* start_graph: validate, persist the initial snapshot, keep the graph.    *)
Init ==
    /\ loaded = TRUE
    /\ graph \in Graph
    /\ row = [n \in NodeId |-> IF n \in DOMAIN graph THEN Fresh ELSE Absent]
    /\ attempts = [n \in NodeId |-> <<>>]
    /\ wave = 0
    /\ revision = 0
    /\ plans = [n \in NodeId |-> NoPlan]
    /\ task = [n \in NodeId |-> "none"]
    /\ phase = "none"

-----------------------------------------------------------------------------
(* delegate_next: choosing and claiming a wave.                            *)

Retrying == {n \in NodeId : plans[n] # NoPlan}

(* W is what a greedy scan of S keeps for some order of S: one node per    *)
(* repository, and no node left out whose repository is free.  Sessions    *)
(* never conflict: a session belongs to the node whose START created it.   *)
MaximalConflictFree(W, S) ==
    /\ W \subseteq S
    /\ \A m, n \in W : graph[m].repository = graph[n].repository => m = n
    /\ \A n \in S \ W : \E m \in W : graph[m].repository = graph[n].repository

(* _select_wave_nodes scans the retries first, then the fresh nodes.       *)
WaveSelection(W) ==
    LET candidates == Runnable(graph, row)
    IN  /\ MaximalConflictFree(W \cap Retrying, candidates \cap Retrying)
        /\ MaximalConflictFree(W, candidates)

StartedFresh(n) ==
    [state |-> "running", wave |-> revision + 1, resume |-> FALSE, session |-> 0,
     turn |-> "none", packet |-> graph[n].packet, inputs |-> NothingConsumed]

StartedAttempt(n) ==
    LET plan == plans[n]
    IN  [state   |-> "running",
         wave    |-> revision + 1,
         resume  |-> plan.mode = "resume",
         session |-> plan.session,
         turn    |-> "none",
         packet  |-> IF plan = NoPlan THEN graph[n].packet ELSE plan.packet,
         inputs  |-> NothingConsumed]

(* start_attempt points the node row at the new attempt.                   *)
StartedRow(n, runtime) ==
    [row[n] EXCEPT !.runtime = runtime, !.attempt = Len(attempts[n]) + 1,
                   !.session = plans[n].session, !.turn = "none"]

(* What every delegate_next call checks before it claims anything.  With   *)
(* another wave open start_attempt refuses the first node and nothing      *)
(* changes.  A wave id is fresh: one above the revision it starts from.    *)
MayDelegate(W) ==
    /\ loaded
    /\ GraphState(graph, row) = "ready"
    /\ wave = 0
    /\ WaveSelection(W)
    /\ \A n \in W : graph[n].routed
    /\ revision < MaxRevision

DelegateNext(W) ==
    /\ MayDelegate(W)
    /\ attempts' = [n \in NodeId |->
                      IF n \in W THEN Append(attempts[n], StartedAttempt(n))
                                 ELSE attempts[n]]
    /\ row' = [n \in NodeId |->
                 IF n \in W THEN StartedRow(n, "running") ELSE row[n]]
    /\ wave' = revision + 1
    /\ revision' = revision + Cardinality(W)
    /\ plans' = [n \in NodeId |-> IF n \in W THEN NoPlan ELSE plans[n]]
    /\ task' = [n \in NodeId |-> IF n \in W THEN "created" ELSE task[n]]
    /\ phase' = "waiting"
    /\ UNCHANGED <<loaded, graph>>

(* A later start_attempt of the wave raises (the database is locked) after *)
(* the nodes C were claimed: they are terminalized, the wave is closed and *)
(* every retry plan is kept.                                               *)
DelegateStartFails(W, C) ==
    /\ MayDelegate(W)
    /\ C # {} /\ C \subseteq W /\ C # W
    /\ (C \ Retrying) # {} => (W \cap Retrying) \subseteq C
    /\ attempts' = [n \in NodeId |->
                      IF n \in C
                      THEN Append(attempts[n], [StartedAttempt(n) EXCEPT !.state = "failed"])
                      ELSE attempts[n]]
    /\ row' = [n \in NodeId |->
                 IF n \in C THEN StartedRow(n, "failed") ELSE row[n]]
    /\ revision' = revision + 2 * Cardinality(C) + 1
    /\ UNCHANGED <<loaded, graph, wave, plans, task, phase>>

-----------------------------------------------------------------------------
(* _execute_claimed_attempt: one child task per claimed node.              *)

(* _execute_repo_task reads the turn of every dependency, then dispatches; *)
(* the consumption rows are written with the dispatch.                     *)
TaskBegins(n) ==
    /\ task[n] = "created" /\ phase = "waiting"
    /\ \A d \in graph[n].depends_on : row[d].turn # "none"
    /\ task' = [task EXCEPT ![n] = "executing"]
    /\ attempts' = [attempts EXCEPT ![n][row[n].attempt].inputs =
                      [d \in NodeId |-> IF d \in graph[n].depends_on
                                        THEN row[d].attempt ELSE 0]]
    /\ UNCHANGED <<loaded, graph, row, wave, revision, plans, phase>>

FinishAttemptWithoutRevision(n, state, session, turn) ==
    /\ attempts' = [attempts EXCEPT ![n][row[n].attempt] =
                      [@ EXCEPT !.state = state, !.session = session, !.turn = turn]]
    /\ row' = [row EXCEPT ![n] =
                 [@ EXCEPT !.runtime = state, !.session = session, !.turn = turn]]
    /\ revision' = revision

(* finish_attempt: the attempt and its node row change together.           *)
FinishAttempt(n, state, session, turn) ==
    /\ attempts' = [attempts EXCEPT ![n][row[n].attempt] =
                      [@ EXCEPT !.state = state, !.session = session, !.turn = turn]]
    /\ row' = [row EXCEPT ![n] =
                 [@ EXCEPT !.runtime = state, !.session = session, !.turn = turn]]
    /\ revision' = revision + 1

(* The session a child may report: the one it resumes, or its own.         *)
NativeSession(n) == IF Current(n).resume THEN Current(n).session ELSE row[n].attempt

AttemptFinishesUnmapped(n, state, turn) ==
    /\ task[n] = "executing" /\ phase = "waiting"
    /\ <<state, turn>> = <<"settled", "transport">>
    /\ FinishAttempt(n, "capture_ambiguous", NativeSession(n), turn)
    /\ task' = [task EXCEPT ![n] = "done"]
    /\ UNCHANGED <<loaded, graph, wave, plans, phase>>

(* The executor returned a validated result.  A settled or failed turn was *)
(* captured; a blocked turn or an ambiguous capture (stored as settled)    *)
(* leaves only a transport locator.                                        *)
AttemptFinishes(n, state, turn) ==
    /\ task[n] = "executing" /\ phase = "waiting"
    /\ <<state, turn>> \in {<<"settled", "captured">>, <<"failed", "captured">>,
                            <<"blocked", "transport">>, <<"settled", "transport">>}
    /\ FinishAttempt(n, state, NativeSession(n), turn)
    /\ task' = [task EXCEPT ![n] = "done"]
    /\ UNCHANGED <<loaded, graph, wave, plans, phase>>

(* The executor raised.  A recoverable failure still reports the session   *)
(* it created; a cancelled child never does.                               *)
AttemptRaises(n, session) ==
    /\ task[n] = "executing"
    /\ \/ session = Current(n).session
       \/ phase = "waiting" /\ session = NativeSession(n)
    /\ FinishAttempt(n, "failed", session, "none")
    /\ task' = [task EXCEPT ![n] = "done"]
    /\ UNCHANGED <<loaded, graph, wave, plans, phase>>

CancelStartedOnly ==
    /\ phase = "waiting"
    /\ \E n \in Claimed : task[n] # "done"
    /\ phase' = "cancelling"
    /\ UNCHANGED <<loaded, graph, row, attempts, wave, revision, plans, task>>

(* The delegate_next call is cancelled while children are pending: gather  *)
(* cancels them all.  A child that never ran ends without a row change.    *)
Cancel ==
    /\ phase = "waiting"
    /\ \E n \in Claimed : task[n] # "done"
    /\ phase' = "cancelling"
    /\ task' = [n \in NodeId |-> IF task[n] = "created" THEN "done" ELSE task[n]]
    /\ UNCHANGED <<loaded, graph, row, attempts, wave, revision, plans>>

(* Every child is done and delegate_next goes on, normally or with         *)
(* CancelledError: it terminalizes what is still running and closes the    *)
(* wave.                                                                   *)
NothingUnfinished == {}

AllClaimed == Claimed

Unfinished == {n \in Claimed : Current(n).state = "running"}

CloseWave ==
    /\ phase # "none"
    /\ \A n \in Claimed : task[n] = "done"
    /\ attempts' = [n \in NodeId |->
                      IF n \in Unfinished
                      THEN [attempts[n] EXCEPT ![row[n].attempt].state = "failed"]
                      ELSE attempts[n]]
    /\ row' = [n \in NodeId |->
                 IF n \in Unfinished
                 THEN [row[n] EXCEPT !.runtime = "failed",
                                     !.session = Current(n).session,
                                     !.turn = "none"]
                 ELSE row[n]]
    /\ wave' = 0
    /\ revision' = revision + Cardinality(Unfinished) + 1
    /\ task' = [n \in NodeId |-> "none"]
    /\ phase' = "none"
    /\ UNCHANGED <<loaded, graph, plans>>

-----------------------------------------------------------------------------
(* submit_decisions: "resume" is retry with resume_session; "block" stands *)
(* for replan too, which differs only in the Lead disposition.             *)
Decision == {"accept", "retry", "resume", "block"}

SemanticAfter(decision) ==
    CASE decision = "accept" -> "satisfied"
      [] decision = "block"  -> "blocked"
      [] OTHER               -> "pending"

PlanAfter(n, decision) ==
    CASE decision = "retry"  -> [mode |-> "start", session |-> 0, packet |-> graph[n].packet]
      [] decision = "resume" -> [mode |-> "resume", session |-> row[n].session,
                                 packet |-> graph[n].packet]
      [] OTHER               -> NoPlan

(* A blocked or ambiguous attempt has a turn id and no captured response.  *)
Acceptable(n) == row[n].turn = "captured"

(* The store refuses to take a node off "running" under a running attempt  *)
(* and to accept a turn that was not captured.                             *)
SubmitDecisions(D, decide, expected) ==
    /\ loaded
    /\ expected = revision
    /\ GraphState(graph, row) = "awaiting_review"
    /\ D # {} /\ D \subseteq Reviewable(graph, row)
    /\ \A n \in D : decide[n] = "accept" => Acceptable(n)
    /\ \A n \in D : decide[n] = "resume" => row[n].session # 0
    /\ \A n \in DOMAIN graph : row[n].attempt # 0 => Current(n).state # "running"
    /\ row' = [n \in NodeId |->
                 IF n \in D
                 THEN [row[n] EXCEPT !.semantic = SemanticAfter(decide[n]), !.runtime = "idle"]
                 ELSE row[n]]
    /\ plans' = [n \in NodeId |-> IF n \in D THEN PlanAfter(n, decide[n]) ELSE plans[n]]
    /\ revision' = revision + 1
    /\ UNCHANGED <<loaded, graph, attempts, wave, task, phase>>

-----------------------------------------------------------------------------
(* reconcile_graph: the Lead authors the complete next graph h.            *)
Blocked == {n \in DOMAIN graph : row[n].semantic = "blocked"}

PlanSurvivesReset(h, reset, n) == n \in DOMAIN h

PlanSurvives(h, reset, n) == n \in DOMAIN h /\ n \notin reset

ReconcileGraph(h, expected) ==
    LET reset == Reset(graph, h, Blocked)
    IN  /\ loaded
        /\ expected = revision /\ revision < MaxRevision
        /\ wave = 0
        /\ \A n \in NodeId : ~Running(n)
        /\ row' = [n \in NodeId |->
                     CASE n \in reset -> Fresh
                       [] n \in Removed(graph, h) ->
                            [row[n] EXCEPT !.active = FALSE, !.semantic = "cancelled",
                                           !.runtime = "idle"]
                       [] OTHER -> row[n]]
        /\ plans' = [n \in NodeId |->
                       IF PlanSurvives(h, reset, n) THEN plans[n] ELSE NoPlan]
        /\ graph' = h
        /\ revision' = revision + 1
        /\ UNCHANGED <<loaded, attempts, wave, task, phase>>

(* The process dies.  The rows survive, but no later process can act on    *)
(* the run: its authored graph is not persisted.                           *)
Crash ==
    /\ MayCrash /\ loaded
    /\ loaded' = FALSE
    /\ plans' = [n \in NodeId |-> NoPlan]
    /\ task' = [n \in NodeId |-> "none"]
    /\ phase' = "none"
    /\ UNCHANGED <<graph, row, attempts, wave, revision>>

-----------------------------------------------------------------------------
(* A call whose expected_revision is stale changes nothing: here every      *)
(* caller holds the current one, and GraphReview has callers that do not.   *)
Next ==
    \/ \E W \in SUBSET NodeId : DelegateNext(W)
    \/ \E W \in SUBSET NodeId : \E C \in SUBSET W : DelegateStartFails(W, C)
    \/ \E n \in NodeId : TaskBegins(n)
    \/ \E n \in NodeId, s \in AttemptState, t \in Turn : AttemptFinishes(n, s, t)
    \/ \E n \in NodeId : \E s \in 0..Len(attempts[n]) : AttemptRaises(n, s)
    \/ Cancel
    \/ CloseWave
    \/ \E D \in SUBSET NodeId : \E decide \in [D -> Decision] :
          SubmitDecisions(D, decide, revision)
    \/ \E h \in Graph : ReconcileGraph(h, revision)
    \/ Crash

Spec == Init /\ [][Next]_vars

(* The event loop runs every ready task, a child's executor returns or     *)
(* raises, and a finished gather resumes delegate_next.                    *)
ChildEnds(n) ==
    \/ \E s \in AttemptState, t \in Turn : AttemptFinishes(n, s, t)
    \/ \E s \in 0..Len(attempts[n]) : AttemptRaises(n, s)

Fairness ==
    /\ \A n \in NodeId : WF_vars(TaskBegins(n)) /\ WF_vars(ChildEnds(n))
    /\ WF_vars(CloseWave)

FairSpec == Spec /\ Fairness

-----------------------------------------------------------------------------
(* Invariants.                                                             *)

(* Work that is under way, under review or accepted stands only on         *)
(* accepted dependencies of the graph as authored now, whatever            *)
(* reconciliations happened since it was started.                          *)
DependenciesAccepted ==
    \A n \in DOMAIN graph :
        row[n].semantic = "satisfied" \/ row[n].runtime # "idle" =>
            DependenciesSatisfied(graph, row, n)

(* The attempt a row points at worked on the packet that is authored now,  *)
(* and consumed exactly the evidence its dependencies still show: no       *)
(* reconciliation leaves a result standing on replaced input.  A node the  *)
(* Lead blocked is the barrier of reconciliation and keeps its old inputs. *)
EvidenceIsCurrent ==
    \A n \in DOMAIN graph : row[n].attempt # 0 =>
        /\ Current(n).packet = graph[n].packet
        /\ row[n].semantic # "blocked" =>
              \A d \in graph[n].depends_on : Current(n).inputs[d] \in {0, row[d].attempt}

(* A satisfied node has an attempt that ended with a captured Peer turn,   *)
(* so a dependent that begins always finds the turn it consumes.           *)
AcceptedWasCaptured ==
    \A n \in DOMAIN graph : row[n].semantic = "satisfied" =>
        /\ row[n].attempt # 0 /\ row[n].turn = "captured"
        /\ Current(n).state \in {"settled", "failed"} /\ Current(n).turn = "captured"

(* The evidence of a result is what is authored and accepted now.          *)
EvidenceIsSound == EvidenceIsCurrent /\ AcceptedWasCaptured

(* The two tables agree: an attempt is running exactly when it is the      *)
(* current one of an active running row, and a row that is not idle shows  *)
(* the state, session and turn of its current attempt.                     *)
RowMirrorsAttempt ==
    \A n \in NodeId :
        /\ \A i \in 1..Len(attempts[n]) :
              attempts[n][i].state = "running" <=>
                /\ row[n].active /\ row[n].runtime = "running" /\ row[n].attempt = i
        /\ row[n].runtime # "idle" =>
              /\ row[n].attempt = Len(attempts[n])
              /\ row[n].runtime = Current(n).state
        /\ row[n].attempt # 0 =>
              row[n].session = Current(n).session /\ row[n].turn = Current(n).turn

(* While the process lives, an open wave belongs to a delegate_next call   *)
(* that will close it, and every running attempt is a child of that call.  *)
WaveOwnsRunning ==
    /\ loaded => (wave # 0 <=> phase # "none")
    /\ \A n \in NodeId : Running(n) =>
          wave # 0 /\ Current(n).wave = wave /\ (loaded => n \in Claimed)

(* Two children never work in one repository at a time.                    *)
RepositoryExclusive ==
    \A m, n \in DOMAIN graph :
        row[m].runtime = "running" /\ row[n].runtime = "running" /\ m # n =>
            graph[m].repository # graph[n].repository

(* Tables, wave, tasks and repositories tell the same story.               *)
RecordsAgree == RowMirrorsAttempt /\ WaveOwnsRunning /\ RepositoryExclusive

(* A retry plan is for a node still to be done, carries the packet that is *)
(* authored now, and resumes the session the node's row still names, so    *)
(* start_attempt never refuses it; a failed start of its wave keeps it so. *)
PlansAreCurrent ==
    \A n \in NodeId : plans[n] # NoPlan =>
        /\ n \in DOMAIN graph /\ row[n].semantic = "pending"
        /\ plans[n].packet = graph[n].packet
        /\ plans[n].mode = "resume" => plans[n].session = row[n].session /\ row[n].session # 0

(* The graph never stops silently: when it reports "blocked" there is a    *)
(* node the Lead blocked, never just pending work that nothing can start.  *)
NoSilentStall == GraphState(graph, row) = "blocked" => Blocked # {}

-----------------------------------------------------------------------------
(* Properties of steps.                                                    *)

(* Execution history is never rewritten: an attempt that ended keeps its   *)
(* outcome through retries, late cleanup of its wave and reconciliation.   *)
EndedAttemptsAreFixed ==
    [][\A n \in NodeId : \A i \in 1..Len(attempts[n]) :
          attempts[n][i].state # "running" =>
              i <= Len(attempts'[n]) /\ attempts'[n][i] = attempts[n][i]]_vars

(* The Lead's wish to RESUME a session is used up only by an attempt that  *)
(* really starts on that session, or given up by a new decision on the     *)
(* node, its reset or removal, or the loss of the process.                 *)
ResumeIntentKept ==
    [][\A n \in NodeId : plans[n].mode = "resume" /\ plans'[n] # plans[n] =>
          \/ /\ Len(attempts'[n]) > Len(attempts[n])
             /\ attempts'[n][Len(attempts'[n])].state = "running"
             /\ attempts'[n][Len(attempts'[n])].session = plans[n].session
          \/ row[n].runtime # "idle" /\ row'[n].runtime = "idle"
          \/ row'[n].attempt = 0 \/ ~row'[n].active
          \/ ~loaded']_vars

-----------------------------------------------------------------------------
(* An open wave is eventually closed, whatever its children do and whether *)
(* or not the delegate_next call is cancelled, unless the process dies.    *)
WaveEventuallyCloses == wave # 0 ~> wave = 0 \/ ~loaded

(* The run implements the promise made to the Lead.                        *)
NodeStatus(r) ==
    CASE ~r.active -> "absent"
      [] r.active /\ r.semantic = "satisfied" -> "accepted"
      [] r.active /\ r.semantic = "blocked" -> "stopped"
      [] r.active /\ r.semantic = "pending" /\ r.runtime = "idle" -> "waiting"
      [] r.active /\ r.semantic = "pending" /\ r.runtime = "running" -> "running"
      [] OTHER -> "review"

Promise == INSTANCE ReviewedGraph
    WITH authored <- graph, status <- [n \in NodeId |-> NodeStatus(row[n])]

(* Every step of the runtime is a step the Lead was promised, or none.     *)
ImplementsPromise == Promise!Spec
=============================================================================
