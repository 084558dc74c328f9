----------------------------- MODULE ControlPlane -----------------------------
(***************************************************************************)
(* HerdrControlPlane (supervisor_control.py): how the daemon gets its two  *)
(* agents of fixed names, the Lead and the Supervisor, each in a pane of   *)
(* one Herdr workspace, whose place is kept in a database row.  One        *)
(* ensure_started runs at a time (the drain is one task, and               *)
(* BrokerInstanceLock keeps a second daemon out); every await of it is a   *)
(* command to Herdr, between any two of which panes are closed, agents     *)
(* exit, or the daemon dies.                                               *)
(*                                                                         *)
(* A command is answered after Herdr did it, fails without effect, or runs *)
(* into its timeout; a command that was given up, by a timeout or by a     *)
(* death, may still be done later.  A `get` that fails is taken for the    *)
(* answer that there is no such workspace, pane or agent; one that does    *)
(* not fail tells the truth.  A name is unique among the agents of a Herdr *)
(* session.                                                                *)
(***************************************************************************)
EXTENDS Naturals, FiniteSets

CONSTANTS
    Identity,    \* sessions, models and instructions that a daemon is configured with
    Session,     \* Herdr sessions
    SessionOf,   \* the session of an identity
    Workspace,   \* Herdr's workspaces, of all sessions
    Nothing,     \* no row, no workspace, no agent, no identity
    MaxHarm      \* bound: failures, timeouts, deaths and closures by hand in all

ASSUME ControlAssumption ==
    /\ SessionOf \in [Identity -> Session] /\ MaxHarm \in Nat
    /\ Nothing \notin Identity \cup Session \cup Workspace \cup [ws : Workspace, id : Identity]

VARIABLES
    row,      \* the persisted topology: a workspace, whose panes it names, and an identity
    open,     \* the workspaces of Herdr: the session of each
    panes,    \* the names of the agents that each has a pane for
    agents,   \* the named agents of each session
    late,     \* commands that were given up but may still be done
    pc,       \* where ensure_started is, and the agent it is concerned with there
    id,       \* the identity of this daemon
    made,     \* the workspace this call created, if it did
    harm,     \* the number of failures, timeouts, deaths and closures by hand
    forgotten \* the workspaces of rows that were cleared unchecked (not in the code)

herdr == <<open, panes, agents>>
vars == <<row, herdr, late, pc, id, made, harm, forgotten>>

Name == {"lead", "supervisor"}

Place ==
    {"down", "idle", "server", "check workspace", "check pane", "read", "discard", "closing",
     "create", "split", "start", "starting", "wait", "cleanup", "ready"}

Row == [ws : Workspace, id : Identity]

(* An agent runs in the pane for its name; it was started for an identity  *)
(* and takes prompts once it is ready, until its process exits.            *)
Agent == [ws : Workspace, id : Identity, state : {"starting", "ready", "exited"}]

Command ==
    [op : {"create"}, session : Session] \cup [op : {"split", "close"}, ws : Workspace]
        \cup [op : {"start"}, name : Name, ws : Workspace, id : Identity]

At(place) == [at |-> place, who |-> "lead"]

For(n, place) == [at |-> place, who |-> n]

TypeOK ==
    /\ row \in Row \cup {Nothing}
    /\ open \in [Workspace -> Session \cup {Nothing}]
    /\ panes \in [Workspace -> SUBSET Name]
    /\ agents \in [Session -> [Name -> Agent \cup {Nothing}]]
    /\ late \subseteq Command
    /\ pc \in [at : Place, who : Name]
    /\ id \in Identity \cup {Nothing}
    /\ made \in Workspace \cup {Nothing}
    /\ harm \in 0..MaxHarm
    /\ forgotten \subseteq Workspace

MySession == SessionOf[id]

StoredSession == SessionOf[row.id]

Mine == agents[MySession]

InPane(n, w) == Mine[n] # Nothing /\ Mine[n].ws = w

PromptReady(n) == Mine[n] # Nothing /\ Mine[n].state = "ready"

-----------------------------------------------------------------------------
(* What Herdr does.                                                        *)

(* A closed pane takes its agent with it.                                  *)
Without(w, names) ==
    [s \in Session |-> [n \in Name |->
        IF agents[s][n] # Nothing /\ agents[s][n].ws = w /\ n \in names
        THEN Nothing ELSE agents[s][n]]]

(* An id that Herdr may give to a new workspace; which of them, is all one. *)
Unknown(w) ==
    /\ open[w] = Nothing /\ made # w /\ (row # Nothing => row.ws # w) /\ w \notin forgotten
    /\ \A c \in late : c.op # "create" => c.ws # w

Fresh == CHOOSE w \in Workspace : Unknown(w)

Creates(w, s) ==
    /\ w = Fresh /\ Unknown(w)
    /\ open' = [open EXCEPT ![w] = s] /\ panes' = [panes EXCEPT ![w] = {"lead"}]
    /\ UNCHANGED agents

Splits(w) ==
    /\ "lead" \in panes[w]
    /\ panes' = [panes EXCEPT ![w] = Name] /\ UNCHANGED <<open, agents>>

Closes(w) ==
    /\ open' = [open EXCEPT ![w] = Nothing] /\ panes' = [panes EXCEPT ![w] = {}]
    /\ agents' = Without(w, Name)

Starts(n, w, i) ==
    /\ n \in panes[w] /\ agents[open[w]][n] = Nothing
    /\ agents' = [agents EXCEPT ![open[w]][n] = [ws |-> w, id |-> i, state |-> "starting"]]
    /\ UNCHANGED <<open, panes>>

Harm == harm < MaxHarm /\ harm' = harm + 1

(* A command that was given up is done after all, or never.                *)
LateCommand(c) ==
    /\ c \in late /\ late' = late \ {c}
    /\ \/ c.op = "create" /\ \E w \in Workspace : Creates(w, c.session)
       \/ c.op = "split" /\ Splits(c.ws)
       \/ c.op = "close" /\ Closes(c.ws)
       \/ c.op = "start" /\ Starts(c.name, c.ws, c.id)
       \/ UNCHANGED herdr
    /\ UNCHANGED <<row, pc, id, made, harm, forgotten>>

AgentIsReady(s, n) ==
    /\ agents[s][n] # Nothing /\ agents[s][n].state = "starting"
    /\ agents' = [agents EXCEPT ![s][n].state = "ready"]
    /\ UNCHANGED <<row, open, panes, late, pc, id, made, harm, forgotten>>

(* An agent that exits stays registered at its pane.                       *)
AgentExits(s, n) ==
    /\ Harm /\ agents[s][n] # Nothing /\ agents[s][n].state # "exited"
    /\ agents' = [agents EXCEPT ![s][n].state = "exited"]
    /\ UNCHANGED <<row, open, panes, late, pc, id, made, forgotten>>

OperatorCloses(w) ==
    /\ Harm /\ open[w] # Nothing
    /\ \/ Closes(w)
       \/ \E n \in panes[w] :
              /\ panes' = [panes EXCEPT ![w] = @ \ {n}] /\ agents' = Without(w, {n})
              /\ UNCHANGED open
    /\ UNCHANGED <<row, late, pc, id, made, forgotten>>

-----------------------------------------------------------------------------
Init ==
    /\ row = Nothing /\ open = [w \in Workspace |-> Nothing] /\ panes = [w \in Workspace |-> {}]
    /\ agents = [s \in Session |-> [n \in Name |-> Nothing]]
    /\ late = {} /\ pc = At("down") /\ id = Nothing /\ made = Nothing /\ harm = 0
    /\ forgotten = {}

Goto(place) == pc' = place /\ UNCHANGED <<id, made>>

(* An exception that reaches the caller, who tries again later.            *)
Raise == pc' = At("idle") /\ made' = Nothing /\ UNCHANGED id

(* An error while the row is restored reaches the caller; one after the    *)
(* workspace was created closes it first.                                  *)
Fails == IF made = Nothing THEN Raise ELSE Goto(At("cleanup"))

(* A row that cannot be restored is discarded.                             *)
GivesUp == Goto(At(IF made = Nothing THEN "discard" ELSE "cleanup"))

(* The Lead first, then the Supervisor.                                    *)
After(n, place, last) == IF n = "lead" THEN For("supervisor", place) ELSE last

StartDaemon ==
    /\ pc = At("down") /\ pc' = At("idle") /\ id' \in Identity
    /\ UNCHANGED <<row, herdr, late, made, harm, forgotten>>

Call ==
    /\ pc \in {At("idle"), At("ready")} /\ pc' = At("server") /\ made' = Nothing
    /\ UNCHANGED <<row, herdr, late, id, harm, forgotten>>

IdentityMatches == row.id = id

(* _ensure_server; then the row is read.                                   *)
EnsureServer ==
    /\ pc = At("server")
    /\ Goto(At(IF row = Nothing THEN "create"
               ELSE IF IdentityMatches THEN "check workspace" ELSE "discard"))
    /\ UNCHANGED <<row, herdr, late, harm, forgotten>>

CheckWorkspace ==
    /\ pc = At("check workspace")
    /\ Goto(At(IF open[row.ws] = MySession THEN "check pane" ELSE "discard"))
    /\ UNCHANGED <<row, herdr, late, harm, forgotten>>

CheckPane(n) ==
    /\ pc = For(n, "check pane")
    /\ Goto(IF n \in panes[row.ws] THEN After(n, "check pane", At("read")) ELSE At("discard"))
    /\ UNCHANGED <<row, herdr, late, harm, forgotten>>

ReadAgent(n) ==
    /\ pc = For(n, "read")
    /\ Goto(IF PromptReady(n) /\ InPane(n, row.ws) THEN After(n, "read", At("ready")) ELSE At("start"))
    /\ UNCHANGED <<row, herdr, late, harm, forgotten>>

-----------------------------------------------------------------------------
(* _discard_stale_control_plane: the row is cleared once the workspace is  *)
(* gone, and another one is created.                                       *)

Discard ==
    /\ pc = At("discard")
    /\ IF open[row.ws] = StoredSession
       THEN Goto(At("closing")) /\ UNCHANGED row
       ELSE Goto(At("create")) /\ row' = Nothing
    /\ UNCHANGED <<herdr, late, harm, forgotten>>

CloseReturns ==
    /\ pc = At("closing") /\ open[row.ws] # Nothing
    /\ Closes(row.ws) /\ row' = Nothing /\ Goto(At("create"))
    /\ UNCHANGED <<late, harm, forgotten>>

(* Somebody closed it since: Herdr refuses.                                *)
CloseRefused ==
    /\ pc = At("closing") /\ open[row.ws] = Nothing /\ Raise
    /\ UNCHANGED <<row, herdr, late, harm, forgotten>>

-----------------------------------------------------------------------------
(* _start_agent, for an agent of the row or of the created workspace       *)

StartAgent(n) ==
    /\ pc = For(n, "start")
    /\ CASE Mine[n] = Nothing -> Goto(For(n, "starting"))
         [] Mine[n] # Nothing /\ ~InPane(n, row.ws) -> Fails
         [] InPane(n, row.ws) /\ PromptReady(n) -> Goto(After(n, "start", At("ready")))
         [] InPane(n, row.ws) /\ ~PromptReady(n) -> Goto(For(n, "wait"))
    /\ UNCHANGED <<row, herdr, late, harm, forgotten>>

(* agent start: Herdr may not find the pane, or the name may be taken.     *)
StartReturns(n) ==
    /\ pc = For(n, "starting")
    /\ \/ Starts(n, row.ws, row.id) /\ Goto(For(n, "wait"))
       \/ n \notin panes[row.ws] /\ GivesUp /\ UNCHANGED herdr
       \/ n \in panes[row.ws] /\ Mine[n] # Nothing /\ Fails /\ UNCHANGED herdr
    /\ UNCHANGED <<row, late, harm, forgotten>>

(* _wait_agent_prompt_ready, and its timeout                               *)
AgentWasReady(n) ==
    /\ pc = For(n, "wait") /\ PromptReady(n)
    /\ IF InPane(n, row.ws) THEN Goto(After(n, "start", At("ready"))) ELSE Fails
    /\ UNCHANGED <<row, herdr, late, harm, forgotten>>

AgentNotReady(n) ==
    /\ pc = For(n, "wait") /\ ~PromptReady(n) /\ GivesUp
    /\ UNCHANGED <<row, herdr, late, harm, forgotten>>

-----------------------------------------------------------------------------
(* The creation of the workspace                                           *)

CreateReturns ==
    /\ pc = At("create") /\ pc' = At("split") /\ UNCHANGED id
    /\ \E w \in Workspace : Creates(w, MySession) /\ made' = w
    /\ UNCHANGED <<row, late, harm, forgotten>>

(* pane split; the row is saved before an agent is started.                *)
SplitReturns ==
    /\ pc = At("split")
    /\ IF "lead" \in panes[made]
       THEN Splits(made) /\ row' = [ws |-> made, id |-> id] /\ Goto(At("start"))
       ELSE Goto(At("cleanup")) /\ UNCHANGED <<row, herdr>>
    /\ UNCHANGED <<late, harm, forgotten>>

(* The save raises.                                                        *)
SaveFails ==
    /\ pc = At("split") /\ Harm /\ Splits(made) /\ Goto(At("cleanup"))
    /\ UNCHANGED <<row, late, forgotten>>

(* The close after a failed creation.  If Herdr refuses, the row stays for *)
(* the next call.                                                          *)
Cleanup ==
    /\ pc = At("cleanup") /\ Raise
    /\ IF open[made] # Nothing THEN Closes(made) /\ row' = Nothing ELSE UNCHANGED <<row, herdr>>
    /\ UNCHANGED <<late, harm, forgotten>>

-----------------------------------------------------------------------------
(* The command that ensure_started waits for, if it changes something.     *)
Awaited ==
    CASE pc.at = "create" -> {[op |-> "create", session |-> MySession]}
      [] pc.at = "split" -> {[op |-> "split", ws |-> made]}
      [] pc.at = "cleanup" -> {[op |-> "close", ws |-> made]}
      [] pc.at = "closing" -> {[op |-> "close", ws |-> row.ws]}
      [] pc.at = "starting" -> {[op |-> "start", name |-> pc.who, ws |-> row.ws, id |-> row.id]}
      [] OTHER -> {}

(* A command is given up, without effect so far.                           *)
GivenUp == late' \in {late, late \cup Awaited}

(* It runs into its timeout or, unless it is a `get`, fails.               *)
CommandFails ==
    /\ Harm /\ GivenUp
    /\ \/ pc.at \in {"server", "check workspace", "check pane", "read", "discard", "closing", "create",
                     "cleanup"} /\ Raise
       \/ pc.at \in {"split", "start", "starting", "wait"} /\ Fails
    /\ UNCHANGED <<row, herdr, forgotten>>

(* A `get` fails, and what it asked about is taken to be absent: _run with *)
(* check=False.  If it asked before a close, the row is cleared and the    *)
(* workspace left as it is.                                                *)
GetFails ==
    /\ Harm
    /\ \/ /\ \/ pc.at \in {"check workspace", "check pane"} /\ Goto(At("discard"))
             \/ pc.at = "read" /\ Goto(At("start"))
             \/ pc.at = "start" /\ Goto(For(pc.who, "starting"))
             \/ pc.at = "wait" /\ GivesUp
          /\ UNCHANGED <<row, forgotten>>
       \/ /\ pc = At("discard") /\ Goto(At("create"))
          /\ row' = Nothing /\ forgotten' = forgotten \cup {row.ws}
    /\ UNCHANGED <<herdr, late>>

(* The daemon dies or is cancelled: nothing is cleaned up.                 *)
Crash ==
    /\ Harm /\ GivenUp
    /\ pc.at # "down" /\ pc' = At("down") /\ id' = Nothing /\ made' = Nothing
    /\ UNCHANGED <<row, herdr, forgotten>>

Daemon ==
    \/ StartDaemon \/ Call \/ EnsureServer \/ CheckWorkspace
    \/ Discard \/ CloseReturns \/ CloseRefused \/ CreateReturns \/ SplitReturns \/ Cleanup
    \/ \E n \in Name :
          CheckPane(n) \/ ReadAgent(n) \/ StartAgent(n) \/ StartReturns(n)
              \/ AgentWasReady(n) \/ AgentNotReady(n)

Next ==
    \/ Daemon \/ SaveFails \/ CommandFails \/ GetFails \/ Crash
    \/ \E c \in late : LateCommand(c)
    \/ \E s \in Session, n \in Name : AgentIsReady(s, n) \/ AgentExits(s, n)
    \/ \E w \in Workspace : OperatorCloses(w)

(* The daemon runs; an agent that is waited for again and again is ready   *)
(* before the timeout at last.                                             *)
Fairness ==
    /\ WF_vars(Daemon)
    /\ \A n \in Name : SF_vars(pc = For(n, "wait") /\ AgentIsReady(MySession, n))

Spec == Init /\ [][Next]_vars /\ Fairness

-----------------------------------------------------------------------------
(* Properties.                                                             *)

(* No agent of a fixed name is ever in a place that the row does not tell, *)
(* whatever fails or dies, or its name could never be used again: unless   *)
(* its row was cleared after a `get` that failed.  And what ensure_started *)
(* hands out for prompts was started for the session, the models and the   *)
(* instructions of this daemon, not of an earlier one.                     *)
AgentsAreKnown ==
    /\ \A s \in Session, n \in Name :
          agents[s][n] # Nothing =>
              \/ row # Nothing /\ row.ws = agents[s][n].ws /\ row.id = agents[s][n].id
              \/ agents[s][n].ws \in forgotten
    /\ pc = At("ready") => row # Nothing /\ row.id = id /\ row.ws \notin forgotten

(* An agent of a forgotten workspace holds one of the two names.           *)
NameIsTaken == id # Nothing /\ \E n \in Name : Mine[n] # Nothing /\ Mine[n].ws \in forgotten

(* However it was disturbed, in the end every call hands out two agents,   *)
(* unless an agent that the daemon forgot keeps one of their names.        *)
EventuallyReady == []<>(pc = At("ready") \/ NameIsTaken)
=============================================================================
