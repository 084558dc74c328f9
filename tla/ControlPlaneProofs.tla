--------------------------- MODULE ControlPlaneProofs ---------------------------
(***************************************************************************)
(* Theorems about ControlPlane, for every set of identities, sessions and  *)
(* workspaces, and any number of failures.                                 *)
(***************************************************************************)
EXTENDS ControlPlane, TLAPS

-----------------------------------------------------------------------------
(* The inductive invariant.                                                *)

(* The panes are those of open workspaces, and the agents are in panes of  *)
(* the session that they are registered with.                              *)
HerdrIsSound ==
    /\ \A w \in Workspace : open[w] = Nothing => panes[w] = {}
    /\ \A s \in Session, n \in Name : agents[s][n] # Nothing => open[agents[s][n].ws] = s

(* The workspace of the row is open in the session of the row, if at all.  *)
RowIsSound == row # Nothing => open[row.ws] \in {SessionOf[row.id], Nothing}

(* An agent may be there: by the row, or in a forgotten workspace.         *)
MayBe(w, i) ==
    \/ row # Nothing /\ row.ws = w /\ row.id = i
    \/ w \in forgotten

(* A start that may still be done is for such a place, or never done.      *)
LateIsSound ==
    \A c \in late : c.op = "start" /\ open[c.ws] # Nothing => MayBe(c.ws, c.id)

AgentsArePlaced ==
    \A s \in Session, n \in Name :
        agents[s][n] # Nothing => MayBe(agents[s][n].ws, agents[s][n].id)

(* A forgotten workspace is never that of the row again.                   *)
RowIsKnown == row # Nothing => row.ws \notin forgotten

Places == HerdrIsSound /\ RowIsSound /\ LateIsSound /\ AgentsArePlaced /\ RowIsKnown

(* What ensure_started knows, at a place, of the row and of the workspace  *)
(* that it made.                                                           *)
SoundAt(place) ==
    /\ place # "down" => id \in Identity
    /\ made = Nothing \/ made \notin forgotten
    /\ place \in {"down", "idle", "server", "check workspace", "check pane", "read", "discard",
                   "closing", "create"} => made = Nothing
    /\ place \in {"check workspace", "check pane", "read", "start", "starting", "wait", "ready"} =>
          row # Nothing /\ row.id = id /\ made \in {Nothing, row.ws}
    /\ place \in {"discard", "closing"} => row # Nothing
    /\ place \in {"create", "split"} => row = Nothing
    /\ place = "split" => made # Nothing /\ open[made] \in {MySession, Nothing}
    /\ place = "cleanup" => made # Nothing /\ (row = Nothing \/ row.ws = made)

CallIsSound == SoundAt(pc.at)

IInv == TypeOK /\ Places /\ CallIsSound

-----------------------------------------------------------------------------
(* What Herdr does to its workspaces and agents.                           *)

LEMMA NothingIsNone == Nothing \notin Identity /\ Nothing \notin Session /\ Nothing \notin Workspace
BY ControlAssumption

LEMMA AgentTypes ==
    ASSUME TypeOK, NEW s \in Session, NEW n \in Name, agents[s][n] # Nothing
    PROVE  agents[s][n] \in Agent /\ agents[s][n].ws \in Workspace /\ agents[s][n].id \in Identity
<1>1. agents[s][n] \in Agent
  <2>1. agents \in [Session -> [Name -> Agent \cup {Nothing}]]
    BY DEF TypeOK
  <2>2. agents[s] \in [Name -> Agent \cup {Nothing}]
    BY <2>1
  <2> QED
    BY <2>2
<1> QED
  BY <1>1 DEF Agent

LEMMA WithoutTypes ==
    ASSUME TypeOK, NEW w \in Workspace, NEW names \in SUBSET Name
    PROVE  /\ Without(w, names) \in [Session -> [Name -> Agent \cup {Nothing}]]
           /\ \A s \in Session, n \in Name : Without(w, names)[s][n] \in {agents[s][n], Nothing}
           /\ \A s \in Session, n \in names :
                 agents[s][n] # Nothing /\ agents[s][n].ws = w => Without(w, names)[s][n] = Nothing
BY DEF Without, TypeOK

(* The facts of Herdr alone.                                               *)
HerdrTyped ==
    /\ open \in [Workspace -> Session \cup {Nothing}]
    /\ panes \in [Workspace -> SUBSET Name]
    /\ agents \in [Session -> [Name -> Agent \cup {Nothing}]]

LEMMA HerdrTypes == TypeOK => HerdrTyped
BY DEF TypeOK, HerdrTyped

(* A workspace is closed: by the daemon, by hand or late.  Whoever keeps   *)
(* the row keeps what it says; whoever clears it has closed the workspace  *)
(* that it names.                                                          *)
LEMMA ClosesKeeps ==
    ASSUME TypeOK, Places, NEW w \in Workspace, Closes(w), late' \subseteq late,
           forgotten' = forgotten,
           \/ row' = row
           \/ row' = Nothing /\ (row = Nothing \/ row.ws = w)
    PROVE  HerdrTyped' /\ Places'
<1> USE DEF Closes, Places
<1>1. HerdrTyped'
  BY WithoutTypes DEF HerdrTyped, TypeOK
<1>2. /\ \A v \in Workspace : open'[v] = IF v = w THEN Nothing ELSE open[v]
      /\ \A v \in Workspace : panes'[v] = IF v = w THEN {} ELSE panes[v]
  BY DEF TypeOK
<1>3. \A s \in Session, n \in Name :
        agents'[s][n] # Nothing => agents'[s][n] = agents[s][n] /\ agents[s][n].ws # w
  BY WithoutTypes
<1>4. HerdrIsSound'
  BY <1>2, <1>3, AgentTypes DEF HerdrIsSound
<1>5. RowIsSound' /\ RowIsKnown'
  BY <1>2 DEF RowIsSound, RowIsKnown, TypeOK, Row
<1>6. LateIsSound'
  <2> SUFFICES ASSUME NEW c \in late, c.op = "start", open'[c.ws] # Nothing
               PROVE  MayBe(c.ws, c.id)'
    BY DEF LateIsSound, MayBe
  <2>1. c.ws \in Workspace
    BY DEF TypeOK, Command
  <2>2. open[c.ws] # Nothing /\ c.ws # w
    BY <1>2, <2>1
  <2> QED
    BY <2>2 DEF LateIsSound, MayBe
<1>7. AgentsArePlaced'
  BY <1>3 DEF AgentsArePlaced, MayBe
<1> QED
  BY <1>1, <1>4, <1>5, <1>6, <1>7

LEMMA PaneCloseKeeps ==
    ASSUME TypeOK, Places, NEW w \in Workspace, NEW n \in Name, UNCHANGED <<row, open, late, forgotten>>,
           panes' = [panes EXCEPT ![w] = @ \ {n}], agents' = Without(w, {n})
    PROVE  HerdrTyped' /\ Places'
<1> USE DEF Places
<1>1. HerdrTyped'
  BY WithoutTypes DEF HerdrTyped, TypeOK
<1>2. \A v \in Workspace : panes'[v] \subseteq panes[v]
  BY DEF TypeOK
<1>3. \A s \in Session, m \in Name : agents'[s][m] # Nothing => agents'[s][m] = agents[s][m]
  BY WithoutTypes
<1>4. HerdrIsSound'
  <2>1. \A v \in Workspace : open'[v] = Nothing => panes'[v] = {}
    BY <1>2 DEF HerdrIsSound
  <2>2. ASSUME NEW s \in Session, NEW m \in Name, agents'[s][m] # Nothing
        PROVE  open'[agents'[s][m].ws] = s
    <3>1. agents'[s][m] = agents[s][m] /\ agents[s][m] # Nothing /\ open' = open
      BY <1>3, <2>2
    <3> QED
      BY <3>1 DEF HerdrIsSound
  <2> QED
    BY <2>1, <2>2 DEF HerdrIsSound
<1>5. AgentsArePlaced'
  BY <1>3 DEF AgentsArePlaced, MayBe
<1> QED
  BY <1>1, <1>4, <1>5 DEF RowIsSound, RowIsKnown, LateIsSound, MayBe

LEMMA CreatesKeeps ==
    ASSUME TypeOK, Places, NEW w \in Workspace, NEW s \in Session, Creates(w, s),
           row' = row, forgotten' = forgotten, late' \subseteq late
    PROVE  HerdrTyped' /\ Places'
<1> USE DEF Creates, Unknown, Places
<1>1. HerdrTyped'
  BY DEF HerdrTyped, TypeOK, Name
<1>2. /\ \A v \in Workspace : open'[v] = IF v = w THEN s ELSE open[v]
      /\ \A v \in Workspace : panes'[v] = IF v = w THEN {"lead"} ELSE panes[v]
      /\ agents' = agents /\ open[w] = Nothing /\ s # Nothing
  BY NothingIsNone DEF TypeOK
<1>3. \A t \in Session, n \in Name : agents[t][n] # Nothing => agents[t][n].ws # w
  BY <1>2, NothingIsNone DEF HerdrIsSound
<1>4. HerdrIsSound'
  BY <1>2, <1>3, AgentTypes DEF HerdrIsSound
<1>5. RowIsSound' /\ RowIsKnown'
  BY <1>2 DEF RowIsSound, RowIsKnown, TypeOK, Row
<1>6. LateIsSound'
  <2> SUFFICES ASSUME NEW c \in late, c.op = "start", open'[c.ws] # Nothing
               PROVE  MayBe(c.ws, c.id)
    BY DEF LateIsSound, MayBe
  <2>1. c.ws \in Workspace /\ c.ws # w
    BY DEF TypeOK, Command
  <2> QED
    BY <1>2, <2>1 DEF LateIsSound
<1>7. AgentsArePlaced'
  BY <1>2 DEF AgentsArePlaced, MayBe
<1> QED
  BY <1>1, <1>4, <1>5, <1>6, <1>7

LEMMA SplitsKeeps ==
    ASSUME TypeOK, Places, NEW w \in Workspace, Splits(w), late' \subseteq late, row' = row,
           forgotten' = forgotten
    PROVE  HerdrTyped' /\ Places'
<1>1. HerdrTyped'
  BY DEF Splits, HerdrTyped, TypeOK
<1>2. HerdrIsSound'
  BY DEF Splits, HerdrIsSound, Places, TypeOK
<1> QED
  BY <1>1, <1>2 DEF Splits, Places, RowIsSound, RowIsKnown, LateIsSound, AgentsArePlaced, MayBe

(* An agent is started in a pane of the row, for the identity of the row,  *)
(* or late in a forgotten workspace.                                       *)
LEMMA StartsKeeps ==
    ASSUME TypeOK, Places, NEW n \in Name, NEW w \in Workspace, NEW i \in Identity, Starts(n, w, i),
           late' \subseteq late, row' = row, forgotten' = forgotten, MayBe(w, i)
    PROVE  HerdrTyped' /\ Places'
<1> USE DEF Places
<1> DEFINE new == [ws |-> w, id |-> i, state |-> "starting"]
<1>1. open[w] \in Session /\ UNCHANGED <<open, panes>> /\ new \in Agent
  BY DEF Starts, HerdrIsSound, TypeOK, Agent
<1>2. agents' = [agents EXCEPT ![open[w]][n] = new]
  BY DEF Starts
<1>3. new.ws = w /\ new.id = i
  OBVIOUS
<1> HIDE DEF new
<1>4. \A s \in Session, m \in Name :
        agents'[s][m] = IF s = open[w] /\ m = n THEN new ELSE agents[s][m]
  BY <1>1, <1>2 DEF TypeOK
<1>5. HerdrTyped'
  BY <1>1, <1>2 DEF HerdrTyped, TypeOK
<1>6. HerdrIsSound' /\ AgentsArePlaced'
  BY <1>1, <1>3, <1>4 DEF HerdrIsSound, AgentsArePlaced, MayBe
<1> QED
  BY <1>1, <1>5, <1>6 DEF RowIsSound, RowIsKnown, LateIsSound, MayBe

LEMMA AgentStateKeeps ==
    ASSUME TypeOK, Places, NEW s \in Session, NEW n \in Name, NEW state \in {"starting", "ready", "exited"},
           agents[s][n] # Nothing,
           agents' = [agents EXCEPT ![s][n].state = state], UNCHANGED <<row, open, panes, late, forgotten>>
    PROVE  HerdrTyped' /\ Places'
<1> USE DEF Places
<1> DEFINE new == [agents[s][n] EXCEPT !.state = state]
<1>1. agents \in [Session -> [Name -> Agent \cup {Nothing}]]
  BY DEF TypeOK
<1>2. agents' = [agents EXCEPT ![s][n] = new]
  OBVIOUS
<1>3. new \in Agent /\ new.ws = agents[s][n].ws /\ new.id = agents[s][n].id
  BY AgentTypes DEF Agent
<1> HIDE DEF new
<1>4. \A t \in Session, m \in Name :
        agents'[t][m] = IF t = s /\ m = n THEN new ELSE agents[t][m]
  BY <1>1, <1>2
<1>5. HerdrTyped'
  <2>1. agents' \in [Session -> [Name -> Agent \cup {Nothing}]]
    BY <1>1, <1>2, <1>3
  <2> QED
    BY <2>1 DEF HerdrTyped, TypeOK
<1>6. HerdrIsSound' /\ AgentsArePlaced'
  BY <1>3, <1>4 DEF HerdrIsSound, AgentsArePlaced, MayBe
<1> QED
  BY <1>5, <1>6 DEF RowIsSound, RowIsKnown, LateIsSound, MayBe

-----------------------------------------------------------------------------
(* What the daemon does.                                                   *)

LEMMA PcTypes ==
    ASSUME NEW n \in Name, NEW place \in Place
    PROVE  /\ For(n, place) \in [at : Place, who : Name] /\ For(n, place).at = place
           /\ At(place) \in [at : Place, who : Name] /\ At(place).at = place
           /\ For(n, place).who = n
BY DEF For, At, Name

LEMMA HarmType == TypeOK /\ Harm => harm' \in 0..MaxHarm
BY ControlAssumption DEF TypeOK, Harm

(* A move within the call that changes nothing else.                       *)
LEMMA Lands ==
    ASSUME IInv, UNCHANGED <<row, herdr, late, forgotten>>, harm' \in 0..MaxHarm,
           id' \in Identity \cup {Nothing}, made' \in Workspace \cup {Nothing},
           NEW n \in Name, NEW place \in Place, pc' = For(n, place), SoundAt(place)'
    PROVE  IInv'
<1>1. TypeOK'
  BY PcTypes DEF IInv, TypeOK, herdr
<1>2. Places'
  BY DEF IInv, Places, HerdrIsSound, RowIsSound, RowIsKnown, LateIsSound, AgentsArePlaced, MayBe, herdr
<1>3. CallIsSound'
  BY PcTypes DEF CallIsSound
<1> QED
  BY <1>1, <1>2, <1>3 DEF IInv

LEMMA PlaceOfPc ==
    ASSUME NEW n, NEW place
    PROVE  /\ pc = For(n, place) => pc.at = place /\ pc.who = n
           /\ pc = At(place) => pc.at = place /\ pc.who = "lead"
BY DEF For, At

LEMMA AtIsForLead == \A place : At(place) = For("lead", place)
BY DEF At, For

(* Raise, Fails and GivesUp.                                               *)
LEMMA Ending ==
    ASSUME IInv, NEW n \in Name,
           \/ Raise
           \/ Fails /\ pc.at \in {"split", "start", "starting", "wait"}
           \/ GivesUp /\ pc.at \in {"start", "starting", "wait"},
           pc.at # "down"
    PROVE  /\ id' = id /\ id \in Identity /\ made' \in Workspace \cup {Nothing}
           /\ \E place \in Place : pc' = At(place) /\ (UNCHANGED <<row, open, forgotten>> => SoundAt(place)')
<1> USE DEF IInv, CallIsSound, SoundAt
<1>1. id \in Identity
  OBVIOUS
<1>2. CASE Raise
  BY <1>1, <1>2 DEF Raise, Place
<1>3. CASE pc' = At("discard") /\ UNCHANGED <<id, made>> /\ made = Nothing
           /\ pc.at \in {"start", "starting", "wait"}
  BY <1>1, <1>3 DEF Place, TypeOK
<1>4. CASE pc' = At("cleanup") /\ UNCHANGED <<id, made>> /\ made # Nothing
           /\ pc.at \in {"split", "start", "starting", "wait"}
  <2>1. made \in Workspace /\ made \notin forgotten /\ (row = Nothing \/ row.ws = made)
    BY <1>4 DEF TypeOK
  <2> QED
    BY <1>1, <1>4, <2>1 DEF Place
<1>5. pc.at = "split" => made # Nothing
  OBVIOUS
<1> QED
  BY <1>2, <1>3, <1>4, <1>5 DEF Fails, GivesUp, Goto

LEMMA EndingKeeps ==
    ASSUME IInv, UNCHANGED <<row, herdr, late, forgotten>>, harm' \in 0..MaxHarm, pc.at # "down",
           \/ Raise
           \/ Fails /\ pc.at \in {"split", "start", "starting", "wait"}
           \/ GivesUp /\ pc.at \in {"start", "starting", "wait"}
    PROVE  IInv'
<1>1. PICK place \in Place : pc' = At(place) /\ (UNCHANGED <<row, open, forgotten>> => SoundAt(place)')
  BY Ending DEF Name
<1>2. id' \in Identity \cup {Nothing} /\ made' \in Workspace \cup {Nothing}
  BY Ending DEF Name
<1> QED
  BY <1>1, <1>2, Lands, AtIsForLead DEF herdr, Name

LEMMA ChecksKeep ==
    ASSUME IInv,
           \/ StartDaemon \/ Call \/ EnsureServer \/ CheckWorkspace \/ CloseRefused
           \/ \E n \in Name : CheckPane(n) \/ ReadAgent(n)
    PROVE  IInv'
<1> USE DEF IInv, CallIsSound, SoundAt, Name, Place
<1>1. UNCHANGED <<row, herdr, late, harm, forgotten>> /\ harm' \in 0..MaxHarm
  BY DEF StartDaemon, Call, EnsureServer, CheckWorkspace, CloseRefused, CheckPane, ReadAgent, TypeOK
<1>2. CASE StartDaemon
  <2>1. pc' = At("idle") /\ id' \in Identity /\ made' = made /\ made = Nothing
    BY <1>2 DEF StartDaemon, At
  <2> QED
    BY <1>1, <2>1, AtIsForLead, Lands
<1>3. CASE Call
  <2>1. pc' = At("server") /\ id' \in Identity /\ made' = Nothing
    <3>1. pc.at \in {"idle", "ready"}
      BY <1>3, PlaceOfPc DEF Call
    <3>2. pc' = At("server") /\ id' = id /\ made' = Nothing
      BY <1>3 DEF Call
    <3> QED
      BY <3>1, <3>2
  <2> QED
    BY <1>1, <2>1, AtIsForLead, Lands
<1>4. CASE EnsureServer
  <2>1. /\ UNCHANGED <<row, id, made>> /\ id \in Identity /\ made = Nothing
        /\ \/ pc' = At("create") /\ row = Nothing
           \/ pc' = At("check workspace") /\ row # Nothing /\ row.id = id
           \/ pc' = At("discard") /\ row # Nothing
    BY <1>4 DEF EnsureServer, Goto, IdentityMatches, At
  <2> QED
    BY <1>1, <2>1, AtIsForLead, Lands
<1>5. CASE CheckWorkspace
  <2>1. /\ UNCHANGED <<row, id, made>> /\ id \in Identity /\ row # Nothing /\ row.id = id
        /\ made = Nothing
        /\ pc' = At("check pane") \/ pc' = At("discard")
    BY <1>5 DEF CheckWorkspace, Goto, At
  <2> QED
    BY <1>1, <2>1, AtIsForLead, Lands
<1>6. CASE CloseRefused
  BY <1>1, <1>6, EndingKeeps DEF CloseRefused, At
<1>7. ASSUME NEW n \in Name, CheckPane(n) \/ ReadAgent(n)
      PROVE  IInv'
  <2>1. /\ UNCHANGED <<row, id, made>> /\ id \in Identity /\ row # Nothing /\ row.id = id
        /\ made = Nothing
        /\ \/ pc' = For("supervisor", "check pane") \/ pc' = At("read") \/ pc' = At("discard")
           \/ pc' = For("supervisor", "read") \/ pc' = At("ready") \/ pc' = At("start")
    <3>1. pc.at \in {"check pane", "read"} /\ UNCHANGED <<row, id, made>>
      BY <1>7, PlaceOfPc DEF CheckPane, ReadAgent, Goto
    <3>2. \/ pc' = For("supervisor", "check pane") \/ pc' = At("read") \/ pc' = At("discard")
          \/ pc' = For("supervisor", "read") \/ pc' = At("ready") \/ pc' = At("start")
      BY <1>7 DEF CheckPane, ReadAgent, Goto, After
    <3> QED
      BY <3>1, <3>2
  <2> QED
    BY <1>1, <2>1, AtIsForLead, Lands
<1> QED
  BY <1>2, <1>3, <1>4, <1>5, <1>6, <1>7

(* _start_agent, but for the command.                                      *)
LEMMA StartingKeeps ==
    ASSUME IInv, NEW n \in Name, StartAgent(n) \/ AgentWasReady(n) \/ AgentNotReady(n)
    PROVE  IInv'
<1>1. UNCHANGED <<row, herdr, late, harm, forgotten>> /\ harm' \in 0..MaxHarm /\ pc.at \in {"start", "wait"}
  <2>1. UNCHANGED <<row, herdr, late, harm, forgotten>> /\ pc.at \in {"start", "wait"}
    BY PlaceOfPc DEF StartAgent, AgentWasReady, AgentNotReady
  <2> QED
    BY <2>1 DEF IInv, TypeOK
<1>2. CASE Fails \/ GivesUp
  BY <1>1, <1>2, EndingKeeps
<1>3. ASSUME NEW m \in Name, NEW place \in {"starting", "wait", "start", "ready"},
             pc' = For(m, place), UNCHANGED <<id, made>>
      PROVE  IInv'
  <2>1. place \in Place /\ row # Nothing /\ row.id = id /\ made \in {Nothing, row.ws} /\ id \in Identity
    BY <1>1 DEF IInv, CallIsSound, SoundAt, Place
  <2>2. SoundAt(place)' /\ id' \in Identity \cup {Nothing} /\ made' \in Workspace \cup {Nothing}
    BY <1>1, <1>3, <2>1 DEF SoundAt, CallIsSound, IInv, TypeOK
  <2> QED
    BY <1>1, <1>3, <2>1, <2>2, Lands
<1>4. \/ Fails \/ GivesUp
      \/ /\ UNCHANGED <<id, made>>
         /\ \E m \in Name, place \in {"starting", "wait", "start", "ready"} : pc' = For(m, place)
  <2>1. \/ Fails \/ GivesUp
        \/ /\ UNCHANGED <<id, made>>
           /\ pc' \in {For(n, "starting"), For(n, "wait"), After(n, "start", At("ready"))}
    BY DEF StartAgent, AgentWasReady, AgentNotReady, Goto
  <2> QED
    BY <2>1, AtIsForLead DEF After, Name
<1> QED
  BY <1>2, <1>3, <1>4

(* The command: a step of Herdr and a move.                                *)
LEMMA HerdrLands ==
    ASSUME IInv, HerdrTyped' /\ Places', row' \in Row \cup {Nothing}, late' \subseteq Command,
           harm' \in 0..MaxHarm, forgotten' \subseteq Workspace,
           id' \in Identity \cup {Nothing}, made' \in Workspace \cup {Nothing},
           NEW n \in Name, NEW place \in Place, pc' = For(n, place), SoundAt(place)'
    PROVE  IInv'
<1>1. TypeOK'
  BY PcTypes DEF HerdrTyped, TypeOK
<1>2. CallIsSound'
  BY PcTypes DEF CallIsSound
<1> QED
  BY <1>1, <1>2 DEF IInv

LEMMA StartReturnsKeeps ==
    ASSUME IInv, NEW n \in Name, StartReturns(n)
    PROVE  IInv'
<1>1. /\ UNCHANGED <<row, late, harm, forgotten>> /\ harm' \in 0..MaxHarm
      /\ forgotten' \subseteq Workspace /\ pc.at = "starting"
  BY DEF StartReturns, IInv, TypeOK, For
<1>2. CASE UNCHANGED herdr /\ (Fails \/ GivesUp)
  BY <1>1, <1>2, EndingKeeps
<1>3. CASE Starts(n, row.ws, row.id) /\ Goto(For(n, "wait"))
  <2>1. row # Nothing /\ row.id = id /\ made \in {Nothing, row.ws} /\ id \in Identity
    BY <1>1 DEF IInv, CallIsSound, SoundAt
  <2>2. row.ws \in Workspace /\ row.id \in Identity
    BY <2>1 DEF IInv, TypeOK, Row
  <2>3. HerdrTyped' /\ Places'
    BY <1>1, <1>3, <2>1, <2>2, StartsKeeps DEF IInv, MayBe
  <2>4. SoundAt("wait")' /\ id' \in Identity \cup {Nothing} /\ made' \in Workspace \cup {Nothing}
    BY <1>1, <1>3, <2>1 DEF SoundAt, CallIsSound, IInv, TypeOK, Goto
  <2>5. row' \in Row \cup {Nothing} /\ late' \subseteq Command
    BY <1>1 DEF IInv, TypeOK
  <2> QED
    BY <1>1, <1>3, <2>3, <2>4, <2>5, HerdrLands DEF Goto, Place
<1> QED
  BY <1>2, <1>3 DEF StartReturns

(* The row is cleared when its workspace is gone, or forgotten.            *)
LEMMA ClearKeeps ==
    ASSUME IInv, UNCHANGED <<herdr, late>>, row' = Nothing, row # Nothing, harm' \in 0..MaxHarm,
           forgotten' \subseteq Workspace, forgotten \subseteq forgotten',
           open[row.ws] = Nothing \/ row.ws \in forgotten',
           pc' = At("create"), id' \in Identity, made' = Nothing
    PROVE  IInv'
<1>1. HerdrTyped' /\ HerdrIsSound' /\ RowIsSound' /\ RowIsKnown' /\ late' \subseteq Command
  BY DEF HerdrTyped, HerdrIsSound, RowIsSound, RowIsKnown, IInv, Places, TypeOK, herdr
<1>2. AgentsArePlaced'
  <2> SUFFICES ASSUME NEW s \in Session, NEW n \in Name, agents[s][n] # Nothing
               PROVE  agents[s][n].ws \in forgotten'
    BY DEF AgentsArePlaced, MayBe, herdr
  <2>1. open[agents[s][n].ws] = s /\ s # Nothing
    BY NothingIsNone DEF IInv, Places, HerdrIsSound
  <2>2. MayBe(agents[s][n].ws, agents[s][n].id)
    BY DEF IInv, Places, AgentsArePlaced
  <2> QED
    BY <2>1, <2>2 DEF MayBe
<1>3. LateIsSound'
  <2> SUFFICES ASSUME NEW c \in late, c.op = "start", open[c.ws] # Nothing
               PROVE  c.ws \in forgotten'
    BY DEF LateIsSound, MayBe, herdr
  <2>1. MayBe(c.ws, c.id)
    BY DEF IInv, Places, LateIsSound
  <2> QED
    BY <2>1 DEF MayBe
<1>4. SoundAt("create")'
  BY DEF SoundAt
<1> QED
  BY <1>1, <1>2, <1>3, <1>4, AtIsForLead, HerdrLands DEF Name, Place, Places

LEMMA DiscardKeeps == IInv /\ Discard => IInv'
<1> SUFFICES ASSUME IInv, Discard PROVE IInv'
  OBVIOUS
<1>1. /\ UNCHANGED <<herdr, late, harm, id, made, forgotten>> /\ harm' \in 0..MaxHarm
      /\ row # Nothing /\ id \in Identity /\ made = Nothing /\ forgotten \subseteq Workspace
  <2>1. UNCHANGED <<herdr, late, harm, id, made, forgotten>> /\ pc.at = "discard"
    BY DEF Discard, Goto, At
  <2> QED
    BY <2>1 DEF IInv, TypeOK, CallIsSound, SoundAt
<1>2. CASE open[row.ws] = StoredSession
  <2>1. row' = row /\ pc' = At("closing")
    BY <1>2 DEF Discard, Goto
  <2> QED
    BY <1>1, <2>1, AtIsForLead, Lands DEF SoundAt, Name, Place
<1>3. CASE open[row.ws] # StoredSession
  <2>1. row' = Nothing /\ pc' = At("create")
    BY <1>3 DEF Discard, Goto
  <2>2. open[row.ws] = Nothing
    BY <1>1, <1>3 DEF IInv, Places, RowIsSound, StoredSession, TypeOK, Row
  <2> QED
    BY <1>1, <2>1, <2>2, ClearKeeps
<1> QED
  BY <1>2, <1>3

LEMMA CloseReturnsKeeps == IInv /\ CloseReturns => IInv'
<1> SUFFICES ASSUME IInv, CloseReturns PROVE IInv'
  OBVIOUS
<1>1. /\ UNCHANGED <<late, harm, id, made, forgotten>> /\ row' = Nothing /\ Closes(row.ws) /\ pc' = At("create")
      /\ pc.at = "closing"
  BY PlaceOfPc DEF CloseReturns, Goto
<1>2. /\ harm' \in 0..MaxHarm /\ late' \subseteq Command /\ id \in Identity /\ made = Nothing
      /\ row # Nothing /\ forgotten' \subseteq Workspace
  BY <1>1 DEF IInv, TypeOK, CallIsSound, SoundAt
<1>3. HerdrTyped' /\ Places'
  <2>1. row.ws \in Workspace
    BY <1>2 DEF IInv, TypeOK, Row
  <2> QED
    BY <1>1, <2>1, ClosesKeeps DEF IInv
<1>4. SoundAt("create")'
  BY <1>1, <1>2 DEF SoundAt
<1> QED
  BY <1>1, <1>2, <1>3, <1>4, AtIsForLead, HerdrLands DEF Name, Place

LEMMA CreateReturnsKeeps == IInv /\ CreateReturns => IInv'
<1> SUFFICES ASSUME IInv, CreateReturns PROVE IInv'
  OBVIOUS
<1>1. PICK w \in Workspace : Creates(w, MySession) /\ made' = w
  BY DEF CreateReturns
<1>2. UNCHANGED <<row, late, harm, id, forgotten>> /\ pc' = At("split") /\ pc.at = "create"
  BY PlaceOfPc DEF CreateReturns
<1>3. /\ harm' \in 0..MaxHarm /\ late' \subseteq Command /\ id \in Identity /\ row = Nothing
      /\ row' \in Row \cup {Nothing} /\ forgotten' \subseteq Workspace
  BY <1>2 DEF IInv, TypeOK, CallIsSound, SoundAt
<1>4. MySession \in Session /\ w # Nothing
  BY <1>3, ControlAssumption DEF MySession
<1>5. HerdrTyped' /\ Places'
  BY <1>1, <1>2, <1>4, CreatesKeeps DEF IInv
<1>6. open'[w] = MySession /\ w \notin forgotten
  BY <1>1 DEF Creates, Unknown, IInv, TypeOK
<1>7. SoundAt("split")'
  BY <1>1, <1>2, <1>3, <1>4, <1>6 DEF SoundAt, MySession
<1> QED
  BY <1>1, <1>2, <1>3, <1>5, <1>7, AtIsForLead, HerdrLands DEF Name, Place

(* The row is set: no agent and no late start was for another one.         *)
LEMMA SplitReturnsKeeps == IInv /\ SplitReturns => IInv'
<1> SUFFICES ASSUME IInv, SplitReturns PROVE IInv'
  OBVIOUS
<1>1. UNCHANGED <<late, harm, forgotten>> /\ pc.at = "split"
  BY PlaceOfPc DEF SplitReturns
<1>2. /\ harm' \in 0..MaxHarm /\ late' \subseteq Command /\ id \in Identity /\ row = Nothing
      /\ made \in Workspace /\ open[made] \in {MySession, Nothing}
      /\ made \notin forgotten /\ forgotten' \subseteq Workspace
  BY <1>1 DEF IInv, TypeOK, CallIsSound, SoundAt
<1>3. CASE "lead" \in panes[made]
  <2>1. Splits(made) /\ row' = [ws |-> made, id |-> id] /\ pc' = At("start") /\ UNCHANGED <<id, made>>
    BY <1>3 DEF SplitReturns, Goto
  <2>2. row' \in Row /\ row'.ws = made /\ row'.id = id /\ row' # Nothing
    <3>1. row' \in Row
      BY <1>2, <2>1 DEF Row
    <3>2. row'.ws = made /\ row'.id = id
      BY <2>1
    <3>3. open[made] # Nothing
      BY <1>2, <1>3 DEF IInv, Places, HerdrIsSound
    <3> QED
      BY <3>1, <3>2, ControlAssumption DEF Row
  <2>3. open' = open /\ agents' = agents /\ open[made] = MySession
    BY <1>2, <1>3, <2>1 DEF Splits, IInv, Places, HerdrIsSound
  <2>4. HerdrTyped' /\ HerdrIsSound'
    BY <1>2, <2>1 DEF HerdrTyped, HerdrIsSound, Splits, IInv, TypeOK, Places
  <2>5. AgentsArePlaced'
    BY <1>1, <1>2, <2>3 DEF IInv, Places, AgentsArePlaced, MayBe
  <2>6. LateIsSound'
    BY <1>1, <1>2, <2>3 DEF IInv, Places, LateIsSound, MayBe
  <2>7. RowIsSound' /\ RowIsKnown'
    BY <1>1, <1>2, <2>2, <2>3 DEF RowIsSound, RowIsKnown, MySession
  <2>8. SoundAt("start")'
    BY <1>1, <1>2, <2>1, <2>2 DEF SoundAt
  <2> QED
    BY <1>2, <2>1, <2>2, <2>4, <2>5, <2>6, <2>7, <2>8, AtIsForLead, HerdrLands
       DEF Name, Place, Places
<1>4. CASE "lead" \notin panes[made]
  <2>1. UNCHANGED <<row, herdr, late, harm, id, made, forgotten>> /\ pc' = At("cleanup")
    BY <1>1, <1>4 DEF SplitReturns, Goto
  <2>2. SoundAt("cleanup")'
    BY <1>1, <1>2, <2>1, NothingIsNone DEF SoundAt
  <2> QED
    BY <1>2, <2>1, <2>2, AtIsForLead, Lands DEF Name, Place
<1> QED
  BY <1>3, <1>4

LEMMA SaveFailsKeeps == IInv /\ SaveFails => IInv'
<1> SUFFICES ASSUME IInv, SaveFails PROVE IInv'
  OBVIOUS
<1>1. UNCHANGED <<row, late, id, made, forgotten>> /\ pc' = At("cleanup") /\ pc.at = "split" /\ Splits(made) /\ Harm
  BY PlaceOfPc DEF SaveFails, Goto
<1>2. /\ late' \subseteq Command /\ id \in Identity /\ row = Nothing /\ row' \in Row \cup {Nothing}
      /\ made \in Workspace /\ made \notin forgotten /\ forgotten' \subseteq Workspace
  BY <1>1 DEF IInv, TypeOK, CallIsSound, SoundAt
<1>3. HerdrTyped' /\ Places'
  BY <1>1, <1>2, SplitsKeeps DEF IInv
<1>4. SoundAt("cleanup")'
  BY <1>1, <1>2, NothingIsNone DEF SoundAt
<1>5. harm' \in 0..MaxHarm
  BY <1>1, HarmType DEF IInv
<1> QED
  BY <1>1, <1>2, <1>3, <1>4, <1>5, AtIsForLead, HerdrLands DEF Name, Place

LEMMA CleanupKeeps == IInv /\ Cleanup => IInv'
<1> SUFFICES ASSUME IInv, Cleanup PROVE IInv'
  OBVIOUS
<1>1. UNCHANGED <<late, harm, id, forgotten>> /\ pc' = At("idle") /\ made' = Nothing /\ pc.at = "cleanup"
  BY PlaceOfPc DEF Cleanup, Raise
<1>2. /\ harm' \in 0..MaxHarm /\ late' \subseteq Command /\ id \in Identity
      /\ made \in Workspace /\ (row = Nothing \/ row.ws = made) /\ forgotten' \subseteq Workspace
  BY <1>1 DEF IInv, TypeOK, CallIsSound, SoundAt
<1>3. SoundAt("idle")'
  BY <1>1, <1>2 DEF SoundAt
<1>4. CASE open[made] # Nothing
  <2>1. Closes(made) /\ row' = Nothing
    BY <1>4 DEF Cleanup
  <2>2. HerdrTyped' /\ Places'
    BY <1>1, <1>2, <2>1, ClosesKeeps DEF IInv
  <2> QED
    BY <1>1, <1>2, <1>3, <2>1, <2>2, AtIsForLead, HerdrLands DEF Name, Place
<1>5. CASE open[made] = Nothing
  <2>1. UNCHANGED <<row, herdr>>
    BY <1>5 DEF Cleanup
  <2> QED
    BY <1>1, <1>2, <1>3, <2>1, AtIsForLead, Lands DEF Name, Place
<1> QED
  BY <1>4, <1>5

-----------------------------------------------------------------------------
(* What goes wrong.                                                        *)

(* A command that is given up is for the workspace of the row.             *)
LEMMA GivenUpKeeps ==
    ASSUME IInv, GivenUp, UNCHANGED <<row, herdr, forgotten>>
    PROVE  HerdrTyped' /\ Places' /\ late' \subseteq Command
<1> USE DEF IInv
<1>1. \A c \in Awaited : c \in Command /\ (c.op = "start" => MayBe(c.ws, c.id))
  <2>1. CASE pc.at = "create"
    <3>1. MySession \in Session
      BY <2>1, ControlAssumption DEF CallIsSound, SoundAt, MySession
    <3>2. Awaited = {[op |-> "create", session |-> MySession]}
      BY <2>1 DEF Awaited
    <3> QED
      BY <3>1, <3>2 DEF Command
  <2>2. CASE pc.at = "split"
    <3>1. made \in Workspace
      BY <2>2 DEF CallIsSound, SoundAt, TypeOK
    <3>2. Awaited = {[op |-> "split", ws |-> made]}
      BY <2>2 DEF Awaited
    <3> QED
      BY <3>1, <3>2 DEF Command
  <2>3. CASE pc.at = "cleanup"
    <3>1. made \in Workspace
      BY <2>3 DEF CallIsSound, SoundAt, TypeOK
    <3>2. Awaited = {[op |-> "close", ws |-> made]}
      BY <2>3 DEF Awaited
    <3> QED
      BY <3>1, <3>2 DEF Command
  <2>4. CASE pc.at = "closing"
    <3>1. row # Nothing
      BY <2>4 DEF CallIsSound, SoundAt
    <3>2. row.ws \in Workspace
      BY <3>1 DEF TypeOK, Row
    <3>3. Awaited = {[op |-> "close", ws |-> row.ws]}
      BY <2>4 DEF Awaited
    <3> QED
      BY <3>2, <3>3 DEF Command
  <2>5. CASE pc.at = "starting"
    <3>1. row # Nothing
      BY <2>5 DEF CallIsSound, SoundAt
    <3>2. row.ws \in Workspace /\ row.id \in Identity /\ pc.who \in Name
      BY <3>1 DEF TypeOK, Row
    <3>3. Awaited = {[op |-> "start", name |-> pc.who, ws |-> row.ws, id |-> row.id]}
      BY <2>5 DEF Awaited
    <3> QED
      BY <3>1, <3>2, <3>3 DEF Command, MayBe
  <2>6. CASE pc.at \notin {"create", "split", "cleanup", "closing", "starting"}
    BY <2>6 DEF Awaited
  <2> QED
    BY <2>1, <2>2, <2>3, <2>4, <2>5, <2>6
<1>2. late' \subseteq Command
  BY <1>1 DEF GivenUp, TypeOK
<1>3. LateIsSound'
  <2> SUFFICES ASSUME NEW c \in late', c.op = "start", open[c.ws] # Nothing
               PROVE  MayBe(c.ws, c.id)
    BY DEF LateIsSound, MayBe, herdr
  <2> QED
    BY <1>1 DEF GivenUp, Places, LateIsSound
<1> QED
  BY <1>2, <1>3 DEF Places, HerdrTyped, TypeOK, HerdrIsSound, RowIsSound, RowIsKnown,
                    AgentsArePlaced, MayBe, herdr

LEMMA TroubleKeeps == IInv /\ (CommandFails \/ Crash) => IInv'
<1> SUFFICES ASSUME IInv, CommandFails \/ Crash PROVE IInv'
  OBVIOUS
<1>1. Harm /\ GivenUp /\ UNCHANGED <<row, herdr, forgotten>>
  BY DEF CommandFails, Crash
<1>2. HerdrTyped' /\ Places' /\ late' \subseteq Command
  BY <1>1, GivenUpKeeps
<1>3. harm' \in 0..MaxHarm /\ row' \in Row \cup {Nothing} /\ forgotten' \subseteq Workspace
  BY <1>1, HarmType DEF IInv, TypeOK
<1>4. CASE Crash
  <2>1. pc' = At("down") /\ id' = Nothing /\ made' = Nothing
    BY <1>4 DEF Crash
  <2>2. SoundAt("down")'
    BY <2>1 DEF SoundAt
  <2> QED
    BY <1>2, <1>3, <2>1, <2>2, AtIsForLead, HerdrLands DEF Name, Place
<1>5. CASE CommandFails
  <2>1. /\ pc.at # "down"
        /\ Raise \/ (Fails /\ pc.at \in {"split", "start", "starting", "wait"})
    BY <1>5 DEF CommandFails
  <2>2. PICK place \in Place : pc' = At(place) /\ (UNCHANGED <<row, open, forgotten>> => SoundAt(place)')
    BY <2>1, Ending DEF Name
  <2>3. id' \in Identity \cup {Nothing} /\ made' \in Workspace \cup {Nothing}
    BY <2>1, Ending DEF Name
  <2>4. SoundAt(place)'
    BY <1>1, <2>2 DEF herdr
  <2> QED
    BY <1>2, <1>3, <2>2, <2>3, <2>4, AtIsForLead, HerdrLands DEF Name
<1> QED
  BY <1>4, <1>5

(* A `get` that fails.                                                     *)
LEMMA GetFailsKeeps == IInv /\ GetFails => IInv'
<1> SUFFICES ASSUME IInv, GetFails PROVE IInv'
  OBVIOUS
<1>1. UNCHANGED <<herdr, late>> /\ harm' \in 0..MaxHarm /\ forgotten \subseteq Workspace
  BY HarmType DEF GetFails, IInv, TypeOK
<1>2. CASE pc = At("discard") /\ Goto(At("create")) /\ row' = Nothing
           /\ forgotten' = forgotten \cup {row.ws}
  <2>1. pc.at = "discard"
    BY <1>2, PlaceOfPc
  <2>2. row # Nothing /\ id \in Identity /\ made = Nothing
    BY <2>1 DEF IInv, CallIsSound, SoundAt
  <2>3. row.ws \in Workspace
    BY <2>2 DEF IInv, TypeOK, Row
  <2> QED
    BY <1>1, <1>2, <2>2, <2>3, ClearKeeps DEF Goto
<1>3. CASE pc.at \in {"check workspace", "check pane", "read"} /\ UNCHANGED <<row, forgotten>>
           /\ (Goto(At("discard")) \/ Goto(At("start")))
  <2>1. row # Nothing /\ row.id = id /\ id \in Identity /\ made = Nothing /\ UNCHANGED <<id, made>>
    BY <1>3 DEF IInv, CallIsSound, SoundAt, Goto
  <2>2. SoundAt("discard")' /\ SoundAt("start")'
    BY <1>3, <2>1 DEF SoundAt
  <2> QED
    BY <1>1, <1>3, <2>1, <2>2, AtIsForLead, Lands DEF Goto, Name, Place
<1>4. CASE pc.at = "start" /\ UNCHANGED <<row, forgotten>> /\ Goto(For(pc.who, "starting"))
  <2>1. /\ row # Nothing /\ row.id = id /\ id \in Identity /\ made \in {Nothing, row.ws}
        /\ made = Nothing \/ made \notin forgotten
    BY <1>4 DEF IInv, CallIsSound, SoundAt
  <2>2. pc.who \in Name /\ made \in Workspace \cup {Nothing} /\ UNCHANGED <<id, made>>
    BY <1>4 DEF IInv, TypeOK, Goto
  <2>3. SoundAt("starting")'
    BY <1>4, <2>1, <2>2 DEF SoundAt
  <2> QED
    BY <1>1, <1>4, <2>1, <2>2, <2>3, Lands DEF Goto, Place
<1>5. CASE pc.at = "wait" /\ UNCHANGED <<row, forgotten>> /\ GivesUp
  BY <1>1, <1>5, EndingKeeps
<1> QED
  BY <1>2, <1>3, <1>4, <1>5 DEF GetFails

(* The call does not move: only what it knows of its workspace may change. *)
LEMMA Stays ==
    ASSUME IInv, HerdrTyped' /\ Places', late' \subseteq Command, harm' \in 0..MaxHarm,
           UNCHANGED <<row, pc, id, made, forgotten>>,
           made # Nothing => open'[made] \in {open[made], Nothing}
    PROVE  IInv'
<1>1. TypeOK'
  BY DEF IInv, TypeOK, HerdrTyped
<1>2. CallIsSound'
  BY DEF IInv, CallIsSound, SoundAt, MySession
<1> QED
  BY <1>1, <1>2 DEF IInv

LEMMA LateCommandKeeps ==
    ASSUME IInv, NEW c \in late, LateCommand(c)
    PROVE  IInv'
<1>1. UNCHANGED <<row, pc, id, made, harm, forgotten>> /\ late' = late \ {c}
  BY DEF LateCommand
<1>2. late' \subseteq Command /\ harm' \in 0..MaxHarm /\ c \in Command
  BY <1>1 DEF IInv, TypeOK
<1>3. ASSUME NEW w \in Workspace, c.op = "create", Creates(w, c.session)
      PROVE  IInv'
  <2>1. c.session \in Session
    BY <1>2, <1>3 DEF Command
  <2>2. HerdrTyped' /\ Places'
    BY <1>1, <1>3, <2>1, CreatesKeeps DEF IInv
  <2>3. made # Nothing => open'[made] = open[made]
    BY <1>3 DEF Creates, Unknown, IInv, TypeOK
  <2> QED
    BY <1>1, <1>2, <2>2, <2>3, Stays
<1>4. CASE c.op = "split" /\ Splits(c.ws)
  <2>1. c.ws \in Workspace
    BY <1>2, <1>4 DEF Command
  <2>2. HerdrTyped' /\ Places' /\ open' = open
    BY <1>1, <1>4, <2>1, SplitsKeeps DEF IInv, Splits
  <2> QED
    BY <1>1, <1>2, <2>2, Stays
<1>5. CASE c.op = "close" /\ Closes(c.ws)
  <2>1. c.ws \in Workspace
    BY <1>2, <1>5 DEF Command
  <2>2. HerdrTyped' /\ Places'
    BY <1>1, <1>5, <2>1, ClosesKeeps DEF IInv
  <2>3. made # Nothing => open'[made] \in {open[made], Nothing}
    BY <1>5, <2>1 DEF Closes, IInv, TypeOK
  <2> QED
    BY <1>1, <1>2, <2>2, <2>3, Stays
<1>6. CASE c.op = "start" /\ Starts(c.name, c.ws, c.id)
  <2>1. c.name \in Name /\ c.ws \in Workspace /\ c.id \in Identity
    BY <1>2, <1>6 DEF Command
  <2>2. open[c.ws] # Nothing
    BY <1>6, <2>1 DEF Starts, IInv, Places, HerdrIsSound
  <2>3. MayBe(c.ws, c.id)
    BY <1>6, <2>2 DEF IInv, Places, LateIsSound
  <2>4. HerdrTyped' /\ Places'
    BY <1>1, <1>6, <2>1, <2>3, StartsKeeps DEF IInv
  <2>5. open' = open
    BY <1>6 DEF Starts
  <2> QED
    BY <1>1, <1>2, <2>4, <2>5, Stays
<1>7. CASE UNCHANGED herdr
  <2>1. HerdrTyped' /\ Places' /\ open' = open
    BY <1>1, <1>7 DEF HerdrTyped, IInv, TypeOK, Places, HerdrIsSound, RowIsSound, RowIsKnown,
                      LateIsSound, AgentsArePlaced, MayBe, herdr
  <2> QED
    BY <1>1, <1>2, <2>1, Stays
<1> QED
  BY <1>3, <1>4, <1>5, <1>6, <1>7 DEF LateCommand

LEMMA OthersKeep ==
    ASSUME IInv,
           \/ \E s \in Session, n \in Name : AgentIsReady(s, n) \/ AgentExits(s, n)
           \/ \E w \in Workspace : OperatorCloses(w)
    PROVE  IInv'
<1>1. UNCHANGED <<row, late, pc, id, made, forgotten>> /\ late' \subseteq Command /\ harm' \in 0..MaxHarm
  <2>1. UNCHANGED <<row, late, pc, id, made, forgotten>> /\ (harm' = harm \/ Harm)
    BY DEF AgentIsReady, AgentExits, OperatorCloses
  <2> QED
    BY <2>1, HarmType DEF IInv, TypeOK
<1>2. ASSUME NEW s \in Session, NEW n \in Name, AgentIsReady(s, n) \/ AgentExits(s, n)
      PROVE  IInv'
  <2>1. PICK state \in {"starting", "ready", "exited"} :
           /\ agents[s][n] # Nothing /\ agents' = [agents EXCEPT ![s][n].state = state]
           /\ UNCHANGED <<open, panes>>
    BY <1>2 DEF AgentIsReady, AgentExits
  <2>2. HerdrTyped' /\ Places'
    BY <1>1, <2>1, AgentStateKeeps DEF IInv
  <2> QED
    BY <1>1, <2>1, <2>2, Stays
<1>3. ASSUME NEW w \in Workspace, OperatorCloses(w)
      PROVE  IInv'
  <2>1. CASE Closes(w)
    <3>1. HerdrTyped' /\ Places'
      BY <1>1, <2>1, ClosesKeeps DEF IInv
    <3>2. made # Nothing => open'[made] \in {open[made], Nothing}
      BY <2>1 DEF Closes, IInv, TypeOK
    <3> QED
      BY <1>1, <3>1, <3>2, Stays
  <2>2. ASSUME NEW n \in panes[w], panes' = [panes EXCEPT ![w] = @ \ {n}], agents' = Without(w, {n}),
               UNCHANGED open
        PROVE  IInv'
    <3>1. n \in Name
      BY DEF IInv, TypeOK
    <3>2. HerdrTyped' /\ Places'
      BY <1>1, <2>2, <3>1, PaneCloseKeeps DEF IInv
    <3> QED
      BY <1>1, <2>2, <3>2, Stays
  <2> QED
    BY <1>3, <2>1, <2>2 DEF OperatorCloses
<1> QED
  BY <1>2, <1>3

-----------------------------------------------------------------------------
LEMMA InitIInv == Init => IInv
<1> SUFFICES ASSUME Init PROVE IInv
  OBVIOUS
<1>1. TypeOK
  <2>1. agents \in [Session -> [Name -> Agent \cup {Nothing}]]
    BY DEF Init
  <2>2. open \in [Workspace -> Session \cup {Nothing}] /\ panes \in [Workspace -> SUBSET Name]
    BY DEF Init
  <2>3. pc \in [at : Place, who : Name]
    BY DEF Init, At, Name, Place
  <2>4. harm \in 0..MaxHarm
    BY ControlAssumption DEF Init
  <2> QED
    BY <2>1, <2>2, <2>3, <2>4 DEF Init, TypeOK
<1>2. Places
  BY DEF Init, Places, HerdrIsSound, RowIsSound, RowIsKnown, LateIsSound, AgentsArePlaced
<1>3. CallIsSound
  <2>1. pc.at = "down"
    BY DEF Init, At
  <2> QED
    BY <2>1 DEF Init, CallIsSound, SoundAt
<1> QED
  BY <1>1, <1>2, <1>3 DEF IInv

LEMMA StepIInv == IInv /\ [Next]_vars => IInv'
<1> SUFFICES ASSUME IInv, [Next]_vars PROVE IInv'
  OBVIOUS
<1>1. CASE UNCHANGED vars
  BY <1>1 DEF vars, herdr, IInv, TypeOK, Places, HerdrIsSound, RowIsSound, RowIsKnown,
              LateIsSound, AgentsArePlaced, MayBe, CallIsSound, SoundAt, MySession
<1>2. CASE Daemon
  BY <1>2, ChecksKeep, StartingKeeps, StartReturnsKeeps, DiscardKeeps, CloseReturnsKeeps,
     CreateReturnsKeeps, SplitReturnsKeeps, CleanupKeeps DEF Daemon
<1>3. CASE SaveFails \/ CommandFails \/ GetFails \/ Crash
  BY <1>3, SaveFailsKeeps, TroubleKeeps, GetFailsKeeps
<1>4. CASE \/ \E c \in late : LateCommand(c)
           \/ \E s \in Session, n \in Name : AgentIsReady(s, n) \/ AgentExits(s, n)
           \/ \E w \in Workspace : OperatorCloses(w)
  BY <1>4, LateCommandKeeps, OthersKeep
<1> QED
  BY <1>1, <1>2, <1>3, <1>4 DEF Next

LEMMA Invariance == Spec => []IInv
BY InitIInv, StepIInv, PTL DEF Spec

(* Every variable keeps its type.                                          *)
THEOREM TypeCorrect == Spec => []TypeOK
<1>1. IInv => TypeOK
  BY DEF IInv
<1> QED
  BY <1>1, Invariance, PTL

(* Whatever fails, dies, is late or is closed by hand: every agent of a    *)
(* fixed name is in the workspace of the row and was started for its       *)
(* identity, or is in a workspace whose row was cleared after a `get` that *)
(* failed (_discard_stale_control_plane); what is handed out is of this    *)
(* daemon's identity, and none of those.                                   *)
THEOREM AgentsAreAlwaysKnown == Spec => []AgentsAreKnown
<1>1. IInv => AgentsAreKnown
  <2> SUFFICES ASSUME IInv PROVE AgentsAreKnown
    OBVIOUS
  <2>1. pc = At("ready") => row # Nothing /\ row.id = id /\ row.ws \notin forgotten
    BY PlaceOfPc DEF IInv, Places, RowIsKnown, CallIsSound, SoundAt
  <2> QED
    BY <2>1 DEF IInv, Places, AgentsArePlaced, MayBe, AgentsAreKnown
<1> QED
  BY <1>1, Invariance, PTL
=============================================================================
