# Verification of the agent knowledge harness

TLA+ models, TLC runs and TLAPS proofs about this repository.  Most of them are
about the program under `src/workspace-template/mcp/qiqi_delegate/`: the runtime
that lets a *Lead* agent run graphs of tasks, delegates each task to a *Peer*
agent that writes in one repository, keeps a semantic ledger of what happened,
and lets a *Supervisor* agent review that ledger.  Paths without a directory are
in there.  The others are about the knowledge store
(`src/knowledge-template/mcp/knowledge/`), the migration of workspaces
(`src/scripts/migrate_workspace.py`) and the installer of user rules
(`src/user-rules-template/scripts/install-user-rules.sh`).

## 1. Inventory

### Components

| Component | State it keeps | Operations |
|---|---|---|
| TaskGraph values, validation, scheduler (`task_graph.py`, `task_graph_validation.py`, `task_graph_scheduler.py`) | none | validate a graph; runnable and reviewable nodes; state of a graph; effect of decisions |
| Graph runtime store (`task_graph_store.py`) | SQLite: runs (revision, open wave), node rows, attempts | create a run, start and finish attempts, close a wave, save decisions, reconcile |
| Graph runtime (`task_graph_runtime.py`) | memory: authored graphs, retry plans, child tasks | `start_graph`, `get_graph`, `delegate_next`, `submit_decisions`, `reconcile_graph` |
| TaskGraph tools (`task_graph_mcp.py`) | none | the runtime as MCP tools, with the child executor and the evidence checks |
| Delegation tool (`server.py`) | memory: active repositories and sessions | `delegate_repo_task`, `release_write_scope_claim`, ledger tools; drives Herdr workspaces and Peers, waits for their answer |
| Session store and semantic ledger (`core.py`) | SQLite: sessions, turns, capture events, `slp_events`, dispositions | record turns, claims, signals, revisions, candidates, dispositions, dependencies; resolve capture events |
| Native result hook (`result_hook.py`) | rows of capture events | append the event of a Stop |
| Supervisor broker (`supervisor_broker.py`) | SQLite: cursor, floor, cases | replay the ledger, open and close cases, drain, serve |
| Supervisor control plane (`supervisor_control.py`) | SQLite: findings, delivery marks, where the two agents are | start the agents, review cases, wake the Lead, restart |
| Knowledge server (`src/knowledge-template/mcp/knowledge/`) | Markdown files, an index of their revisions, a file lock | verified reads, search, create, update one or several by revision, reindex, init |
| Workspace migration (`src/scripts/migrate_workspace.py`) | managed files, backups, recorded versions | preflight, apply, force, record |
| User-scope installers (`src/*/scripts/install-user-*.sh`) | instruction files of clients, backups | commit, roll back, clean up |
| Work-item scripts, template checks | files | parse, export, assert |

### How they interact

The Lead calls the tools of one MCP server process; several such processes
(one per Lead session, and the broker's daemon) share one SQLite database and
one Herdr server.  `delegate_next` runs each child through
`delegate_repo_task`; at its dispatch a child writes its own event and the
consumption of its dependencies into the ledger in one transaction.  The native
agent of a Peer runs the hook whenever it stops, and the server polls what the
hook wrote.  The broker reads the ledger with its own cursor; Herdr events only
wake it up.  Findings go back to the Lead as a prompt, and the Lead answers by
writing to the ledger.  The knowledge store is shared by server processes, the
operator's commands and people with editors.  Migration and installers run once
and meet what users did to their files meanwhile.

### What is hard

* **Interleaving.**  One asyncio process: other calls run at every `await` of
  `delegate_next` (it awaits whole Peers) and of `delegate_repo_task`.  Several
  processes and Herdr run beside it.  Editors respect no lock.
* **Cancellation and signals.**  Every await may raise `CancelledError`, and
  every line of a script outside its critical sections a signal, also inside
  the cleanup that a first failure or interruption started.
* **Crash.**  SQLite, Herdr and files survive a process, its dictionaries and
  tasks do not: claims, open waves, reservations, half a migration, moved files
  and agents of fixed names are left behind.
* **Late effects.**  A command to Herdr that ran into its timeout may have been
  done, or be done later, and one that failed may have been done: a prompt may
  have reached its agent all the same.  A question to Herdr that fails is taken
  for the answer that there is nothing.  A Stop event may arrive after Herdr saw
  the agent idle.
* **Staleness.**  Graphs are revised under results that were made from the old
  ones; Work Item revisions outdate captured turns; a Lead or a writer of a
  document acts on an old read; the broker applies events long after what
  answered them was written.
* **Partial failure.**  The third start of a wave fails; a workspace is created
  but the answer is lost; cleanup fails after the result was captured; the
  second of two files cannot be replaced.
* **Batches.**  Events, reviews and deliveries come in bounded batches.

### What makes each component correct

* Graph runtime: work stands only on accepted, current dependencies; tables and
  tasks agree; nothing is rewritten, nothing stalls silently, waves close.
* Delegation: one writer per repository and one driver per session, always
  under a durable claim; no captured result is lost; leftovers are reported and
  recoverable; calls end.
* Capture: the answer is the Peer's last substantial one, or it is said that
  nobody can tell; the wait ends.
* Ledger: nothing outdated or retired is accepted or consumed.
* Broker: after catching up, the open cases are exactly those the rules call
  for, whatever the lag and the batch boundaries (of a signal that
  is raised again, section 6).
* Delivery: only open issues are delivered, again only after a wake that failed,
  and in the end all of them.
* Control plane: no agent is out of reach (but for what a failing `get` makes
  the code forget), or taken for one that was started with other models or
  instructions; in the end both can be prompted.
* Knowledge: readers are told of whole batches or of nothing, written by
  somebody who knew what they replace.
* Migration and installer: no text of a user is lost; failures leave what was
  there.

The list of hazards, with source lines and the properties that cover them, is
`hazards` in `PROJECT.json`.

## 2. Modules

```
TaskGraph ---- GraphRuntime ---- GraphReview ---- GraphRuntimeProofs
                   |
    ReviewedGraph (abstract, implemented by GraphRuntime)

SemanticLedger ---- SupervisorBroker ---- SupervisorDelivery ---- SupervisorProofs

Delegation ------ DelegationProofs         KnowledgeStore ---- KnowledgeStoreProofs
ResultCapture --- ResultCaptureProofs      Migration --------- MigrationProofs
ControlPlane ---- ControlPlaneProofs       RulesInstall ------ RulesInstallProofs
```

`MC*` modules give the constants values for TLC; `RulesInstall` has numbers for
constants and needs none.  Constants have named assumptions in the module that
declares them (`GraphAssumption`, `BoundAssumption`, `CallAssumption`,
`CaptureAssumption`, `LedgerAssumption`, `BatchAssumption`,
`DeliveryAssumption`, `ControlAssumption`, `StoreAssumption`,
`MigrationAssumption`, `ManifestAssumption`, `InstallAssumption`); TLC evaluates
each of them on a passing run.  There is no RECURSIVE operator: the replay of a
batch is a recursive function, and the upward closure of a reset is the least
closed set.

### TaskGraph, GraphRuntime, GraphReview, ReviewedGraph

`TaskGraph` holds the pure part: a node has a repository, a packet, a route
(whether the preflight of the tool finds one) and dependencies; `Reset` is what
a reconciliation must run again.

`GraphRuntime` is one run.  `row` and `attempts` are the two SQLite tables,
`wave` and `revision` the columns of the run, `graph`, `plans`, `task` and
`phase` the memory of the process.  An action is the code between two awaits:

| Action | Code |
|---|---|
| `DelegateNext`, `DelegateStartFails` | `delegate_next` up to its gather, all nodes started or a later start failing after earlier ones |
| `TaskBegins`, `AttemptFinishes`, `AttemptRaises` | a child: before its executor is awaited, and after |
| `Cancel`, `CloseWave` | the cancellation handler and the finally clause |
| `SubmitDecisions`, `ReconcileGraph` | the tools, each one transaction |
| `Crash` | the process dies; no later process has the authored graph |

Abstractions.  A packet is a model value.  The order in which nodes were
authored is not kept, so a wave is any result of the greedy selection by
repository, with retries first.  A native session is named by the number of the
START attempt that created it.  Wave ids are fresh revisions.  `replan` behaves
as `block`.  A call with a stale `expected_revision` changes nothing and is
left out of `GraphRuntime`; `GraphReview` adds a Lead whose revision may be
stale.  `get_graph` and the review listings are reads.
`bind_attempt_session` is called by tests only.

`ReviewedGraph` is what the Lead is promised: no rows, attempts, waves or
revisions, only where each node stands.  `GraphRuntime!ImplementsPromise` is
the refinement.

### Delegation

Each call of `Call` is made once, in a process, for a repository, possibly
resuming a session; its name is also its turn and claim id.  `guard` and
`inUse` are `_active_repositories` and `_active_sessions`; `claims`,
`dispatched`, `sessions` and `turns` are in SQLite; `workspace` and `peer` are
in Herdr.  There is an action per await and outcome: Herdr acts, the call
resumes, fails or is cancelled there.  The in-process lock never suspends its
holder, so claiming, the durable claim and the dispatch marker are one step.
`Recover` is `release_write_scope_claim`, guarded by what its documentation
asks the caller to verify.  Assumed: a repository has one name.

### ResultCapture

One turn of a Peer: the native agent (`status` is Herdr's view of it), the hook
that a Stop starts, the `sink` of events, and the call that waits.  The agent
stops with or without background tasks, with a failure, or its hook cannot make
sense of what it is given; the event is written some time after Herdr saw the
agent settle.  `Poll` is one round of `_wait_for_result_capture` with
`resolve_capture_events`, `Tick` the passing of time to the deadline in force,
which only an event that reports background tasks extends, once each.  The
prompt may stall first (`_prompt_and_wait`).  A response is a name with a
length: the resolution compares lengths and equality, nothing else.  An event is
named by its place in the sink, and what the resolution selects is a set of
places.

### SemanticLedger, SupervisorBroker, SupervisorDelivery

`SemanticLedger` is the append-only table `slp_events`, which determines the
tables of turns and dispositions (they are written with their event in one
transaction).  It is the ledger of one Work Item: no rule relates the events of
two.  `DEPENDENCY_REQUEST` behaves as `REOPEN_REQUEST`, `repair` and `resolve`
as `reject`, `abandoned` as `superseded`, so one of each is in the model.  Left
out: texts, routes, owners, the events of write scopes (in `Delegation`),
capture reviews, the backfill of old databases.  The delegations of one session
do not overlap (`Underway`): that is `OneSessionDriver` of `Delegation`.

`SupervisorBroker` applies the events in batches, one transaction each, while
the ledger grows.  A handler is an operator from the cases before the event to
those after it, and reads the whole ledger where the code reads the current
tables.  A subject has one case for ever (its fingerprint is UNIQUE), so cases
are a function from subjects.  `RecordFinding` may happen at any time here, a
superset of what the drain does.  R3 is left out: the only scope any caller
claims is the whole repository, and it must be free, so two claims never
overlap.

`SupervisorDelivery` is the daemon: `pc` follows `_drain_durable` and
`handle_pending_cases` from one await or transaction to the next, `delivery`
holds the marks of the findings, `pending` says that serve has another drain to
do.  `woken` is not in the code; it records how the living daemon's last wake
about a case ended: the Lead was told, the wake failed (`WakeFails`, after which
the reservation is released and the wake repeated, although the prompt may have
arrived), or an error that only `serve` catches cut it or its mark off
(`WakeAborts`, after which the reservation stays).

### ControlPlane

`ensure_started` of `HerdrControlPlane`: every await is a command to Herdr.
`row` is the persisted topology, `open`, `panes` and `agents` are Herdr's.  A
command is done and answered, fails, or is given up by a timeout or the death
of the daemon and stays in `late`, from where it may still be done at any later
time, in a workspace that was closed or is another's by then.  `pc` names the
agent a step is concerned with.  A `workspace get`, `pane get` or `agent get`
that fails does not raise: it is taken for absence (`GetFails`), and one that
fails before a close makes `_discard_stale_control_plane` clear the row and leave
the workspace.  `forgotten` is not in the code; it has the workspaces of rows
that were cleared like that.  The daemon starts again for one of several
identities (Herdr session, models, instructions).  Its prompts to the agents
are in `SupervisorDelivery`, as reviews and wakes that succeed or fail.

### KnowledgeStore

Documents and index are files that are replaced as a whole; a revision is a
hash, so a content stands for its own revision.  `at` is where each process is
in its call: a writer loads the document, waits for the lock, plans, checks the
expected revisions again, replaces one document after the other and the index
last, and restores its backups if one of these fails.  Readers and people take
no lock.  `dirty` is not in the code; it has the documents that edits by hand,
deaths and failed rollbacks left different from what is published, about which
nothing is promised until a reindex.

### Migration

`file`, `backup` and `recorded` are on disk, `reached` and `todo` in the memory
of the run.  Files are migrated in any order within a version and scope; a run
ends by completing, being refused, dying (also in the middle of a copy) or
being a dry run, and another one, perhaps with other options, begins where the
record says.  A content maps regions to texts, which is what a merge by lines
tells apart.  `mine` and `touched` are not in the code; they remember what the
user wrote, and where.

### RulesInstall

A run of the script from its preflight to its cleanup, one action for each
system call on an instruction file that others could see or that could fail.
A file is an inode with a revision, so that moving, linking and replacing it,
and writing to it through an old descriptor, are what they are on a disk.
Others edit, replace and delete files at any time; system calls fail; signals
come where they are not blocked; a run may be killed and another one begins.
A file that the rollback moved away and cannot examine (`JudgeFails`) stays
registered as temporary (`unjudged`), and the cleanup deletes it.  A test for
existence that fails itself, which Python takes for absence, is not modelled.
`shown`, `removed` and `lost` are not in the code; they remember what others left
at a path, which files they removed themselves and which the cleanup deleted
unexamined.

## 3. Runs

Times are those of two workers on a small machine.

| Run | Checks | Bounds | States |
|---|---|---|---|
| `graphs` | type, five invariants, refinement of `ReviewedGraph`, two step properties, `WaveEventuallyCloses` | four families of graphs, see below | 146k, 84 s |
| `delegation` | four invariants, `EveryCallEnds` | 3 calls, 2 processes, 2 repositories | 320k, 55 s |
| `capture` | `ReportIsKept`, `NoInterimResult`, `CaptureEnds` | 3 responses of different lengths, 4 events | 1.3M, 128 s |
| `broker` | ledger and broker invariants, `FindingsAreKept` | 2 turns, 3 revisions, 6 to 8 events, batches of 2 | 364k, 56 s |
| `delivery` | `OnlyOpenIssuesAreReserved`, `OnlyFailedWakesAreRepeated`, `EveryCaseIsReviewed`, `EveryIssueReachesLead` | 1 turn, 2 revisions, 5 events, batches of 2 and 1, crash and every error | 310k, 97 s |
| `control_plane` | `AgentsAreKnown`, `EventuallyReady` | 3 identities, 2 Herdr sessions, 4 workspaces, 3 disturbances | 1.0M, 120 s |
| `knowledge` | `IndexIsCurrent`, `CommitsAreAtomic` | 2 processes, 2 documents, 3 calls, 2 mishaps | 4.7M, 128 s |
| `migration` | `NothingLocalIsLost`, `RecordIsNotAhead`, `PreflightSuffices` | 3 versions, 2 scopes, 2 files, 2 edits, any number of runs | 5.5M, 100 s |
| `rules_install` | `NothingIsDestroyed`, `FailureRestores`, `SuccessHidesNothing` | 2 files, 2 runs, 3 disturbances | 3.7M, 50 s |
| `delegation_recovery`, `broker_signals`, `rules_signals` | one documented statement each, violated: section 6 | | |

Deadlock is not checked but in `control_plane`: the other models may stop (all
calls over, every node accepted, the bound of a counter reached).

**Why the bounds are enough.**  *graphs*: a run keeps to one of four families
(`family` of `MCGraphRuntime`), each explored to its own revision (the
constraint `Bounded`).  A chain of two nodes is the smallest graph in
which evidence flows; up to revision 11 it goes through a full cycle (run,
review, run, review), a material revision of the root, and its rerun to the
point where it is accepted again.  The
topologies cut the chain, drop a node, author it again later and take a route
away.  The waves have three nodes, two in one repository, and a join, with
start failures, cancellation and a crash.  In the reviews the Lead holds an
earlier read, while others decide and reconcile.  *delegation*: three calls are a
writer, a rival in its process and a rival elsewhere; they START in one
repository, or two of them resume the session of the first, at home or from
another repository.  *capture*: three lengths are enough for each way in which
two responses can compare (housekeeping, clearly shorter, of like size), four
events for a report between two others and an addition after it.  *broker*: two
turns share a session, so that one response
answers for another's blocked Peer; batches of two put boundaries between any
event and its answer; under the constraint `Focused` all ledgers of up to six
events are explored, and of up
to eight those of one candidate (revised, reviewed, reconciled, revised again)
and those that no broker reads yet (the shortest violations of the ledger's own
invariants).  *delivery*: a batch of one review makes two open cases exceed it.
*control_plane*: two identities share a Herdr session, one has another; four
workspaces are one of each, and one that a late command finds gone; three
disturbances are a failure, one in its cleanup, and one in the next attempt, or
two questions that fail in a row (a check and the one before the close) and a
death or an exit besides.
*knowledge*: a batch of both documents against a second writer, reader or
reindex, and edits between any two of their steps.  *migration*: one file is
merged twice in the same region and once in the other, one is created, replaced
and deleted.  *rules_install*: with two files one is committed when the other
fails, and a second run meets what a killed one left.
Each property is violated within these bounds by some plausible bug of the
code, one per property, listed as `mutants` in `PROJECT.json`.

**Fairness.**  `GraphRuntime!Fairness`: the event loop runs a ready child, an
executor returns or raises at last (an assumption on the Peer: the wait has no
deadline), and a finished gather resumes the call that awaits it.  Nobody is
obliged to decide, reconcile or cancel.  `Delegation!FairSpec`: each request to
Herdr or the Peer is answered with success or failure; which, is open; a crash
is never obliged.  `ResultCapture!Spec`: the loop of the wait goes on,
time passes or it polls, and neither is preferred; nothing is asked of the agent and its hooks, so `CaptureEnds` does not rest on
them (it begins where the agent settled).  `SupervisorDelivery!Fairness`: the
daemon takes its own steps; it does not die for ever (the operator or a service
starts it again and at some time it stays up); a control plane, a review and a
wake that are tried again and again succeed at some time (strong fairness, as
the loop of `serve` retries them); a buffered wakeup is taken.  Nothing is
assumed of the errors that only `serve` catches: `EveryIssueReachesLead` excepts
the issues they hit.  With reviews
that fail for ever, the oldest twenty would starve the rest: no document
promises otherwise.  `ControlPlane!Fairness`: the daemon takes its steps and is
started again, and an agent that is awaited again and again becomes ready once;
the disturbances are bounded, so `EventuallyReady` says that the daemon needs
no help once they are over, unless it forgot an agent that keeps a name.  `KnowledgeStore`, `Migration` and `RulesInstall`
are about safety only.

## 4. Properties

*GraphRuntime, GraphReview.*  `DependenciesAccepted`, `EvidenceIsSound`: what
runs, is under review or accepted stands on accepted dependencies of the graph
as authored now, on the very attempts they still show, and on captured turns.
`RecordsAgree`: the two tables, the open wave, the tasks and the repositories
agree.  `PlansAreCurrent`, `ResumeIntentKept`: a retry plan never goes stale and
is used up only by the attempt it asks for.  `NoSilentStall`: a run that reports
blocked has a node the Lead blocked.  `EndedAttemptsAreFixed`: history is not
rewritten.  `RevisionIdentifiesState`: who holds the current revision holds the
current state.  `ImplementsPromise`, `WaveEventuallyCloses`.

*Delegation.*  `OneWriter`, `OneSessionDriver`, `PeerIsClaimed`; `AnswersTellAll`:
a captured turn reaches its caller unless the call was cancelled, and a claim
that outlives its call is explained to somebody; `EveryCallEnds`.

*ResultCapture.*  `ReportIsKept`: the response that is returned is the last
substantial one, and an ambiguity shows all there are.  `NoInterimResult`,
`CaptureEnds`.

*SemanticLedger.*  `RetiredStaysRetired` (for tracked turns: the code does not
ask an untracked turn for its currency), `EvidenceIsUpToDate`.

*SupervisorBroker.*  `UndisposedHaveCases` (R1), `EarlyConsumptionsHaveCases`
(R2), `StaleCandidatesHaveOneCase` (R5): once the cursor is at the tail, a case is
active if and only if the ledger calls for it.  `SignalsHaveCases` (R4): a signal
has an active case from the first time it is raised until it is settled, and a
case is active only for a signal that is not settled.  Of a signal that is raised
again it does not say that there is a case: `UnresolvedSignalsHaveCases`, which
is R4 as documented, does, and `broker_signals` finds it violated (section 6).
The ledger side is stated over the log and not over the handlers.
`FindingsAreKept`: no replay moves a finding to another revision or reopens a
closed case.

*SupervisorDelivery.*  `OnlyOpenIssuesAreReserved`: a wake is decided on only
while the ledger calls for the case.  `OnlyFailedWakesAreRepeated`: one daemon
wakes the Lead again about a case only after a wake that failed, which may have
arrived; never after one that succeeded or was cut off.  `EveryCaseIsReviewed`.
`EveryIssueReachesLead`: in the end every open issue is marked delivered, or its
wake or mark ended in an error that only `serve` catches.

*ControlPlane.*  `AgentsAreKnown`: no agent of a fixed name is where the row
does not tell, or of another identity than it tells, unless its workspace was
forgotten after a `get` that failed; and none of these is handed out.
`EventuallyReady`: again and again there are two agents to prompt, unless an
agent of a forgotten workspace holds one of the names.

*KnowledgeStore.*  `IndexIsCurrent`: with the lock free, what is published is
what is there.  `CommitsAreAtomic`: the index changes by whole batches, each
document from the very content its writer expected.

*Migration.*  `NothingLocalIsLost`: a text of the user that the user did not
overwrite is in its file or in an archive.  `RecordIsNotAhead`: a file that was
left alone is never older than the record says.  `PreflightSuffices`.

*RulesInstall.*  `NothingIsDestroyed`: a file that others did not remove keeps
a name, also while they may hold a descriptor of it.  `FailureRestores`,
`SuccessHidesNothing`.  The first two except runs that skipped their rollback,
which is what `rules_signals` is about, and the first one a file that a rollback
moved away and could not examine.

Type invariants: `TypeOK` of `GraphRuntime` is checked by `graphs` and proved;
those of the other modules are proved, and are no property of a run (of
`InstallTypeOK`, what the proofs about the installer need: `Shape` and `Numbered`).

## 5. Proofs

For every value of the constants that satisfies the assumptions:

| Theorem | Says |
|---|---|
| `GraphRuntimeProofs!TypeCorrect` | `Spec => []TypeOK` |
| `GraphRuntimeProofs!DependenciesAlwaysAccepted` | `Spec => []DependenciesAccepted` |
| `GraphRuntimeProofs!NeverStallsSilently` | `Spec => []NoSilentStall` |
| `GraphRuntimeProofs!RecordsAlwaysAgree` | `Spec => []RecordsAgree` |
| `GraphRuntimeProofs!PlansAlwaysCurrent` | `Spec => []PlansAreCurrent` |
| `GraphRuntimeProofs!EvidenceAlwaysSound` | `Spec => []EvidenceIsSound` |
| `GraphRuntimeProofs!EndedAttemptsNeverChange` | `Spec => EndedAttemptsAreFixed` |
| `GraphRuntimeProofs!ResumeIntentNeverLost` | `Spec => ResumeIntentKept` |
| `GraphRuntimeProofs!KeepsThePromise` | `Spec => ImplementsPromise` |
| `GraphRuntimeProofs!ReviewIsARun` | `ReviewSpec => Spec` |
| `GraphRuntimeProofs!RevisionAlwaysIdentifies` | `ReviewSpec => []RevisionIdentifiesState` |
| `DelegationProofs!TypeCorrect` | `Spec => []TypeOK` |
| `DelegationProofs!PeerAlwaysClaimed` | `Spec => []PeerIsClaimed` |
| `DelegationProofs!OneWriterOnly` | `Spec => []OneWriter` |
| `DelegationProofs!OneSessionDriverOnly` | `Spec => []OneSessionDriver` |
| `DelegationProofs!AnswersAlwaysTellAll` | `Spec => []AnswersTellAll` |
| `SupervisorProofs!RetiredForGood` | `LedgerSpec => []RetiredStaysRetired` |
| `SupervisorProofs!EvidenceAlwaysUpToDate` | `LedgerSpec => []EvidenceIsUpToDate` |
| `SupervisorProofs!BrokerTypeCorrect` | `BrokerSpec => [](TypeOK /\ BrokerTypeOK)` |
| `SupervisorProofs!UndisposedAlwaysHaveCases` | `BrokerSpec => []UndisposedHaveCases` |
| `SupervisorProofs!EarlyConsumptionsAlwaysHaveCases` | `BrokerSpec => []EarlyConsumptionsHaveCases` |
| `SupervisorProofs!SignalsAlwaysHaveCases` | `BrokerSpec => []SignalsHaveCases` |
| `SupervisorProofs!StaleCandidatesAlwaysHaveOneCase` | `BrokerSpec => []StaleCandidatesHaveOneCase` |
| `SupervisorProofs!FindingsAlwaysKept` | `BrokerSpec => FindingsAreKept` |
| `SupervisorProofs!DeliveryTypeCorrect` | `DeliverySpec => []DeliveryTypeOK` |
| `SupervisorProofs!CasesStayJustified` | `DeliverySpec => []` of the four rules |
| `SupervisorProofs!FindingsKeptByDelivery` | `DeliverySpec => FindingsAreKept` |
| `SupervisorProofs!OnlyOpenIssuesReserved` | `DeliverySpec => OnlyOpenIssuesAreReserved` |
| `SupervisorProofs!RepeatsOnlyFailedWakes` | `DeliverySpec => OnlyFailedWakesAreRepeated` |
| `SupervisorProofs!BrokerKeepsLedger`, `DeliveryKeepsLedger` | `BrokerSpec => LedgerSpec`, `DeliverySpec => LedgerSpec` |
| `ControlPlaneProofs!TypeCorrect` | `Spec => []TypeOK` |
| `ControlPlaneProofs!AgentsAreAlwaysKnown` | `Spec => []AgentsAreKnown` |
| `ResultCaptureProofs!TypeCorrect` | `Spec => []TypeOK` |
| `ResultCaptureProofs!ReportAlwaysKept` | `Spec => []ReportIsKept` |
| `ResultCaptureProofs!NeverAnInterimResult` | `Spec => []NoInterimResult` |
| `KnowledgeStoreProofs!TypeCorrect` | `Spec => []TypeOK` |
| `KnowledgeStoreProofs!IndexAlwaysCurrent` | `Spec => []IndexIsCurrent` |
| `KnowledgeStoreProofs!CommitsAlwaysAtomic` | `Spec => CommitsAreAtomic` |
| `MigrationProofs!TypeCorrect` | `Spec => [](TypeOK /\ WithinTarget)` |
| `MigrationProofs!NothingLocalIsEverLost` | `Spec => []NothingLocalIsLost` |
| `MigrationProofs!PreflightAlwaysSuffices` | `Spec => []PreflightSuffices` |
| `MigrationProofs!RecordNeverAhead` | `NeverReturns => (Spec => []RecordIsNotAhead)` |
| `RulesInstallProofs!NothingIsEverDestroyed` | `Spec => []NothingIsDestroyed` |
| `RulesInstallProofs!FailureAlwaysRestores` | `Spec => []FailureRestores` |
| `RulesInstallProofs!SuccessNeverHides` | `Spec => []SuccessHidesNothing` |

*GraphRuntime*, from `GraphAssumption` (nodes are finite, every authored graph
is valid) and `BoundAssumption`.  `DependenciesAccepted` is not inductive:
its step for a reconciliation needs that nothing runs then, and that a node
which is not reset kept its dependencies (`ResetClosed`, `KeptIsUnchanged`);
its step for a decision needs that a satisfied node is idle (`DecidedIsIdle`)
and that a running child is a child of the open wave (`WaveHeld`,
`ChildrenRun`); rows point at existing attempts (`RowPointsAtAttempt`), and
authored nodes are active (`AuthoredIsLive`).  `IInv` is the conjunction; there
is one lemma per action.  `NoSilentStall` follows from `IInv` in every state:
of the pending nodes, a minimal one in the acyclic graph would be runnable.

The other theorems need more, since the two tables, the plans and the evidence
hold one another up: `RInv` adds, node by node, that a row mirrors its last
attempt (`Mirrors`), that a captured turn ended its attempt (`TurnsFit`), that a
row that is not idle has one (`BusyHasAttempt`); and of the whole run, that the
rows in use are those of the authored graph, that the open wave owns what runs,
one node to a repository, that a node that runs has used its plan, and that a
node keeps an attempt only while its dependencies stay accepted, unless the
Lead blocked it (`AttemptsStandOnAccepted`).  The step of a reconciliation is
where these meet: a kept node keeps its attempt because none of its
dependencies was reset.  `KeepsThePromise` takes every action of the code to one
of `ReviewedGraph` or to a stutter: a wave starts as one step, and its children
are put under review as they end, or together when the wave is closed over them.
A Lead with an old read takes only steps of `GraphRuntime` (`ReviewIsARun`), and
each step that changes what it could have read counts the revision on.

*Supervisor*, from `LedgerAssumption`, `BatchAssumption` and
`DeliveryAssumption`.  An append-only log needs no more than to say, of each
event, what was true of the log before it: `Lawful` is that conjunction, and
with the types it is inductive (`LedgerInv`).  The two theorems about the ledger
follow from it in every state.

For the broker, `Governs(C, k)` says that the cases `C` are those that the first
`k` events call for, rule by rule (`R1Holds`, `R2Holds`, `R4Holds`, `R5Holds`).
It is stated for every prefix of the ledger, although `StaleCandidatesHaveOneCase`
and the others only speak of a cursor at the tail, for a handler reads the whole
ledger and not the prefix that was applied: what a disposition that the cursor
did not reach yet already forbids is in each rule, and the lemmas by event
(`GovernsOneMore`) show that it comes out right when the cursor gets there.  A
batch is a recursive function; that all of its steps keep `Governs` is shown by
a least counterexample.  In the daemon, the mark of a case outlives a wake that
did not fail (`WokenAreMarked`: a case whose last wake succeeded or was cut off
is marked, or closed for good), and this with `BrokerInv` is enough for
`RepeatsOnlyFailedWakes`.

*ResultCapture*, from `CaptureAssumption`.  Nothing is found before the call is
over and nothing changes afterwards, so the two invariants are inductive with
the types; the work is in the poll that returns.  The latest event is a Stop
when it is final, the longest Stop is substantial, and a Stop that is not
substantial is short beside it: so the last substantial one is what
`ReportIsKept` asks for, whether the code found it as the latest or by going
back over housekeeping.

*Delegation*, from `CallAssumption`.  `OneWriter` follows from two facts: a
Peer works under its claim (`PeerIsClaimed`), and the claims are of distinct
repositories (`ClaimsAreDisjoint`, which the transaction that adds a claim
ensures).  The first one is inductive only with `DispatchedIsClaimed` (a call
at work holds its claim, because nobody may recover it before the call is over)
and `PeerHasWorkspace` (a verified closed workspace has no Peer).
`OneSessionDriver` follows with `ResumesAtHome`: two Peers of one session would
be two Peers in the repository of that session.

*ControlPlane*, from `ControlAssumption`.  That an agent is where the row says
is inductive with three more facts: a start that may still be done names the
workspace of the row, or one that is closed or forgotten (`LateIsSound`: the row
is deleted only after its workspace was closed, or after a failing `get`); an agent is in an open workspace of its
session (`HerdrIsSound`); the row's workspace is open in its identity's
session, if at all (`RowIsSound`).  `SoundAt` says what `ensure_started` knows
at each of its awaits.

*KnowledgeStore*, from `StoreAssumption`.  `Fits` says what each place of a call
implies (the lock, the batch, how far it has come).  `DiskIsCurrent` extends
`IndexIsCurrent` to states in which the lock is held: only what its holder
handled may differ from the index.  `CanBeUndone` says that the backups and the
old index of the holder are what readers are told of, so that a failure at any
replacement restores it; `WritesExpected` that it replaces what its caller
expected; `ScanIsCurrent` that what it publishes is on disk.  Edits by hand and
deaths are accounted for by `dirty`.

*Migration*, from `MigrationAssumption` and `ManifestAssumption`.  A local text is no template text
(`LocalIsNotTemplate`), so what replaces a file is either a merge that keeps it
or was archived before, to a place that was free or already has that content.
`WithinTarget` bounds the version of a run.  `RecordIsNotAhead` does not hold
for all templates: if one goes back on a region that an earlier one changed, a
merge repeated after an early end can give a mixture that no template has.
`NeverReturns` excludes that (nothing in the code does; the templates of the run
satisfy it, which TLC evaluates), and then a repeated merge finds nothing to
change.  Its invariant says which template a file has at least reached, at each
point of a run: the record in a dry run, what the memory of the run says
otherwise, and the version under way for a file that was done.

*RulesInstall*, from `InstallAssumption`.  A file loses a name only by a cleanup
or by a rename onto it; `BackupsArePlaced` says at which steps a client may
have a backup at all, so that a new one takes no other's place, and that none
is left when the cleanup deletes.  What a run tells at its end needs to know
where the file at each path comes from at each of its steps, on the way forward
(`CommitStands`), on the way back (`RollbackStands`) and at the end
(`EndStands`): it is what others left there, the file that the run installed
while theirs is in the backup, or nothing while theirs is in the backup.  Others
may act at any of these steps, and then it is what they left.

How the proofs are laid out: an invariant is a conjunction of named parts, there
is a lemma for each action, and theorems are at the end of each component.  The
induction theorems of the library take an operator as a parameter, which none of
the provers instantiates; where a proof needs a least number or a greatest
element, it comes from strict inclusion of finite sets, which is well-founded.

Assumptions that the proofs use and the code justifies: valid authored graphs
(`start_graph` and `reconcile_graph` refuse others), a finite set of turns, and
that there is a response and a content at all.

Only model-checked:

* Liveness: `WaveEventuallyCloses`, `EveryCallEnds`, `CaptureEnds`,
  `EveryCaseIsReviewed`, `EveryIssueReachesLead`, `EventuallyReady`.  The
  provers cannot reason about fairness.
* The three violations, which are found by runs.

## 6. What the code does otherwise than documented

Shown by a run:

* `delegation_recovery`: a call cancelled while it closes its workspace leaves
  the finally clause before it frees the repository in its process
  (`server.py:1669` catches `Exception` only); `release_write_scope_claim` then
  refuses there although the Peer is gone.
* `rules_signals`: a signal that is delivered after an error, or after the
  first of two, but before the handler blocks signals
  (`install-user-rules.sh:597`) skips the rollback, and the cleanup deletes the
  backups of files that were replaced already.
* `broker_signals`: a signal that is raised again after its case was closed gets
  none, since the fingerprint of the closed case is still taken
  (`supervisor_broker.py:701`), although R4 calls for a case while the signal
  "remains unresolved" (`docs/SUPERVISOR_RUNTIME.md:118`).

In the models, and excepted by the properties they break:

* A wake, or the mark of it, that ends in an `OSError` or a database error is
  not caught at `supervisor_control.py:1529`: its reservation stays in the daemon
  that goes on, and the issue is delivered after the next start only, although
  `docs/SUPERVISOR_RUNTIME.md:269-272` say that failures are retried
  (`WakeAborts`; `EveryIssueReachesLead` excepts it).
* A wake that failed is repeated, although its prompt may have reached the Lead:
  it may be told twice by one daemon (`WakeFails`;
  `OnlyFailedWakesAreRepeated`).
* A `workspace get` that fails counts as a workspace that does not exist
  (`supervisor_control.py:1008-1021`), so that `_discard_stale_control_plane`
  deletes the row without a confirmed close, and agents of fixed names live on
  where no row tells, although `docs/SUPERVISOR_RUNTIME.md:29-33` and the comment
  at `:1347-1349` promise to keep the only locator (`GetFails`; `AgentsAreKnown`
  and `EventuallyReady` except it).  One failing `get` is enough when the row is
  of another identity; else two in a row are needed.
* A file that the rollback of the installer moved away and cannot stat or read is
  deleted by the cleanup (`install-user-rules.sh:360-365`), in spite of the
  comment below it (`JudgeFails`; `NothingIsDestroyed` excepts it).

Seen while modelling.  No run is about these; unless said otherwise, the models
do them as the code does:

* A call whose workspace create is cancelled or answered unusably releases its
  claim while that workspace stays open (`docs/SUPERVISOR_RUNTIME.md:228-229`);
  no Peer runs in it (`PeerIsClaimed`).
* A case opened by the replay after the reviews of a drain is not reviewed by
  it, though `--supervise-once` is documented to drain everything
  (`docs/SUPERVISOR_RUNTIME.md:299-300`).
  The daemon reviews it after its next wakeup.
* An agent that is blocked cannot be prompted and is replaced.
* An agent that finishes before the recovery of its stalled prompt took its
  first look is reported as still stalled.
* Knowledge: a reader that meets a batch half published is told `stale_index`,
  as if a reindex were needed, though the state is passing; an edit by hand
  between the last check and the replacement is overwritten; `init_store`
  takes no lock.
* Migration: the state is written once, after the last version
  (`migrate_workspace.py:573`).  A run that ended early is repeated on files of
  later versions, and may then be refused for "local edits" of a file that
  nobody edited.  A forced run also replaces an edited file that would merge,
  its preflight does not ask whether the archive is free, and a death in the
  middle of a backup leaves part of one.
* Installer: a killed run, or one whose backup was edited meanwhile, leaves a
  path empty and the file in a hidden backup; a signal after the last commit
  makes the run report failure although it installed everything.
* A disposition recorded directly for a turn of a graph node has no graph
  fields, so a later decision on that attempt counts as a different one
  (`task_graph_mcp.py:515`, `core.py:1978-2000`): `submit_decisions` raises
  until a reconciliation resets the node.  Documented as a refusal, and not
  modelled.

## 7. Not modelled, and the plan

1. The graph with dispositions, for the last remark above.
2. `GraphAlgorithms`: Kahn's pass of the validation against acyclicity, the
   loop of `_graph_reconciliation_sets` against `Reset`, the greedy selection
   against `WaveSelection`, over all small graphs.
3. The repair of a broker state without a floor, and R3 for claims of other
   scopes; a second cancellation in the cleanup of a wave on interpreters
   before 3.12, where an await in a cancellation handler is another chance to
   be cancelled.
4. The installer of the writing skill: the protocol of `RulesInstall` for
   directories, with a manifest.  The others copy files.
5. Proofs: the pure part, once 2. has the algorithms, against their definitions
   on finite graphs as far as that needs no induction over data.

Not planned: work-item scripts and template checks (parsing and assertions
about files, no state of their own); the wait for the capture of a review and
the Herdr subscription (the protocol of `ResultCapture`, and a source of
wakeups that need not be true); configuration of routes, schema migrations and
listings; ranking and sections of the knowledge server, which are pure.
