----------------------------- MODULE RulesInstall -----------------------------
(***************************************************************************)
(* install-user-rules.sh: a run puts the block of rules into the           *)
(* instruction files of several clients, all of them or none.  Editors and *)
(* other tools do not wait for it: they replace and delete an instruction  *)
(* file, or write through a descriptor that they opened before.  Signals   *)
(* interrupt a run outside its critical sections, system calls fail, and a *)
(* run may be killed and started again.                                    *)
(*                                                                         *)
(* A file is an inode, named by the order of creation, and has a revision  *)
(* that counts what was written to it; the fingerprints and texts that the *)
(* script compares tell files and revisions apart.  Every file of the      *)
(* model was at an instruction path once.  Staged files and empty          *)
(* placeholders are left out: nobody else sees them.  A refusal before     *)
(* anything is prepared changes nothing, and is left out too.              *)
(***************************************************************************)
EXTENDS Naturals

CONSTANTS
    Clients,    \* the number of instruction files
    MaxRuns,    \* bound: runs
    MaxHarm     \* bound: changes by others, failures, signals and kills in all

ASSUME InstallAssumption ==
    Clients \in Nat \ {0} /\ MaxRuns \in Nat /\ MaxHarm \in Nat

VARIABLES
    target,     \* the file at each instruction path
    revision,   \* the revision of each file
    retained,   \* files kept beside the targets, for recovery by hand
    pc,         \* where the run is, and the client it is concerned with there
    plan,       \* file and revision that the preflight read for each client
    same,       \* clients whose file is up to date already
    backup,     \* the file of each client that was moved aside
    signature,  \* the clients' backups, as they were when moved aside
    mine,       \* the file that was installed for each client
    stamped,    \* clients whose installed file was fingerprinted
    quarantine, \* the file that the rollback has just moved away
    unjudged,   \* files that it moved away and could not examine: still temporary
    reported,   \* clients for which an incomplete rollback is reported
    outcome,    \* how the last run ended
    skipped,    \* a signal made a run skip its rollback
    shown,      \* the file that others left at each path, if they left one
    removed,    \* files that others replaced or deleted
    lost,       \* unjudged files that were deleted as temporary
    files, runs, harm

disk == <<target, revision, retained>>
run == <<plan, same, backup, signature, mine, stamped, quarantine, unjudged, reported>>
others == <<shown, removed, lost>>
counts == <<files, runs, harm>>
vars == <<disk, pc, run, outcome, skipped, others, counts>>

Client == 1..Clients

(* A run installs one file for each client, a change by others adds one.   *)
MaxFiles == Clients + MaxRuns * Clients + MaxHarm

File == 1..MaxFiles

NoFile == 0

Step ==
    {"idle", "prepare", "commit", "recheck", "aside", "sign", "compare", "publish", "stamp",
     "confirm", "verify", "completed", "failing", "withdraw", "judge", "restore", "relink", "cleanup"}

At(step, c) == [at |-> step, client |-> c]

Nowhere == [c \in Client |-> NoFile]

(* The signature of a backup that was not read is that of no revision.     *)
Unsigned == [c \in Client |-> MaxHarm + 1]

(* The files that have a name.                                             *)
Linked ==
    (retained \cup unjudged \cup {quarantine} \cup UNION {{target[c], backup[c]} : c \in Client}) \ {NoFile}

InstallTypeOK ==
    /\ target \in [Client -> File \cup {NoFile}] /\ shown \in [Client -> File \cup {NoFile}]
    /\ backup \in [Client -> File \cup {NoFile}] /\ mine \in [Client -> File \cup {NoFile}]
    /\ revision \in [File -> 0..MaxHarm] /\ signature \in [Client -> 0..MaxHarm + 1]
    /\ plan \in [Client -> [file : File \cup {NoFile}, revision : 0..MaxHarm]]
    /\ retained \subseteq File /\ removed \subseteq File /\ quarantine \in File \cup {NoFile}
    /\ unjudged \subseteq File /\ lost \subseteq File
    /\ same \subseteq Client /\ stamped \subseteq Client /\ reported \subseteq Client
    /\ pc \in [at : Step, client : Client] /\ skipped \in BOOLEAN
    /\ outcome \in {"none", "complete", "failed", "killed"}
    /\ files \in 0..MaxFiles /\ runs \in 0..MaxRuns /\ harm \in 0..MaxHarm

Snapshot(c) ==
    [file |-> target[c], revision |-> IF target[c] = NoFile THEN 0 ELSE revision[target[c]]]

Init ==
    /\ \E existing \in SUBSET Client :
          target = [c \in Client |-> IF c \in existing THEN c ELSE NoFile]
    /\ files = Clients /\ revision = [f \in File |-> 0] /\ retained = {}
    /\ pc = At("idle", 1) /\ plan = [c \in Client |-> Snapshot(c)] /\ same = {}
    /\ backup = Nowhere /\ signature = Unsigned /\ mine = Nowhere
    /\ stamped = {} /\ quarantine = NoFile /\ unjudged = {} /\ reported = {} /\ outcome = "none"
    /\ lost = {} /\ skipped = FALSE /\ shown = target /\ removed = {c \in Client : target[c] = NoFile}
    /\ runs = 0 /\ harm = 0

-----------------------------------------------------------------------------
Goto(step, c) == pc' = At(step, c)

Fail == Goto("failing", 1)

(* The clients in their order.                                             *)
Advance(c, step, next) == IF c < Clients THEN Goto(step, c + 1) ELSE Goto(next, 1)

(* The preflight; whether the block in a file is that of the source, which *)
(* is edited between runs, is left open.                                   *)
Start ==
    /\ pc.at = "idle" /\ runs < MaxRuns /\ runs' = runs + 1
    /\ Goto("prepare", 1)
    /\ plan' = [c \in Client |-> Snapshot(c)]
    /\ same' \in SUBSET {c \in Client : target[c] # NoFile}
    /\ backup' = Nowhere /\ signature' = Unsigned /\ mine' = Nowhere
    /\ stamped' = {} /\ quarantine' = NoFile /\ reported' = {} /\ outcome' = "none"
    /\ shown' = target
    /\ UNCHANGED <<disk, unjudged, skipped, removed, lost, files, harm>>

(* assert_target_unchanged                                                 *)
Unchanged(c) == Snapshot(c) = plan[c]

Prepare(c) ==
    /\ pc = At("prepare", c)
    /\ IF c \in same \/ Unchanged(c) THEN Advance(c, "prepare", "commit") ELSE Fail
    /\ UNCHANGED <<disk, run, outcome, skipped, others, counts>>

Commit(c) ==
    /\ pc = At("commit", c)
    /\ IF Unchanged(c)
       THEN IF c \in same THEN Advance(c, "commit", "verify") ELSE Goto("recheck", c)
       ELSE Fail
    /\ UNCHANGED <<disk, run, outcome, skipped, others, counts>>

(* The critical section of a client.                                       *)
Recheck(c) ==
    /\ pc = At("recheck", c)
    /\ IF Unchanged(c) THEN Goto(IF target[c] = NoFile THEN "publish" ELSE "aside", c) ELSE Fail
    /\ UNCHANGED <<disk, run, outcome, skipped, others, counts>>

(* Whatever is at the path is moved aside.                                 *)
MovesAside(c) ==
    /\ pc = At("aside", c)
    /\ IF target[c] = NoFile
       THEN Fail /\ UNCHANGED <<target, backup>>
       ELSE /\ backup' = [backup EXCEPT ![c] = target[c]]
            /\ target' = [target EXCEPT ![c] = NoFile] /\ Goto("sign", c)
    /\ UNCHANGED <<revision, retained, plan, same, signature, mine, stamped, quarantine, unjudged, reported,
                   outcome, skipped, others, counts>>

Signs(c) ==
    /\ pc = At("sign", c) /\ Goto("compare", c)
    /\ signature' = [signature EXCEPT ![c] = revision[backup[c]]]
    /\ UNCHANGED <<disk, plan, same, backup, mine, stamped, quarantine, unjudged, reported,
                   outcome, skipped, others, counts>>

IsAnything(c) == TRUE

IsPlanned(c) == backup[c] = plan[c].file /\ revision[backup[c]] = plan[c].revision

Compare(c) ==
    /\ pc = At("compare", c)
    /\ IF IsPlanned(c) THEN Goto("publish", c) ELSE Fail
    /\ UNCHANGED <<disk, run, outcome, skipped, others, counts>>

(* The staged file gets a second name, if the path is free.                *)
Publish(c) ==
    /\ pc = At("publish", c)
    /\ IF target[c] = NoFile
       THEN /\ files' = files + 1 /\ target' = [target EXCEPT ![c] = files']
            /\ mine' = [mine EXCEPT ![c] = files'] /\ Goto("stamp", c)
       ELSE Fail /\ UNCHANGED <<files, target, mine>>
    /\ UNCHANGED <<revision, retained, plan, same, backup, signature, stamped, quarantine, unjudged, reported,
                   outcome, skipped, others, runs, harm>>

(* What is at the path is the installed file with the staged text.         *)
Ours(f, c) == c \in stamped /\ f = mine[c] /\ revision[f] = 0

Stamp(c) ==
    /\ pc = At("stamp", c)
    /\ IF target[c] = NoFile THEN Fail ELSE Goto("confirm", c)
    /\ stamped' = IF target[c] = mine[c] /\ revision[mine[c]] = 0 THEN stamped \cup {c} ELSE stamped
    /\ UNCHANGED <<disk, plan, same, backup, signature, mine, quarantine, unjudged, reported,
                   outcome, skipped, others, counts>>

Confirm(c) ==
    /\ pc = At("confirm", c)
    /\ IF Ours(target[c], c) THEN Advance(c, "commit", "verify") ELSE Fail
    /\ UNCHANGED <<disk, run, outcome, skipped, others, counts>>

Verify(c) ==
    /\ pc = At("verify", c)
    /\ IF (c \in same /\ Unchanged(c)) \/ (c \notin same /\ Ours(target[c], c))
       THEN Advance(c, "verify", "completed") ELSE Fail
    /\ UNCHANGED <<disk, run, outcome, skipped, others, counts>>

Backups == {backup[c] : c \in Client} \ {NoFile}

(* The backups are kept.                                                   *)
Complete ==
    /\ pc = At("completed", 1) /\ Goto("idle", 1) /\ outcome' = "complete"
    /\ retained' = retained \cup Backups /\ backup' = Nowhere
    /\ UNCHANGED <<target, revision, plan, same, signature, mine, stamped, quarantine, unjudged, reported,
                   skipped, others, counts>>

-----------------------------------------------------------------------------
(* The rollback, the last client first, with signals blocked               *)

BlockSignals ==
    /\ pc = At("failing", 1) /\ Goto("withdraw", Clients)
    /\ UNCHANGED <<disk, run, outcome, skipped, others, counts>>

Retreat(c) == IF c > 1 THEN Goto("withdraw", c - 1) ELSE Goto("cleanup", 1)

(* The rollback of a client is incomplete: its backup is kept.             *)
Report(c, moved) ==
    /\ reported' = reported \cup {c} /\ Retreat(c)
    /\ retained' = retained \cup moved \cup ({backup[c]} \ {NoFile})
    /\ backup' = [backup EXCEPT ![c] = NoFile]

(* quarantine_installed_target                                             *)
Withdraw(c) ==
    /\ pc = At("withdraw", c)
    /\ IF mine[c] = NoFile \/ target[c] = NoFile
       THEN Goto("restore", c) /\ UNCHANGED <<target, quarantine>>
       ELSE /\ quarantine' = target[c] /\ target' = [target EXCEPT ![c] = NoFile]
            /\ Goto("judge", c)
    /\ UNCHANGED <<revision, retained, plan, same, backup, signature, mine, stamped, unjudged, reported,
                   outcome, skipped, others, counts>>

JudgeDiscarding(c) ==
    /\ pc = At("judge", c) /\ quarantine' = NoFile
    /\ IF Ours(quarantine, c)
       THEN Goto("restore", c) /\ UNCHANGED <<target, retained, backup, reported>>
       ELSE /\ Report(c, {quarantine})
            /\ \/ UNCHANGED target
               \/ target[c] = NoFile /\ target' = [target EXCEPT ![c] = quarantine]
    /\ UNCHANGED <<revision, plan, same, signature, mine, stamped, unjudged,
                   outcome, skipped, others, counts>>

(* A file of somebody else goes back, if the path is free and it can.      *)
Judge(c) ==
    /\ pc = At("judge", c) /\ quarantine' = NoFile
    /\ IF Ours(quarantine, c)
       THEN /\ retained' = retained \cup {quarantine} /\ Goto("restore", c)
            /\ UNCHANGED <<target, backup, reported>>
       ELSE /\ Report(c, {quarantine})
            /\ \/ UNCHANGED target
               \/ target[c] = NoFile /\ target' = [target EXCEPT ![c] = quarantine]
    /\ UNCHANGED <<revision, plan, same, signature, mine, stamped, unjudged,
                   outcome, skipped, others, counts>>

Restore(c) ==
    /\ pc = At("restore", c)
    /\ CASE backup[c] = NoFile -> Retreat(c) /\ UNCHANGED <<retained, backup, reported>>
         [] backup[c] # NoFile /\ revision[backup[c]] = signature[c] ->
               Goto("relink", c) /\ UNCHANGED <<retained, backup, reported>>
         [] OTHER -> Report(c, {})
    /\ UNCHANGED <<target, revision, plan, same, signature, mine, stamped, quarantine, unjudged,
                   outcome, skipped, others, counts>>

RelinkClobbering(c) ==
    /\ pc = At("relink", c) /\ Retreat(c)
    /\ target' = [target EXCEPT ![c] = backup[c]] /\ backup' = [backup EXCEPT ![c] = NoFile]
    /\ UNCHANGED <<revision, retained, plan, same, signature, mine, stamped, quarantine, unjudged, reported,
                   outcome, skipped, others, counts>>

Relink(c) ==
    /\ pc = At("relink", c)
    /\ IF target[c] = NoFile
       THEN /\ target' = [target EXCEPT ![c] = backup[c]] /\ backup' = [backup EXCEPT ![c] = NoFile]
            /\ Retreat(c) /\ UNCHANGED <<retained, reported>>
       ELSE Report(c, {}) /\ UNCHANGED target
    /\ UNCHANGED <<revision, plan, same, signature, mine, stamped, quarantine, unjudged,
                   outcome, skipped, others, counts>>

(* Files that are still registered as temporary are deleted.               *)
CleanUp ==
    /\ pc = At("cleanup", 1) /\ Goto("idle", 1) /\ outcome' = "failed"
    /\ backup' = Nowhere /\ unjudged' = {} /\ lost' = lost \cup unjudged
    /\ UNCHANGED <<disk, plan, same, signature, mine, stamped, quarantine, reported,
                   skipped, shown, removed, counts>>

-----------------------------------------------------------------------------
(* What interferes                                                         *)

Harm == harm < MaxHarm /\ harm' = harm + 1

(* A signal, where none is blocked.  One between the failure and the       *)
(* blocking of signals leaves the handler of the failure.                  *)
Signal ==
    /\ Harm
    /\ \/ pc.at \in {"prepare", "commit", "verify", "completed"} /\ Fail /\ UNCHANGED skipped
       \/ pc.at = "failing" /\ Goto("cleanup", 1) /\ skipped' = TRUE
    /\ UNCHANGED <<disk, run, outcome, others, files, runs>>

(* A file cannot be created, renamed, linked, unlinked or read, or the     *)
(* directories and links on the way to a target were changed.              *)
CallFails ==
    /\ Harm
    /\ \/ pc.at \in {"prepare", "commit", "recheck", "aside", "sign", "compare", "publish", "stamp",
                    "confirm", "verify"} /\ Fail
          /\ UNCHANGED <<retained, backup, reported>>
       \/ pc.at \in {"withdraw", "restore", "relink"} /\ Report(pc.client, {})
    /\ UNCHANGED <<target, revision, plan, same, signature, mine, stamped, quarantine, unjudged,
                   outcome, skipped, others, files, runs>>

(* The file that was moved away cannot be examined: it is not kept.        *)
JudgeFails(c) ==
    /\ Harm /\ pc = At("judge", c)
    /\ unjudged' = unjudged \cup {quarantine} /\ quarantine' = NoFile /\ Report(c, {})
    /\ UNCHANGED <<target, revision, plan, same, signature, mine, stamped,
                   outcome, skipped, others, files, runs>>

(* The run is killed: what it moved away stays where it is.                *)
Kill ==
    /\ Harm /\ pc.at # "idle" /\ Goto("idle", 1) /\ outcome' = "killed"
    /\ retained' = retained \cup Backups \cup unjudged \cup ({quarantine} \ {NoFile})
    /\ backup' = Nowhere /\ quarantine' = NoFile /\ unjudged' = {}
    /\ UNCHANGED <<target, revision, plan, same, signature, mine, stamped, reported,
                   skipped, others, files, runs>>

(* Somebody writes to a file, through its path or an open descriptor.      *)
Edit(f) ==
    /\ Harm /\ f \in (1..files) \ removed
    /\ revision' = [revision EXCEPT ![f] = @ + 1]
    /\ UNCHANGED <<target, retained, pc, run, outcome, skipped, others, files, runs>>

(* Somebody deletes the file at a path, or puts another one there.         *)
Displace(c) == removed' = removed \cup ({target[c]} \ {NoFile})

Delete(c) ==
    /\ Harm /\ target[c] # NoFile /\ Displace(c)
    /\ target' = [target EXCEPT ![c] = NoFile] /\ shown' = [shown EXCEPT ![c] = NoFile]
    /\ UNCHANGED <<revision, retained, pc, run, outcome, skipped, lost, files, runs>>

Put(c) ==
    /\ Harm /\ Displace(c) /\ files' = files + 1
    /\ target' = [target EXCEPT ![c] = files'] /\ shown' = [shown EXCEPT ![c] = files']
    /\ UNCHANGED <<revision, retained, pc, run, outcome, skipped, lost, runs>>

Works(c) ==
    \/ Prepare(c) \/ Commit(c) \/ Recheck(c) \/ MovesAside(c) \/ Signs(c) \/ Compare(c)
    \/ Publish(c) \/ Stamp(c) \/ Confirm(c) \/ Verify(c)
    \/ Withdraw(c) \/ Judge(c) \/ Restore(c) \/ Relink(c)

Next ==
    \/ Start \/ Complete \/ BlockSignals \/ CleanUp \/ \E c \in Client : Works(c)
    \/ Signal \/ CallFails \/ Kill \/ \E c \in Client : JudgeFails(c)
    \/ \E f \in File : Edit(f)
    \/ \E c \in Client : Delete(c) \/ Put(c)

Spec == Init /\ [][Next]_vars

-----------------------------------------------------------------------------
(* Properties                                                              *)

(* A file that others did not remove themselves keeps a name, whatever was *)
(* moved, rolled back or cleaned up: what is written to it through an old  *)
(* descriptor can still be found.  The exceptions are what the code does:  *)
(* a run that skipped its rollback deletes its backups, and a file that    *)
(* the rollback moved away and could not examine is deleted as temporary.  *)
NothingIsDestroyed == skipped \/ (1..files) \ (removed \cup lost) \subseteq Linked

(* After a run that failed, every path has what others left there or, if   *)
(* they left nothing, not what the run installed, unless the client is     *)
(* reported.                                                               *)
Restored(c) == target[c] = shown[c] \/ (shown[c] = NoFile /\ target[c] # mine[c])

FailureRestores ==
    outcome = "failed" /\ ~skipped => \A c \in Client \ reported : Restored(c)

(* A run that reports success has taken away no file but the one that it   *)
(* read, for the one that it installed.                                    *)
SuccessHidesNothing ==
    outcome = "complete" =>
        \A c \in Client :
            target[c] = shown[c] \/ (target[c] = mine[c] /\ shown[c] \in {plan[c].file, NoFile})

(* user-rules-template/README.md:67-68: after a signal the targets that    *)
(* were committed are rolled back.                                         *)
InterruptedRestores ==
    outcome = "failed" => \A c \in Client \ reported : Restored(c)
=============================================================================
