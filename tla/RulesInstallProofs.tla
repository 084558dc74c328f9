--------------------------- MODULE RulesInstallProofs ---------------------------
(***************************************************************************)
(* Theorems about RulesInstall, for any number of instruction files, runs  *)
(* and disturbances.                                                       *)
(***************************************************************************)
EXTENDS RulesInstall, TLAPS

-----------------------------------------------------------------------------
(* The inductive invariant: where a file was moved aside, and where it may *)
(* only be that a backup or a quarantine is empty.                         *)

Shape ==
    /\ target \in [Client -> Nat] /\ backup \in [Client -> Nat]
    /\ quarantine \in Nat /\ files \in Nat
    /\ pc.at \in Step /\ pc.client \in Client /\ pc = At(pc.at, pc.client)

(* The clients that may have a backup.                                     *)
NoBackupFrom(c) == \A d \in Client : d >= c => backup[d] = NoFile

NoBackupAfter(c) == \A d \in Client : d > c => backup[d] = NoFile

NoBackup == \A d \in Client : backup[d] = NoFile

BackupsArePlaced ==
    /\ pc.at # "judge" => quarantine = NoFile
    /\ pc.at \in {"idle", "prepare"} => NoBackup
    /\ pc.at = "cleanup" /\ ~skipped => NoBackup
    /\ pc.at \in {"commit", "recheck", "aside"} => NoBackupFrom(pc.client)
    /\ pc.at \in {"sign", "compare", "publish", "stamp", "confirm",
                  "withdraw", "judge", "restore", "relink"} => NoBackupAfter(pc.client)

Gone == removed \cup lost

Kept == skipped \/ (1..files) \ Gone \subseteq Linked

IInv == Shape /\ BackupsArePlaced /\ Kept

-----------------------------------------------------------------------------
LEMMA ClientNumbers == Client \subseteq Nat /\ 1 \in Client /\ Clients \in Client /\ NoFile = 0
BY InstallAssumption DEF Client, NoFile

LEMMA AtParts == ASSUME NEW s, NEW c PROVE At(s, c).at = s /\ At(s, c).client = c
BY DEF At

LEMMA Lands ==
    ASSUME NEW s \in Step, NEW c \in Client, Goto(s, c)
    PROVE  pc'.at = s /\ pc'.client = c /\ pc' = At(pc'.at, pc'.client)
BY DEF Goto, At

(* Where a file has its name.                                              *)
Named(f) ==
    \/ f \in retained \/ f \in unjudged \/ f = quarantine
    \/ \E c \in Client : f = target[c] \/ f = backup[c]

LEMMA Names ==
    ASSUME NEW f \in Nat, f # NoFile
    PROVE  (f \in Linked <=> Named(f)) /\ (f \in Linked' <=> Named(f)')
BY DEF Linked, Named

(* No file is lost that has a name after a step if it had one before.      *)
LEMMA KeptIfNamed ==
    ASSUME IInv, skipped' = skipped, files' \in Nat, Gone \subseteq Gone',
           \A f \in 1..files : Named(f) => Named(f)' \/ f \in Gone',
           \A f \in (1..files') \ (1..files) : Named(f)'
    PROVE  Kept'
<1> SUFFICES ASSUME ~skipped, NEW f \in (1..files') \ Gone' PROVE f \in Linked'
  BY DEF Kept
<1>1. f \in Nat /\ f # NoFile /\ files \in Nat
  BY DEF NoFile, IInv, Shape
<1>2. CASE f \in 1..files
  <2>1. f \in Linked
    BY <1>2 DEF IInv, Kept
  <2>2. Named(f)
    BY <1>1, <2>1, Names
  <2> QED
    BY <1>1, <1>2, <2>2, Names
<1>3. CASE f \notin 1..files
  BY <1>1, <1>3, Names
<1> QED
  BY <1>2, <1>3

LEMMA Advances ==
    ASSUME NEW c \in Client, NEW s \in Step, NEW n \in Step, Advance(c, s, n)
    PROVE  /\ pc'.at \in Step /\ pc'.client \in Client /\ pc' = At(pc'.at, pc'.client)
           /\ \/ c < Clients /\ pc'.at = s /\ pc'.client = c + 1
              \/ c = Clients /\ pc'.at = n /\ pc'.client = 1
<1>1. CASE c < Clients
  <2>1. c + 1 \in Client
    BY <1>1, InstallAssumption DEF Client
  <2> QED
    BY <1>1, <2>1, Lands DEF Advance
<1>2. CASE ~(c < Clients)
  <2>1. c = Clients
    BY <1>2, InstallAssumption DEF Client
  <2> QED
    BY <1>2, <2>1, Lands, ClientNumbers DEF Advance
<1> QED
  BY <1>1, <1>2

LEMMA Retreats ==
    ASSUME NEW c \in Client, Retreat(c)
    PROVE  /\ pc'.at \in Step /\ pc'.client \in Client /\ pc' = At(pc'.at, pc'.client)
           /\ \/ c > 1 /\ pc'.at = "withdraw" /\ pc'.client = c - 1
              \/ c = 1 /\ pc'.at = "cleanup"
<1>1. CASE c > 1
  <2>1. c - 1 \in Client
    BY <1>1, InstallAssumption DEF Client
  <2> QED
    BY <1>1, <2>1, Lands DEF Retreat, Step
<1>2. CASE ~(c > 1)
  <2>1. c = 1
    BY <1>2, InstallAssumption DEF Client
  <2> QED
    BY <1>2, <2>1, Lands, ClientNumbers DEF Retreat, Step
<1> QED
  BY <1>1, <1>2

LEMMA FailLands ==
    ASSUME Fail
    PROVE  pc'.at = "failing" /\ pc'.client \in Client /\ pc' = At(pc'.at, pc'.client)
BY Lands, ClientNumbers DEF Fail, Step

LEMMA OtherBackups ==
    ASSUME NEW c \in Client, Shape, NEW f, backup' = [backup EXCEPT ![c] = f]
    PROVE  /\ backup'[c] = f
           /\ \A d \in Client : d # c => backup'[d] = backup[d]
BY DEF Shape

LEMMA BackupsGo ==
    ASSUME NEW c \in Client, Shape, NoBackupAfter(c), backup' = [backup EXCEPT ![c] = NoFile]
    PROVE  \A d \in Client : d >= c => backup'[d] = NoFile
<1> SUFFICES ASSUME NEW d \in Client, d >= c PROVE backup'[d] = NoFile
  OBVIOUS
<1>1. CASE d = c
  BY <1>1, OtherBackups
<1>2. CASE d # c
  <2>1. d > c
    BY <1>2, ClientNumbers DEF Client
  <2> QED
    BY <1>2, <2>1, OtherBackups DEF NoBackupAfter
<1> QED
  BY <1>1, <1>2

-----------------------------------------------------------------------------
(* Steps that move no file.                                                *)

Files == <<target, retained, backup, quarantine, unjudged, files, removed, lost, skipped>>

LEMMA KeptWhenStill == IInv /\ UNCHANGED Files => Kept'
BY DEF IInv, Kept, Gone, Linked, Files

LEMMA ChecksKeep ==
    ASSUME IInv, NEW c \in Client,
           \/ Prepare(c) \/ Commit(c) \/ Recheck(c) \/ Signs(c) \/ Compare(c)
           \/ Stamp(c) \/ Confirm(c) \/ Verify(c)
    PROVE  IInv'
<1>1. UNCHANGED Files
  BY DEF Prepare, Commit, Recheck, Signs, Compare, Stamp, Confirm, Verify, Files, disk, run, others, counts
<1>2. Kept'
  BY <1>1, KeptWhenStill
<1>3. /\ pc'.at \in Step /\ pc'.client \in Client /\ pc' = At(pc'.at, pc'.client)
      /\ BackupsArePlaced'
  <2>1. CASE Fail
    <3>1. pc'.at = "failing"
      BY <2>1, FailLands
    <3>2. pc.at # "judge"
      BY AtParts DEF Prepare, Commit, Recheck, Signs, Compare, Stamp, Confirm, Verify
    <3> QED
      BY <1>1, <2>1, <3>1, <3>2, FailLands DEF IInv, BackupsArePlaced, Files, Step
  <2>2. CASE Prepare(c) /\ Advance(c, "prepare", "commit")
    <3>1. pc.at = "prepare" /\ pc'.at \in {"prepare", "commit"}
      BY <2>2, AtParts, Advances DEF Prepare, Step
    <3> QED
      BY <1>1, <2>2, <3>1, Advances DEF IInv, BackupsArePlaced, Files, Step, NoBackup, NoBackupFrom
  <2>3. CASE Commit(c) /\ ~Fail
    <3>1. pc.at = "commit" /\ pc.client = c
      BY <2>3, AtParts DEF Commit
    <3>2. CASE Advance(c, "commit", "verify")
      <4>1. pc'.at = "verify" \/ (pc'.at = "commit" /\ pc'.client = c + 1)
        BY <3>2, Advances DEF Step
      <4>2. NoBackupFrom(c + 1)
        BY <3>1, ClientNumbers DEF IInv, BackupsArePlaced, NoBackupFrom, Client
      <4> QED
        BY <1>1, <3>1, <3>2, <4>1, <4>2, Advances
           DEF IInv, BackupsArePlaced, Files, Step, NoBackupFrom
    <3>3. CASE Goto("recheck", c)
      BY <1>1, <3>1, <3>3, Lands DEF IInv, BackupsArePlaced, Files, Step, NoBackupFrom
    <3> QED
      BY <2>3, <3>2, <3>3 DEF Commit
  <2>4. CASE Recheck(c) /\ ~Fail
    <3>1. pc.at = "recheck" /\ pc.client = c /\ pc'.at \in {"aside", "publish"} /\ pc'.client = c
      BY <2>4, AtParts DEF Recheck, Goto
    <3>2. pc' = At(pc'.at, pc'.client)
      BY <2>4, AtParts DEF Recheck, Goto
    <3> QED
      BY <1>1, <3>1, <3>2 DEF IInv, BackupsArePlaced, Files, Step, NoBackupFrom, NoBackupAfter, Client
  <2>5. CASE (Signs(c) \/ Compare(c) \/ Stamp(c)) /\ ~Fail
    <3>1. /\ pc.at \in {"sign", "compare", "stamp"} /\ pc.client = c
          /\ pc'.at \in {"compare", "publish", "confirm"} /\ pc'.client = c
      BY <2>5, AtParts DEF Signs, Compare, Stamp, Goto
    <3>2. pc' = At(pc'.at, pc'.client)
      BY <2>5, AtParts DEF Signs, Compare, Stamp, Goto
    <3> QED
      BY <1>1, <3>1, <3>2 DEF IInv, BackupsArePlaced, Files, Step, NoBackupAfter
  <2>6. CASE Confirm(c) /\ Advance(c, "commit", "verify")
    <3>1. pc.at = "confirm" /\ pc.client = c
      BY <2>6, AtParts DEF Confirm
    <3>2. pc'.at = "verify" \/ (pc'.at = "commit" /\ pc'.client = c + 1)
      BY <2>6, Advances DEF Step
    <3>3. NoBackupFrom(c + 1)
      BY <3>1, ClientNumbers DEF IInv, BackupsArePlaced, NoBackupFrom, NoBackupAfter, Client
    <3> QED
      BY <1>1, <2>6, <3>1, <3>2, <3>3, Advances DEF IInv, BackupsArePlaced, Files, Step, NoBackupFrom
  <2>7. CASE Verify(c) /\ Advance(c, "verify", "completed")
    <3>1. pc.at = "verify" /\ pc'.at \in {"verify", "completed"}
      BY <2>7, AtParts, Advances DEF Verify, Step
    <3> QED
      BY <1>1, <2>7, <3>1, Advances DEF IInv, BackupsArePlaced, Files, Step
  <2> QED
    BY <2>1, <2>2, <2>3, <2>4, <2>5, <2>6, <2>7 DEF Prepare, Confirm, Verify
<1> QED
  BY <1>1, <1>2, <1>3 DEF IInv, Shape, Files

-----------------------------------------------------------------------------
(* Steps of the commit that move files.                                    *)

LEMMA OtherTargets ==
    ASSUME NEW c \in Client, Shape, NEW f, target' = [target EXCEPT ![c] = f]
    PROVE  /\ target'[c] = f
           /\ \A d \in Client : d # c => target'[d] = target[d]
BY DEF Shape

LEMMA MovesAsideKeeps == ASSUME IInv, NEW c \in Client, MovesAside(c) PROVE IInv'
<1>1. /\ pc.at = "aside" /\ pc.client = c
      /\ UNCHANGED <<retained, quarantine, unjudged, files, removed, lost, skipped>>
  BY AtParts DEF MovesAside, others, counts
<1>2. CASE target[c] = NoFile
  <2>1. UNCHANGED Files /\ Fail
    BY <1>1, <1>2 DEF MovesAside, Files
  <2> QED
    BY <1>1, <2>1, FailLands, KeptWhenStill DEF IInv, Shape, BackupsArePlaced, Files, Step
<1>3. CASE target[c] # NoFile
  <2>1. /\ backup' = [backup EXCEPT ![c] = target[c]] /\ target' = [target EXCEPT ![c] = NoFile]
        /\ Goto("sign", c)
    BY <1>3 DEF MovesAside
  <2>2. Shape'
    BY <1>1, <2>1, Lands DEF IInv, Shape, Step, NoFile
  <2>3. BackupsArePlaced'
    BY <1>1, <2>1, Lands, OtherBackups, ClientNumbers
       DEF IInv, BackupsArePlaced, NoBackupFrom, NoBackupAfter, Step
  <2>4. ASSUME NEW f \in 1..files, Named(f) PROVE Named(f)'
    <3>1. f # NoFile /\ backup[c] = NoFile
      BY <1>1, ClientNumbers DEF NoFile, IInv, BackupsArePlaced, NoBackupFrom
    <3> QED
      BY <1>1, <2>1, <2>4, <3>1, OtherBackups, OtherTargets DEF Named, IInv
  <2>5. Kept'
    BY <1>1, <2>4, KeptIfNamed DEF IInv, Shape, Gone
  <2> QED
    BY <2>2, <2>3, <2>5 DEF IInv
<1> QED
  BY <1>2, <1>3

LEMMA PublishKeeps == ASSUME IInv, NEW c \in Client, Publish(c) PROVE IInv'
<1>1. /\ pc.at = "publish" /\ pc.client = c
      /\ UNCHANGED <<retained, backup, quarantine, unjudged, removed, lost, skipped>>
  BY AtParts DEF Publish, others
<1>2. CASE target[c] # NoFile
  <2>1. UNCHANGED Files /\ Fail
    BY <1>1, <1>2 DEF Publish, Files
  <2> QED
    BY <1>1, <2>1, FailLands, KeptWhenStill DEF IInv, Shape, BackupsArePlaced, Files, Step
<1>3. CASE target[c] = NoFile
  <2>1. files' = files + 1 /\ target' = [target EXCEPT ![c] = files'] /\ Goto("stamp", c)
    BY <1>3 DEF Publish
  <2>2. Shape'
    BY <1>1, <2>1, Lands DEF IInv, Shape, Step
  <2>3. BackupsArePlaced'
    BY <1>1, <2>1, Lands DEF IInv, BackupsArePlaced, NoBackupAfter, Step
  <2>4. ASSUME NEW f \in 1..files, Named(f) PROVE Named(f)'
    <3>1. f # NoFile
      BY DEF NoFile
    <3> QED
      BY <1>1, <1>3, <2>1, <2>4, <3>1, OtherTargets DEF Named, IInv
  <2>5. ASSUME NEW f \in (1..files') \ (1..files) PROVE Named(f)'
    <3>1. f = files'
      BY <2>1 DEF IInv, Shape
    <3> QED
      BY <2>1, <3>1, OtherTargets DEF Named, IInv
  <2>6. Kept'
    BY <1>1, <2>1, <2>4, <2>5, KeptIfNamed DEF IInv, Shape, Gone
  <2> QED
    BY <2>2, <2>3, <2>6 DEF IInv
<1> QED
  BY <1>2, <1>3

-----------------------------------------------------------------------------
(* Steps of the rollback.                                                  *)

LEMMA ReportKeeps ==
    ASSUME IInv, NEW c \in Client, pc.client = c, NEW moved, Report(c, moved),
           pc.at \in {"withdraw", "judge", "restore", "relink"},
           target' \in [Client -> Nat], quarantine' = NoFile,
           unjudged \subseteq unjudged', quarantine \in moved \cup unjudged' \cup {NoFile},
           \A d \in Client : target[d] # NoFile => target'[d] = target[d],
           UNCHANGED <<files, removed, lost, skipped>>
    PROVE  IInv'
<1>1. /\ retained' = retained \cup moved \cup ({backup[c]} \ {NoFile})
      /\ backup' = [backup EXCEPT ![c] = NoFile] /\ Retreat(c)
  BY DEF Report
<1>2. Shape'
  BY <1>1, Retreats DEF IInv, Shape, NoFile
<1>3. BackupsArePlaced'
  <2>1. NoBackupAfter(c)
    BY DEF IInv, BackupsArePlaced
  <2>2. \A d \in Client : d >= c => backup'[d] = NoFile
    BY <1>1, <2>1, BackupsGo DEF IInv
  <2>3. CASE c > 1 /\ pc'.at = "withdraw" /\ pc'.client = c - 1
    BY <2>2, <2>3, ClientNumbers DEF BackupsArePlaced, NoBackupAfter
  <2>4. CASE c = 1 /\ pc'.at = "cleanup"
    BY <2>2, <2>4 DEF BackupsArePlaced, NoBackup, Client
  <2> QED
    BY <1>1, <2>3, <2>4, Retreats
<1>4. ASSUME NEW f \in 1..files, Named(f) PROVE Named(f)'
  <2>1. f # NoFile
    BY DEF NoFile
  <2>2. CASE f \in retained \/ f \in unjudged \/ f = quarantine
    BY <1>1, <2>1, <2>2 DEF Named
  <2>3. ASSUME NEW d \in Client, f = target[d] \/ f = backup[d] PROVE Named(f)'
    BY <1>1, <2>1, <2>3, OtherBackups DEF Named, IInv
  <2> QED
    BY <1>4, <2>2, <2>3 DEF Named
<1>5. Kept'
  BY <1>4, KeptIfNamed DEF IInv, Shape, Gone
<1> QED
  BY <1>2, <1>3, <1>5 DEF IInv

LEMMA WithdrawKeeps == ASSUME IInv, NEW c \in Client, Withdraw(c) PROVE IInv'
<1>1. /\ pc.at = "withdraw" /\ pc.client = c /\ quarantine = NoFile
      /\ UNCHANGED <<retained, backup, unjudged, files, removed, lost, skipped>>
  BY AtParts DEF Withdraw, others, counts, IInv, BackupsArePlaced
<1>2. CASE Goto("restore", c) /\ UNCHANGED <<target, quarantine>>
  <2>1. UNCHANGED Files
    BY <1>1, <1>2 DEF Files
  <2> QED
    BY <1>1, <1>2, <2>1, Lands, KeptWhenStill
       DEF IInv, Shape, BackupsArePlaced, Step, NoBackupAfter
<1>3. CASE /\ quarantine' = target[c] /\ target' = [target EXCEPT ![c] = NoFile]
           /\ Goto("judge", c)
  <2>1. Shape'
    BY <1>1, <1>3, Lands DEF IInv, Shape, Step, NoFile
  <2>2. BackupsArePlaced'
    BY <1>1, <1>3, Lands DEF IInv, BackupsArePlaced, NoBackupAfter, Step
  <2>3. ASSUME NEW f \in 1..files, Named(f) PROVE Named(f)'
    <3>1. f # NoFile
      BY DEF NoFile
    <3> QED
      BY <1>1, <1>3, <2>3, <3>1, OtherTargets DEF Named, IInv
  <2>4. Kept'
    BY <1>1, <2>3, KeptIfNamed DEF IInv, Shape, Gone
  <2> QED
    BY <2>1, <2>2, <2>4 DEF IInv
<1> QED
  BY <1>2, <1>3 DEF Withdraw

LEMMA JudgeKeeps == ASSUME IInv, NEW c \in Client, Judge(c) PROVE IInv'
<1>1. /\ pc.at = "judge" /\ pc.client = c /\ quarantine' = NoFile
      /\ UNCHANGED <<unjudged, files, removed, lost, skipped>>
  BY AtParts DEF Judge, others, counts
<1>2. CASE /\ retained' = retained \cup {quarantine} /\ Goto("restore", c)
           /\ UNCHANGED <<target, backup>>
  <2>1. Shape'
    BY <1>1, <1>2, Lands DEF IInv, Shape, Step, NoFile
  <2>2. BackupsArePlaced'
    BY <1>1, <1>2, Lands DEF IInv, BackupsArePlaced, NoBackupAfter, Step
  <2>3. ASSUME NEW f \in 1..files, Named(f) PROVE Named(f)'
    BY <1>1, <1>2, <2>3 DEF Named
  <2>4. Kept'
    BY <1>1, <2>3, KeptIfNamed DEF IInv, Shape, Gone
  <2> QED
    BY <2>1, <2>2, <2>4 DEF IInv
<1>3. CASE /\ Report(c, {quarantine})
           /\ \/ UNCHANGED target
              \/ target[c] = NoFile /\ target' = [target EXCEPT ![c] = quarantine]
  <2>1. target' \in [Client -> Nat] /\ \A d \in Client : target[d] # NoFile => target'[d] = target[d]
    BY <1>3, OtherTargets DEF IInv, Shape
  <2> QED
    BY <1>1, <1>3, <2>1, ReportKeeps
<1> QED
  BY <1>2, <1>3 DEF Judge

LEMMA RestoreKeeps == ASSUME IInv, NEW c \in Client, Restore(c) PROVE IInv'
<1>1. /\ pc.at = "restore" /\ pc.client = c /\ quarantine = NoFile
      /\ UNCHANGED <<target, quarantine, unjudged, files, removed, lost, skipped>>
  BY AtParts DEF Restore, others, counts, IInv, BackupsArePlaced
<1>2. CASE backup[c] = NoFile
  <2>1. Retreat(c) /\ UNCHANGED Files
    BY <1>1, <1>2 DEF Restore, Files
  <2>2. BackupsArePlaced'
    <3>1. \A d \in Client : d >= c => backup'[d] = NoFile
      BY <1>1, <1>2, <2>1, ClientNumbers DEF IInv, BackupsArePlaced, NoBackupAfter, Files
    <3>2. CASE c > 1 /\ pc'.at = "withdraw" /\ pc'.client = c - 1
      <4>1. quarantine' = NoFile
        BY <1>1
      <4>2. NoBackupAfter(c - 1)'
        BY <3>1, ClientNumbers DEF NoBackupAfter
      <4> QED
        BY <3>2, <4>1, <4>2 DEF BackupsArePlaced
    <3>3. CASE c = 1 /\ pc'.at = "cleanup"
      BY <1>1, <3>1, <3>3 DEF BackupsArePlaced, NoBackup, Client
    <3> QED
      BY <2>1, <3>2, <3>3, Retreats
  <2> QED
    BY <2>1, <2>2, Retreats, KeptWhenStill DEF IInv, Shape, Files
<1>3. CASE Goto("relink", c) /\ UNCHANGED <<retained, backup>>
  <2>1. UNCHANGED Files
    BY <1>1, <1>3 DEF Files
  <2> QED
    BY <1>1, <1>3, <2>1, Lands, KeptWhenStill
       DEF IInv, Shape, BackupsArePlaced, Step, NoBackupAfter
<1>4. CASE Report(c, {})
  BY <1>1, <1>4, ReportKeeps DEF IInv, Shape
<1> QED
  BY <1>2, <1>3, <1>4 DEF Restore

LEMMA RelinkKeeps == ASSUME IInv, NEW c \in Client, Relink(c) PROVE IInv'
<1>1. /\ pc.at = "relink" /\ pc.client = c /\ quarantine = NoFile
      /\ UNCHANGED <<quarantine, unjudged, files, removed, lost, skipped>>
  BY AtParts DEF Relink, others, counts, IInv, BackupsArePlaced
<1>2. CASE target[c] = NoFile
  <2>1. /\ target' = [target EXCEPT ![c] = backup[c]] /\ backup' = [backup EXCEPT ![c] = NoFile]
        /\ Retreat(c) /\ UNCHANGED retained
    BY <1>2 DEF Relink
  <2>2. Shape'
    BY <1>1, <2>1, Retreats DEF IInv, Shape, NoFile
  <2>3. BackupsArePlaced'
    <3>1. \A d \in Client : d >= c => backup'[d] = NoFile
      <4>1. NoBackupAfter(c)
        BY <1>1 DEF IInv, BackupsArePlaced
      <4> QED
        BY <2>1, <4>1, BackupsGo DEF IInv
    <3>2. CASE c > 1 /\ pc'.at = "withdraw" /\ pc'.client = c - 1
      BY <1>1, <3>1, <3>2, ClientNumbers DEF BackupsArePlaced, NoBackupAfter
    <3>3. CASE c = 1 /\ pc'.at = "cleanup"
      BY <1>1, <3>1, <3>3 DEF BackupsArePlaced, NoBackup, Client
    <3> QED
      BY <2>1, <3>2, <3>3, Retreats
  <2>4. ASSUME NEW f \in 1..files, Named(f) PROVE Named(f)'
    <3>1. f # NoFile
      BY DEF NoFile
    <3>2. \A d \in Client : target[d] # NoFile => target'[d] = target[d]
      BY <1>2, <2>1, OtherTargets DEF IInv
    <3>3. target'[c] = backup[c] /\ \A d \in Client : d # c => backup'[d] = backup[d]
      BY <2>1, OtherBackups, OtherTargets DEF IInv
    <3>4. ASSUME NEW d \in Client, f = target[d] \/ f = backup[d] PROVE Named(f)'
      BY <3>1, <3>2, <3>3, <3>4 DEF Named
    <3> QED
      BY <1>1, <2>1, <2>4, <3>4 DEF Named
  <2>5. Kept'
    BY <1>1, <2>4, KeptIfNamed DEF IInv, Shape, Gone
  <2> QED
    BY <2>2, <2>3, <2>5 DEF IInv
<1>3. CASE target[c] # NoFile
  <2>1. Report(c, {}) /\ UNCHANGED target
    BY <1>3 DEF Relink
  <2> QED
    BY <1>1, <2>1, ReportKeeps DEF IInv, Shape
<1> QED
  BY <1>2, <1>3

-----------------------------------------------------------------------------
(* The beginning and the end of a run, and what interferes.                *)

LEMMA Nobody == ASSUME NoBackup, Shape PROVE backup = Nowhere
BY DEF NoBackup, Shape, Nowhere

LEMMA Somewhere == Nowhere \in [Client -> Nat] /\ \A c \in Client : Nowhere[c] = NoFile
BY DEF Nowhere, NoFile

LEMMA StartKeeps == IInv /\ Start => IInv'
<1> SUFFICES ASSUME IInv, Start PROVE IInv'
  OBVIOUS
<1>1. /\ pc.at = "idle" /\ Goto("prepare", 1) /\ backup' = Nowhere /\ quarantine' = NoFile
      /\ UNCHANGED <<target, retained, unjudged, files, removed, lost, skipped>>
  BY DEF Start, disk
<1>2. backup = Nowhere /\ quarantine = NoFile
  BY <1>1, Nobody DEF IInv, BackupsArePlaced
<1>3. UNCHANGED Files
  BY <1>1, <1>2 DEF Files
<1> QED
  BY <1>1, <1>2, <1>3, Lands, ClientNumbers, KeptWhenStill
     DEF IInv, Shape, BackupsArePlaced, Step, NoBackup, Files

LEMMA CompleteKeeps == IInv /\ Complete => IInv'
<1> SUFFICES ASSUME IInv, Complete PROVE IInv'
  OBVIOUS
<1>1. /\ pc.at = "completed" /\ Goto("idle", 1) /\ backup' = Nowhere
      /\ retained' = retained \cup Backups /\ UNCHANGED <<target, quarantine, unjudged, files, removed, lost, skipped>>
  BY AtParts DEF Complete, others, counts
<1>2. Shape' /\ BackupsArePlaced'
  BY <1>1, Lands, ClientNumbers, Somewhere DEF IInv, Shape, BackupsArePlaced, Step, NoBackup
<1>3. ASSUME NEW f \in 1..files, Named(f) PROVE Named(f)'
  <2>1. f # NoFile
    BY DEF NoFile
  <2> QED
    BY <1>1, <1>3, <2>1 DEF Named, Backups
<1>4. Kept'
  BY <1>1, <1>3, KeptIfNamed DEF IInv, Shape, Gone
<1> QED
  BY <1>2, <1>4 DEF IInv

LEMMA BlockSignalsKeeps == IInv /\ BlockSignals => IInv'
<1> SUFFICES ASSUME IInv, BlockSignals PROVE IInv'
  OBVIOUS
<1>1. pc.at = "failing" /\ Goto("withdraw", Clients) /\ UNCHANGED Files
  BY AtParts DEF BlockSignals, Files, disk, run, others, counts
<1>2. NoBackupAfter(Clients)
  BY InstallAssumption DEF NoBackupAfter, Client
<1>3. NoBackupAfter(Clients)'
  BY <1>1, <1>2 DEF NoBackupAfter, Files
<1> QED
  BY <1>1, <1>3, Lands, ClientNumbers, KeptWhenStill
     DEF IInv, Shape, BackupsArePlaced, Step, Files

LEMMA CleanUpKeeps == IInv /\ CleanUp => IInv'
<1> SUFFICES ASSUME IInv, CleanUp PROVE IInv'
  OBVIOUS
<1>1. /\ pc.at = "cleanup" /\ Goto("idle", 1) /\ backup' = Nowhere
      /\ unjudged' = {} /\ lost' = lost \cup unjudged
      /\ UNCHANGED <<target, retained, quarantine, files, removed, skipped>>
  BY AtParts DEF CleanUp, disk, counts
<1>2. Shape' /\ BackupsArePlaced'
  BY <1>1, Lands, ClientNumbers, Somewhere DEF IInv, Shape, BackupsArePlaced, Step, NoBackup
<1>3. CASE skipped
  BY <1>1, <1>2, <1>3 DEF IInv, Kept
<1>4. CASE ~skipped
  <2>1. backup = Nowhere
    BY <1>1, <1>4, Nobody DEF IInv, BackupsArePlaced
  <2>2. ASSUME NEW f \in 1..files, Named(f) PROVE Named(f)' \/ f \in Gone'
    BY <1>1, <2>1, <2>2 DEF Named, Gone
  <2>3. Kept'
    BY <1>1, <2>2, KeptIfNamed DEF IInv, Shape, Gone
  <2> QED
    BY <1>2, <2>3 DEF IInv
<1> QED
  BY <1>3, <1>4

LEMMA SignalKeeps == IInv /\ Signal => IInv'
<1> SUFFICES ASSUME IInv, Signal PROVE IInv'
  OBVIOUS
<1>1. UNCHANGED <<target, retained, backup, quarantine, unjudged, files, removed, lost>>
  BY DEF Signal, disk, run, others
<1>2. CASE pc.at # "judge" /\ Fail /\ UNCHANGED skipped
  <2>1. UNCHANGED Files
    BY <1>1, <1>2 DEF Files
  <2> QED
    BY <1>1, <1>2, <2>1, FailLands, KeptWhenStill DEF IInv, Shape, BackupsArePlaced, Step
<1>3. CASE pc.at = "failing" /\ Goto("cleanup", 1) /\ skipped' = TRUE
  BY <1>1, <1>3, Lands, ClientNumbers DEF IInv, Shape, BackupsArePlaced, Step, Kept
<1> QED
  BY <1>2, <1>3 DEF Signal

LEMMA CallFailsKeeps == IInv /\ CallFails => IInv'
<1> SUFFICES ASSUME IInv, CallFails PROVE IInv'
  OBVIOUS
<1>1. UNCHANGED <<target, quarantine, unjudged, files, removed, lost, skipped>>
  BY DEF CallFails, others
<1>2. CASE pc.at # "judge" /\ Fail /\ UNCHANGED <<retained, backup>>
  <2>1. UNCHANGED Files
    BY <1>1, <1>2 DEF Files
  <2> QED
    BY <1>1, <1>2, <2>1, FailLands, KeptWhenStill DEF IInv, Shape, BackupsArePlaced, Step
<1>3. CASE pc.at \in {"withdraw", "restore", "relink"} /\ Report(pc.client, {})
  <2>1. quarantine = NoFile /\ pc.client \in Client
    BY <1>3 DEF IInv, BackupsArePlaced, Shape
  <2> QED
    BY <1>1, <1>3, <2>1, ReportKeeps DEF IInv, Shape
<1> QED
  BY <1>2, <1>3 DEF CallFails

LEMMA JudgeFailsKeeps == ASSUME IInv, NEW c \in Client, JudgeFails(c) PROVE IInv'
<1>1. /\ pc.at = "judge" /\ pc.client = c /\ quarantine' = NoFile /\ Report(c, {})
      /\ unjudged' = unjudged \cup {quarantine}
      /\ UNCHANGED <<target, files, removed, lost, skipped>>
  BY AtParts DEF JudgeFails, others
<1> QED
  BY <1>1, ReportKeeps DEF IInv, Shape

LEMMA KillKeeps == IInv /\ Kill => IInv'
<1> SUFFICES ASSUME IInv, Kill PROVE IInv'
  OBVIOUS
<1>1. /\ Goto("idle", 1) /\ backup' = Nowhere /\ quarantine' = NoFile
      /\ retained' = retained \cup Backups \cup unjudged \cup ({quarantine} \ {NoFile})
      /\ UNCHANGED <<target, files, removed, lost, skipped>>
  BY DEF Kill, others
<1>2. Shape' /\ BackupsArePlaced'
  BY <1>1, Lands, ClientNumbers, Somewhere DEF IInv, Shape, BackupsArePlaced, Step, NoBackup
<1>3. ASSUME NEW f \in 1..files, Named(f) PROVE Named(f)'
  <2>1. f # NoFile
    BY DEF NoFile
  <2> QED
    BY <1>1, <1>3, <2>1 DEF Named, Backups
<1>4. Kept'
  BY <1>1, <1>3, KeptIfNamed DEF IInv, Shape, Gone
<1> QED
  BY <1>2, <1>4 DEF IInv

LEMMA EditKeeps == ASSUME IInv, NEW f \in File, Edit(f) PROVE IInv'
<1>1. UNCHANGED Files /\ UNCHANGED pc
  BY DEF Edit, Files, run, others
<1> QED
  BY <1>1, KeptWhenStill
     DEF IInv, Shape, BackupsArePlaced, Files, NoBackup, NoBackupFrom, NoBackupAfter

LEMMA DisplacesKeep == ASSUME IInv, NEW c \in Client, Delete(c) \/ Put(c) PROVE IInv'
<1>1. PICK f \in Nat :
        /\ target' = [target EXCEPT ![c] = f] /\ Displace(c)
        /\ (f = NoFile /\ files' = files) \/ (f = files + 1 /\ files' = files + 1)
        /\ UNCHANGED <<retained, pc, backup, quarantine, unjudged, lost, skipped>>
  BY DEF Delete, Put, run, NoFile, IInv, Shape
<1>2. removed' = removed \cup ({target[c]} \ {NoFile})
  BY <1>1 DEF Displace
<1>3. Shape'
  BY <1>1 DEF IInv, Shape
<1>4. BackupsArePlaced'
  BY <1>1 DEF IInv, BackupsArePlaced, NoBackup, NoBackupFrom, NoBackupAfter
<1>5. ASSUME NEW g \in 1..files, Named(g) PROVE Named(g)' \/ g \in Gone'
  <2>1. g # NoFile
    BY DEF NoFile
  <2>2. ASSUME NEW d \in Client, g = target[d] \/ g = backup[d] PROVE Named(g)' \/ g \in Gone'
    BY <1>1, <1>2, <2>1, <2>2, OtherTargets DEF Named, Gone, IInv
  <2> QED
    BY <1>1, <1>5, <2>2 DEF Named
<1>6. ASSUME NEW g \in (1..files') \ (1..files) PROVE Named(g)'
  <2>1. g = f
    BY <1>1 DEF IInv, Shape
  <2> QED
    BY <1>1, <2>1, OtherTargets DEF Named, IInv
<1>7. Kept'
  <2>1. files' \in Nat /\ Gone \subseteq Gone' /\ skipped' = skipped
    BY <1>1, <1>2 DEF IInv, Shape, Gone
  <2> QED
    BY <1>5, <1>6, <2>1, KeptIfNamed
<1> QED
  BY <1>3, <1>4, <1>7 DEF IInv

-----------------------------------------------------------------------------
LEMMA InitIInv == Init => IInv
<1> SUFFICES ASSUME Init PROVE IInv
  OBVIOUS
<1>1. Shape
  <2>1. target \in [Client -> Nat]
    BY ClientNumbers DEF Init
  <2>2. backup \in [Client -> Nat]
    BY Somewhere DEF Init
  <2>3. pc.at = "idle" /\ pc.client = 1 /\ pc = At("idle", 1)
    BY AtParts DEF Init
  <2> QED
    BY <2>1, <2>2, <2>3, ClientNumbers, InstallAssumption DEF Init, Shape, Step
<1>2. BackupsArePlaced
  BY AtParts, Somewhere DEF Init, BackupsArePlaced, NoBackup
<1>3. ASSUME NEW f \in (1..files) \ Gone PROVE f \in Linked
  <2>1. f \in Client /\ f \in Nat /\ f # NoFile
    <3>1. files = Clients
      BY DEF Init
    <3>2. f \in 1..Clients
      BY <3>1
    <3> QED
      BY <3>2, InstallAssumption DEF Client, NoFile
  <2>2. PICK existing \in SUBSET Client : target = [c \in Client |-> IF c \in existing THEN c ELSE NoFile]
    BY DEF Init
  <2>3. target[f] # NoFile
    <3>1. removed = {c \in Client : target[c] = NoFile}
      BY DEF Init
    <3> QED
      BY <2>1, <3>1 DEF Gone
  <2>4. target[f] = f
    BY <2>1, <2>2, <2>3
  <2>5. Named(f)
    BY <2>1, <2>4 DEF Named
  <2> QED
    BY <2>1, <2>5, Names
<1> QED
  BY <1>1, <1>2, <1>3 DEF IInv, Kept

LEMMA StepIInv == IInv /\ [Next]_vars => IInv'
<1> SUFFICES ASSUME IInv, [Next]_vars PROVE IInv'
  OBVIOUS
<1>1. CASE UNCHANGED vars
  <2>1. UNCHANGED Files /\ UNCHANGED pc
    BY <1>1 DEF vars, disk, run, others, counts, Files
  <2> QED
    BY <2>1, KeptWhenStill
       DEF IInv, Shape, BackupsArePlaced, Files, NoBackup, NoBackupFrom, NoBackupAfter
<1>2. CASE Start \/ Complete \/ BlockSignals \/ CleanUp
  BY <1>2, StartKeeps, CompleteKeeps, BlockSignalsKeeps, CleanUpKeeps
<1>3. ASSUME NEW c \in Client, Works(c) PROVE IInv'
  BY <1>3, ChecksKeep, MovesAsideKeeps, PublishKeeps, WithdrawKeeps, JudgeKeeps, RestoreKeeps,
     RelinkKeeps DEF Works
<1>4. CASE Signal \/ CallFails \/ Kill
  BY <1>4, SignalKeeps, CallFailsKeeps, KillKeeps
<1>6. ASSUME NEW c \in Client, JudgeFails(c) PROVE IInv'
  BY <1>6, JudgeFailsKeeps
<1>5. CASE (\E f \in File : Edit(f)) \/ (\E c \in Client : Delete(c) \/ Put(c))
  BY <1>5, EditKeeps, DisplacesKeep
<1> QED
  BY <1>1, <1>2, <1>3, <1>4, <1>5, <1>6 DEF Next

(* Whatever editors, failing calls, signals and kills do to any number of  *)
(* runs on any number of instruction files: a file that others did not     *)
(* remove themselves keeps a name, but for runs that skipped their         *)
(* rollback and for files that a rollback could not examine.               *)
THEOREM NothingIsEverDestroyed == Spec => []NothingIsDestroyed
<1>1. IInv => NothingIsDestroyed
  BY DEF IInv, Kept, Gone, NothingIsDestroyed
<1>2. Spec => []IInv
  BY InitIInv, StepIInv, PTL DEF Spec
<1> QED
  BY <1>1, <1>2, PTL
-----------------------------------------------------------------------------
(* What a run that ends tells of the paths.  The stronger invariant: where *)
(* the file at the path of each client comes from, at each step of a run.  *)

NotBegun(c) == target[c] = shown[c] /\ mine[c] = NoFile

MovedAside(c) ==
    /\ mine[c] = NoFile
    /\ target[c] = shown[c] \/ (target[c] = NoFile /\ shown[c] = backup[c])

Settled(c) ==
    \/ target[c] = shown[c]
    \/ /\ mine[c] # NoFile /\ target[c] = mine[c]
       /\ shown[c] \in {backup[c], NoFile} /\ backup[c] = plan[c].file

(* What a rollback may find.                                               *)
Undoable(c) ==
    \/ target[c] = shown[c]
    \/ mine[c] # NoFile /\ target[c] = mine[c] /\ shown[c] \in {backup[c], NoFile}
    \/ target[c] = NoFile /\ shown[c] = backup[c]

Emptied(c) ==
    target[c] = shown[c] \/ (target[c] = NoFile /\ shown[c] \in {backup[c], NoFile})

Undone(c) == c \in reported \/ Restored(c)

Replaced(c) ==
    target[c] = shown[c] \/ (target[c] = mine[c] /\ shown[c] \in {plan[c].file, NoFile})

Committing == {"commit", "recheck", "aside", "sign", "compare", "publish", "stamp", "confirm"}

RollingBack == {"withdraw", "judge", "restore", "relink"}

CommitStands(c) ==
    /\ pc.at = "prepare" => NotBegun(c)
    /\ pc.at \in Committing /\ c < pc.client => Settled(c)
    /\ pc.at \in Committing /\ c > pc.client => NotBegun(c)
    /\ pc.at \in {"commit", "recheck", "aside"} /\ c = pc.client => NotBegun(c)
    /\ pc.at \in {"sign", "compare", "publish"} /\ c = pc.client => MovedAside(c)
    /\ pc.at = "publish" /\ c = pc.client => backup[c] = plan[c].file
    /\ pc.at \in {"stamp", "confirm"} /\ c = pc.client => Settled(c)
    /\ pc.at \in {"verify", "completed"} => Settled(c)

RollbackStands(c) ==
    /\ pc.at = "failing" => Undoable(c)
    /\ pc.at \in RollingBack /\ c < pc.client => Undoable(c)
    /\ pc.at \in RollingBack /\ c > pc.client => Undone(c)
    /\ pc.at = "withdraw" /\ c = pc.client => Undoable(c)
    /\ pc.at = "judge" /\ c = pc.client /\ quarantine = mine[c] => Emptied(c)
    /\ pc.at \in {"restore", "relink"} /\ c = pc.client => Emptied(c)
    /\ pc.at = "relink" /\ c = pc.client => backup[c] # NoFile
    /\ pc.at = "cleanup" /\ ~skipped => Undone(c)

EndStands(c) ==
    /\ pc.at # "idle" => outcome = "none"
    /\ outcome = "failed" /\ ~skipped => pc.at # "idle" \/ Undone(c)
    /\ outcome = "complete" => pc.at # "idle" \/ Replaced(c)

Stands(c) == CommitStands(c) /\ RollbackStands(c) /\ EndStands(c)

(* Files are numbered as they are created; an installed one is new.        *)
Numbered ==
    /\ files \in Nat /\ quarantine \in 0..files
    /\ target \in [Client -> 0..files] /\ shown \in [Client -> 0..files]
    /\ backup \in [Client -> 0..files] /\ mine \in [Client -> 0..files]
    /\ \A c \in Client : mine[c] # NoFile => mine[c] # backup[c] /\ mine[c] # shown[c]

RunInv == IInv /\ Numbered /\ \A c \in Client : Stands(c)

-----------------------------------------------------------------------------
(* The path of a client is as before, or others changed it.                *)
PathKept(c) ==
    /\ mine'[c] = mine[c] /\ reported \subseteq reported'
    /\ \/ target'[c] = shown'[c]
       \/ target'[c] = target[c] /\ shown'[c] = shown[c] /\ backup'[c] = backup[c] /\ plan'[c] = plan[c]

LEMMA PathsStand ==
    ASSUME NEW c \in Client, PathKept(c)
    PROVE  /\ NotBegun(c) => NotBegun(c)'
           /\ MovedAside(c) => MovedAside(c)'
           /\ Settled(c) => Settled(c)'
           /\ Undoable(c) => Undoable(c)'
           /\ Emptied(c) => Emptied(c)'
           /\ Undone(c) => Undone(c)'
           /\ Replaced(c) => Replaced(c)'
<1>1. (NotBegun(c) => NotBegun(c)') /\ (MovedAside(c) => MovedAside(c)')
  BY DEF PathKept, NotBegun, MovedAside
<1>2. (Settled(c) => Settled(c)') /\ (Undoable(c) => Undoable(c)')
  BY DEF PathKept, Settled, Undoable
<1>3. (Emptied(c) => Emptied(c)') /\ (Replaced(c) => Replaced(c)')
  BY DEF PathKept, Emptied, Replaced
<1>4. Undone(c) => Undone(c)'
  BY DEF PathKept, Undone, Restored
<1> QED
  BY <1>1, <1>2, <1>3, <1>4

LEMMA Weaker ==
    ASSUME NEW c \in Client
    PROVE  /\ NotBegun(c) => Settled(c) /\ MovedAside(c)
           /\ Settled(c) => Undoable(c) /\ Replaced(c)
           /\ MovedAside(c) => Undoable(c)
BY DEF NotBegun, Settled, MovedAside, Undoable, Replaced

LEMMA NumbersStand ==
    ASSUME Numbered, UNCHANGED <<files, shown, mine>>,
           quarantine' \in 0..files, target' \in [Client -> 0..files], backup' \in [Client -> 0..files],
           \A c \in Client : backup'[c] \in {backup[c], NoFile} \/ mine[c] = NoFile
    PROVE  Numbered'
BY DEF Numbered

(* Nothing moves on the disk.                                              *)
Paths == <<target, shown, backup, mine, plan, reported, quarantine, files>>

LEMMA StillPaths ==
    ASSUME UNCHANGED Paths
    PROVE  (\A c \in Client : PathKept(c)) /\ (Numbered => Numbered')
BY DEF Paths, PathKept, Numbered

LEMMA NothingHappens ==
    ASSUME RunInv, UNCHANGED <<Paths, pc, outcome, skipped>>, NEW c \in Client
    PROVE  Stands(c)'
BY DEF RunInv, Paths, Stands, CommitStands, RollbackStands, EndStands, NotBegun, MovedAside, Settled,
       Undoable, Emptied, Undone, Restored, Replaced

(* A failure or a signal before the rollback.                              *)
LEMMA AlwaysUndoable ==
    ASSUME RunInv, pc.at \in {"prepare", "verify", "completed", "failing"} \cup Committing, NEW c \in Client
    PROVE  Undoable(c)
<1>1. Stands(c) /\ c \in Nat /\ pc.client \in Nat
  BY ClientNumbers DEF RunInv, IInv, Shape
<1>2. CASE pc.at \in {"prepare", "verify", "completed", "failing"}
  BY <1>1, <1>2, Weaker DEF Stands, CommitStands, RollbackStands
<1>3. CASE pc.at \in Committing /\ c # pc.client
  BY <1>1, <1>3, Weaker DEF Stands, CommitStands
<1>4. CASE pc.at \in Committing /\ c = pc.client
  BY <1>1, <1>4, Weaker DEF Stands, CommitStands, Committing
<1> QED
  BY <1>2, <1>3, <1>4

LEMMA FailStands ==
    ASSUME RunInv, pc.at \in {"prepare", "verify", "completed"} \cup Committing, Fail,
           UNCHANGED <<Paths, outcome>>, NEW c \in Client
    PROVE  Stands(c)'
<1>1. Undoable(c)'
  BY AlwaysUndoable, StillPaths, PathsStand DEF Paths
<1>2. pc'.at = "failing"
  BY FailLands
<1>3. outcome' = "none"
  <2>1. pc.at # "idle"
    BY DEF Committing
  <2> QED
    BY <2>1 DEF RunInv, Stands, EndStands
<1> QED
  BY <1>1, <1>2, <1>3 DEF Stands, CommitStands, RollbackStands, EndStands, Committing, RollingBack

-----------------------------------------------------------------------------
(* The steps of the commit.                                                *)

LEMMA OutcomeStands ==
    ASSUME RunInv, pc.at # "idle"
    PROVE  outcome = "none"
BY ClientNumbers DEF RunInv, Stands, EndStands

LEMMA PrepareStands ==
    ASSUME RunInv, NEW c \in Client, Prepare(c), NEW d \in Client
    PROVE  Stands(d)'
<1>1. pc.at = "prepare" /\ UNCHANGED <<Paths, outcome>>
  BY AtParts DEF Prepare, disk, run, others, counts, Paths
<1>2. CASE Fail
  BY <1>1, <1>2, FailStands
<1>3. CASE Advance(c, "prepare", "commit")
  <2>1. NotBegun(d)' /\ outcome' = "none"
    BY <1>1, StillPaths, PathsStand, OutcomeStands DEF RunInv, Stands, CommitStands
  <2>2. pc'.at = "prepare" \/ (pc'.at = "commit" /\ pc'.client = 1)
    BY <1>3, Advances DEF Step
  <2>3. ~(d < 1)
    BY ClientNumbers DEF Client
  <2> QED
    BY <2>1, <2>2, <2>3 DEF Stands, CommitStands, RollbackStands, EndStands, Committing, RollingBack
<1> QED
  BY <1>2, <1>3 DEF Prepare

(* One client is done, the next one is begun.                              *)
LEMMA NextStands ==
    ASSUME RunInv, NEW c \in Client, pc.client = c, pc.at \in Committing, Settled(c),
           Advance(c, "commit", "verify"), UNCHANGED <<Paths, outcome>>, NEW d \in Client
    PROVE  Stands(d)'
<1>1. outcome' = "none"
  BY OutcomeStands DEF Committing
<1>2. c \in Nat /\ d \in Nat /\ Clients \in Nat /\ d <= Clients
  BY ClientNumbers, InstallAssumption DEF Client
<1>3. (d <= c => Settled(d)') /\ (d > c => NotBegun(d)')
  BY <1>2, StillPaths, PathsStand DEF RunInv, Stands, CommitStands
<1>4. CASE c < Clients /\ pc'.at = "commit" /\ pc'.client = c + 1
  <2>1. (d < c + 1 => d <= c) /\ (d >= c + 1 => d > c) /\ (d = c + 1 => d > c)
    BY <1>2
  <2> QED
    BY <1>1, <1>2, <1>3, <1>4, <2>1 DEF Stands, CommitStands, RollbackStands, EndStands, Committing, RollingBack
<1>5. CASE c = Clients /\ pc'.at = "verify"
  BY <1>1, <1>2, <1>3, <1>5 DEF Stands, CommitStands, RollbackStands, EndStands, Committing, RollingBack
<1> QED
  BY <1>4, <1>5, Advances DEF Step

LEMMA CommitStepStands ==
    ASSUME RunInv, NEW c \in Client, Commit(c), NEW d \in Client
    PROVE  Stands(d)'
<1>1. pc.at = "commit" /\ pc.client = c /\ UNCHANGED <<Paths, outcome>>
  BY AtParts DEF Commit, disk, run, others, counts, Paths
<1>2. pc.at \in Committing
  BY <1>1 DEF Committing
<1>3. CASE Fail
  BY <1>1, <1>2, <1>3, FailStands
<1>4. CASE Advance(c, "commit", "verify")
  <2>1. Settled(c)
    BY <1>1, Weaker DEF RunInv, Stands, CommitStands
  <2> QED
    BY <1>1, <1>2, <1>4, <2>1, NextStands
<1>5. CASE Goto("recheck", c)
  <2>1. pc'.at = "recheck" /\ pc'.client = c /\ outcome' = "none"
    BY <1>1, <1>5, Lands, OutcomeStands DEF Step
  <2>2. /\ d < c => Settled(d)'
        /\ d > c => NotBegun(d)'
        /\ d = c => NotBegun(d)'
    BY <1>1, <1>2, StillPaths, PathsStand DEF RunInv, Stands, CommitStands
  <2> QED
    BY <2>1, <2>2 DEF Stands, CommitStands, RollbackStands, EndStands, Committing, RollingBack
<1> QED
  BY <1>3, <1>4, <1>5 DEF Commit

LEMMA RecheckStands ==
    ASSUME RunInv, NEW c \in Client, Recheck(c), NEW d \in Client
    PROVE  Stands(d)'
<1>1. pc.at = "recheck" /\ pc.client = c /\ UNCHANGED <<Paths, outcome>>
  BY AtParts DEF Recheck, disk, run, others, counts, Paths
<1>2. pc.at \in Committing
  BY <1>1 DEF Committing
<1>3. /\ d < c => Settled(d)'
      /\ d > c => NotBegun(d)'
      /\ d = c => NotBegun(d)' /\ MovedAside(d)'
  BY <1>1, <1>2, StillPaths, PathsStand, Weaker DEF RunInv, Stands, CommitStands
<1>4. CASE Fail
  BY <1>1, <1>2, <1>4, FailStands
<1>5. CASE Goto("aside", c)
  <2>1. pc'.at = "aside" /\ pc'.client = c /\ outcome' = "none"
    BY <1>1, <1>5, Lands, OutcomeStands DEF Step
  <2> QED
    BY <1>3, <2>1 DEF Stands, CommitStands, RollbackStands, EndStands, Committing, RollingBack
<1>6. CASE Goto("publish", c) /\ target[c] = NoFile /\ Unchanged(c)
  <2>1. pc'.at = "publish" /\ pc'.client = c /\ outcome' = "none"
    BY <1>1, <1>6, Lands, OutcomeStands DEF Step
  <2>2. backup'[c] = plan'[c].file
    <3>1. plan[c].file = target[c]
      BY <1>6 DEF Unchanged, Snapshot
    <3>2. backup[c] = NoFile
      BY <1>1, ClientNumbers DEF RunInv, IInv, BackupsArePlaced, NoBackupFrom, Client
    <3> QED
      BY <1>1, <1>6, <3>1, <3>2 DEF Paths
  <2> QED
    BY <1>3, <2>1, <2>2 DEF Stands, CommitStands, RollbackStands, EndStands, Committing, RollingBack
<1> QED
  BY <1>4, <1>5, <1>6 DEF Recheck

(* A step of one client, which leaves the others alone.                    *)
LEMMA OthersStand ==
    ASSUME RunInv, NEW c \in Client, pc.client = c, pc.at \in Committing, pc'.client = c,
           pc'.at \in Committing, outcome' = outcome, NEW d \in Client, d # c, PathKept(d)
    PROVE  Stands(d)'
<1>1. /\ d < c => Settled(d)'
      /\ d > c => NotBegun(d)'
  BY PathsStand DEF RunInv, Stands, CommitStands
<1>2. outcome' = "none"
  BY OutcomeStands DEF Committing
<1> QED
  BY <1>1, <1>2 DEF Stands, CommitStands, RollbackStands, EndStands, Committing, RollingBack

LEMMA MovesAsideStands ==
    ASSUME RunInv, NEW c \in Client, MovesAside(c)
    PROVE  Numbered' /\ \A d \in Client : Stands(d)'
<1>1. /\ pc.at = "aside" /\ pc.client = c
      /\ UNCHANGED <<shown, mine, plan, reported, quarantine, files, outcome>>
  BY AtParts DEF MovesAside, others, counts
<1>2. pc.at \in Committing
  BY <1>1 DEF Committing
<1>3. CASE Fail /\ UNCHANGED <<target, backup>>
  <2>1. UNCHANGED Paths
    BY <1>1, <1>3 DEF Paths
  <2> QED
    BY <1>1, <1>2, <1>3, <2>1, FailStands, StillPaths DEF RunInv
<1>4. CASE /\ backup' = [backup EXCEPT ![c] = target[c]] /\ target' = [target EXCEPT ![c] = NoFile]
           /\ Goto("sign", c)
  <2>1. NotBegun(c)
    BY <1>1 DEF RunInv, Stands, CommitStands
  <2>2. backup'[c] = target[c] /\ target'[c] = NoFile
    BY <1>4, OtherBackups, OtherTargets DEF RunInv, IInv
  <2>3. \A d \in Client : d # c => backup'[d] = backup[d] /\ target'[d] = target[d]
    BY <1>4, OtherBackups, OtherTargets DEF RunInv, IInv
  <2>4. Numbered'
    <3>1. backup' \in [Client -> 0..files] /\ target' \in [Client -> 0..files]
      BY <1>4 DEF RunInv, Numbered, NoFile
    <3>2. \A d \in Client : backup'[d] = backup[d] \/ mine[d] = NoFile
      BY <2>1, <2>3 DEF NotBegun
    <3> QED
      BY <1>1, <3>1, <3>2, NumbersStand DEF RunInv, Numbered
  <2>5. MovedAside(c)'
    BY <1>1, <2>1, <2>2 DEF NotBegun, MovedAside
  <2>6. pc'.at = "sign" /\ pc'.client = c /\ outcome' = "none"
    BY <1>1, <1>4, Lands, OutcomeStands DEF Step
  <2>7. Stands(c)'
    BY <2>5, <2>6, ClientNumbers DEF Stands, CommitStands, RollbackStands, EndStands, Committing, RollingBack, Client
  <2>8. ASSUME NEW d \in Client, d # c PROVE Stands(d)'
    <3>1. PathKept(d)
      BY <1>1, <2>3, <2>8 DEF PathKept
    <3>2. pc'.at \in Committing
      BY <2>6 DEF Committing
    <3> QED
      BY <1>1, <1>2, <2>6, <2>8, <3>1, <3>2, OthersStand
  <2> QED
    BY <2>4, <2>7, <2>8
<1> QED
  BY <1>3, <1>4 DEF MovesAside

LEMMA SignsStands ==
    ASSUME RunInv, NEW c \in Client, Signs(c), NEW d \in Client
    PROVE  Stands(d)'
<1>1. pc.at = "sign" /\ pc.client = c /\ UNCHANGED <<Paths, outcome>> /\ Goto("compare", c)
  BY AtParts DEF Signs, disk, others, counts, Paths
<1>2. pc'.at = "compare" /\ pc'.client = c /\ outcome' = "none"
  BY <1>1, Lands, OutcomeStands DEF Step
<1>3. MovedAside(c)'
  BY <1>1, StillPaths, PathsStand DEF RunInv, Stands, CommitStands
<1>4. CASE d = c
  BY <1>2, <1>3, <1>4, ClientNumbers DEF Stands, CommitStands, RollbackStands, EndStands, Committing, RollingBack, Client
<1>5. CASE d # c
  BY <1>1, <1>2, <1>5, StillPaths, OthersStand DEF Committing
<1> QED
  BY <1>4, <1>5

LEMMA CompareStands ==
    ASSUME RunInv, NEW c \in Client, Compare(c), NEW d \in Client
    PROVE  Stands(d)'
<1>1. pc.at = "compare" /\ pc.client = c /\ UNCHANGED <<Paths, outcome>>
  BY AtParts DEF Compare, disk, run, others, counts, Paths
<1>2. CASE Fail
  BY <1>1, <1>2, FailStands DEF Committing
<1>3. CASE IsPlanned(c) /\ Goto("publish", c)
  <2>1. pc'.at = "publish" /\ pc'.client = c /\ outcome' = "none"
    BY <1>1, <1>3, Lands, OutcomeStands DEF Step
  <2>2. MovedAside(c)'
    BY <1>1, StillPaths, PathsStand DEF RunInv, Stands, CommitStands
  <2>3. backup'[c] = plan'[c].file
    BY <1>1, <1>3 DEF IsPlanned, Paths
  <2>4. CASE d = c
    BY <2>1, <2>2, <2>3, <2>4, ClientNumbers
       DEF Stands, CommitStands, RollbackStands, EndStands, Committing, RollingBack, Client
  <2>5. CASE d # c
    BY <1>1, <2>1, <2>5, StillPaths, OthersStand DEF Committing
  <2> QED
    BY <2>4, <2>5
<1> QED
  BY <1>2, <1>3 DEF Compare

LEMMA PublishStands ==
    ASSUME RunInv, NEW c \in Client, Publish(c)
    PROVE  Numbered' /\ \A d \in Client : Stands(d)'
<1>1. /\ pc.at = "publish" /\ pc.client = c
      /\ UNCHANGED <<shown, backup, plan, reported, quarantine, outcome>>
  BY AtParts DEF Publish, others
<1>2. pc.at \in Committing
  BY <1>1 DEF Committing
<1>3. CASE Fail /\ UNCHANGED <<files, target, mine>>
  <2>1. UNCHANGED Paths
    BY <1>1, <1>3 DEF Paths
  <2> QED
    BY <1>1, <1>2, <1>3, <2>1, FailStands, StillPaths DEF RunInv
<1>4. CASE /\ target[c] = NoFile /\ files' = files + 1 /\ target' = [target EXCEPT ![c] = files']
           /\ mine' = [mine EXCEPT ![c] = files'] /\ Goto("stamp", c)
  <2>1. MovedAside(c) /\ backup[c] = plan[c].file
    BY <1>1 DEF RunInv, Stands, CommitStands
  <2>2. /\ target'[c] = files' /\ mine'[c] = files' /\ files' # NoFile /\ files \in Nat
        /\ \A d \in Client : d # c => target'[d] = target[d] /\ mine'[d] = mine[d]
    BY <1>4 DEF RunInv, Numbered, NoFile
  <2>3. Numbered'
    <3>1. /\ target' \in [Client -> 0..files'] /\ mine' \in [Client -> 0..files']
          /\ quarantine' \in 0..files' /\ files' \in Nat
      BY <1>1, <1>4 DEF RunInv, Numbered
    <3>2. /\ shown' \in [Client -> 0..files'] /\ backup' \in [Client -> 0..files']
      BY <1>1, <1>4 DEF RunInv, Numbered
    <3>3. files' # backup[c] /\ files' # shown[c]
      BY <1>4 DEF RunInv, Numbered
    <3> QED
      BY <1>1, <2>2, <3>1, <3>2, <3>3 DEF RunInv, Numbered
  <2>4. Settled(c)'
    <3>1. shown[c] \in {backup[c], NoFile}
      BY <1>4, <2>1 DEF MovedAside
    <3> QED
      BY <1>1, <2>1, <2>2, <3>1 DEF Settled
  <2>5. pc'.at = "stamp" /\ pc'.client = c /\ outcome' = "none"
    BY <1>1, <1>4, Lands, OutcomeStands DEF Step
  <2>6. Stands(c)'
    BY <2>4, <2>5, ClientNumbers DEF Stands, CommitStands, RollbackStands, EndStands, Committing, RollingBack, Client
  <2>7. ASSUME NEW d \in Client, d # c PROVE Stands(d)'
    <3>1. PathKept(d)
      BY <1>1, <2>2, <2>7 DEF PathKept
    <3> QED
      BY <1>1, <1>2, <2>5, <2>7, <3>1, OthersStand DEF Committing
  <2> QED
    BY <2>3, <2>6, <2>7
<1> QED
  BY <1>3, <1>4 DEF Publish

LEMMA StampStands ==
    ASSUME RunInv, NEW c \in Client, Stamp(c), NEW d \in Client
    PROVE  Stands(d)'
<1>1. pc.at = "stamp" /\ pc.client = c /\ UNCHANGED <<Paths, outcome>>
  BY AtParts DEF Stamp, disk, others, counts, Paths
<1>2. CASE Fail
  BY <1>1, <1>2, FailStands DEF Committing
<1>3. CASE Goto("confirm", c)
  <2>1. pc'.at = "confirm" /\ pc'.client = c /\ outcome' = "none"
    BY <1>1, <1>3, Lands, OutcomeStands DEF Step
  <2>2. Settled(c)'
    BY <1>1, StillPaths, PathsStand DEF RunInv, Stands, CommitStands
  <2>3. CASE d = c
    BY <2>1, <2>2, <2>3, ClientNumbers
       DEF Stands, CommitStands, RollbackStands, EndStands, Committing, RollingBack, Client
  <2>4. CASE d # c
    BY <1>1, <2>1, <2>4, StillPaths, OthersStand DEF Committing
  <2> QED
    BY <2>3, <2>4
<1> QED
  BY <1>2, <1>3 DEF Stamp

LEMMA ConfirmStands ==
    ASSUME RunInv, NEW c \in Client, Confirm(c), NEW d \in Client
    PROVE  Stands(d)'
<1>1. pc.at = "confirm" /\ pc.client = c /\ UNCHANGED <<Paths, outcome>>
  BY AtParts DEF Confirm, disk, run, others, counts, Paths
<1>2. pc.at \in Committing /\ Settled(c)
  BY <1>1 DEF Committing, RunInv, Stands, CommitStands
<1>3. CASE Fail
  BY <1>1, <1>2, <1>3, FailStands
<1>4. CASE Advance(c, "commit", "verify")
  BY <1>1, <1>2, <1>4, NextStands
<1> QED
  BY <1>3, <1>4 DEF Confirm

LEMMA VerifyStands ==
    ASSUME RunInv, NEW c \in Client, Verify(c), NEW d \in Client
    PROVE  Stands(d)'
<1>1. pc.at = "verify" /\ UNCHANGED <<Paths, outcome>>
  BY AtParts DEF Verify, disk, run, others, counts, Paths
<1>2. CASE Fail
  BY <1>1, <1>2, FailStands
<1>3. CASE Advance(c, "verify", "completed")
  <2>1. Settled(d)' /\ outcome' = "none"
    BY <1>1, StillPaths, PathsStand, OutcomeStands DEF RunInv, Stands, CommitStands
  <2>2. pc'.at \in {"verify", "completed"}
    BY <1>3, Advances DEF Step
  <2> QED
    BY <2>1, <2>2 DEF Stands, CommitStands, RollbackStands, EndStands, Committing, RollingBack
<1> QED
  BY <1>2, <1>3 DEF Verify

-----------------------------------------------------------------------------
(* The end of a run and the rollback.                                      *)

LEMMA StartStands ==
    ASSUME RunInv, Start
    PROVE  Numbered' /\ \A d \in Client : Stands(d)'
<1>1. /\ pc'.at = "prepare" /\ outcome' = "none" /\ UNCHANGED <<target, files>>
      /\ shown' = target /\ backup' = Nowhere /\ mine' = Nowhere /\ quarantine' = NoFile
  BY Lands, ClientNumbers DEF Start, disk, Step
<1>2. target \in [Client -> 0..files] /\ files \in Nat
  BY DEF RunInv, Numbered
<1>3. Nowhere \in [Client -> 0..files] /\ NoFile \in 0..files
  BY <1>2 DEF Nowhere, NoFile
<1>4. \A d \in Client : mine'[d] = NoFile
  BY <1>1, Somewhere
<1>5. Numbered'
  BY <1>1, <1>2, <1>3, <1>4 DEF Numbered
<1>6. ASSUME NEW d \in Client PROVE Stands(d)'
  <2>1. NotBegun(d)'
    BY <1>1, <1>4 DEF NotBegun
  <2> QED
    BY <1>1, <2>1 DEF Stands, CommitStands, RollbackStands, EndStands, Committing, RollingBack
<1> QED
  BY <1>5, <1>6

LEMMA CompleteStands ==
    ASSUME RunInv, Complete
    PROVE  Numbered' /\ \A d \in Client : Stands(d)'
<1>1. /\ pc.at = "completed" /\ pc'.at = "idle" /\ outcome' = "complete" /\ backup' = Nowhere
      /\ UNCHANGED <<target, shown, mine, plan, quarantine, files>>
  BY AtParts, Lands, ClientNumbers DEF Complete, others, counts, Step
<1>2. Nowhere \in [Client -> 0..files] /\ \A d \in Client : Nowhere[d] = NoFile
  BY Somewhere DEF Nowhere, NoFile, RunInv, Numbered
<1>3. Numbered'
  BY <1>1, <1>2 DEF RunInv, Numbered
<1>4. ASSUME NEW d \in Client PROVE Stands(d)'
  <2>1. Replaced(d)
    BY <1>1, Weaker DEF RunInv, Stands, CommitStands
  <2>2. Replaced(d)'
    BY <1>1, <2>1 DEF Replaced
  <2> QED
    BY <1>1, <2>2 DEF Stands, CommitStands, RollbackStands, EndStands, Committing, RollingBack
<1> QED
  BY <1>3, <1>4

LEMMA BlockSignalsStands ==
    ASSUME RunInv, BlockSignals, NEW d \in Client
    PROVE  Stands(d)'
<1>1. /\ pc.at = "failing" /\ pc'.at = "withdraw" /\ pc'.client = Clients
      /\ UNCHANGED <<Paths, outcome>>
  BY AtParts, Lands, ClientNumbers DEF BlockSignals, disk, run, others, counts, Step, Paths
<1>2. Undoable(d)' /\ outcome' = "none"
  BY <1>1, StillPaths, PathsStand, OutcomeStands DEF RunInv, Stands, RollbackStands
<1>3. ~(d > Clients)
  BY InstallAssumption DEF Client
<1> QED
  BY <1>1, <1>2, <1>3 DEF Stands, CommitStands, RollbackStands, EndStands, Committing, RollingBack

LEMMA CleanUpStands ==
    ASSUME RunInv, CleanUp
    PROVE  Numbered' /\ \A d \in Client : Stands(d)'
<1>1. /\ pc.at = "cleanup" /\ pc'.at = "idle" /\ outcome' = "failed" /\ backup' = Nowhere
      /\ UNCHANGED <<target, shown, mine, plan, reported, quarantine, files, skipped>>
  BY AtParts, Lands, ClientNumbers DEF CleanUp, disk, others, counts, Step
<1>2. Nowhere \in [Client -> 0..files] /\ \A d \in Client : Nowhere[d] = NoFile
  BY Somewhere DEF Nowhere, NoFile, RunInv, Numbered
<1>3. Numbered'
  BY <1>1, <1>2 DEF RunInv, Numbered
<1>4. ASSUME NEW d \in Client PROVE Stands(d)'
  <2>1. ~skipped => Undone(d)
    BY <1>1 DEF RunInv, Stands, RollbackStands
  <2>2. ~skipped' => Undone(d)'
    BY <1>1, <2>1 DEF Undone, Restored
  <2> QED
    BY <1>1, <2>2 DEF Stands, CommitStands, RollbackStands, EndStands, Committing, RollingBack
<1> QED
  BY <1>3, <1>4

(* The rollback of a client is over, one way or the other.                 *)
LEMMA RetreatStands ==
    ASSUME RunInv, NEW c \in Client, pc.client = c, pc.at \in RollingBack, Retreat(c),
           UNCHANGED outcome, Undone(c)', NEW d \in Client, d # c => PathKept(d)
    PROVE  Stands(d)'
<1>1. outcome' = "none"
  BY OutcomeStands DEF RollingBack
<1>2. c \in Nat /\ d \in Nat /\ c >= 1 /\ d >= 1
  BY InstallAssumption DEF Client
<1>3. (d < c => Undoable(d)') /\ (d >= c => Undone(d)')
  <2>1. CASE d = c
    BY <1>2, <2>1
  <2>2. CASE d # c
    <3>1. /\ d < c => Undoable(d)
          /\ d > c => Undone(d)
      BY DEF RunInv, Stands, RollbackStands
    <3> QED
      BY <1>2, <2>2, <3>1, PathsStand
  <2> QED
    BY <2>1, <2>2
<1>4. CASE c > 1 /\ pc'.at = "withdraw" /\ pc'.client = c - 1
  <2>1. (d <= c - 1 => d < c) /\ (d > c - 1 => d >= c)
    BY <1>2
  <2> QED
    BY <1>1, <1>2, <1>3, <1>4, <2>1
       DEF Stands, CommitStands, RollbackStands, EndStands, Committing, RollingBack
<1>5. CASE c = 1 /\ pc'.at = "cleanup"
  BY <1>1, <1>2, <1>3, <1>5 DEF Stands, CommitStands, RollbackStands, EndStands, Committing, RollingBack
<1> QED
  BY <1>4, <1>5, Retreats

LEMMA ReportStands ==
    ASSUME RunInv, NEW c \in Client, pc.client = c, pc.at \in RollingBack, NEW m, Report(c, m),
           UNCHANGED <<shown, mine, plan, files, outcome>>, quarantine' \in 0..files,
           target' \in [Client -> 0..files], \A d \in Client : d # c => target'[d] = target[d]
    PROVE  Numbered' /\ \A d \in Client : Stands(d)'
<1>1. /\ reported' = reported \cup {c} /\ Retreat(c) /\ backup' = [backup EXCEPT ![c] = NoFile]
  BY DEF Report
<1>2. backup'[c] = NoFile /\ \A d \in Client : d # c => backup'[d] = backup[d]
  BY <1>1, OtherBackups DEF RunInv, IInv
<1>3. Numbered'
  <2>1. backup' \in [Client -> 0..files]
    BY <1>1 DEF RunInv, Numbered, NoFile
  <2> QED
    BY <1>2, <2>1, NumbersStand DEF RunInv
<1>4. Undone(c)'
  BY <1>1 DEF Undone
<1>5. ASSUME NEW d \in Client PROVE Stands(d)'
  <2>1. d # c => PathKept(d)
    BY <1>1, <1>2 DEF PathKept
  <2> QED
    BY <1>1, <1>4, <2>1, RetreatStands
<1> QED
  BY <1>3, <1>5

(* A step of the rollback of one client.                                   *)
LEMMA OthersRollBack ==
    ASSUME RunInv, NEW c \in Client, pc.client = c, pc.at \in RollingBack, pc'.client = c,
           pc'.at \in RollingBack, outcome' = outcome, NEW d \in Client, d # c, PathKept(d)
    PROVE  Stands(d)'
<1>1. /\ d < c => Undoable(d)'
      /\ d > c => Undone(d)'
  BY PathsStand DEF RunInv, Stands, RollbackStands
<1>2. outcome' = "none"
  BY OutcomeStands DEF RollingBack
<1> QED
  BY <1>1, <1>2 DEF Stands, CommitStands, RollbackStands, EndStands, Committing, RollingBack

LEMMA RestoreIsNext ==
    ASSUME RunInv, NEW c \in Client, pc.client = c, pc.at \in RollingBack, Goto("restore", c),
           outcome' = outcome, Emptied(c)', \A d \in Client : d # c => PathKept(d)
    PROVE  \A d \in Client : Stands(d)'
<1>1. pc'.at = "restore" /\ pc'.client = c /\ outcome' = "none"
  BY Lands, OutcomeStands DEF Step, RollingBack
<1>2. ASSUME NEW d \in Client, d = c PROVE Stands(d)'
  BY <1>1, <1>2, ClientNumbers
     DEF Stands, CommitStands, RollbackStands, EndStands, Committing, RollingBack, Client
<1>3. ASSUME NEW d \in Client, d # c PROVE Stands(d)'
  BY <1>1, <1>3, OthersRollBack DEF RollingBack
<1> QED
  BY <1>2, <1>3

LEMMA WithdrawStands ==
    ASSUME RunInv, NEW c \in Client, Withdraw(c)
    PROVE  Numbered' /\ \A d \in Client : Stands(d)'
<1>1. /\ pc.at = "withdraw" /\ pc.client = c
      /\ UNCHANGED <<shown, backup, mine, plan, reported, files, outcome>>
  BY AtParts DEF Withdraw, others, counts
<1>2. Undoable(c) /\ pc.at \in RollingBack
  BY <1>1 DEF RunInv, Stands, RollbackStands, RollingBack
<1>3. CASE (mine[c] = NoFile \/ target[c] = NoFile) /\ Goto("restore", c) /\ UNCHANGED <<target, quarantine>>
  <2>1. UNCHANGED Paths
    BY <1>1, <1>3 DEF Paths
  <2>2. Emptied(c)
    BY <1>2, <1>3 DEF Undoable, Emptied
  <2>3. Emptied(c)'
    BY <2>1, <2>2, StillPaths, PathsStand
  <2> QED
    BY <1>1, <1>2, <1>3, <2>1, <2>3, StillPaths, RestoreIsNext DEF RunInv
<1>4. CASE /\ mine[c] # NoFile /\ target[c] # NoFile
           /\ quarantine' = target[c] /\ target' = [target EXCEPT ![c] = NoFile] /\ Goto("judge", c)
  <2>1. target'[c] = NoFile /\ \A d \in Client : d # c => target'[d] = target[d]
    BY <1>4, OtherTargets DEF RunInv, IInv
  <2>2. Numbered'
    <3>1. target' \in [Client -> 0..files] /\ quarantine' \in 0..files /\ backup' \in [Client -> 0..files]
      BY <1>1, <1>4 DEF RunInv, Numbered, NoFile
    <3> QED
      BY <1>1, <3>1, NumbersStand DEF RunInv
  <2>3. quarantine' = mine'[c] => Emptied(c)'
    <3>1. target[c] = mine[c] => shown[c] \in {backup[c], NoFile}
      BY <1>2, <1>4 DEF Undoable, RunInv, Numbered
    <3> QED
      BY <1>1, <1>4, <2>1, <3>1 DEF Emptied
  <2>4. pc'.at = "judge" /\ pc'.client = c /\ outcome' = "none"
    BY <1>1, <1>4, Lands, OutcomeStands DEF Step
  <2>5. Stands(c)'
    BY <2>3, <2>4, ClientNumbers
       DEF Stands, CommitStands, RollbackStands, EndStands, Committing, RollingBack, Client
  <2>6. ASSUME NEW d \in Client, d # c PROVE Stands(d)'
    <3>1. PathKept(d)
      BY <1>1, <2>1, <2>6 DEF PathKept
    <3> QED
      BY <1>1, <1>2, <2>4, <2>6, <3>1, OthersRollBack DEF RollingBack
  <2> QED
    BY <2>2, <2>5, <2>6
<1> QED
  BY <1>3, <1>4 DEF Withdraw

LEMMA JudgeStands ==
    ASSUME RunInv, NEW c \in Client, Judge(c)
    PROVE  Numbered' /\ \A d \in Client : Stands(d)'
<1>1. /\ pc.at = "judge" /\ pc.client = c /\ quarantine' = NoFile
      /\ UNCHANGED <<shown, mine, plan, files, outcome>>
  BY AtParts DEF Judge, others, counts
<1>2. /\ pc.at \in RollingBack /\ quarantine' \in 0..files /\ target \in [Client -> 0..files]
      /\ quarantine \in 0..files
  BY <1>1 DEF RollingBack, RunInv, Numbered, NoFile
<1>3. CASE Ours(quarantine, c) /\ Goto("restore", c) /\ UNCHANGED <<target, backup, reported>>
  <2>1. Emptied(c)
    BY <1>1, <1>3 DEF Ours, RunInv, Stands, RollbackStands
  <2>2. \A d \in Client : PathKept(d)
    BY <1>1, <1>3 DEF PathKept
  <2>3. Emptied(c)'
    BY <2>1, <2>2, PathsStand
  <2>4. Numbered'
    BY <1>1, <1>2, <1>3, NumbersStand DEF RunInv, Numbered
  <2> QED
    BY <1>1, <1>2, <1>3, <2>2, <2>3, <2>4, RestoreIsNext
<1>4. CASE /\ Report(c, {quarantine})
           /\ \/ UNCHANGED target
              \/ target[c] = NoFile /\ target' = [target EXCEPT ![c] = quarantine]
  <2>1. target' \in [Client -> 0..files] /\ \A d \in Client : d # c => target'[d] = target[d]
    BY <1>2, <1>4
  <2> QED
    BY <1>1, <1>2, <1>4, <2>1, ReportStands
<1> QED
  BY <1>3, <1>4 DEF Judge

LEMMA RestoreStands ==
    ASSUME RunInv, NEW c \in Client, Restore(c)
    PROVE  Numbered' /\ \A d \in Client : Stands(d)'
<1>1. /\ pc.at = "restore" /\ pc.client = c
      /\ UNCHANGED <<target, shown, mine, plan, quarantine, files, outcome>>
  BY AtParts DEF Restore, others, counts
<1>2. Emptied(c) /\ pc.at \in RollingBack
  BY <1>1 DEF RunInv, Stands, RollbackStands, RollingBack
<1>3. CASE backup[c] = NoFile
  <2>1. Retreat(c) /\ UNCHANGED Paths
    BY <1>1, <1>3 DEF Restore, Paths
  <2>2. Undone(c)'
    BY <1>2, <1>3, <2>1 DEF Emptied, Undone, Restored, Paths
  <2> QED
    BY <1>1, <1>2, <2>1, <2>2, StillPaths, RetreatStands DEF RunInv
<1>4. CASE backup[c] # NoFile /\ Goto("relink", c) /\ UNCHANGED <<retained, backup, reported>>
  <2>1. UNCHANGED Paths
    BY <1>1, <1>4 DEF Paths
  <2>2. pc'.at = "relink" /\ pc'.client = c /\ outcome' = "none"
    BY <1>1, <1>4, Lands, OutcomeStands DEF Step
  <2>3. Emptied(c)' /\ backup'[c] # NoFile
    BY <1>2, <1>4, <2>1, StillPaths, PathsStand
  <2>4. Stands(c)'
    BY <2>2, <2>3, ClientNumbers
       DEF Stands, CommitStands, RollbackStands, EndStands, Committing, RollingBack, Client
  <2>5. ASSUME NEW d \in Client, d # c PROVE Stands(d)'
    BY <1>1, <1>2, <2>1, <2>2, <2>5, StillPaths, OthersRollBack DEF RollingBack
  <2> QED
    BY <2>1, <2>4, <2>5, StillPaths DEF RunInv
<1>5. CASE Report(c, {})
  <2>1. quarantine' \in 0..files /\ target' \in [Client -> 0..files]
    BY <1>1 DEF RunInv, Numbered
  <2> QED
    BY <1>1, <1>2, <1>5, <2>1, ReportStands
<1> QED
  BY <1>3, <1>4, <1>5 DEF Restore

LEMMA RelinkStands ==
    ASSUME RunInv, NEW c \in Client, Relink(c)
    PROVE  Numbered' /\ \A d \in Client : Stands(d)'
<1>1. /\ pc.at = "relink" /\ pc.client = c
      /\ UNCHANGED <<shown, mine, plan, quarantine, files, outcome>>
  BY AtParts DEF Relink, others, counts
<1>2. Emptied(c) /\ backup[c] # NoFile /\ pc.at \in RollingBack
  BY <1>1 DEF RunInv, Stands, RollbackStands, RollingBack
<1>3. quarantine' \in 0..files
  BY <1>1 DEF RunInv, Numbered
<1>4. CASE target[c] = NoFile
  <2>1. /\ target' = [target EXCEPT ![c] = backup[c]] /\ backup' = [backup EXCEPT ![c] = NoFile]
        /\ Retreat(c) /\ UNCHANGED reported
    BY <1>4 DEF Relink
  <2>2. /\ target'[c] = backup[c] /\ \A d \in Client : d # c => target'[d] = target[d]
    BY <2>1, OtherTargets DEF RunInv, IInv
  <2>3. /\ backup'[c] = NoFile /\ \A d \in Client : d # c => backup'[d] = backup[d]
    BY <2>1, OtherBackups DEF RunInv, IInv
  <2>4. target' \in [Client -> 0..files] /\ backup' \in [Client -> 0..files]
    BY <2>1 DEF RunInv, Numbered, NoFile
  <2>5. Numbered'
    BY <1>1, <1>3, <2>3, <2>4, NumbersStand DEF RunInv
  <2>6. Undone(c)'
    <3>1. backup[c] # mine[c]
      BY <1>2 DEF RunInv, Numbered
    <3>2. shown[c] \in {backup[c], NoFile}
      BY <1>2, <1>4 DEF Emptied
    <3> QED
      BY <1>1, <2>2, <3>1, <3>2 DEF Undone, Restored
  <2>7. ASSUME NEW d \in Client PROVE Stands(d)'
    <3>1. d # c => PathKept(d)
      BY <1>1, <2>1, <2>2, <2>3 DEF PathKept
    <3> QED
      BY <1>1, <1>2, <2>1, <2>6, <3>1, RetreatStands
  <2> QED
    BY <2>5, <2>7
<1>5. CASE target[c] # NoFile
  <2>1. Report(c, {}) /\ UNCHANGED target
    BY <1>5 DEF Relink
  <2>2. target' \in [Client -> 0..files]
    BY <2>1 DEF RunInv, Numbered
  <2> QED
    BY <1>1, <1>2, <1>3, <2>1, <2>2, ReportStands
<1> QED
  BY <1>4, <1>5

-----------------------------------------------------------------------------
(* What interferes.                                                        *)

LEMMA SignalStands ==
    ASSUME RunInv, Signal, NEW d \in Client
    PROVE  Stands(d)'
<1>1. UNCHANGED <<Paths, outcome>>
  BY DEF Signal, disk, run, others, Paths
<1>2. CASE pc.at \in {"prepare", "commit", "verify", "completed"} /\ Fail
  BY <1>1, <1>2, FailStands DEF Committing
<1>3. CASE pc.at = "failing" /\ Goto("cleanup", 1) /\ skipped' = TRUE
  <2>1. pc'.at = "cleanup" /\ outcome' = "none"
    BY <1>1, <1>3, Lands, ClientNumbers, OutcomeStands DEF Step
  <2> QED
    BY <1>3, <2>1 DEF Stands, CommitStands, RollbackStands, EndStands, Committing, RollingBack
<1> QED
  BY <1>2, <1>3 DEF Signal

LEMMA CallFailsStands ==
    ASSUME RunInv, CallFails
    PROVE  Numbered' /\ \A d \in Client : Stands(d)'
<1>1. UNCHANGED <<target, shown, mine, plan, quarantine, files, outcome>>
  BY DEF CallFails, others
<1>2. CASE /\ pc.at \in {"prepare", "commit", "recheck", "aside", "sign", "compare", "publish", "stamp",
                           "confirm", "verify"} /\ Fail
           /\ UNCHANGED <<retained, backup, reported>>
  <2>1. UNCHANGED Paths
    BY <1>1, <1>2 DEF Paths
  <2>2. pc.at \in {"prepare", "verify", "completed"} \cup Committing
    BY <1>2 DEF Committing
  <2> QED
    BY <1>1, <1>2, <2>1, <2>2, FailStands, StillPaths DEF RunInv
<1>3. CASE pc.at \in {"withdraw", "restore", "relink"} /\ Report(pc.client, {})
  <2>1. pc.at \in RollingBack /\ pc.client \in Client
    BY <1>3 DEF RollingBack, RunInv, IInv, Shape
  <2>2. quarantine' \in 0..files /\ target' \in [Client -> 0..files]
    BY <1>1 DEF RunInv, Numbered
  <2> QED
    BY <1>1, <1>3, <2>1, <2>2, ReportStands
<1> QED
  BY <1>2, <1>3 DEF CallFails

LEMMA JudgeFailsStands ==
    ASSUME RunInv, NEW c \in Client, JudgeFails(c)
    PROVE  Numbered' /\ \A d \in Client : Stands(d)'
<1>1. /\ pc.at = "judge" /\ pc.client = c /\ quarantine' = NoFile /\ Report(c, {})
      /\ UNCHANGED <<target, shown, mine, plan, files, outcome>>
  BY AtParts DEF JudgeFails, others
<1>2. pc.at \in RollingBack /\ quarantine' \in 0..files /\ target' \in [Client -> 0..files]
  BY <1>1 DEF RollingBack, RunInv, Numbered, NoFile
<1> QED
  BY <1>1, <1>2, ReportStands

LEMMA KillStands ==
    ASSUME RunInv, Kill
    PROVE  Numbered' /\ \A d \in Client : Stands(d)'
<1>1. /\ pc'.at = "idle" /\ outcome' = "killed" /\ backup' = Nowhere /\ quarantine' = NoFile
      /\ UNCHANGED <<target, shown, mine, files>>
  BY Lands, ClientNumbers DEF Kill, others, Step
<1>2. Nowhere \in [Client -> 0..files] /\ \A d \in Client : Nowhere[d] = NoFile
  BY Somewhere DEF Nowhere, NoFile, RunInv, Numbered
<1>3. Numbered'
  BY <1>1, <1>2 DEF RunInv, Numbered, NoFile
<1>4. ASSUME NEW d \in Client PROVE Stands(d)'
  BY <1>1 DEF Stands, CommitStands, RollbackStands, EndStands, Committing, RollingBack
<1> QED
  BY <1>3, <1>4

LEMMA EditStands ==
    ASSUME RunInv, NEW f \in File, Edit(f), NEW d \in Client
    PROVE  Stands(d)'
<1>1. UNCHANGED <<Paths, pc, outcome, skipped>>
  BY DEF Edit, run, others, Paths
<1> QED
  BY <1>1, NothingHappens

(* Everything that a run relies on survives another file at the path.      *)
LEMMA DisplacesStand ==
    ASSUME RunInv, NEW c \in Client, Delete(c) \/ Put(c)
    PROVE  Numbered' /\ \A d \in Client : Stands(d)'
<1>1. PICK f \in Nat :
        /\ target' = [target EXCEPT ![c] = f] /\ shown' = [shown EXCEPT ![c] = f]
        /\ (f = NoFile /\ files' = files) \/ (f = files + 1 /\ files' = files + 1)
        /\ UNCHANGED <<pc, backup, mine, plan, reported, quarantine, outcome, skipped>>
  BY DEF Delete, Put, run, NoFile, RunInv, Numbered
<1>2. Numbered'
  <2>1. files' \in Nat /\ f \in 0..files' /\ 0..files \subseteq 0..files'
    BY <1>1 DEF RunInv, Numbered, NoFile
  <2>2. /\ target' \in [Client -> 0..files'] /\ shown' \in [Client -> 0..files']
        /\ backup' \in [Client -> 0..files'] /\ mine' \in [Client -> 0..files'] /\ quarantine' \in 0..files'
    BY <1>1, <2>1 DEF RunInv, Numbered
  <2>3. ASSUME NEW d \in Client, mine'[d] # NoFile PROVE mine'[d] # backup'[d] /\ mine'[d] # shown'[d]
    <3>1. mine[d] # NoFile /\ mine[d] # backup[d] /\ mine[d] # shown[d] /\ mine[d] \in 0..files
      BY <1>1, <2>3 DEF RunInv, Numbered
    <3>2. mine[d] # f
      BY <1>1, <3>1 DEF RunInv, Numbered
    <3> QED
      BY <1>1, <3>1, <3>2 DEF RunInv, Numbered
  <2> QED
    BY <2>1, <2>2, <2>3 DEF Numbered
<1>3. ASSUME NEW d \in Client PROVE Stands(d)'
  <2>1. PathKept(d)
    <3>1. CASE d = c
      <4>1. target'[d] = f /\ shown'[d] = f
        BY <1>1, <3>1 DEF RunInv, Numbered
      <4> QED
        BY <1>1, <4>1 DEF PathKept
    <3>2. CASE d # c
      BY <1>1, <3>2 DEF RunInv, Numbered, PathKept
    <3> QED
      BY <3>1, <3>2
  <2>2. CommitStands(d)'
    <3>1. CommitStands(d) /\ UNCHANGED <<pc, backup, plan>>
      BY <1>1 DEF RunInv, Stands
    <3> QED
      BY <2>1, <3>1, PathsStand DEF CommitStands
  <2>3. RollbackStands(d)'
    <3>1. RollbackStands(d) /\ UNCHANGED <<pc, backup, mine, quarantine, skipped>>
      BY <1>1 DEF RunInv, Stands
    <3> QED
      BY <2>1, <3>1, PathsStand DEF RollbackStands
  <2>4. EndStands(d)'
    <3>1. EndStands(d) /\ UNCHANGED <<pc, outcome, skipped>>
      BY <1>1 DEF RunInv, Stands
    <3> QED
      BY <2>1, <3>1, PathsStand DEF EndStands
  <2> QED
    BY <2>2, <2>3, <2>4 DEF Stands
<1> QED
  BY <1>2, <1>3

-----------------------------------------------------------------------------
LEMMA InitRunInv == Init => RunInv
<1> SUFFICES ASSUME Init PROVE RunInv
  OBVIOUS
<1>1. IInv
  BY InitIInv
<1>2. /\ pc.at = "idle" /\ outcome = "none" /\ files = Clients /\ shown = target
      /\ backup = Nowhere /\ mine = Nowhere /\ quarantine = NoFile
  BY AtParts DEF Init
<1>3. Numbered
  <2>1. files \in Nat /\ NoFile \in 0..files
    BY <1>2, InstallAssumption DEF NoFile
  <2>2. target \in [Client -> 0..files]
    <3>1. PICK existing \in SUBSET Client : target = [c \in Client |-> IF c \in existing THEN c ELSE NoFile]
      BY DEF Init
    <3>2. \A c \in Client : c \in 0..files
      BY <1>2, InstallAssumption DEF Client
    <3> QED
      BY <2>1, <3>1, <3>2
  <2>3. Nowhere \in [Client -> 0..files]
    BY <2>1 DEF Nowhere
  <2> QED
    BY <1>2, <2>1, <2>2, <2>3, Somewhere DEF Numbered
<1>4. ASSUME NEW c \in Client PROVE Stands(c)
  BY <1>2 DEF Stands, CommitStands, RollbackStands, EndStands, Committing, RollingBack
<1> QED
  BY <1>1, <1>3, <1>4 DEF RunInv

LEMMA StepRunInv == RunInv /\ [Next]_vars => RunInv'
<1> SUFFICES ASSUME RunInv, [Next]_vars PROVE Numbered' /\ \A c \in Client : Stands(c)'
  BY StepIInv DEF RunInv
<1>1. CASE UNCHANGED vars
  <2>1. UNCHANGED <<Paths, pc, outcome, skipped>>
    BY <1>1 DEF vars, disk, run, others, counts, Paths
  <2> QED
    BY <2>1, NothingHappens, StillPaths DEF RunInv
<1>2. CASE Start \/ Complete \/ CleanUp \/ CallFails \/ Kill
  BY <1>2, StartStands, CompleteStands, CleanUpStands, CallFailsStands, KillStands
<1>3. CASE BlockSignals \/ Signal
  <2>1. UNCHANGED Paths
    BY <1>3 DEF BlockSignals, Signal, disk, run, others, counts, Paths
  <2> QED
    BY <1>3, <2>1, StillPaths, BlockSignalsStands, SignalStands DEF RunInv
<1>4. ASSUME NEW c \in Client,
             \/ Prepare(c) \/ Commit(c) \/ Recheck(c) \/ Signs(c) \/ Compare(c)
             \/ Stamp(c) \/ Confirm(c) \/ Verify(c)
      PROVE  Numbered' /\ \A d \in Client : Stands(d)'
  <2>1. UNCHANGED Paths
    BY <1>4 DEF Prepare, Commit, Recheck, Signs, Compare, Stamp, Confirm, Verify,
                disk, run, others, counts, Paths
  <2>2. Numbered'
    BY <2>1, StillPaths DEF RunInv
  <2>3. \A d \in Client : Stands(d)'
    BY <1>4, PrepareStands, CommitStepStands, RecheckStands, SignsStands, CompareStands, StampStands,
       ConfirmStands, VerifyStands
  <2> QED
    BY <2>2, <2>3
<1>5. ASSUME NEW c \in Client,
             \/ MovesAside(c) \/ Publish(c) \/ Withdraw(c) \/ Judge(c) \/ Restore(c) \/ Relink(c)
      PROVE  Numbered' /\ \A d \in Client : Stands(d)'
  BY <1>5, MovesAsideStands, PublishStands, WithdrawStands, JudgeStands, RestoreStands, RelinkStands
<1>8. ASSUME NEW c \in Client, JudgeFails(c)
      PROVE  Numbered' /\ \A d \in Client : Stands(d)'
  BY <1>8, JudgeFailsStands
<1>6. ASSUME NEW f \in File, Edit(f)
      PROVE  Numbered' /\ \A d \in Client : Stands(d)'
  <2>1. UNCHANGED Paths
    BY <1>6 DEF Edit, run, others, Paths
  <2> QED
    BY <1>6, <2>1, EditStands, StillPaths DEF RunInv
<1>7. ASSUME NEW c \in Client, Delete(c) \/ Put(c)
      PROVE  Numbered' /\ \A d \in Client : Stands(d)'
  BY <1>7, DisplacesStand
<1> QED
  BY <1>1, <1>2, <1>3, <1>4, <1>5, <1>6, <1>7, <1>8 DEF Next, Works

LEMMA RunsStand == Spec => []RunInv
BY InitRunInv, StepRunInv, PTL DEF Spec

(* A run that failed leaves at every path what others left there or, if    *)
(* they left nothing, not what it installed, unless it reports the client  *)
(* or skipped its rollback: whatever happened during the run and after it. *)
THEOREM FailureAlwaysRestores == Spec => []FailureRestores
<1>1. RunInv => FailureRestores
  <2> SUFFICES ASSUME RunInv, outcome = "failed", ~skipped, NEW c \in Client \ reported
               PROVE  Restored(c)
    BY DEF FailureRestores
  <2>1. pc.at = "idle"
    BY OutcomeStands
  <2> QED
    BY <2>1 DEF RunInv, Stands, EndStands, Undone
<1> QED
  BY <1>1, RunsStand, PTL

(* A run that reports success has replaced no file but the one that it     *)
(* read, and put no other one in its place than the one that it installed. *)
THEOREM SuccessNeverHides == Spec => []SuccessHidesNothing
<1>1. RunInv => SuccessHidesNothing
  <2> SUFFICES ASSUME RunInv, outcome = "complete", NEW c \in Client
               PROVE  Replaced(c)
    BY DEF SuccessHidesNothing, Replaced
  <2>1. pc.at = "idle"
    BY OutcomeStands
  <2> QED
    BY <2>1 DEF RunInv, Stands, EndStands
<1> QED
  BY <1>1, RunsStand, PTL
=============================================================================
