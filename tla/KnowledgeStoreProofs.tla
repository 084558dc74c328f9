------------------------- MODULE KnowledgeStoreProofs -------------------------
(***************************************************************************)
(* Theorems about KnowledgeStore, for every number of processes and        *)
(* documents, batches of any content and every number of calls and         *)
(* mishaps.                                                                *)
(***************************************************************************)
EXTENDS KnowledgeStore, SequenceTheorems, TLAPS

-----------------------------------------------------------------------------
(* The inductive invariant.                                                *)

(* The documents of the call that p has taken in hand.                     *)
Handled(p) == {batch[p][i] : i \in 1..done[p]}

Locked == {"planning", "checking", "replacing", "publishing", "restoring", "reindexed"}

(* The call of p fits where it stands.                                     *)
Fits(p) ==
    /\ lock = p <=> at[p] \in Locked
    /\ IsInjective(batch[p])
    /\ at[p] \in {"idle", "reindexing", "creating", "reindexed"} => batch[p] = <<>>
    /\ at[p] \in {"idle", "locking", "planning", "reindexing", "creating", "reindexed"} =>
          done[p] = 0
    /\ at[p] \in {"checking", "replacing", "restoring", "locking", "planning", "hydrating"} =>
          batch[p] # <<>>
    /\ at[p] = "publishing" => done[p] = Len(batch[p])
    /\ at[p] = "replacing" => done[p] > 0
    /\ at[p] = "hydrating" => seen[p] \in Index

(* p is in a write that may have replaced documents.                       *)
Writing(p) ==
    \/ at[p] \in {"checking", "replacing", "restoring"}
    \/ at[p] = "publishing" /\ batch[p] # <<>>

(* Restoring the backups and the index of p puts back what readers are     *)
(* told of.                                                                *)
CanBeUndone(p) ==
    Writing(p) => \A d \in Id \ dirty :
        /\ Published(original[p])[d] = Published(index)[d]
        /\ d \in Handled(p) => /\ seen[p][d] = Published(index)[d]
                               /\ doc[d] \in {seen[p][d], new[p]}

(* Until something fails, p replaces only what its caller expected.        *)
WritesExpected(p) ==
    Writing(p) /\ at[p] # "restoring" => \A d \in Handled(p) \ dirty :
        /\ expected[p][d] = Published(index)[d]
        /\ doc[d] = IF at[p] = "replacing" /\ d = Latest(p) THEN expected[p][d] ELSE new[p]

(* What p is about to publish is on disk.                                  *)
ScanIsCurrent(p) == at[p] = "publishing" => \A d \in Id \ dirty : scan[p][d] = doc[d]

Sound(p) == CanBeUndone(p) /\ WritesExpected(p) /\ ScanIsCurrent(p)

(* Only what the holder of the lock has in hand may differ from the index. *)
DiskIsCurrent ==
    \A d \in Id \ dirty :
        (\A p \in Process : lock = p => d \notin Handled(p)) => doc[d] = Published(index)[d]

Control == TypeOK /\ \A p \in Process : Fits(p)

IInv == Control /\ DiskIsCurrent /\ \A p \in Process : Sound(p)

-----------------------------------------------------------------------------
(* Lemmas on the control of a call.                                        *)

(* A step of p leaves the other processes where they are.                  *)
Alone(p) ==
    \A q \in Process \ {p} :
        /\ at'[q] = at[q] /\ batch'[q] = batch[q] /\ done'[q] = done[q]
        /\ expected'[q] = expected[q] /\ new'[q] = new[q] /\ seen'[q] = seen[q]
        /\ scan'[q] = scan[q] /\ original'[q] = original[q]
        /\ lock' = q <=> lock = q

LEMMA ContentFacts ==
    /\ SomeContent \in Content /\ Empty \in Index
    /\ \A i \in Index \cup {NoIndex} : Published(i) \in Index
    /\ \A i \in Index : Published(i) = i
BY StoreAssumption DEF SomeContent, Empty, Index, Published

(* A batch is a non-empty list of distinct documents.                      *)
LEMMA BatchType ==
    /\ \A ids \in Batch : ids \in Seq(Id) /\ ids # <<>> /\ IsInjective(ids)
    /\ \A d \in Id : <<d>> \in Seq(Id) /\ <<d>> # <<>> /\ IsInjective(<<d>>)
<1>1. ASSUME NEW ids \in Batch PROVE ids \in Seq(Id) /\ ids # <<>> /\ IsInjective(ids)
  <2>1. ids \in SeqOf(Id, 2) /\ ids # <<>> /\ IsInjective(ids)
    BY <1>1 DEF Batch
  <2>2. PICK m \in 0..2 : ids \in [1..m -> Id]
    BY <2>1 DEF SeqOf
  <2>3. m \in Nat
    OBVIOUS
  <2>4. ids \in Seq(Id)
    BY <2>2, <2>3, SeqDef
  <2> QED
    BY <2>1, <2>4
<1>2. ASSUME NEW d \in Id PROVE <<d>> \in Seq(Id) /\ <<d>> # <<>> /\ IsInjective(<<d>>)
  BY DEF IsInjective
<1> QED
  BY <1>1, <1>2

(* A call that ends leaves p idle and the lock free.                       *)
LEMMA ForgetsControl ==
    ASSUME Control, NEW p \in Process, Forgets(p)
    PROVE  /\ Alone(p) /\ Fits(p)'
           /\ lock' = (IF lock = p THEN Nobody ELSE lock)
           /\ (doc \in [Id -> Content \cup {Missing, Malformed}] /\ index \in Index \cup {NoIndex}
               /\ calls \in 0..MaxCalls /\ harm \in 0..MaxHarm /\ dirty \subseteq Id)'
              => TypeOK'
<1> USE DEF Control
<1>1. lock' = IF lock = p THEN Nobody ELSE lock
  BY DEF Forgets
<1>2. /\ at' = [at EXCEPT ![p] = "idle"] /\ batch' = [batch EXCEPT ![p] = <<>>]
      /\ done' = [done EXCEPT ![p] = 0] /\ seen' = [seen EXCEPT ![p] = Empty]
      /\ expected' = [expected EXCEPT ![p] = Empty] /\ new' = [new EXCEPT ![p] = SomeContent]
      /\ scan' = [scan EXCEPT ![p] = Empty] /\ original' = [original EXCEPT ![p] = NoIndex]
  BY DEF Forgets, Goes
<1>3. Nobody \notin Process
  BY StoreAssumption
<1>4. Alone(p)
  BY <1>1, <1>2, <1>3 DEF Alone, TypeOK
<1>5. at'[p] = "idle" /\ batch'[p] = <<>> /\ done'[p] = 0 /\ lock' # p
  BY <1>1, <1>2, <1>3 DEF TypeOK
<1>6. Fits(p)'
  BY <1>5 DEF Fits, Locked, IsInjective
<1>7. /\ at' \in [Process -> Step] /\ batch' \in [Process -> Seq(Id)]
      /\ done' \in [Process -> Nat] /\ \A q \in Process : done'[q] <= Len(batch'[q])
      /\ lock' \in Process \cup {Nobody}
  BY <1>1, <1>2 DEF TypeOK, Step
<1>8. /\ expected' \in [Process -> [Id -> Content \cup {Missing}]]
      /\ new' \in [Process -> Content]
      /\ seen' \in [Process -> [Id -> Content \cup {Missing, Malformed}]]
      /\ scan' \in [Process -> Index] /\ original' \in [Process -> Index \cup {NoIndex}]
  BY <1>2, ContentFacts DEF TypeOK, Index
<1> QED
  BY <1>1, <1>4, <1>6, <1>7, <1>8 DEF TypeOK

(* Each step of a process keeps the control of its call and leaves the     *)
(* others alone.                                                           *)
LEMMA CallControl ==
    ASSUME Control, NEW p \in Process, Call(p)
    PROVE  TypeOK' /\ Alone(p) /\ Fits(p)'
<1> USE DEF Control
<1>0. at[p] = "idle" /\ batch[p] = <<>> /\ done[p] = 0 /\ lock # p
  BY DEF Call, BeginRead, BeginWrite, BeginReindex, BeginInit, Fits, Locked
<1>1. ASSUME NEW ids \in Seq(Id), ids # <<>>, IsInjective(ids),
             NEW step \in {"loading", "hydrating"}, BeginRead(p, ids, step)
      PROVE  TypeOK' /\ Alone(p) /\ Fits(p)'
  <2>1. index \in Index /\ Index \subseteq [Id -> Content \cup {Missing, Malformed}]
    BY <1>1 DEF BeginRead, TypeOK, Index
  <2>2. /\ at' = [at EXCEPT ![p] = step] /\ batch' = [batch EXCEPT ![p] = ids]
        /\ seen' = [seen EXCEPT ![p] = index] /\ calls' \in 0..MaxCalls
        /\ UNCHANGED <<doc, index, lock, done, expected, new, original, scan, harm, dirty>>
    BY <1>1, StoreAssumption DEF BeginRead, TypeOK, Goes, disk
  <2>3. TypeOK'
    BY <1>0, <1>1, <2>1, <2>2 DEF TypeOK, Step
  <2>4. Alone(p)
    BY <2>2 DEF TypeOK, Alone
  <2>5. /\ at'[p] = step /\ batch'[p] = ids /\ done'[p] = 0 /\ seen'[p] = index /\ lock' # p
    BY <1>0, <2>2 DEF TypeOK
  <2>6. Fits(p)'
    BY <1>1, <2>1, <2>5 DEF Fits, Locked
  <2> QED
    BY <2>3, <2>4, <2>6
<1>2. ASSUME NEW ids \in Batch, NEW c \in Content, BeginWrite(p, ids, c)
      PROVE  TypeOK' /\ Alone(p) /\ Fits(p)'
  <2>1. Published(index) \in [Id -> Content \cup {Missing}]
    BY ContentFacts DEF TypeOK, Index
  <2>2. /\ at' = [at EXCEPT ![p] = "locking"] /\ batch' = [batch EXCEPT ![p] = ids]
        /\ new' = [new EXCEPT ![p] = c] /\ calls' \in 0..MaxCalls
        /\ expected' = [expected EXCEPT ![p] = Published(index)]
        /\ UNCHANGED <<doc, index, lock, done, original, scan, seen, harm, dirty>>
    BY <1>2, StoreAssumption DEF BeginWrite, TypeOK, Goes, disk
  <2>3. TypeOK'
    BY <1>0, <1>2, <2>1, <2>2, BatchType DEF TypeOK, Step
  <2>4. Alone(p)
    BY <2>2 DEF TypeOK, Alone
  <2>5. /\ at'[p] = "locking" /\ batch'[p] = ids /\ done'[p] = 0 /\ lock' # p
    BY <1>0, <2>2 DEF TypeOK
  <2>6. Fits(p)'
    BY <1>2, <2>5, BatchType DEF Fits, Locked
  <2> QED
    BY <2>3, <2>4, <2>6
<1>3. ASSUME NEW step \in {"reindexing", "creating"},
             at' = [at EXCEPT ![p] = step], calls' \in 0..MaxCalls,
             UNCHANGED <<disk, lock, call, seen, harm, dirty>>
      PROVE  TypeOK' /\ Alone(p) /\ Fits(p)'
  <2>1. UNCHANGED <<doc, index, lock, batch, done, expected, new, original, scan, seen, harm,
                    dirty>>
    BY <1>3 DEF disk, call
  <2>2. TypeOK'
    BY <1>3, <2>1 DEF TypeOK, Step
  <2>3. Alone(p)
    BY <1>3, <2>1 DEF TypeOK, Alone
  <2>4. at'[p] = step /\ batch'[p] = <<>> /\ done'[p] = 0 /\ lock' # p
    BY <1>0, <1>3, <2>1 DEF TypeOK
  <2> QED
    BY <1>3, <2>2, <2>3, <2>4 DEF Fits, Locked, IsInjective
<1>4. CASE BeginReindex(p)
  BY <1>3, <1>4, StoreAssumption DEF BeginReindex, Goes, TypeOK
<1>5. CASE BeginInit(p)
  BY <1>3, <1>5, StoreAssumption DEF BeginInit, Goes, TypeOK
<1> QED
  BY <1>1, <1>2, <1>4, <1>5, BatchType DEF Call

(* What a step inside the call of p changes: s, n, e, w, v, c and o are    *)
(* where p stands, how many documents it has in hand, and what it expects, *)
(* writes, has read, has scanned and keeps of the index.                   *)
Moves(p, s, n, e, w, v, c, o) ==
    /\ at' = [at EXCEPT ![p] = s] /\ batch' = batch /\ done' = [done EXCEPT ![p] = n]
    /\ expected' = [expected EXCEPT ![p] = e] /\ new' = [new EXCEPT ![p] = w]
    /\ seen' = [seen EXCEPT ![p] = v] /\ scan' = [scan EXCEPT ![p] = c]
    /\ original' = [original EXCEPT ![p] = o]
    /\ calls' = calls /\ harm' = harm /\ dirty' = dirty

LEMMA MovesControl ==
    ASSUME Control, NEW p \in Process, NEW s \in Step, NEW n \in Nat, n <= Len(batch[p]),
           NEW e \in [Id -> Content \cup {Missing}], NEW w \in Content,
           NEW v \in [Id -> Content \cup {Missing, Malformed}], NEW c \in Index,
           NEW o \in Index \cup {NoIndex}, Moves(p, s, n, e, w, v, c, o),
           lock' = lock \/ (lock = Nobody /\ lock' = p), index' = index,
           doc' \in [Id -> Content \cup {Missing, Malformed}]
    PROVE  /\ TypeOK' /\ Alone(p)
           /\ at'[p] = s /\ batch'[p] = batch[p] /\ done'[p] = n /\ expected'[p] = e
           /\ new'[p] = w /\ seen'[p] = v /\ scan'[p] = c /\ original'[p] = o
<1>1. /\ at' = [at EXCEPT ![p] = s] /\ batch' = batch /\ done' = [done EXCEPT ![p] = n]
      /\ expected' = [expected EXCEPT ![p] = e] /\ new' = [new EXCEPT ![p] = w]
      /\ seen' = [seen EXCEPT ![p] = v] /\ scan' = [scan EXCEPT ![p] = c]
      /\ original' = [original EXCEPT ![p] = o]
      /\ calls' = calls /\ harm' = harm /\ dirty' = dirty
  BY DEF Moves
<1>2. Nobody \notin Process
  BY StoreAssumption
<1>3. TypeOK'
  BY <1>1 DEF Control, TypeOK
<1>4. Alone(p)
  BY <1>1, <1>2 DEF Control, TypeOK, Alone
<1> QED
  BY <1>1, <1>3, <1>4 DEF Control, TypeOK

(* The state of p has its types.                                           *)
LEMMA OwnTypes ==
    ASSUME Control, NEW p \in Process
    PROVE  /\ at[p] \in Step /\ batch[p] \in Seq(Id) /\ done[p] \in Nat
           /\ done[p] <= Len(batch[p]) /\ Len(batch[p]) \in Nat
           /\ expected[p] \in [Id -> Content \cup {Missing}] /\ new[p] \in Content
           /\ seen[p] \in [Id -> Content \cup {Missing, Malformed}]
           /\ scan[p] \in Index /\ original[p] \in Index \cup {NoIndex}
           /\ doc \in [Id -> Content \cup {Missing, Malformed}]
           /\ \A k \in 1..done[p] : batch[p][k] \in Id
           /\ done[p] < Len(batch[p]) => Following(p) \in Id
           /\ done[p] > 0 => Latest(p) \in Id
<1>1. /\ batch[p] \in Seq(Id) /\ done[p] \in Nat /\ done[p] <= Len(batch[p])
  BY DEF Control, TypeOK
<1>2. \A k \in 1..Len(batch[p]) : batch[p][k] \in Id
  BY <1>1
<1> QED
  BY <1>1, <1>2 DEF Control, TypeOK, Following, Latest

-----------------------------------------------------------------------------
(* Lemmas on what the disk and the calls hold.                             *)

(* What another process relies on is not touched, unless p has the lock.   *)
LEMMA OthersKeep ==
    ASSUME IInv, NEW p \in Process, Alone(p), NEW q \in Process \ {p},
           lock = p \/ (UNCHANGED disk /\ dirty \subseteq dirty')
    PROVE  Fits(q)' /\ Sound(q)'
<1>1. /\ at'[q] = at[q] /\ batch'[q] = batch[q] /\ done'[q] = done[q]
      /\ expected'[q] = expected[q] /\ new'[q] = new[q] /\ seen'[q] = seen[q]
      /\ scan'[q] = scan[q] /\ original'[q] = original[q]
      /\ lock' = q <=> lock = q
  BY DEF Alone
<1>2. Fits(q) /\ Sound(q)
  BY DEF IInv, Control
<1>3. Fits(q)'
  BY <1>1, <1>2 DEF Fits
<1>4. CASE lock = p
  <2>1. at'[q] \notin Locked
    BY <1>1, <1>2, <1>4 DEF Fits
  <2> QED
    BY <1>3, <2>1 DEF Sound, CanBeUndone, WritesExpected, ScanIsCurrent, Writing, Locked
<1>5. CASE UNCHANGED disk /\ dirty \subseteq dirty'
  <2>1. /\ Handled(q)' = Handled(q) /\ Latest(q)' = Latest(q)
        /\ Writing(q)' <=> Writing(q)
    BY <1>1 DEF Handled, Latest, Writing
  <2>2. doc' = doc /\ index' = index
    BY <1>5 DEF disk
  <2>3. CanBeUndone(q)'
    BY <1>1, <1>2, <1>5, <2>1, <2>2 DEF Sound, CanBeUndone
  <2>4. WritesExpected(q)'
    BY <1>1, <1>2, <1>5, <2>1, <2>2 DEF Sound, WritesExpected
  <2>5. ScanIsCurrent(q)'
    BY <1>1, <1>2, <1>5, <2>1, <2>2 DEF Sound, ScanIsCurrent
  <2> QED
    BY <1>3, <2>3, <2>4, <2>5 DEF Sound
<1> QED
  BY <1>4, <1>5

(* A step of p that changes no file: what it lets go of is published or    *)
(* was left behind.                                                        *)
LEMMA DiskKept ==
    ASSUME IInv, NEW p \in Process, Alone(p), UNCHANGED disk, dirty \subseteq dirty',
           lock = p => \A d \in Handled(p) : d \in dirty' \/ (lock' = p /\ d \in Handled(p)')
    PROVE  DiskIsCurrent'
<1> SUFFICES ASSUME NEW d \in Id \ dirty',
                    \A q \in Process : lock' = q => d \notin Handled(q)'
             PROVE  doc[d] = Published(index)[d]
  BY DEF DiskIsCurrent, disk
<1>1. \A q \in Process \ {p} : Handled(q)' = Handled(q) /\ (lock' = q <=> lock = q)
  BY DEF Alone, Handled
<1>2. \A q \in Process : lock = q => d \notin Handled(q)
  BY <1>1
<1> QED
  BY <1>2 DEF IInv, DiskIsCurrent

(* A process that is in no write and publishes nothing relies on nothing.  *)
LEMMA NothingAtStake ==
    ASSUME NEW p \in Process,
           at'[p] \in {"idle", "loading", "hydrating", "locking", "planning", "reindexing",
                       "reindexed", "creating"}
    PROVE  Sound(p)'
BY DEF Sound, CanBeUndone, WritesExpected, ScanIsCurrent, Writing

(* The invariant after a step of p, from what the step does to p.          *)
LEMMA StepOfOne ==
    ASSUME IInv, NEW p \in Process, Alone(p), TypeOK', Fits(p)', Sound(p)', DiskIsCurrent',
           lock = p \/ (UNCHANGED disk /\ dirty \subseteq dirty')
    PROVE  IInv'
<1>1. \A q \in Process \ {p} : Fits(q)' /\ Sound(q)'
  BY OthersKeep
<1> QED
  BY <1>1 DEF IInv, Control

(* A call that begins, or one that ends with nothing in hand.              *)
LEMMA CallKeeps == ASSUME IInv, NEW p \in Process, Call(p) PROVE IInv'
<1>1. TypeOK' /\ Alone(p) /\ Fits(p)'
  BY CallControl DEF IInv
<1>2. lock # p /\ UNCHANGED <<disk, dirty>>
  BY DEF Call, BeginRead, BeginWrite, BeginReindex, BeginInit, IInv, Control, Fits, Locked
<1>3. at'[p] \in {"loading", "hydrating", "locking", "reindexing", "creating"}
  BY DEF Call, BeginRead, BeginWrite, BeginReindex, BeginInit, Goes, IInv, Control, TypeOK
<1>4. Sound(p)'
  BY <1>3, NothingAtStake
<1>5. DiskIsCurrent'
  BY <1>1, <1>2, DiskKept
<1> QED
  BY <1>1, <1>2, <1>4, <1>5, StepOfOne

LEMMA GivesUpKeeps ==
    ASSUME IInv, NEW p \in Process, Forgets(p), UNCHANGED <<disk, calls>>,
           harm' \in 0..MaxHarm, dirty' \subseteq Id, dirty \subseteq dirty',
           lock = p => Handled(p) \subseteq dirty'
    PROVE  IInv'
<1>1. TypeOK' /\ Alone(p) /\ Fits(p)'
  BY ForgetsControl DEF IInv, Control, TypeOK, disk
<1>2. at'[p] = "idle"
  BY DEF Forgets, Goes, IInv, Control, TypeOK
<1>3. Sound(p)'
  BY <1>2, NothingAtStake
<1>4. DiskIsCurrent'
  BY <1>1, DiskKept
<1> QED
  BY <1>1, <1>3, <1>4, StepOfOne

(* A step outside the lock that writes nothing.                            *)
LEMMA QuietKeeps ==
    ASSUME IInv, NEW p \in Process, lock # p, UNCHANGED <<disk, dirty>>, Alone(p), TypeOK',
           Fits(p)',
           at'[p] \in {"idle", "loading", "hydrating", "locking", "planning", "reindexing",
                       "reindexed", "creating"}
    PROVE  IInv'
<1>1. Sound(p)'
  BY NothingAtStake
<1>2. DiskIsCurrent'
  BY DiskKept
<1> QED
  BY <1>1, <1>2, StepOfOne

-----------------------------------------------------------------------------
(* One lemma for each step of a process.                                   *)

LEMMA LoadKeeps == ASSUME IInv, NEW p \in Process, Load(p) PROVE IInv'
<1>1. Control /\ Fits(p)
  BY DEF IInv, Control
<1>2. /\ at[p] \in {"loading", "hydrating"} /\ done[p] + 1 <= Len(batch[p])
      /\ done[p] + 1 \in Nat /\ lock # p
  BY <1>1, OwnTypes DEF Load, Fits, Locked
<1>3. Moves(p, at[p], done[p] + 1, expected[p], new[p], seen[p], scan[p], original[p])
  BY <1>1 DEF Load, Moves, Control, TypeOK
<1>4. UNCHANGED <<doc, index, lock>>
  BY DEF Load, disk
<1>5. /\ TypeOK' /\ Alone(p) /\ at'[p] = at[p] /\ batch'[p] = batch[p] /\ seen'[p] = seen[p]
      /\ done'[p] = done[p] + 1
  BY <1>1, <1>2, <1>3, <1>4, OwnTypes, MovesControl
<1>6. Fits(p)'
  BY <1>1, <1>2, <1>4, <1>5 DEF Fits, Locked
<1> QED
  BY <1>2, <1>4, <1>5, <1>6, QuietKeeps DEF Load

LEMMA HydratedKeeps ==
    ASSUME IInv, NEW p \in Process, NEW content \in Content, Hydrated(p, content) PROVE IInv'
<1>1. Control /\ Fits(p)
  BY DEF IInv, Control
<1>2. /\ at[p] = "hydrating" /\ lock # p /\ batch[p] # <<>>
      /\ seen[p] \in [Id -> Content \cup {Missing}]
  BY <1>1 DEF Hydrated, Fits, Locked, Index
<1>3. Moves(p, "locking", 0, seen[p], content, seen[p], scan[p], original[p])
  BY <1>1 DEF Hydrated, Moves, Goes, Control, TypeOK
<1>4. UNCHANGED <<doc, index, lock>> /\ "locking" \in Step
  BY DEF Hydrated, disk, Step
<1>5. /\ TypeOK' /\ Alone(p) /\ at'[p] = "locking" /\ batch'[p] = batch[p] /\ done'[p] = 0
  BY <1>1, <1>2, <1>3, <1>4, OwnTypes, MovesControl
<1>6. Fits(p)'
  BY <1>1, <1>2, <1>4, <1>5 DEF Fits, Locked
<1> QED
  BY <1>2, <1>4, <1>5, <1>6, QuietKeeps DEF Hydrated

LEMMA AcquireKeeps ==
    ASSUME IInv, NEW p \in Process, Acquire(p) \/ ReindexAcquires(p) PROVE IInv'
<1>1. Control /\ Fits(p)
  BY DEF IInv, Control
<1>2. PICK s \in {"planning", "reindexed"} :
         /\ at' = [at EXCEPT ![p] = s]
         /\ at[p] = IF s = "planning" THEN "locking" ELSE "reindexing"
  BY DEF Acquire, ReindexAcquires, Goes
<1>3. /\ lock = Nobody /\ lock' = p /\ UNCHANGED <<disk, call, seen, calls, harm, dirty>>
  BY DEF Acquire, ReindexAcquires
<1>4. Moves(p, s, done[p], expected[p], new[p], seen[p], scan[p], original[p])
  BY <1>1, <1>2, <1>3 DEF Moves, Control, TypeOK, call
<1>5. UNCHANGED <<doc, index>> /\ s \in Step /\ lock # p
  BY <1>3, StoreAssumption DEF disk, Step
<1>6. /\ TypeOK' /\ Alone(p) /\ at'[p] = s /\ batch'[p] = batch[p] /\ done'[p] = done[p]
  BY <1>1, <1>3, <1>4, <1>5, OwnTypes, MovesControl
<1>7. Fits(p)'
  BY <1>1, <1>2, <1>3, <1>6 DEF Fits, Locked
<1> QED
  BY <1>3, <1>5, <1>6, <1>7, QuietKeeps

(* The calls that end without having changed a file.                       *)
LEMMA EndsKeep ==
    ASSUME IInv, NEW p \in Process,
           \/ ReadFails(p) \/ ReadReturns(p) \/ WaitsTooLong(p) \/ PlanFails(p)
           \/ ReindexFails(p)
    PROVE  IInv'
<1>1. Fits(p) /\ TypeOK
  BY DEF IInv, Control
<1>2. Forgets(p) /\ UNCHANGED <<disk, calls, harm, dirty>>
  BY DEF ReadFails, ReadReturns, WaitsTooLong, PlanFails, ReindexFails
<1>3. lock = p => done[p] = 0
  <2>1. CASE ReadFails(p) \/ ReadReturns(p) \/ WaitsTooLong(p)
    BY <1>1, <2>1 DEF ReadFails, ReadReturns, WaitsTooLong, Fits, Locked
  <2>2. CASE PlanFails(p)
    BY <1>1, <2>2 DEF PlanFails, Fits
  <2>3. CASE ReindexFails(p)
    BY <1>1, <2>3 DEF ReindexFails, Fits
  <2> QED
    BY <2>1, <2>2, <2>3
<1>4. lock = p => Handled(p) = {}
  BY <1>3 DEF Handled
<1> QED
  BY <1>1, <1>2, <1>4, GivesUpKeeps DEF TypeOK

LEMMA DiesKeeps == ASSUME IInv, NEW p \in Process, Dies(p) PROVE IInv'
<1>1. Control
  BY DEF IInv
<1>2. Forgets(p) /\ UNCHANGED <<disk, calls>> /\ harm' \in 0..MaxHarm
  BY <1>1, StoreAssumption DEF Dies, Control, TypeOK
<1>3. Handled(p) \subseteq Id
  BY <1>1, OwnTypes DEF Handled
<1>4. dirty' = IF lock = p THEN dirty \cup Handled(p) ELSE dirty
  BY DEF Dies, Handled
<1>5. dirty' \subseteq Id /\ dirty \subseteq dirty' /\ (lock = p => Handled(p) \subseteq dirty')
  BY <1>1, <1>3, <1>4 DEF Control, TypeOK
<1> QED
  BY <1>2, <1>5, GivesUpKeeps

LEMMA PlanKeeps == ASSUME IInv, NEW p \in Process, Plan(p) PROVE IInv'
<1>1. Control /\ Fits(p)
  BY DEF IInv, Control
<1>2. /\ at[p] = "planning" /\ lock = p /\ done[p] = 0 /\ batch[p] # <<>>
  BY <1>1 DEF Plan, Fits, Locked
<1>3. Moves(p, "checking", done[p], expected[p], new[p], seen[p], scan[p], index)
  BY <1>1 DEF Plan, Moves, Goes, Control, TypeOK
<1>4. UNCHANGED <<doc, index, lock>> /\ "checking" \in Step /\ index \in Index \cup {NoIndex}
  BY <1>1 DEF Plan, disk, Step, Control, TypeOK
<1>5. /\ TypeOK' /\ Alone(p) /\ at'[p] = "checking" /\ batch'[p] = batch[p] /\ done'[p] = 0
      /\ original'[p] = index
  BY <1>1, <1>2, <1>3, <1>4, OwnTypes, MovesControl
<1>6. Fits(p)'
  BY <1>1, <1>2, <1>4, <1>5 DEF Fits, Locked
<1>7. Handled(p)' = {} /\ Handled(p) = {} /\ dirty' = dirty
  BY <1>2, <1>5 DEF Handled, Plan
<1>8. Sound(p)'
  BY <1>4, <1>5, <1>7 DEF Sound, CanBeUndone, WritesExpected, ScanIsCurrent
<1>9. DiskIsCurrent'
  BY <1>4, <1>5, <1>7, DiskKept DEF disk
<1> QED
  BY <1>2, <1>5, <1>6, <1>8, <1>9, StepOfOne

LEMMA FailsKeeps == ASSUME IInv, NEW p \in Process, Fails(p) PROVE IInv'
<1>1. Control /\ Fits(p) /\ CanBeUndone(p)
  BY DEF IInv, Control, Sound
<1>2. /\ at[p] \in {"checking", "replacing", "publishing"} /\ batch[p] # <<>> /\ lock = p
      /\ Writing(p)
  BY <1>1 DEF Fails, Fits, Locked, Writing
<1>3. Moves(p, "restoring", done[p], expected[p], new[p], seen[p], scan[p], original[p])
  BY <1>1 DEF Fails, Moves, Goes, Control, TypeOK, call
<1>4. UNCHANGED <<doc, index, lock, dirty>> /\ "restoring" \in Step
  BY DEF Fails, disk, Step
<1>5. /\ TypeOK' /\ Alone(p) /\ at'[p] = "restoring" /\ batch'[p] = batch[p]
      /\ done'[p] = done[p] /\ original'[p] = original[p] /\ seen'[p] = seen[p]
      /\ new'[p] = new[p]
  BY <1>1, <1>3, <1>4, OwnTypes, MovesControl
<1>6. Fits(p)'
  BY <1>1, <1>2, <1>4, <1>5 DEF Fits, Locked
<1>7. Handled(p)' = Handled(p)
  BY <1>5 DEF Handled
<1>8. CanBeUndone(p)'
  BY <1>1, <1>2, <1>4, <1>5, <1>7 DEF CanBeUndone
<1>9. Sound(p)'
  BY <1>5, <1>8 DEF Sound, WritesExpected, ScanIsCurrent
<1>10. DiskIsCurrent'
  BY <1>2, <1>4, <1>5, <1>7, DiskKept DEF disk
<1> QED
  BY <1>2, <1>5, <1>6, <1>9, <1>10, StepOfOne

(* What p has in hand after one document more, and after one less.         *)
LEMMA HandledStep ==
    ASSUME Control, NEW p \in Process, batch'[p] = batch[p]
    PROVE  /\ done[p] < Len(batch[p]) /\ done'[p] = done[p] + 1 =>
                 /\ Handled(p)' = Handled(p) \cup {Following(p)} /\ Following(p) \notin Handled(p)
                 /\ Latest(p)' = Following(p)
           /\ done[p] > 0 => Latest(p) \in Handled(p)
           /\ done[p] > 0 /\ done'[p] = done[p] - 1 => Handled(p)' = Handled(p) \ {Latest(p)}
<1>1. /\ batch[p] \in Seq(Id) /\ done[p] \in Nat /\ done[p] <= Len(batch[p])
      /\ Len(batch[p]) \in Nat
  BY OwnTypes
<1>2. ASSUME NEW i \in 1..Len(batch[p]), NEW j \in 1..Len(batch[p]), batch[p][i] = batch[p][j]
      PROVE  i = j
  BY <1>1, <1>2 DEF Control, Fits, IsInjective
<1>3. ASSUME done[p] < Len(batch[p]), done'[p] = done[p] + 1
      PROVE  /\ Handled(p)' = Handled(p) \cup {Following(p)} /\ Following(p) \notin Handled(p)
             /\ Latest(p)' = Following(p)
  <2>1. 1..done'[p] = 1..done[p] \cup {done[p] + 1}
    BY <1>1, <1>3
  <2>2. Handled(p)' = Handled(p) \cup {Following(p)}
    BY <2>1 DEF Handled, Following
  <2>3. Following(p) \notin Handled(p)
    BY <1>1, <1>2, <1>3 DEF Handled, Following
  <2> QED
    BY <1>3, <2>2, <2>3 DEF Latest, Following
<1>4. ASSUME done[p] > 0 PROVE Latest(p) \in Handled(p)
  BY <1>1, <1>4 DEF Latest, Handled
<1>5. ASSUME done[p] > 0, done'[p] = done[p] - 1
      PROVE  Handled(p)' = Handled(p) \ {Latest(p)}
  <2>1. /\ 1..done[p] = 1..done'[p] \cup {done[p]} /\ done[p] \in 1..Len(batch[p])
        /\ \A k \in 1..done'[p] : k # done[p] /\ k \in 1..Len(batch[p])
    BY <1>1, <1>5
  <2>2. \A k \in 1..done'[p] : batch[p][k] # batch[p][done[p]]
    BY <1>2, <2>1
  <2> QED
    BY <2>1, <2>2 DEF Handled, Latest
<1> QED
  BY <1>3, <1>4, <1>5

(* While p holds the lock, only its own documents may differ.              *)
LEMMA HolderAlone ==
    ASSUME IInv, NEW p \in Process, lock = p, NEW d \in Id \ dirty, d \notin Handled(p)
    PROVE  doc[d] = Published(index)[d]
BY DEF IInv, DiskIsCurrent

LEMMA CheckKeeps == ASSUME IInv, NEW p \in Process, Check(p) PROVE IInv'
<1>1. Control /\ Fits(p) /\ CanBeUndone(p) /\ WritesExpected(p)
  BY DEF IInv, Control, Sound
<1> DEFINE x == Following(p)
           s == IF Matches(p, x) THEN "replacing" ELSE "restoring"
           v == [seen[p] EXCEPT ![x] = doc[x]]
<1>2. /\ at[p] = "checking" /\ lock = p /\ Writing(p) /\ batch[p] # <<>>
      /\ done[p] < Len(batch[p]) /\ done[p] + 1 \in Nat /\ done[p] + 1 <= Len(batch[p])
      /\ done[p] + 1 > 0
  BY <1>1, OwnTypes DEF Check, AllDone, Fits, Locked, Writing
<1>3. x \in Id /\ v \in [Id -> Content \cup {Missing, Malformed}] /\ s \in Step
  BY <1>1, <1>2, OwnTypes DEF Step
<1>4. Moves(p, s, done[p] + 1, expected[p], new[p], v, scan[p], original[p])
  BY <1>1 DEF Check, Moves, Goes, Control, TypeOK
<1>5. UNCHANGED <<doc, index, lock, dirty>>
  BY DEF Check, disk
<1>6. v[x] = doc[x] /\ \A d \in Id \ {x} : v[d] = seen[p][d]
  BY <1>1, <1>3, OwnTypes
<1>7. s = "restoring" \/ (s = "replacing" /\ doc[x] = expected[p][x])
  BY DEF Matches
<1> HIDE DEF x, v, s
<1>8. /\ TypeOK' /\ Alone(p) /\ at'[p] = s /\ batch'[p] = batch[p] /\ done'[p] = done[p] + 1
      /\ expected'[p] = expected[p] /\ original'[p] = original[p] /\ seen'[p] = v
      /\ new'[p] = new[p]
  BY <1>1, <1>2, <1>3, <1>4, <1>5, OwnTypes, MovesControl
<1>9. Fits(p)'
  BY <1>1, <1>2, <1>5, <1>7, <1>8 DEF Fits, Locked
<1>10. Handled(p)' = Handled(p) \cup {x} /\ x \notin Handled(p) /\ Latest(p)' = x
  BY <1>1, <1>2, <1>8, HandledStep DEF x
<1>11. x \notin dirty => doc[x] = Published(index)[x]
  BY <1>2, <1>3, <1>10, HolderAlone
<1>12. CanBeUndone(p)'
  BY <1>1, <1>2, <1>5, <1>6, <1>8, <1>10, <1>11 DEF CanBeUndone
<1>13. WritesExpected(p)'
  BY <1>1, <1>2, <1>5, <1>7, <1>8, <1>10, <1>11 DEF WritesExpected
<1>14. Sound(p)'
  BY <1>7, <1>8, <1>12, <1>13 DEF Sound, ScanIsCurrent
<1>15. DiskIsCurrent'
  BY <1>2, <1>5, <1>8, <1>10, DiskKept DEF disk
<1> QED
  BY <1>2, <1>8, <1>9, <1>14, <1>15, StepOfOne

LEMMA ReplaceKeeps == ASSUME IInv, NEW p \in Process, Replace(p) PROVE IInv'
<1>1. Control /\ Fits(p) /\ CanBeUndone(p) /\ WritesExpected(p)
  BY DEF IInv, Control, Sound
<1> DEFINE x == Latest(p)
<1>2. /\ at[p] = "replacing" /\ lock = p /\ Writing(p) /\ batch[p] # <<>> /\ done[p] > 0
  BY <1>1 DEF Replace, Fits, Locked, Writing
<1>3. x \in Id /\ x \in Handled(p) /\ "checking" \in Step
  <2>1. x \in Id
    BY <1>1, <1>2, OwnTypes
  <2>2. x \in Handled(p)
    BY <1>1, <1>2, OwnTypes DEF Handled, Latest
  <2> QED
    BY <2>1, <2>2 DEF Step
<1>4. Moves(p, "checking", done[p], expected[p], new[p], seen[p], scan[p], original[p])
  BY <1>1 DEF Replace, Moves, Goes, Control, TypeOK, call
<1>5. UNCHANGED <<index, lock, dirty>> /\ doc' = [doc EXCEPT ![x] = new[p]]
  BY DEF Replace
<1>6. /\ doc' \in [Id -> Content \cup {Missing, Malformed}] /\ doc'[x] = new[p]
      /\ \A d \in Id \ {x} : doc'[d] = doc[d]
  BY <1>1, <1>3, <1>5, OwnTypes
<1> HIDE DEF x
<1>7. /\ TypeOK' /\ Alone(p) /\ at'[p] = "checking" /\ batch'[p] = batch[p]
      /\ done'[p] = done[p] /\ expected'[p] = expected[p] /\ original'[p] = original[p]
      /\ seen'[p] = seen[p] /\ new'[p] = new[p]
  BY <1>1, <1>3, <1>4, <1>5, <1>6, OwnTypes, MovesControl
<1>8. Fits(p)'
  BY <1>1, <1>2, <1>5, <1>7 DEF Fits, Locked
<1>9. Handled(p)' = Handled(p)
  BY <1>7 DEF Handled
<1>10. CanBeUndone(p)'
  BY <1>1, <1>2, <1>5, <1>6, <1>7, <1>9 DEF CanBeUndone
<1>11. \A d \in Handled(p) : d \in Id
  BY <1>1, OwnTypes DEF Handled
<1>12. WritesExpected(p)'
  BY <1>1, <1>2, <1>5, <1>6, <1>7, <1>9, <1>11 DEF WritesExpected, x
<1>13. Sound(p)'
  BY <1>7, <1>10, <1>12 DEF Sound, ScanIsCurrent
<1>14. DiskIsCurrent'
  <2> SUFFICES ASSUME NEW d \in Id \ dirty, d \notin Handled(p)
               PROVE  doc'[d] = Published(index)[d]
    BY <1>2, <1>5, <1>9 DEF DiskIsCurrent
  <2> QED
    BY <1>2, <1>3, <1>6, HolderAlone
<1> QED
  BY <1>2, <1>7, <1>8, <1>13, <1>14, StepOfOne

LEMMA ScanKeeps == ASSUME IInv, NEW p \in Process, Scan(p) PROVE IInv'
<1>1. Control /\ Fits(p) /\ CanBeUndone(p) /\ WritesExpected(p)
  BY DEF IInv, Control, Sound
<1> DEFINE s == IF Parses THEN "publishing" ELSE "restoring"
           c == IF Parses THEN doc ELSE scan[p]
<1>2. /\ at[p] = "checking" /\ lock = p /\ Writing(p) /\ batch[p] # <<>>
      /\ done[p] = Len(batch[p])
  BY <1>1 DEF Scan, AllDone, Fits, Locked, Writing
<1>3. s \in Step /\ c \in Index
  BY <1>1, OwnTypes DEF Step, Parses, Index
<1>4. Moves(p, s, done[p], expected[p], new[p], seen[p], c, original[p])
  BY <1>1 DEF Scan, Moves, Goes, Control, TypeOK
<1>5. UNCHANGED <<doc, index, lock, dirty>>
  BY DEF Scan, disk
<1>6. s = "restoring" \/ (s = "publishing" /\ c = doc)
  OBVIOUS
<1> HIDE DEF s, c
<1>7. /\ TypeOK' /\ Alone(p) /\ at'[p] = s /\ batch'[p] = batch[p]
      /\ done'[p] = done[p] /\ expected'[p] = expected[p] /\ original'[p] = original[p]
      /\ seen'[p] = seen[p] /\ new'[p] = new[p] /\ scan'[p] = c
  BY <1>1, <1>3, <1>4, <1>5, OwnTypes, MovesControl
<1>8. Fits(p)'
  BY <1>1, <1>2, <1>5, <1>6, <1>7 DEF Fits, Locked
<1>9. Handled(p)' = Handled(p)
  BY <1>7 DEF Handled
<1>10. CanBeUndone(p)'
  BY <1>1, <1>2, <1>5, <1>7, <1>9 DEF CanBeUndone
<1>11. WritesExpected(p)'
  BY <1>1, <1>2, <1>5, <1>6, <1>7, <1>9 DEF WritesExpected
<1>12. ScanIsCurrent(p)'
  BY <1>5, <1>6, <1>7 DEF ScanIsCurrent
<1>13. DiskIsCurrent'
  BY <1>2, <1>5, <1>7, <1>9, DiskKept DEF disk
<1> QED
  BY <1>2, <1>7, <1>8, <1>10, <1>11, <1>12, <1>13, StepOfOne DEF Sound

LEMMA ReindexKeeps == ASSUME IInv, NEW p \in Process, Reindex(p) PROVE IInv'
<1>1. Control /\ Fits(p)
  BY DEF IInv, Control
<1>2. at[p] = "reindexed" /\ lock = p /\ batch[p] = <<>> /\ done[p] = 0 /\ Parses
  BY <1>1 DEF Reindex, Fits, Locked
<1>3. "publishing" \in Step /\ doc \in Index
  BY <1>1, <1>2, OwnTypes DEF Step, Parses, Index
<1>4. Moves(p, "publishing", done[p], expected[p], new[p], seen[p], doc, original[p])
  BY <1>1 DEF Reindex, Moves, Goes, Control, TypeOK
<1>5. UNCHANGED <<doc, index, lock, dirty>>
  BY DEF Reindex, disk
<1>6. /\ TypeOK' /\ Alone(p) /\ at'[p] = "publishing" /\ batch'[p] = batch[p]
      /\ done'[p] = done[p] /\ scan'[p] = doc
  BY <1>1, <1>3, <1>4, <1>5, OwnTypes, MovesControl
<1>7. Fits(p)'
  BY <1>1, <1>2, <1>5, <1>6 DEF Fits, Locked
<1>8. Sound(p)'
  BY <1>2, <1>5, <1>6 DEF Sound, CanBeUndone, WritesExpected, ScanIsCurrent, Writing
<1>9. Handled(p) = {}
  BY <1>2 DEF Handled
<1>10. DiskIsCurrent'
  BY <1>5, <1>6, <1>9, DiskKept DEF disk
<1> QED
  BY <1>2, <1>6, <1>7, <1>8, <1>10, StepOfOne

LEMMA PublishKeeps == ASSUME IInv, NEW p \in Process, Publish(p) PROVE IInv'
<1>1. Control /\ Fits(p) /\ ScanIsCurrent(p)
  BY DEF IInv, Control, Sound
<1>2. /\ at[p] = "publishing" /\ lock = p /\ Forgets(p) /\ UNCHANGED <<doc, calls, harm>>
      /\ index' = scan[p] /\ dirty' = {d \in dirty : doc[d] # scan[p][d]}
  BY <1>1 DEF Publish, Publishes, Fits, Locked
<1>3. scan[p] \in Index /\ dirty' \subseteq Id
  BY <1>1, <1>2, OwnTypes DEF Control, TypeOK
<1>4. TypeOK' /\ Alone(p) /\ Fits(p)' /\ lock' = Nobody
  BY <1>1, <1>2, <1>3, ForgetsControl DEF Control, TypeOK
<1>5. at'[p] = "idle"
  BY <1>1, <1>2 DEF Forgets, Goes, Control, TypeOK
<1>6. Sound(p)'
  BY <1>5, NothingAtStake
<1>7. DiskIsCurrent'
  <2> SUFFICES ASSUME NEW d \in Id \ dirty' PROVE doc[d] = Published(scan[p])[d]
    BY <1>2 DEF DiskIsCurrent
  <2> QED
    BY <1>1, <1>2, <1>3, ContentFacts DEF ScanIsCurrent
<1> QED
  BY <1>2, <1>4, <1>6, <1>7, StepOfOne

LEMMA RestoreKeeps == ASSUME IInv, NEW p \in Process, Restore(p) PROVE IInv'
<1>1. Control /\ Fits(p) /\ CanBeUndone(p)
  BY DEF IInv, Control, Sound
<1> DEFINE x == Latest(p)
<1>2. /\ at[p] = "restoring" /\ lock = p /\ Writing(p) /\ batch[p] # <<>> /\ done[p] > 0
  BY <1>1 DEF Restore, Fits, Locked, Writing
<1>3. /\ done[p] - 1 \in Nat /\ done[p] - 1 <= Len(batch[p]) /\ x \in Id /\ "restoring" \in Step
  BY <1>1, <1>2, OwnTypes DEF Step
<1>4. Moves(p, "restoring", done[p] - 1, expected[p], new[p], seen[p], scan[p], original[p])
  BY <1>1, <1>2 DEF Restore, Moves, Control, TypeOK
<1>5. UNCHANGED <<index, lock, dirty>> /\ doc' = [doc EXCEPT ![x] = seen[p][x]]
  BY DEF Restore
<1>6. /\ doc' \in [Id -> Content \cup {Missing, Malformed}] /\ doc'[x] = seen[p][x]
      /\ \A d \in Id \ {x} : doc'[d] = doc[d]
  BY <1>1, <1>3, <1>5, OwnTypes
<1> HIDE DEF x
<1>7. /\ TypeOK' /\ Alone(p) /\ at'[p] = "restoring" /\ batch'[p] = batch[p]
      /\ done'[p] = done[p] - 1 /\ expected'[p] = expected[p] /\ original'[p] = original[p]
      /\ seen'[p] = seen[p] /\ new'[p] = new[p]
  BY <1>1, <1>3, <1>4, <1>5, <1>6, OwnTypes, MovesControl
<1>8. Fits(p)'
  BY <1>1, <1>2, <1>5, <1>7 DEF Fits, Locked
<1>9. Handled(p)' = Handled(p) \ {x} /\ x \in Handled(p)
  BY <1>1, <1>2, <1>7, HandledStep DEF x
<1>10. CanBeUndone(p)'
  BY <1>1, <1>2, <1>5, <1>6, <1>7, <1>9 DEF CanBeUndone
<1>11. Sound(p)'
  BY <1>7, <1>10 DEF Sound, WritesExpected, ScanIsCurrent
<1>12. DiskIsCurrent'
  <2> SUFFICES ASSUME NEW d \in Id \ dirty, d \notin Handled(p) \ {x}
               PROVE  doc'[d] = Published(index)[d]
    BY <1>2, <1>5, <1>9 DEF DiskIsCurrent
  <2>1. CASE d = x
    BY <1>1, <1>2, <1>6, <1>9, <2>1 DEF CanBeUndone
  <2>2. CASE d # x
    BY <1>2, <1>6, <2>2, HolderAlone
  <2> QED
    BY <2>1, <2>2
<1> QED
  BY <1>2, <1>7, <1>8, <1>11, <1>12, StepOfOne

LEMMA RestoredKeeps == ASSUME IInv, NEW p \in Process, Restored(p) PROVE IInv'
<1>1. Control /\ Fits(p) /\ CanBeUndone(p)
  BY DEF IInv, Control, Sound
<1>2. /\ at[p] = "restoring" /\ lock = p /\ Forgets(p) /\ UNCHANGED <<doc, calls, harm, dirty>>
      /\ index' = original[p] /\ Writing(p) /\ done[p] = 0
  BY <1>1 DEF Restored, Fits, Locked, Writing
<1>3. original[p] \in Index \cup {NoIndex}
  BY <1>1, OwnTypes
<1>4. TypeOK' /\ Alone(p) /\ Fits(p)' /\ lock' = Nobody
  BY <1>1, <1>2, <1>3, ForgetsControl DEF Control, TypeOK
<1>5. at'[p] = "idle"
  BY <1>1, <1>2 DEF Forgets, Goes, Control, TypeOK
<1>6. Sound(p)'
  BY <1>5, NothingAtStake
<1>7. Handled(p) = {}
  BY <1>2 DEF Handled
<1>8. DiskIsCurrent'
  <2> SUFFICES ASSUME NEW d \in Id \ dirty PROVE doc[d] = Published(original[p])[d]
    BY <1>2 DEF DiskIsCurrent
  <2> QED
    BY <1>1, <1>2, <1>7, HolderAlone DEF CanBeUndone
<1> QED
  BY <1>2, <1>4, <1>6, <1>8, StepOfOne

(* An init that overtakes a writer tells readers of nothing, which is      *)
(* right of what it does not give up as dirty.                             *)
LEMMA InitWritesKeeps == ASSUME IInv, NEW p \in Process, InitWrites(p) PROVE IInv'
<1>1. Control /\ Fits(p) /\ DiskIsCurrent /\ \A q \in Process : Fits(q) /\ Sound(q)
  BY DEF IInv, Control
<1>2. /\ lock # p /\ Forgets(p) /\ UNCHANGED <<doc, calls, harm>>
      /\ index' = Empty /\ dirty' = dirty \cup {d \in Id : doc[d] # Missing}
  BY <1>1 DEF InitWrites, Fits, Locked
<1>3. TypeOK' /\ Alone(p) /\ Fits(p)' /\ lock' = lock
  BY <1>1, <1>2, ForgetsControl, ContentFacts DEF Control, TypeOK
<1>4. at'[p] = "idle"
  BY <1>1, <1>2 DEF Forgets, Goes, Control, TypeOK
<1>5. Sound(p)'
  BY <1>4, NothingAtStake
<1>6. ASSUME NEW d \in Id \ dirty' PROVE Published(index)[d] = Missing /\ Published(Empty)[d] = Missing
  <2>1. doc[d] = Missing /\ d \notin dirty /\ d \in Id \ dirty
    BY <1>2
  <2>2. ASSUME \A q \in Process : lock = q => d \notin Handled(q)
        PROVE  Published(index)[d] = Missing
    <3>1. doc[d] = Published(index)[d]
      BY <1>1, <2>1, <2>2 DEF DiskIsCurrent, DiskIsCurrent
    <3> QED
      BY <2>1, <3>1
  <2>3. ASSUME NEW q \in Process, lock = q, d \in Handled(q)
        PROVE  Published(index)[d] = Missing
    <3>1. done[q] > 0 /\ at[q] \in Locked /\ done[q] <= Len(batch[q])
      BY <1>1, <2>3, OwnTypes DEF Handled, Fits
    <3>2. Writing(q)
      BY <1>1, <3>1 DEF Fits, Locked, Writing
    <3>3. doc[d] \in {seen[q][d], new[q]} /\ seen[q][d] = Published(index)[d]
      BY <1>1, <2>1, <2>3, <3>2 DEF Sound, CanBeUndone
    <3>4. new[q] # Missing
      BY <1>1, OwnTypes, StoreAssumption
    <3> QED
      BY <2>1, <3>3, <3>4
  <2>4. Published(Empty)[d] = Missing
    BY ContentFacts DEF Empty
  <2> QED
    BY <2>2, <2>3, <2>4
<1>7. ASSUME NEW q \in Process \ {p} PROVE Fits(q)' /\ Sound(q)'
  <2>1. /\ at'[q] = at[q] /\ batch'[q] = batch[q] /\ done'[q] = done[q]
        /\ expected'[q] = expected[q] /\ new'[q] = new[q] /\ seen'[q] = seen[q]
        /\ scan'[q] = scan[q] /\ original'[q] = original[q]
        /\ lock' = q <=> lock = q
    BY <1>3 DEF Alone
  <2>2. /\ Handled(q)' = Handled(q) /\ Latest(q)' = Latest(q)
        /\ Writing(q)' <=> Writing(q)
    BY <2>1 DEF Handled, Latest, Writing
  <2>3. dirty \subseteq dirty' /\ doc' = doc /\ index' = Empty
    BY <1>2
  <2>4. \A d \in Id \ dirty' : d \notin dirty /\ Published(Empty)[d] = Published(index)[d]
    BY <1>6, <2>3
  <2>5. Fits(q)'
    BY <1>1, <2>1 DEF Fits
  <2>6. CanBeUndone(q)'
    BY <1>1, <2>1, <2>2, <2>3, <2>4 DEF Sound, CanBeUndone
  <2>7. WritesExpected(q)'
    <3>1. \A d \in Handled(q) : d \in Id
      BY <1>1, OwnTypes DEF Handled
    <3> QED
      BY <1>1, <2>1, <2>2, <2>3, <2>4, <3>1 DEF Sound, WritesExpected
  <2>8. ScanIsCurrent(q)'
    BY <1>1, <2>1, <2>3, <2>4 DEF Sound, ScanIsCurrent
  <2> QED
    BY <2>5, <2>6, <2>7, <2>8 DEF Sound
<1>8. DiskIsCurrent'
  <2> SUFFICES ASSUME NEW d \in Id \ dirty' PROVE doc[d] = Published(Empty)[d]
    BY <1>2 DEF DiskIsCurrent
  <2> QED
    BY <1>2, <1>6
<1> QED
  BY <1>3, <1>5, <1>7, <1>8 DEF IInv, Control

(* An edit by hand leaves every other document as it was.                  *)
LEMMA EditKeeps ==
    ASSUME IInv, NEW x \in Id, NEW c \in Content \cup {Missing, Malformed}, Edit(x, c)
    PROVE  IInv'
<1>1. TypeOK /\ DiskIsCurrent /\ \A q \in Process : Fits(q) /\ Sound(q)
  BY DEF IInv, Control
<1>2. /\ doc' = [doc EXCEPT ![x] = c] /\ harm' \in 0..MaxHarm /\ dirty' = dirty \cup {x}
      /\ UNCHANGED <<index, lock, at, batch, done, expected, new, original, scan, seen, calls>>
  BY <1>1, StoreAssumption DEF Edit, call, TypeOK
<1>3. TypeOK'
  BY <1>1, <1>2 DEF TypeOK
<1>4. \A d \in Id \ dirty' : d \notin dirty /\ d \in Id /\ doc'[d] = doc[d]
  BY <1>1, <1>2 DEF TypeOK
<1>5. ASSUME NEW q \in Process PROVE Fits(q)' /\ Sound(q)' /\ Handled(q)' = Handled(q)
  <2>1. /\ Handled(q)' = Handled(q) /\ Latest(q)' = Latest(q)
        /\ Writing(q)' <=> Writing(q)
    BY <1>2 DEF Handled, Latest, Writing
  <2>2. Fits(q)'
    BY <1>1, <1>2 DEF Fits
  <2>3. CanBeUndone(q)'
    BY <1>1, <1>2, <1>4, <2>1 DEF Sound, CanBeUndone
  <2>4. WritesExpected(q)'
    <3>1. \A d \in Handled(q) : d \in Id
      BY OwnTypes DEF Handled, IInv
    <3> QED
      BY <1>1, <1>2, <1>4, <2>1, <3>1 DEF Sound, WritesExpected
  <2>5. ScanIsCurrent(q)'
    BY <1>1, <1>2, <1>4 DEF Sound, ScanIsCurrent
  <2> QED
    BY <2>1, <2>2, <2>3, <2>4, <2>5 DEF Sound
<1>6. DiskIsCurrent'
  BY <1>1, <1>2, <1>4, <1>5 DEF DiskIsCurrent
<1> QED
  BY <1>3, <1>5, <1>6 DEF IInv, Control

-----------------------------------------------------------------------------
(* The invariant holds.                                                    *)

LEMMA InitIInv == Init => IInv
<1> SUFFICES ASSUME Init PROVE IInv
  OBVIOUS
<1> USE DEF Init
<1>1. TypeOK
  <2>1. /\ Empty \in Index /\ SomeContent \in Content /\ Nobody \notin Process
        /\ 0 \in 0..MaxCalls /\ 0 \in 0..MaxHarm
    BY ContentFacts, StoreAssumption
  <2>2. doc \in Index /\ index \in Index \cup {NoIndex}
    BY <2>1 DEF Index
  <2> QED
    BY <2>1, <2>2 DEF TypeOK, Index, Step
<1>2. ASSUME NEW p \in Process PROVE Fits(p) /\ Sound(p)
  <2>1. at[p] = "idle" /\ batch[p] = <<>> /\ done[p] = 0 /\ lock # p
    BY StoreAssumption
  <2> QED
    BY <2>1
       DEF Fits, Locked, IsInjective, Sound, CanBeUndone, WritesExpected, ScanIsCurrent, Writing
<1>3. DiskIsCurrent
  <2>1. doc = Published(index)
    BY ContentFacts DEF Published, Index
  <2> QED
    BY <2>1 DEF DiskIsCurrent
<1> QED
  BY <1>1, <1>2, <1>3 DEF IInv, Control

LEMMA StepIInv == IInv /\ [Next]_vars => IInv'
<1> SUFFICES ASSUME IInv, [Next]_vars PROVE IInv'
  OBVIOUS
<1>1. ASSUME NEW p \in Process, Call(p) PROVE IInv'
  BY <1>1, CallKeeps
<1>2. ASSUME NEW p \in Process, Works(p) PROVE IInv'
  <2>1. CASE Load(p) \/ \E c \in Content : Hydrated(p, c)
    BY <2>1, LoadKeeps, HydratedKeeps
  <2>2. CASE \/ ReadFails(p) \/ ReadReturns(p) \/ WaitsTooLong(p) \/ PlanFails(p)
             \/ ReindexFails(p)
    BY <2>2, EndsKeep
  <2>3. CASE Acquire(p) \/ ReindexAcquires(p)
    BY <2>3, AcquireKeeps
  <2>4. CASE Plan(p) \/ Check(p) \/ Replace(p) \/ Fails(p)
    BY <2>4, PlanKeeps, CheckKeeps, ReplaceKeeps, FailsKeeps
  <2>5. CASE Scan(p) \/ Reindex(p) \/ Publish(p)
    BY <2>5, ScanKeeps, ReindexKeeps, PublishKeeps
  <2>6. CASE Restore(p) \/ Restored(p)
    BY <2>6, RestoreKeeps, RestoredKeeps
  <2>7. CASE InitWrites(p)
    BY <2>7, InitWritesKeeps
  <2> QED
    BY <1>2, <2>1, <2>2, <2>3, <2>4, <2>5, <2>6, <2>7 DEF Works
<1>3. ASSUME NEW p \in Process, Dies(p) PROVE IInv'
  BY <1>3, DiesKeeps
<1>4. ASSUME NEW d \in Id, NEW c \in Content \cup {Missing, Malformed}, Edit(d, c) PROVE IInv'
  BY <1>4, EditKeeps
<1>5. CASE UNCHANGED vars
  <2>1. UNCHANGED <<doc, index, lock, at, batch, done, expected, new, original, scan, seen,
                    calls, harm, dirty>>
    BY <1>5 DEF vars, disk, call
  <2>2. TypeOK' /\ \A p \in Process : Fits(p)'
    BY <2>1 DEF IInv, Control, TypeOK, Fits
  <2>3. DiskIsCurrent' /\ \A p \in Process : Sound(p)'
    BY <2>1 DEF IInv, DiskIsCurrent, Handled, Sound, CanBeUndone, WritesExpected, ScanIsCurrent,
                Writing, Latest
  <2> QED
    BY <2>2, <2>3 DEF IInv, Control
<1> QED
  BY <1>1, <1>2, <1>3, <1>4, <1>5 DEF Next

LEMMA Invariance == Spec => []IInv
BY InitIInv, StepIInv, PTL DEF Spec

-----------------------------------------------------------------------------
(* Theorems.                                                               *)

(* The state of the store and of each call has its type, whatever the      *)
(* order of calls, edits by hand and deaths.                               *)
THEOREM TypeCorrect == Spec => []TypeOK
<1>1. IInv => TypeOK
  BY DEF IInv, Control
<1> QED
  BY <1>1, Invariance, PTL

(* While nobody holds the file lock, each document that was not edited by  *)
(* hand or left behind by a crash is the one the index tells readers of:   *)
(* write_knowledge puts back what an aborted batch replaced.               *)
THEOREM IndexAlwaysCurrent == Spec => []IndexIsCurrent
<1>1. IInv => IndexIsCurrent
  BY StoreAssumption DEF IInv, DiskIsCurrent, IndexIsCurrent
<1> QED
  BY <1>1, Invariance, PTL

(* A step that publishes one document of a batch publishes all of it.      *)
LEMMA PublishCommits ==
    ASSUME IInv, NEW p \in Process, Publish(p), batch[p] # <<>>,
           NEW d \in Range(batch[p]) \ dirty
    PROVE  Commits(p, d)
<1>1. Control /\ Fits(p) /\ WritesExpected(p) /\ ScanIsCurrent(p)
  BY DEF IInv, Control, Sound
<1>2. /\ at[p] = "publishing" /\ lock = p /\ index' = scan[p] /\ done[p] = Len(batch[p])
      /\ Writing(p)
  BY <1>1 DEF Publish, Publishes, Fits, Locked, Writing
<1>3. d \in Handled(p) /\ d \in Id
  <2>1. batch[p] \in Seq(Id)
    BY <1>1, OwnTypes
  <2> QED
    BY <1>2, <2>1 DEF Handled, Range
<1>4. expected[p][d] = Published(index)[d] /\ doc[d] = new[p] /\ scan[p][d] = doc[d]
  BY <1>1, <1>2, <1>3 DEF WritesExpected, ScanIsCurrent
<1> QED
  BY <1>2, <1>3, <1>4 DEF Commits

(* Readers are told of a new content only by a whole batch of a writer who *)
(* knew the contents that it replaces, or of a document that was edited by *)
(* hand or left behind by a crash: write_knowledge's check of              *)
(* expected_revision, its replacement of the index last, and its rollback. *)
THEOREM CommitsAlwaysAtomic == Spec => CommitsAreAtomic
<1> DEFINE changed == {d \in Id \ dirty : Published(index')[d] # Published(index)[d]}
           Atomic == changed # {} =>
                        \E p \in Process :
                           \/ InitWrites(p)
                           \/ /\ changed \subseteq Range(batch[p])
                              /\ \A d \in Range(batch[p]) \ dirty : Commits(p, d)
<1>1. IInv /\ [Next]_vars => [Atomic]_vars
  <2> SUFFICES ASSUME IInv, [Next]_vars, changed # {} PROVE Atomic
    OBVIOUS
  <2>1. index' # index
    OBVIOUS
  <2>2. PICK p \in Process : Publish(p) \/ Restored(p) \/ InitWrites(p)
    BY <2>1 DEF Next, Call, Works, BeginRead, BeginWrite, BeginReindex, BeginInit, Load, ReadFails,
       ReadReturns, Hydrated, WaitsTooLong, Acquire, Plan, PlanFails, Check, Replace, Scan,
       Fails, Restore, ReindexAcquires, Reindex, ReindexFails, Dies, Edit, vars, disk
  <2>3. Control /\ Fits(p) /\ Sound(p)
    BY DEF IInv, Control
  <2>4. CASE Publish(p)
    <3>1. /\ at[p] = "publishing" /\ lock = p /\ index' = scan[p] /\ done[p] = Len(batch[p])
      BY <2>3, <2>4 DEF Publish, Publishes, Fits, Locked
    <3>2. ASSUME NEW d \in Id \ dirty, d \notin Handled(p)
          PROVE  Published(index')[d] = Published(index)[d]
      <4>1. doc[d] = Published(index)[d]
        BY <3>1, <3>2, HolderAlone
      <4>2. scan[p][d] = doc[d]
        BY <2>3, <3>1 DEF Sound, ScanIsCurrent
      <4>3. Published(scan[p]) = scan[p]
        BY <2>3, OwnTypes, ContentFacts
      <4> QED
        BY <3>1, <4>1, <4>2, <4>3
    <3>3. changed \subseteq Handled(p)
      BY <3>2
    <3>4. batch[p] \in Seq(Id) /\ Handled(p) \subseteq Range(batch[p])
      BY <2>3, <3>1, OwnTypes DEF Handled, Range
    <3>5. batch[p] # <<>>
      BY <3>1, <3>3 DEF Handled
    <3> QED
      BY <2>4, <3>3, <3>4, <3>5, PublishCommits
  <2>5. CASE Restored(p)
    BY <2>3, <2>5 DEF Restored, Sound, CanBeUndone, Writing
  <2>6. CASE InitWrites(p)
    BY <2>6
  <2> QED
    BY <2>2, <2>4, <2>5, <2>6
<1> QED
  BY <1>1, Invariance, PTL DEF Spec, CommitsAreAtomic
=============================================================================
