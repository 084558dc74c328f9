---------------------------- MODULE KnowledgeStore ----------------------------
(***************************************************************************)
(* The shared knowledge store (mcp/knowledge): a directory of documents    *)
(* and a generated index of their revisions.  Each server process handles  *)
(* one call at a time; several of them, the operator's reindex and init,   *)
(* and people who edit files by hand share the directory.  Writers and     *)
(* reindex take a file lock; readers and people do not.  A file is         *)
(* replaced as a whole, a batch of documents one file after the other and  *)
(* the index last, and a failure before that puts back what was there.     *)
(*                                                                         *)
(* A revision is a hash of the content, so a content stands for its own    *)
(* revision, and the index for a function from documents to contents.      *)
(* Ranking, sections and the format of a document are left out, but that   *)
(* people can leave a document that does not parse.                        *)
(***************************************************************************)
EXTENDS Naturals, Sequences, FiniteSets, SequencesExt

CONSTANTS
    Process,    \* server processes, and the operator's commands
    Id,         \* documents
    Content,    \* contents that parse
    Missing,    \* no document
    Malformed,  \* one that does not parse
    NoIndex,    \* no index file
    Nobody,     \* the lock is free
    MaxCalls,   \* bound: calls in all
    MaxHarm     \* bound: edits by hand, deaths and failed rollbacks in all

ASSUME StoreAssumption ==
    /\ Content # {} /\ Missing \notin Content /\ Malformed \notin Content
    /\ Missing # Malformed
    /\ NoIndex \notin [Id -> Content \cup {Missing}]
    /\ Nobody \notin Process /\ MaxCalls \in Nat /\ MaxHarm \in Nat

VARIABLES
    doc,      \* the documents on disk
    index,    \* the index on disk
    lock,     \* who holds the file lock
    at,       \* where each process is in its call
    batch,    \* the documents of the call, in order
    done,     \* how many of them it has loaded, or saved a backup of
    expected, \* expected_revision of each; Missing for a creation
    new,      \* what it writes, in each of them
    seen,     \* a reader's copy of the index, or a writer's backups
    scan,     \* the documents as last scanned
    original, \* the index before the write
    calls,    \* the number of calls made
    harm,     \* the number of edits by hand, deaths and failed rollbacks
    dirty     \* documents that those left different from what is published

disk == <<doc, index>>
call == <<batch, done, expected, new, original, scan>>
vars == <<disk, lock, at, call, seen, calls, harm, dirty>>

Index == [Id -> Content \cup {Missing}]

Empty == [d \in Id |-> Missing]

SomeContent == CHOOSE c \in Content : TRUE

(* What the index tells readers: nothing if there is none.                 *)
Published(i) == IF i = NoIndex THEN Empty ELSE i

Step ==
    {"idle", "loading", "hydrating", "locking", "planning", "checking", "replacing", "publishing",
     "restoring", "reindexing", "reindexed", "creating"}

TypeOK ==
    /\ doc \in [Id -> Content \cup {Missing, Malformed}] /\ index \in Index \cup {NoIndex}
    /\ lock \in Process \cup {Nobody} /\ at \in [Process -> Step]
    /\ batch \in [Process -> Seq(Id)] /\ done \in [Process -> Nat]
    /\ \A p \in Process : done[p] <= Len(batch[p])
    /\ expected \in [Process -> [Id -> Content \cup {Missing}]] /\ new \in [Process -> Content]
    /\ seen \in [Process -> [Id -> Content \cup {Missing, Malformed}]]
    /\ scan \in [Process -> Index] /\ original \in [Process -> Index \cup {NoIndex}]
    /\ calls \in 0..MaxCalls /\ harm \in 0..MaxHarm /\ dirty \subseteq Id

Init ==
    /\ doc \in [Id -> Content \cup {Missing}]
    /\ index = doc \/ (index = NoIndex /\ doc = Empty)
    /\ lock = Nobody /\ at = [p \in Process |-> "idle"]
    /\ batch = [p \in Process |-> <<>>] /\ done = [p \in Process |-> 0]
    /\ expected = [p \in Process |-> Empty] /\ new = [p \in Process |-> SomeContent]
    /\ seen = [p \in Process |-> Empty] /\ scan = [p \in Process |-> Empty]
    /\ original = [p \in Process |-> NoIndex]
    /\ calls = 0 /\ harm = 0 /\ dirty = {}

-----------------------------------------------------------------------------
(* What a step of p does to its own state, to the lock and to the index.   *)

Goes(p, step) == at' = [at EXCEPT ![p] = step]

(* The memory of a call goes with it.                                      *)
Forgets(p) ==
    /\ Goes(p, "idle")
    /\ batch' = [batch EXCEPT ![p] = <<>>] /\ done' = [done EXCEPT ![p] = 0]
    /\ expected' = [expected EXCEPT ![p] = Empty] /\ new' = [new EXCEPT ![p] = SomeContent]
    /\ seen' = [seen EXCEPT ![p] = Empty] /\ scan' = [scan EXCEPT ![p] = Empty]
    /\ original' = [original EXCEPT ![p] = NoIndex]
    /\ lock' = IF lock = p THEN Nobody ELSE lock

Publishes(p) ==
    /\ index' = scan[p]
    /\ dirty' = {d \in dirty : doc[d] # scan[p][d]}

AllDone(p) == done[p] = Len(batch[p])

Following(p) == batch[p][done[p] + 1]

Latest(p) == batch[p][done[p]]

Parses == \A d \in Id : doc[d] # Malformed

-----------------------------------------------------------------------------
(* Calls                                                                   *)

(* search_knowledge, read_knowledge, and update_knowledge's reading of the *)
(* one document that it changes: the index first.                          *)
BeginRead(p, ids, step) ==
    /\ at[p] = "idle" /\ calls < MaxCalls /\ index # NoIndex
    /\ \A i \in DOMAIN ids : index[ids[i]] # Missing
    /\ Goes(p, step) /\ calls' = calls + 1
    /\ batch' = [batch EXCEPT ![p] = ids] /\ seen' = [seen EXCEPT ![p] = index]
    /\ UNCHANGED <<disk, lock, done, expected, new, original, scan, harm, dirty>>

(* _load_verified_index_document                                           *)
Load(p) ==
    /\ at[p] \in {"loading", "hydrating"} /\ done[p] < Len(batch[p])
    /\ doc[Following(p)] = seen[p][Following(p)]
    /\ done' = [done EXCEPT ![p] = @ + 1]
    /\ UNCHANGED <<disk, lock, at, batch, expected, new, original, scan, seen, calls, harm, dirty>>

ReadFails(p) ==
    /\ at[p] \in {"loading", "hydrating"} /\ done[p] < Len(batch[p])
    /\ doc[Following(p)] # seen[p][Following(p)]
    /\ Forgets(p)
    /\ UNCHANGED <<disk, calls, harm, dirty>>

ReadReturns(p) ==
    /\ at[p] = "loading" /\ AllDone(p)
    /\ Forgets(p)
    /\ UNCHANGED <<disk, calls, harm, dirty>>

(* update_knowledge goes on with write_knowledge; what it writes is made   *)
(* of the content that it read, which the caller expected.                 *)
Hydrated(p, content) ==
    /\ at[p] = "hydrating" /\ AllDone(p)
    /\ Goes(p, "locking") /\ done' = [done EXCEPT ![p] = 0]
    /\ expected' = [expected EXCEPT ![p] = seen[p]]
    /\ new' = [new EXCEPT ![p] = content]
    /\ UNCHANGED <<disk, lock, batch, original, scan, seen, calls, harm, dirty>>

(* write_knowledge: each document is created, or updated from the revision *)
(* that the caller last read.                                              *)
BeginWrite(p, ids, content) ==
    /\ at[p] = "idle" /\ calls < MaxCalls
    /\ Goes(p, "locking") /\ calls' = calls + 1
    /\ batch' = [batch EXCEPT ![p] = ids] /\ new' = [new EXCEPT ![p] = content]
    /\ expected' = [expected EXCEPT ![p] = Published(index)]
    /\ UNCHANGED <<disk, lock, done, original, scan, seen, harm, dirty>>

BeginReindex(p) ==
    /\ at[p] = "idle" /\ calls < MaxCalls
    /\ Goes(p, "reindexing") /\ calls' = calls + 1
    /\ UNCHANGED <<disk, lock, call, seen, harm, dirty>>

(* init_store makes an index if it sees none; it takes no lock.            *)
BeginInit(p) ==
    /\ at[p] = "idle" /\ calls < MaxCalls /\ index = NoIndex
    /\ Goes(p, "creating") /\ calls' = calls + 1
    /\ UNCHANGED <<disk, lock, call, seen, harm, dirty>>

InitWrites(p) ==
    /\ at[p] = "creating"
    /\ index' = Empty /\ dirty' = dirty \cup {d \in Id : doc[d] # Missing}
    /\ Forgets(p)
    /\ UNCHANGED <<doc, calls, harm>>

(* FileLock's timeout.                                                     *)
WaitsTooLong(p) ==
    /\ at[p] \in {"locking", "reindexing"} /\ lock \notin {Nobody, p}
    /\ Forgets(p)
    /\ UNCHANGED <<disk, calls, harm, dirty>>

-----------------------------------------------------------------------------
(* write_knowledge and reindex_store under the lock                        *)

Acquire(p) ==
    /\ at[p] = "locking" /\ lock = Nobody /\ lock' = p
    /\ Goes(p, "planning")
    /\ UNCHANGED <<disk, call, seen, calls, harm, dirty>>

MatchesAnything(p, d) == TRUE

(* Not there before a creation, of the expected revision before an update. *)
Matches(p, d) == doc[d] = expected[p][d]

(* The plan of the batch is made of one scan.                              *)
Plan(p) ==
    /\ at[p] = "planning" /\ Parses
    /\ \A i \in DOMAIN batch[p] : Matches(p, batch[p][i])
    /\ Goes(p, "checking")
    /\ original' = [original EXCEPT ![p] = index]
    /\ UNCHANGED <<disk, lock, batch, done, expected, new, scan, seen, calls, harm, dirty>>

PlanFails(p) ==
    /\ at[p] = "planning"
    /\ ~Parses \/ \E i \in DOMAIN batch[p] : ~Matches(p, batch[p][i])
    /\ Forgets(p)
    /\ UNCHANGED <<disk, calls, harm, dirty>>

(* The backup, and the check right before the replacement.                 *)
Check(p) ==
    /\ at[p] = "checking" /\ ~AllDone(p)
    /\ seen' = [seen EXCEPT ![p][Following(p)] = doc[Following(p)]]
    /\ done' = [done EXCEPT ![p] = @ + 1]
    /\ Goes(p, IF Matches(p, Following(p)) THEN "replacing" ELSE "restoring")
    /\ UNCHANGED <<disk, lock, batch, expected, new, original, scan, calls, harm, dirty>>

(* Whoever edited the document by hand since the check is overwritten.     *)
Replace(p) ==
    /\ at[p] = "replacing"
    /\ doc' = [doc EXCEPT ![Latest(p)] = new[p]]
    /\ Goes(p, "checking")
    /\ UNCHANGED <<index, lock, call, seen, calls, harm, dirty>>

(* The refreshed scan.                                                     *)
Scan(p) ==
    /\ at[p] = "checking" /\ AllDone(p)
    /\ IF Parses THEN Goes(p, "publishing") /\ scan' = [scan EXCEPT ![p] = doc]
       ELSE Goes(p, "restoring") /\ UNCHANGED scan
    /\ UNCHANGED <<disk, lock, batch, done, expected, new, original, seen, calls, harm, dirty>>

Publish(p) ==
    /\ at[p] = "publishing"
    /\ Publishes(p)
    /\ Forgets(p)
    /\ UNCHANGED <<doc, calls, harm>>

(* A step of the write fails: no space, no permission.                     *)
Fails(p) ==
    /\ at[p] \in {"checking", "replacing", "publishing"} /\ batch[p] # <<>>
    /\ Goes(p, "restoring")
    /\ UNCHANGED <<disk, lock, call, seen, calls, harm, dirty>>

RestoreIndexOnly(p) ==
    /\ at[p] = "restoring" /\ done[p] > 0
    /\ done' = [done EXCEPT ![p] = 0]
    /\ UNCHANGED <<disk, lock, at, batch, expected, new, original, scan, seen, calls, harm, dirty>>

(* One backup after the other, the last first, and then the index.         *)
Restore(p) ==
    /\ at[p] = "restoring" /\ done[p] > 0
    /\ doc' = [doc EXCEPT ![Latest(p)] = seen[p][Latest(p)]]
    /\ done' = [done EXCEPT ![p] = @ - 1]
    /\ UNCHANGED <<index, lock, at, batch, expected, new, original, scan, seen, calls, harm, dirty>>

Restored(p) ==
    /\ at[p] = "restoring" /\ done[p] = 0
    /\ index' = original[p]
    /\ Forgets(p)
    /\ UNCHANGED <<doc, calls, harm, dirty>>

ReindexAcquires(p) ==
    /\ at[p] = "reindexing" /\ lock = Nobody /\ lock' = p
    /\ Goes(p, "reindexed")
    /\ UNCHANGED <<disk, call, seen, calls, harm, dirty>>

(* The scan, of which an index is published.                               *)
Reindex(p) ==
    /\ at[p] = "reindexed" /\ Parses
    /\ Goes(p, "publishing") /\ scan' = [scan EXCEPT ![p] = doc]
    /\ UNCHANGED <<disk, lock, batch, done, expected, new, original, seen, calls, harm, dirty>>

ReindexFails(p) ==
    /\ at[p] \in {"reindexed", "publishing"} /\ batch[p] = <<>>
    /\ Forgets(p)
    /\ UNCHANGED <<disk, calls, harm, dirty>>

-----------------------------------------------------------------------------
(* What the files are exposed to                                           *)

(* Somebody edits a document by hand, removes it or breaks it.             *)
Edit(d, c) ==
    /\ harm < MaxHarm /\ doc[d] # c
    /\ doc' = [doc EXCEPT ![d] = c] /\ harm' = harm + 1 /\ dirty' = dirty \cup {d}
    /\ UNCHANGED <<index, lock, at, call, seen, calls>>

(* A process dies, or its attempt to restore the files fails.              *)
Dies(p) ==
    /\ at[p] # "idle" /\ harm < MaxHarm /\ harm' = harm + 1
    /\ dirty' = IF lock = p THEN dirty \cup {batch[p][i] : i \in 1..done[p]} ELSE dirty
    /\ Forgets(p)
    /\ UNCHANGED <<disk, calls>>

Batch == {ids \in SeqOf(Id, 2) : ids # <<>> /\ IsInjective(ids)}

Call(p) ==
    \/ \E ids \in Batch : BeginRead(p, ids, "loading")
    \/ \E d \in Id : BeginRead(p, <<d>>, "hydrating")
    \/ \E ids \in Batch, c \in Content : BeginWrite(p, ids, c)
    \/ BeginReindex(p) \/ BeginInit(p)

Works(p) ==
    \/ Load(p) \/ ReadFails(p) \/ ReadReturns(p) \/ \E c \in Content : Hydrated(p, c)
    \/ WaitsTooLong(p) \/ Acquire(p) \/ Plan(p) \/ PlanFails(p) \/ Check(p) \/ Replace(p)
    \/ Scan(p) \/ Publish(p) \/ Fails(p) \/ Restore(p) \/ Restored(p)
    \/ ReindexAcquires(p) \/ Reindex(p) \/ ReindexFails(p) \/ InitWrites(p)

Next ==
    \/ \E p \in Process : Call(p) \/ Works(p) \/ Dies(p)
    \/ \E d \in Id, c \in Content \cup {Missing, Malformed} : Edit(d, c)

Spec == Init /\ [][Next]_vars

-----------------------------------------------------------------------------
(* Properties                                                              *)

(* Between two writes, every document that was not edited by hand or left  *)
(* behind by a crash is the one that the index tells readers of: what an   *)
(* aborted batch replaced is put back (write_knowledge).                   *)
IndexIsCurrent ==
    lock = Nobody => \A d \in Id \ dirty : doc[d] = Published(index)[d]

(* A commit.                                                               *)
Commits(p, d) ==
    /\ lock = p /\ d \in Range(batch[p])
    /\ Published(index)[d] = expected[p][d] /\ index'[d] = new[p]

(* Readers are told of a new content only by a whole batch of a writer who *)
(* knew the contents that it replaces, all that was published meanwhile    *)
(* included; or of a document that was edited by hand or left behind by a  *)
(* crash.  (An init that overtakes the first writer empties the index.)    *)
CommitsAreAtomic ==
    [][LET changed == {d \in Id \ dirty : Published(index')[d] # Published(index)[d]}
       IN changed # {} =>
            \E p \in Process :
               \/ InitWrites(p)
               \/ /\ changed \subseteq Range(batch[p])
                  /\ \A d \in Range(batch[p]) \ dirty : Commits(p, d)]_vars
=============================================================================
