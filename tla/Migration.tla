------------------------------- MODULE Migration -------------------------------
(***************************************************************************)
(* scripts/migrate_workspace.py: the numbered migrations that carry a      *)
(* workspace and its repositories from one state of the templates to the   *)
(* next.  Files, backups and the recorded versions are on disk.  A run     *)
(* keeps the versions it reaches in memory and records them at its end, so *)
(* a run that ends early leaves files ahead of the record, and the next    *)
(* run meets them again.  Between the runs the user edits the files.       *)
(*                                                                         *)
(* A content is a function from regions (parts of a file whose changes     *)
(* never touch) to texts: what a merge by lines can tell apart.  File      *)
(* modes, paths and the repository list are left out.                      *)
(***************************************************************************)
EXTENDS Naturals, FiniteSets

CONSTANTS
    Latest,     \* the number of migrations
    Scope,      \* the workspace and each of its repositories
    File,       \* managed files
    Region,     \* parts of a file
    Absent,     \* no file
    Partial,    \* a file of which only a part was copied
    LocalText,  \* what a user may write
    TemplateText, \* what the templates say
    MaxEdits,   \* bound: how often the user changes a file
    scopeOf,    \* the scope of each file
    Template,   \* the files of the templates before the first and after each migration
    strategy    \* how each migration treats each file

ASSUME MigrationAssumption ==
    /\ Latest \in Nat \ {0} /\ MaxEdits \in Nat /\ Absent # Partial
    /\ scopeOf \in [File -> Scope]
    /\ Template \in [0..Latest -> [File -> [Region -> TemplateText] \cup {Absent}]]
    /\ TemplateText \cap LocalText = {}
    /\ \A none \in {Absent, Partial} : none \notin [Region -> TemplateText \cup LocalText]

Version == 1..Latest

Content == [Region -> TemplateText \cup LocalText]

Present(content) == content \notin {Absent, Partial}

(* load_migrations, diff_status and assert_strategy_status: a strategy     *)
(* fits how the template changed, and every change has one.                *)
Fits(v, f) ==
    LET before == Template[v - 1][f]
        after == Template[v][f]
    IN CASE strategy[v][f] = "none" -> before = after
         [] strategy[v][f] = "merge" -> before # after /\ Present(before) /\ Present(after)
         [] strategy[v][f] = "replace" -> before # after /\ Present(after)
         [] strategy[v][f] = "delete" -> before # after /\ ~Present(after)

ASSUME ManifestAssumption == \A v \in Version, f \in File : Fits(v, f)

VARIABLES
    file,      \* the files of the workspace and its repositories
    backup,    \* migration-backups, of each version
    recorded,  \* the migration state on disk, of each scope
    pc,        \* where the run is
    options,   \* the arguments of the run
    reached,   \* the migration state in its memory
    version,   \* the migration it is at
    todo,      \* the files of this migration still to be treated
    edits,     \* the number of changes the user made
    mine,      \* the local texts of the user, less those that the user overwrote
    touched    \* the files that the user ever changed

disk == <<file, backup, recorded>>
run == <<pc, options, reached, version, todo>>
user == <<edits, mine, touched>>
vars == <<disk, run, user>>

Option == [force: BOOLEAN, dry: BOOLEAN, target: 0..Latest]

NoOption == [force |-> FALSE, dry |-> FALSE, target |-> Latest]

(* Types; and what a run reached is at least what is recorded.             *)
TypeOK ==
    /\ file \in [File -> Content \cup {Absent}]
    /\ backup \in [Version -> [File -> Content \cup {Absent, Partial}]]
    /\ recorded \in [Scope -> 0..Latest] /\ reached \in [Scope -> 0..Latest]
    /\ pc \in {"over", "preflight", "applying"} /\ options \in Option
    /\ version \in 1..(Latest + 1) /\ todo \subseteq File
    /\ edits \in 0..MaxEdits /\ mine \subseteq File \X Region \X LocalText /\ touched \subseteq File
    /\ \A s \in Scope : recorded[s] <= reached[s]

(* Scopes may have come to the harness at different versions.              *)
Init ==
    /\ recorded \in [Scope -> 0..(Latest - 1)]
    /\ file = [f \in File |-> Template[recorded[scopeOf[f]]][f]]
    /\ backup = [v \in Version |-> [f \in File |-> Absent]]
    /\ pc = "over" /\ reached = recorded /\ version = 1 /\ todo = {}
    /\ options = NoOption
    /\ edits = 0 /\ mine = {} /\ touched = {}

-----------------------------------------------------------------------------
(* The user, between two runs.                                             *)

Changes(f) == pc = "over" /\ edits < MaxEdits /\ edits' = edits + 1 /\ touched' = touched \cup {f}

Edit(f, r, text) ==
    /\ Changes(f) /\ Present(file[f]) /\ file[f][r] # text
    /\ file' = [file EXCEPT ![f] = [@ EXCEPT ![r] = text]]
    /\ mine' = (mine \ {<<f, r, file[f][r]>>}) \cup {<<f, r, text>>}
    /\ UNCHANGED <<backup, recorded, run>>

(* A conflict that is settled by hand in favour of some template, or a     *)
(* file that the user removes where that template has none.                *)
Adopt(f, v) ==
    /\ Changes(f) /\ Present(file[f]) /\ file[f] # Template[v][f]
    /\ file' = [file EXCEPT ![f] = Template[v][f]]
    /\ mine' = mine \ {<<f, r, file[f][r]>> : r \in Region}
    /\ UNCHANGED <<backup, recorded, run>>

-----------------------------------------------------------------------------
(* One file of the migration under way.                                    *)

Before(f) == Template[version - 1][f]

After(f) == Template[version][f]

(* No file, or one that target_matches_ref finds in the templates.         *)
Unedited(f) == file[f] \in {Absent, Before(f), After(f)}

(* render_merge ends without a conflict.                                   *)
Merges(f) ==
    /\ strategy[version][f] = "merge" /\ Present(file[f])
    /\ \A r \in Region :
          file[f][r] \in {Before(f)[r], After(f)[r]} \/ Before(f)[r] = After(f)[r]

Merged(f) == [r \in Region |-> IF file[f][r] = Before(f)[r] THEN After(f)[r] ELSE file[f][r]]

(* A local file that is archived and replaced, not merged.                 *)
Replaced(f) == ~Unedited(f) /\ (strategy[version][f] = "merge" => options.force)

BackupAlways(f) == TRUE

(* check_backup: nothing archived yet, or the very same content.           *)
BackupIsFree(f) == backup[version][f] \in {Absent, file[f]}

PreflightsUnarchived(f) ==
    Unedited(f) \/ Merges(f) \/ (strategy[version][f] = "merge" => options.force)

(* preflight_file                                                          *)
Preflights(f) ==
    \/ Unedited(f)
    \/ Merges(f)
    \/ (strategy[version][f] = "merge" => options.force) /\ BackupIsFree(f)

(* apply_file comes to its end.                                            *)
Applies(f) ==
    \/ Unedited(f)
    \/ IF Replaced(f) THEN BackupIsFree(f) ELSE Merges(f)

Result(f) == IF Unedited(f) \/ Replaced(f) THEN After(f) ELSE Merged(f)

-----------------------------------------------------------------------------
(* A run.                                                                  *)

Start(chosen) ==
    /\ pc = "over" /\ pc' = "preflight" /\ options' = chosen
    /\ reached' = recorded /\ version' = 1 /\ todo' = {}
    /\ UNCHANGED <<disk, user>>

Behind == {s \in Scope : reached[s] < version}

Managed == {f \in File : scopeOf[f] \in Behind /\ strategy[version][f] # "none"}

(* The memory of the run goes with it.                                     *)
EndRun ==
    /\ pc' = "over" /\ options' = NoOption
    /\ reached' = recorded' /\ version' = 1 /\ todo' = {}

NextVersion == pc' = "preflight" /\ version' = version + 1 /\ todo' = {}

Skip ==
    /\ pc = "preflight" /\ version <= options.target /\ Behind = {}
    /\ NextVersion
    /\ UNCHANGED <<disk, options, reached, user>>

Preflight ==
    /\ pc = "preflight" /\ version <= options.target /\ Behind # {}
    /\ \A f \in Managed : Preflights(f)
    /\ pc' = "applying" /\ todo' = Managed
    /\ UNCHANGED <<disk, options, reached, version, user>>

(* A file in conflict, or a workspace hook whose own preflight fails, ends *)
(* the run; nothing is recorded.                                           *)
Refuse ==
    /\ pc = "preflight" /\ version <= options.target /\ Behind # {}
    /\ UNCHANGED <<disk, user>>
    /\ EndRun

(* copy_backup                                                             *)
Archive(f) ==
    /\ pc = "applying" /\ f \in todo /\ ~options.dry
    /\ Replaced(f) /\ BackupIsFree(f) /\ backup[version][f] # file[f]
    /\ backup' = [backup EXCEPT ![version][f] = file[f]]
    /\ UNCHANGED <<file, recorded, run, user>>

(* atomic_write or unlink, or nothing but a line of output in a dry run.   *)
Write(f) ==
    /\ pc = "applying" /\ f \in todo /\ Applies(f)
    /\ Replaced(f) /\ ~options.dry => backup[version][f] = file[f]
    /\ file' = IF options.dry THEN file ELSE [file EXCEPT ![f] = Result(f)]
    /\ todo' = todo \ {f}
    /\ UNCHANGED <<backup, recorded, pc, options, reached, version, user>>

EndVersion ==
    /\ pc = "applying" /\ todo = {}
    /\ NextVersion
    /\ reached' = [s \in Scope |-> IF s \in Behind THEN version ELSE reached[s]]
    /\ UNCHANGED <<disk, options, user>>

(* write_state                                                             *)
Record ==
    /\ pc = "preflight" /\ version > options.target
    /\ recorded' = IF options.dry THEN recorded ELSE reached
    /\ UNCHANGED <<file, backup, user>>
    /\ EndRun

DiesRecording ==
    /\ pc = "applying" \/ (pc = "preflight" /\ version > options.target)
    /\ recorded' = [s \in Scope |-> IF s \in Behind THEN version ELSE recorded[s]]
    /\ UNCHANGED <<file, backup, user>>
    /\ EndRun

(* The run dies: killed, an unreadable template, a hook that fails, a file *)
(* that apply_file cannot treat, a verification that fails.                *)
Dies ==
    /\ pc = "applying" \/ (pc = "preflight" /\ version > options.target)
    /\ UNCHANGED <<disk, user>>
    /\ EndRun

(* ... or while copy2 copies.                                              *)
DiesCopying(f) ==
    /\ pc = "applying" /\ f \in todo /\ ~options.dry
    /\ Replaced(f) /\ backup[version][f] = Absent
    /\ backup' = [backup EXCEPT ![version][f] = Partial]
    /\ UNCHANGED <<file, recorded, user>>
    /\ EndRun

Step ==
    \/ \E chosen \in Option : Start(chosen)
    \/ Skip \/ Preflight \/ Refuse \/ EndVersion \/ Record \/ Dies
    \/ \E f \in File : Archive(f) \/ Write(f) \/ DiesCopying(f)

Next ==
    \/ \E f \in File, r \in Region, text \in LocalText : Edit(f, r, text)
    \/ \E f \in File, v \in 0..Latest : Adopt(f, v)
    \/ Step

Spec == Init /\ [][Next]_vars

-----------------------------------------------------------------------------
(* Properties                                                              *)

Holds(content, r, text) == Present(content) /\ content[r] = text

(* Whatever the migrations do, in whatever order runs are refused, forced, *)
(* killed and repeated: a text of the user is still in its file or in a    *)
(* backup (merge_file, check_backup and copy_backup before every           *)
(* replacement).                                                           *)
NothingLocalIsLost ==
    \A f \in File, r \in Region, text \in LocalText :
        <<f, r, text>> \in mine =>
            Holds(file[f], r, text) \/ \E v \in Version : Holds(backup[v][f], r, text)

(* The record never runs ahead of the files (write_state): a file that the *)
(* user left alone is that of some template from the recorded one on, even *)
(* after a run that died.                                                  *)
RecordIsNotAhead ==
    \A f \in File \ touched : \E v \in recorded[scopeOf[f]]..Latest : file[f] = Template[v][f]

(* Templates for which the record can be kept: a region that a merge       *)
(* changes does not go back to what it said before in a later template.    *)
NeverReturns ==
    \A f \in File, v \in Version : \A u \in v..Latest, r \in Region :
        strategy[v][f] = "merge" /\ Present(Template[u][f])
            /\ Template[u][f][r] = Template[v - 1][f][r]
        => Template[v][f][r] = Template[v - 1][f][r]

(* What preflight_scope admits, apply_scope can do: no unforced run is     *)
(* stopped by a file halfway through a migration.                          *)
PreflightSuffices ==
    pc = "applying" /\ ~options.force => \A f \in todo : Applies(f)
=============================================================================
