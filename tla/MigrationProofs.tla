---------------------------- MODULE MigrationProofs ----------------------------
(***************************************************************************)
(* Theorems about Migration, for every set of templates, migrations,       *)
(* scopes and files that fit together, and any number of edits and runs.   *)
(***************************************************************************)
EXTENDS Migration, TLAPS

-----------------------------------------------------------------------------
(* Types.                                                                  *)

WithinTarget == pc = "applying" => version <= options.target

Typed == TypeOK /\ WithinTarget

LEMMA OptionTypes ==
    ASSUME NEW o \in Option
    PROVE  o.force \in BOOLEAN /\ o.dry \in BOOLEAN /\ o.target \in 0..Latest
BY DEF Option

LEMMA NoOptionIsOne == NoOption \in Option
BY MigrationAssumption DEF NoOption, Option

(* The templates before and after a migration.                             *)
LEMMA TemplateTypes ==
    ASSUME Typed, pc = "applying", NEW f \in File
    PROVE  /\ version \in Version /\ scopeOf[f] \in Scope
           /\ Before(f) \in [Region -> TemplateText] \cup {Absent}
           /\ After(f) \in [Region -> TemplateText] \cup {Absent}
<1>1. options.target \in 0..Latest /\ version \in 1..(Latest + 1) /\ version <= options.target
  BY OptionTypes DEF Typed, TypeOK, WithinTarget
<1>2. version \in 1..Latest /\ version \in 0..Latest /\ version - 1 \in 0..Latest
  BY <1>1, MigrationAssumption
<1> QED
  BY <1>2, MigrationAssumption DEF Before, After, Version

LEMMA PresentIsContent ==
    ASSUME NEW c \in Content \cup {Absent, Partial}
    PROVE  Present(c) <=> c \in Content
BY MigrationAssumption DEF Present, Content

LEMMA TemplateIsContent ==
    ASSUME NEW c \in [Region -> TemplateText] \cup {Absent}
    PROVE  c \in Content \cup {Absent}
BY DEF Content

(* What a migration makes of a file is one.                                *)
LEMMA ResultType ==
    ASSUME Typed, pc = "applying", NEW f \in File, Applies(f)
    PROVE  Result(f) \in Content \cup {Absent}
<1>1. CASE Unedited(f) \/ Replaced(f)
  BY <1>1, TemplateTypes, TemplateIsContent DEF Result
<1>2. CASE ~Unedited(f) /\ ~Replaced(f)
  <2>1. Merges(f) /\ Result(f) = Merged(f)
    BY <1>2 DEF Applies, Result
  <2>2. file[f] \in Content
    BY <2>1, PresentIsContent DEF Typed, TypeOK, Merges
  <2>3. ~(file[f] = Before(f))
    BY <1>2 DEF Unedited
  <2>4. \A r \in Region : Merged(f)[r] \in TemplateText \cup LocalText
    <3> TAKE r \in Region
    <3>1. CASE After(f) \in [Region -> TemplateText]
      BY <2>2, <3>1 DEF Merged, Content
    <3>2. CASE After(f) = Absent
      <4>1. Present(After(f))
        <5>1. version \in Version /\ strategy[version][f] = "merge"
          BY <2>1, TemplateTypes DEF Merges
        <5>2. Fits(version, f)
          BY <5>1, ManifestAssumption
        <5> QED
          BY <5>1, <5>2 DEF Fits, After
      <4> QED
        BY <3>2, <4>1 DEF Present
    <3> QED
      BY <3>1, <3>2, TemplateTypes
  <2> QED
    BY <2>1, <2>4 DEF Merged, Content
<1> QED
  BY <1>1, <1>2

LEMMA UserStepTypes ==
    ASSUME Typed, NEW f \in File,
           \/ \E r \in Region, text \in LocalText : Edit(f, r, text)
           \/ \E v \in 0..Latest : Adopt(f, v)
    PROVE  Typed'
<1>1. UNCHANGED <<backup, recorded, run>> /\ edits' \in 0..MaxEdits /\ touched' \subseteq File
  BY MigrationAssumption DEF Edit, Adopt, Changes, Typed, TypeOK
<1>2. mine' \subseteq File \X Region \X LocalText
  BY DEF Edit, Adopt, Typed, TypeOK
<1>3. file' \in [File -> Content \cup {Absent}]
  <2>1. ASSUME NEW r \in Region, NEW text \in LocalText, Edit(f, r, text)
        PROVE  file' \in [File -> Content \cup {Absent}]
    <3>1. file[f] \in Content
      BY <2>1, PresentIsContent DEF Edit, Typed, TypeOK
    <3>2. [file[f] EXCEPT ![r] = text] \in Content
      BY <3>1 DEF Content
    <3> QED
      BY <2>1, <3>2 DEF Edit, Typed, TypeOK
  <2>2. ASSUME NEW v \in 0..Latest, Adopt(f, v)
        PROVE  file' \in [File -> Content \cup {Absent}]
    <3>1. Template[v][f] \in Content \cup {Absent}
      BY MigrationAssumption, TemplateIsContent
    <3> QED
      BY <2>2, <3>1 DEF Adopt, Typed, TypeOK
  <2> QED
    BY <2>1, <2>2
<1> QED
  BY <1>1, <1>2, <1>3 DEF Typed, TypeOK, WithinTarget, run

(* The steps that end a run.                                               *)
LEMMA EndRunTypes ==
    ASSUME Typed, EndRun, UNCHANGED user,
           file' \in [File -> Content \cup {Absent}],
           backup' \in [Version -> [File -> Content \cup {Absent, Partial}]],
           recorded' \in {recorded, reached}
    PROVE  Typed'
BY NoOptionIsOne, MigrationAssumption DEF Typed, TypeOK, EndRun, WithinTarget, user

LEMMA StepTypes == Typed /\ [Step]_vars => Typed'
<1> SUFFICES ASSUME Typed, [Step]_vars PROVE Typed'
  OBVIOUS
<1> USE DEF disk, user, run
<1>1. ASSUME NEW o \in Option, Start(o)
      PROVE  Typed'
  BY <1>1, MigrationAssumption DEF Start, Typed, TypeOK, WithinTarget
<1>2. CASE Skip \/ EndVersion
  <2>1. options.target \in 0..Latest /\ version <= options.target
    BY <1>2, OptionTypes DEF Skip, EndVersion, Typed, TypeOK, WithinTarget
  <2>2. version' \in 1..(Latest + 1) /\ pc' = "preflight" /\ todo' = {}
    BY <1>2, <2>1, MigrationAssumption DEF Skip, EndVersion, NextVersion, Typed, TypeOK
  <2>3. reached' \in [Scope -> 0..Latest] /\ \A s \in Scope : recorded'[s] <= reached'[s]
    <3>1. /\ recorded' = recorded
          /\ reached \in [Scope -> 0..Latest] /\ recorded \in [Scope -> 0..Latest]
          /\ \A s \in Scope : recorded[s] <= reached[s]
      BY <1>2 DEF Skip, EndVersion, Typed, TypeOK
    <3>2. version \in 0..Latest
      BY <2>1, MigrationAssumption DEF Typed, TypeOK
    <3>3. \/ reached' = reached
          \/ reached' = [s \in Scope |-> IF reached[s] < version THEN version ELSE reached[s]]
      BY <1>2 DEF Skip, EndVersion, Behind
    <3>4. CASE reached' = reached
      BY <3>1, <3>4
    <3>5. CASE reached' = [s \in Scope |-> IF reached[s] < version THEN version ELSE reached[s]]
      <4>1. ASSUME NEW s \in Scope
            PROVE  reached'[s] \in 0..Latest /\ recorded'[s] <= reached'[s]
        <5>1. recorded[s] \in Nat /\ reached[s] \in 0..Latest /\ recorded[s] <= reached[s]
          BY <3>1
        <5>2. reached'[s] = IF reached[s] < version THEN version ELSE reached[s]
          BY <3>5
        <5> QED
          BY <3>1, <3>2, <5>1, <5>2, MigrationAssumption
      <4> QED
        BY <3>5, <4>1
    <3> QED
      BY <3>3, <3>4, <3>5
  <2> QED
    BY <1>2, <2>2, <2>3 DEF Skip, EndVersion, Typed, TypeOK, WithinTarget
<1>3. CASE Preflight
  BY <1>3 DEF Preflight, Managed, Typed, TypeOK, WithinTarget
<1>4. CASE Refuse \/ Record \/ Dies
  BY <1>4, EndRunTypes DEF Refuse, Record, Dies, Typed, TypeOK
<1>5. ASSUME NEW f \in File, Archive(f)
      PROVE  Typed'
  <2>1. file[f] \in Content \cup {Absent, Partial} /\ UNCHANGED <<file, recorded, run, user>>
    BY <1>5 DEF Archive, Typed, TypeOK
  <2>2. backup' \in [Version -> [File -> Content \cup {Absent, Partial}]]
    BY <1>5, <2>1 DEF Archive, Typed, TypeOK
  <2> QED
    BY <2>1, <2>2 DEF Typed, TypeOK, WithinTarget
<1>6. ASSUME NEW f \in File, Write(f)
      PROVE  Typed'
  <2>1. Result(f) \in Content \cup {Absent}
    BY <1>6, ResultType DEF Write
  <2> QED
    BY <1>6, <2>1 DEF Write, Typed, TypeOK, WithinTarget
<1>7. ASSUME NEW f \in File, DiesCopying(f)
      PROVE  Typed'
  <2>1. backup' \in [Version -> [File -> Content \cup {Absent, Partial}]]
    BY <1>7 DEF DiesCopying, Typed, TypeOK
  <2> QED
    BY <1>7, <2>1, EndRunTypes DEF DiesCopying, EndRun, Typed, TypeOK
<1>8. CASE UNCHANGED vars
  BY <1>8 DEF vars, Typed, TypeOK, WithinTarget
<1> QED
  BY <1>1, <1>2, <1>3, <1>4, <1>5, <1>6, <1>7, <1>8 DEF Step

LEMMA NextTypes == Typed /\ [Next]_vars => Typed'
BY StepTypes, UserStepTypes DEF Next

LEMMA InitTypes == Init => Typed
<1> SUFFICES ASSUME Init PROVE Typed
  OBVIOUS
<1>1. recorded \in [Scope -> 0..Latest] /\ reached = recorded
  BY MigrationAssumption DEF Init
<1>2. \A f \in File : Template[recorded[scopeOf[f]]][f] \in Content \cup {Absent}
  BY <1>1, MigrationAssumption, TemplateIsContent
<1>3. file \in [File -> Content \cup {Absent}]
  BY <1>2 DEF Init
<1> QED
  BY <1>1, <1>3, NoOptionIsOne, MigrationAssumption DEF Init, Typed, TypeOK, WithinTarget

(* Every variable keeps its type, and no run records less than it found.   *)
THEOREM TypeCorrect == Spec => []Typed
BY InitTypes, NextTypes, PTL DEF Spec

-----------------------------------------------------------------------------
(* No local text is lost.                                                  *)

(* A text of the user is in no template.                                   *)
LEMMA LocalIsNotTemplate ==
    ASSUME NEW c \in [Region -> TemplateText] \cup {Absent}, NEW r \in Region,
           NEW text \in LocalText
    PROVE  ~Holds(c, r, text)
<1>1. CASE c = Absent
  BY <1>1 DEF Holds, Present
<1>2. CASE c \in [Region -> TemplateText]
  <2>1. c[r] \in TemplateText
    BY <1>2
  <2> QED
    BY <2>1, MigrationAssumption DEF Holds
<1> QED
  BY <1>1, <1>2

(* Only a replacement drops one, and it was archived before.               *)
LEMMA ResultKeeps ==
    ASSUME Typed, pc = "applying", NEW f \in File, Applies(f), ~Replaced(f),
           NEW r \in Region, NEW text \in LocalText, Holds(file[f], r, text)
    PROVE  Holds(Result(f), r, text)
<1>1. Before(f) \in [Region -> TemplateText] \cup {Absent} /\ After(f) \in [Region -> TemplateText] \cup {Absent}
  BY TemplateTypes
<1>2. ~Unedited(f)
  <2>1. file[f] # Absent
    BY DEF Holds, Present
  <2>2. file[f] # Before(f) /\ file[f] # After(f)
    BY <1>1, LocalIsNotTemplate
  <2> QED
    BY <2>1, <2>2 DEF Unedited
<1>3. Merges(f) /\ Result(f) = Merged(f)
  BY <1>2 DEF Applies, Result
<1>4. Before(f) \in [Region -> TemplateText]
  <2>1. version \in Version /\ strategy[version][f] = "merge"
    BY <1>3, TemplateTypes DEF Merges
  <2>2. Fits(version, f)
    BY <2>1, ManifestAssumption
  <2> QED
    BY <1>1, <2>1, <2>2 DEF Fits, Before, Present
<1>5. file[f][r] # Before(f)[r]
  <2>1. Before(f)[r] \in TemplateText /\ file[f][r] = text
    BY <1>4 DEF Holds
  <2> QED
    BY <2>1, MigrationAssumption
<1>6. Merged(f)[r] = text
  BY <1>5 DEF Merged, Holds
<1>7. Merged(f) \in Content
  <2>1. Result(f) \in Content \cup {Absent}
    BY ResultType
  <2>2. Merged(f)  # Absent
    <3>1. DOMAIN Merged(f) = Region /\ Merged(f) = [q \in Region |-> Merged(f)[q]]
      BY DEF Merged
    <3>2. After(f) \in [Region -> TemplateText]
      <4>1. version \in Version /\ strategy[version][f] = "merge"
        BY <1>3, TemplateTypes DEF Merges
      <4>2. Fits(version, f)
        BY <4>1, ManifestAssumption
      <4> QED
        BY <1>1, <4>1, <4>2 DEF Fits, After, Present
    <3>3. file[f] \in Content
      BY <1>3, PresentIsContent DEF Typed, TypeOK, Merges
    <3>4. Merged(f) \in Content
      BY <3>2, <3>3 DEF Merged, Content
    <3> QED
      BY <3>4, MigrationAssumption DEF Content
  <2> QED
    BY <1>3, <2>1, <2>2
<1> QED
  BY <1>3, <1>6, <1>7, PresentIsContent DEF Holds

(* What a step must do to keep one text.                                   *)
Kept(f, r, text) ==
    Holds(file[f], r, text) \/ \E v \in Version : Holds(backup[v][f], r, text)

LEMMA UserStepKeeps ==
    ASSUME Typed, NothingLocalIsLost, NEW f \in File,
           \/ \E r \in Region, text \in LocalText : Edit(f, r, text)
           \/ \E v \in 0..Latest : Adopt(f, v)
    PROVE  NothingLocalIsLost'
<1> SUFFICES ASSUME NEW g \in File, NEW q \in Region, NEW t \in LocalText, <<g, q, t>> \in mine'
             PROVE  Kept(g, q, t)'
  BY DEF NothingLocalIsLost, Kept
<1>1. UNCHANGED backup
  BY DEF Edit, Adopt
<1>2. ASSUME <<g, q, t>> \in mine, Holds(file[g], q, t) => Holds(file'[g], q, t)
      PROVE  Kept(g, q, t)'
  BY <1>1, <1>2 DEF NothingLocalIsLost, Kept
<1>3. ASSUME NEW r \in Region, NEW text \in LocalText, Edit(f, r, text)
      PROVE  Kept(g, q, t)'
  <2>1. /\ file' = [file EXCEPT ![f] = [@ EXCEPT ![r] = text]]
        /\ mine' = (mine \ {<<f, r, file[f][r]>>}) \cup {<<f, r, text>>}
        /\ Present(file[f])
    BY <1>3 DEF Edit
  <2>2. file[f] \in Content /\ file \in [File -> Content \cup {Absent}]
    BY <2>1, PresentIsContent DEF Typed, TypeOK
  <2>3. file'[f] \in Content /\ file'[f] = [file[f] EXCEPT ![r] = text]
    BY <2>1, <2>2 DEF Content
  <2>4. Present(file'[f]) /\ file'[f][r] = text /\ \A p \in Region \ {r} : file'[f][p] = file[f][p]
    BY <2>2, <2>3, PresentIsContent DEF Content
  <2>5. CASE g = f /\ q = r
    <3>1. CASE t = text
      BY <2>4, <2>5, <3>1 DEF Kept, Holds
    <3>2. CASE t # text
      <4>1. <<g, q, t>> \in mine /\ t # file[f][r]
        BY <2>1, <2>5, <3>2
      <4> QED
        BY <1>2, <2>5, <4>1 DEF Holds
    <3> QED
      BY <3>1, <3>2
  <2>6. CASE ~(g = f /\ q = r)
    <3>1. <<g, q, t>> \in mine
      BY <2>1, <2>6
    <3>2. Holds(file[g], q, t) => Holds(file'[g], q, t)
      BY <2>1, <2>2, <2>4, <2>6 DEF Holds
    <3> QED
      BY <1>2, <3>1, <3>2
  <2> QED
    BY <2>5, <2>6
<1>4. ASSUME NEW v \in 0..Latest, Adopt(f, v)
      PROVE  Kept(g, q, t)'
  <2>1. /\ file' = [file EXCEPT ![f] = Template[v][f]]
        /\ mine' = mine \ {<<f, r, file[f][r]>> : r \in Region}
    BY <1>4 DEF Adopt
  <2>2. Holds(file[g], q, t) => g # f
    BY <2>1 DEF Holds
  <2>3. g # f => file'[g] = file[g]
    BY <2>1 DEF Typed, TypeOK
  <2> QED
    BY <1>2, <2>1, <2>2, <2>3
<1> QED
  BY <1>3, <1>4

LEMMA StepKeeps ==
    ASSUME Typed, NothingLocalIsLost, [Step]_vars
    PROVE  NothingLocalIsLost'
<1> SUFFICES ASSUME NEW g \in File, NEW q \in Region, NEW t \in LocalText, <<g, q, t>> \in mine'
             PROVE  Kept(g, q, t)'
  BY DEF NothingLocalIsLost, Kept
<1> USE DEF disk, user
<1>1. mine' = mine
  BY DEF Step, Start, Skip, Preflight, Refuse, EndVersion, Record, Dies, Archive, Write, DiesCopying,
         vars
<1>2. Kept(g, q, t)
  BY <1>1 DEF NothingLocalIsLost, Kept
<1>3. ASSUME file'[g] = file[g], \A v \in Version : backup[v][g] \in {Absent, Partial, backup'[v][g]}
      PROVE  Kept(g, q, t)'
  BY <1>2, <1>3 DEF Kept, Holds, Present
<1>4. CASE UNCHANGED <<file, backup>>
  BY <1>3, <1>4
<1>5. ASSUME NEW f \in File, Archive(f) \/ DiesCopying(f)
      PROVE  Kept(g, q, t)'
  <2>1. /\ file' = file /\ backup[version][f] \in {Absent, file[f]}
        /\ \/ backup' = [backup EXCEPT ![version][f] = file[f]] /\ backup[version][f] # file[f]
           \/ backup' = [backup EXCEPT ![version][f] = Partial] /\ backup[version][f] = Absent
    BY <1>5 DEF Archive, DiesCopying, BackupIsFree
  <2>2. backup[version][f] = Absent
    BY <2>1
  <2>3. \A v \in Version : backup[v][g] \in {Absent, backup'[v][g]}
    BY <2>1, <2>2 DEF Typed, TypeOK
  <2> QED
    BY <1>3, <2>1, <2>3
<1>6. ASSUME NEW f \in File, Write(f)
      PROVE  Kept(g, q, t)'
  <2>1. /\ pc = "applying" /\ Applies(f) /\ backup' = backup
        /\ Replaced(f) /\ ~options.dry => backup[version][f] = file[f]
        /\ file' = IF options.dry THEN file ELSE [file EXCEPT ![f] = Result(f)]
    BY <1>6 DEF Write
  <2>2. CASE options.dry \/ g # f
    BY <1>3, <2>1, <2>2 DEF Typed, TypeOK
  <2>3. CASE ~options.dry /\ g = f
    <3>1. file'[g] = Result(g)
      BY <2>1, <2>3 DEF Typed, TypeOK
    <3>2. CASE Replaced(g)
      <4>1. version \in Version /\ backup'[version][g] = file[g]
        BY <2>1, <2>3, <3>2, TemplateTypes
      <4> QED
        BY <1>2, <2>1, <4>1 DEF Kept
    <3>3. CASE ~Replaced(g)
      <4>1. Holds(file[g], q, t) => Holds(file'[g], q, t)
        BY <2>1, <2>3, <3>1, <3>3, ResultKeeps
      <4> QED
        BY <1>2, <2>1, <4>1 DEF Kept
    <3> QED
      BY <3>2, <3>3
  <2> QED
    BY <2>2, <2>3
<1>7. \/ UNCHANGED <<file, backup>>
      \/ \E f \in File : Archive(f) \/ DiesCopying(f) \/ Write(f)
  BY DEF Step, Start, Skip, Preflight, Refuse, EndVersion, Record, Dies, vars
<1> QED
  BY <1>4, <1>5, <1>6, <1>7

(* A text of the user is in its file or in a backup, whatever runs are     *)
(* refused, forced, killed and repeated.                                   *)
THEOREM NothingLocalIsEverLost == Spec => []NothingLocalIsLost
<1>1. Init => NothingLocalIsLost
  BY DEF Init, NothingLocalIsLost
<1>2. Typed /\ NothingLocalIsLost /\ [Next]_vars => NothingLocalIsLost'
  BY UserStepKeeps, StepKeeps DEF Next
<1> QED
  BY <1>1, <1>2, TypeCorrect, PTL DEF Spec

-----------------------------------------------------------------------------
(* The preflight.                                                          *)

LEMMA PreflightWasRight ==
    ASSUME Typed, ~options.force, NEW f \in File, Preflights(f)
    PROVE  Applies(f)
BY DEF Preflights, Applies, Replaced, Merges

LEMMA AppliesStill ==
    ASSUME NEW f \in File, Applies(f), UNCHANGED <<file[f], options, version>>,
           \A v \in Version : backup'[v][f] \in {backup[v][f], file[f]}, version \in Version
    PROVE  Applies(f)'
BY DEF Applies, Unedited, Replaced, Merges, BackupIsFree, Before, After

(* An unforced run that passed its preflight is stopped by no file.        *)
THEOREM PreflightAlwaysSuffices == Spec => []PreflightSuffices
<1>1. Init => PreflightSuffices
  BY DEF Init, PreflightSuffices
<1>2. ASSUME Typed, PreflightSuffices, [Next]_vars
      PROVE  PreflightSuffices'
  <2> SUFFICES ASSUME pc' = "applying", ~options'.force, NEW f \in todo'
               PROVE  Applies(f)'
    BY DEF PreflightSuffices
  <2> USE DEF disk, user, run
  <2>1. CASE Preflight
    <3>1. f \in File /\ Preflights(f) /\ UNCHANGED <<file, backup, options, version>>
      BY <2>1 DEF Preflight, Managed
    <3>2. Applies(f)
      BY <1>2, <3>1, PreflightWasRight
    <3> QED
      BY <3>1, <3>2 DEF Applies, Unedited, Replaced, Merges, BackupIsFree, Before, After
  <2>2. ASSUME NEW g \in File, Archive(g)
        PROVE  Applies(f)'
    <3>1. /\ f \in todo /\ pc = "applying" /\ UNCHANGED <<file, options, version>>
          /\ backup' = [backup EXCEPT ![version][g] = file[g]]
      BY <2>2 DEF Archive
    <3>2. Applies(f) /\ f \in File
      BY <1>2, <3>1 DEF PreflightSuffices, Typed, TypeOK
    <3>3. version \in Version /\ \A v \in Version : backup'[v][f] \in {backup[v][f], file[f]}
      BY <1>2, <3>1, <3>2, TemplateTypes DEF Typed, TypeOK
    <3> QED
      BY <3>1, <3>2, <3>3, AppliesStill
  <2>3. ASSUME NEW g \in File, Write(g)
        PROVE  Applies(f)'
    <3>1. f \in todo /\ f # g /\ pc = "applying" /\ UNCHANGED <<backup, options, version>>
      BY <2>3 DEF Write
    <3>2. Applies(f) /\ f \in File
      BY <1>2, <3>1 DEF PreflightSuffices, Typed, TypeOK
    <3>3. file'[f] = file[f]
      BY <1>2, <2>3, <3>1, <3>2 DEF Write, Typed, TypeOK
    <3>4. version \in Version
      BY <1>2, <3>1, <3>2, TemplateTypes
    <3> QED
      BY <3>1, <3>2, <3>3, <3>4, AppliesStill
  <2>4. CASE UNCHANGED vars
    BY <1>2, <2>4 DEF vars, PreflightSuffices, Applies, Unedited, Replaced, Merges, BackupIsFree, Before,
                After
  <2>5. \/ Preflight \/ UNCHANGED vars \/ \E g \in File : Archive(g) \/ Write(g)
    BY <1>2 DEF Next, Step, Edit, Adopt, Changes, Start, Skip, NextVersion, Refuse, EndVersion, Record,
           Dies, DiesCopying, EndRun
  <2> QED
    BY <2>1, <2>2, <2>3, <2>4, <2>5
<1> QED
  BY <1>1, <1>2, TypeCorrect, PTL DEF Spec

-----------------------------------------------------------------------------
(* The record and the files that nobody touched.                           *)

From(f, n) == \E v \in n..Latest : file[f] = Template[v][f]

(* What the run has made of f.                                             *)
Floor(f) ==
    IF options.dry THEN recorded[scopeOf[f]]
    ELSE IF pc = "applying" /\ f \in Managed \ todo THEN version
    ELSE reached[scopeOf[f]]

(* The migrations come one after the other, and each has its files to do.  *)
InOrder ==
    /\ \A s \in Scope : reached[s] >= version - 1
    /\ pc = "over" => reached = recorded /\ ~options.dry
    /\ pc = "applying" => todo \subseteq Managed

IInv == Typed /\ InOrder /\ \A f \in File \ touched : From(f, Floor(f))

(* A merge leaves a file of this or a later template as it is.             *)
LEMMA MergeKeepsTemplate ==
    ASSUME Typed, NeverReturns, pc = "applying", NEW f \in File, Merges(f),
           NEW u \in version..Latest, file[f] = Template[u][f]
    PROVE  Merged(f) = file[f]
<1>1. version \in Version /\ strategy[version][f] = "merge" /\ Present(file[f])
  BY TemplateTypes DEF Merges
<1>2. \A r \in Region : Template[u][f][r] = Before(f)[r] => After(f)[r] = Before(f)[r]
  BY <1>1 DEF NeverReturns, Before, After
<1>3. \A r \in Region : file[f][r] = IF file[f][r] = Before(f)[r] THEN After(f)[r] ELSE file[f][r]
  BY <1>2
<1>4. file[f] = [r \in Region |-> file[f][r]]
  BY <1>1, PresentIsContent DEF Typed, TypeOK, Content
<1> QED
  BY <1>3, <1>4 DEF Merged

(* What a migration writes is its own template or a later one.             *)
LEMMA WritesTemplate ==
    ASSUME Typed, NeverReturns, pc = "applying", NEW f \in File, Applies(f),
           NEW n \in Nat, n >= version - 1, From(f, n)
    PROVE  \E v \in version..Latest : Result(f) = Template[v][f]
<1>1. version \in Nat /\ version \in version..Latest
  BY TemplateTypes, MigrationAssumption DEF Version
<1>2. CASE Unedited(f) \/ Replaced(f)
  BY <1>1, <1>2 DEF Result, After
<1>3. CASE ~Unedited(f) /\ ~Replaced(f)
  <2>1. PICK v \in n..Latest : file[f] = Template[v][f]
    BY DEF From
  <2>2. v # version - 1
    BY <1>3, <2>1 DEF Unedited, Before
  <2>3. v \in version..Latest
    BY <1>1, <2>1, <2>2, MigrationAssumption
  <2>4. Merges(f) /\ Result(f) = Merged(f)
    BY <1>3 DEF Applies, Result
  <2> QED
    BY <2>1, <2>3, <2>4, MergeKeepsTemplate
<1> QED
  BY <1>2, <1>3

(* A later floor is the stronger one.                                      *)
LEMMA FromEarlier ==
    ASSUME NEW f \in File, NEW m \in Nat, NEW n \in Nat, m <= n, From(f, n)
    PROVE  From(f, m)
BY MigrationAssumption DEF From

(* The floor is not under the record.                                      *)
LEMMA FloorIsRecorded ==
    ASSUME Typed, InOrder, NEW f \in File
    PROVE  /\ recorded[scopeOf[f]] \in Nat /\ reached[scopeOf[f]] \in Nat /\ Floor(f) \in Nat
           /\ recorded[scopeOf[f]] <= Floor(f)
           /\ ~options.dry => reached[scopeOf[f]] <= Floor(f)
<1>1. /\ scopeOf[f] \in Scope /\ recorded[scopeOf[f]] \in Nat /\ reached[scopeOf[f]] \in Nat
      /\ recorded[scopeOf[f]] <= reached[scopeOf[f]] /\ version \in Nat
  BY MigrationAssumption DEF Typed, TypeOK
<1>2. f \in Managed => reached[scopeOf[f]] < version
  BY DEF Managed, Behind
<1> QED
  BY <1>1, <1>2 DEF Floor

(* A file that is not written is what it was.                              *)
LEMMA FloorsFall ==
    ASSUME Typed, InOrder, Typed', NEW f \in File \ touched, From(f, Floor(f)),
           UNCHANGED file, Floor(f)' <= Floor(f)
    PROVE  From(f, Floor(f))'
<1>1. Floor(f) \in Nat /\ Floor(f)' \in Nat
  <2>1. /\ recorded'[scopeOf[f]] \in Nat /\ reached'[scopeOf[f]] \in Nat /\ version' \in Nat
    BY MigrationAssumption DEF Typed, TypeOK
  <2> QED
    BY <2>1, FloorIsRecorded DEF Floor
<1>2. From(f, Floor(f)')
  BY <1>1, FromEarlier
<1> QED
  BY <1>2 DEF From

(* The end of a migration: who was behind is at its version.               *)
LEMMA VersionEnds ==
    ASSUME IInv, EndVersion, Typed', NEW f \in File \ touched
    PROVE  From(f, Floor(f))'
<1> DEFINE s == scopeOf[f]
<1>1. /\ s \in Scope /\ version \in Version /\ pc = "applying" /\ todo = {}
      /\ UNCHANGED <<file, recorded, options>> /\ pc' = "preflight"
      /\ reached'[s] = IF reached[s] < version THEN version ELSE reached[s]
  BY TemplateTypes, MigrationAssumption DEF IInv, EndVersion, Behind, NextVersion, disk
<1>2. From(f, Floor(f)) /\ reached[s] \in Nat /\ reached[s] >= version - 1
  BY <1>1 DEF IInv, InOrder, Typed, TypeOK
<1>3. CASE options.dry \/ reached[s] >= version
  BY <1>1, <1>2, <1>3 DEF Floor, From, Managed, Behind, Version
<1>4. CASE ~options.dry /\ reached[s] < version
  <2>1. Floor(f)' = version
    BY <1>1, <1>4 DEF Floor
  <2>2. CASE strategy[version][f] # "none"
    BY <1>1, <1>2, <1>4, <2>1, <2>2 DEF Floor, Managed, Behind, From
  <2>3. CASE strategy[version][f] = "none"
    <3>1. Template[version - 1][f] = Template[version][f]
      <4>1. Fits(version, f)
        BY <1>1, ManifestAssumption
      <4> QED
        BY <2>3, <4>1 DEF Fits
    <3>2. Floor(f) = version - 1
      BY <1>1, <1>2, <1>4, <2>3 DEF Floor, Managed, Version
    <3>3. PICK v \in (version - 1)..Latest : file[f] = Template[v][f]
      BY <1>2, <3>2 DEF From
    <3>4. \E w \in version..Latest : file[f] = Template[w][f]
      BY <1>1, <3>1, <3>3, MigrationAssumption DEF Version
    <3> QED
      BY <1>1, <2>1, <3>4 DEF From
  <2> QED
    BY <2>2, <2>3
<1> QED
  BY <1>1, <1>2, <1>3, <1>4, MigrationAssumption DEF Version

LEMMA OrderKept ==
    ASSUME IInv, [Next]_vars, Typed'
    PROVE  InOrder'
<1> USE DEF disk, run, user
<1>1. /\ recorded \in [Scope -> 0..Latest] /\ reached \in [Scope -> 0..Latest]
      /\ version \in Nat /\ version >= 1 /\ InOrder /\ NoOption.dry = FALSE
  BY DEF IInv, Typed, TypeOK, NoOption
<1>2. CASE \/ \E f \in File, r \in Region, text \in LocalText : Edit(f, r, text)
           \/ \E f \in File, v \in 0..Latest : Adopt(f, v)
  BY <1>1, <1>2 DEF Edit, Adopt, Changes, InOrder
<1>3. ASSUME NEW o \in Option, Start(o)
      PROVE  InOrder'
  BY <1>1, <1>3 DEF Start, InOrder, Typed, TypeOK
<1>4. CASE Skip
  BY <1>1, <1>4 DEF Skip, NextVersion, Behind, InOrder
<1>5. CASE EndVersion
  <2>1. \A s \in Scope : reached'[s] = IF reached[s] < version THEN version ELSE reached[s]
    BY <1>5 DEF EndVersion, Behind
  <2> QED
    BY <1>1, <1>5, <2>1 DEF EndVersion, NextVersion, InOrder
<1>6. CASE Preflight
  BY <1>1, <1>6 DEF Preflight, InOrder, Managed, Behind
<1>7. CASE EndRun
  BY <1>1, <1>7 DEF EndRun, InOrder, Typed, TypeOK
<1>8. ASSUME NEW f \in File, Archive(f) \/ Write(f)
      PROVE  InOrder'
  BY <1>1, <1>8 DEF Archive, Write, InOrder, Managed, Behind
<1>9. CASE UNCHANGED vars
  BY <1>1, <1>9 DEF vars, InOrder, Managed, Behind
<1>10. Refuse \/ Record \/ Dies \/ (\E f \in File : DiesCopying(f)) => EndRun
  BY DEF Refuse, Record, Dies, DiesCopying
<1> QED
  BY <1>2, <1>3, <1>4, <1>5, <1>6, <1>7, <1>8, <1>9, <1>10 DEF Next, Step

(* The end of a run, whether it records what it reached or not.            *)
LEMMA RunEnds ==
    ASSUME IInv, EndRun, Typed', InOrder', UNCHANGED file, NEW f \in File \ touched,
           recorded' = recorded \/ (recorded' = reached /\ ~options.dry)
    PROVE  From(f, Floor(f))'
<1>1. Floor(f)' = recorded'[scopeOf[f]]
  BY DEF Floor, EndRun
<1>2. Floor(f)' <= Floor(f)
  BY <1>1, FloorIsRecorded DEF IInv
<1> QED
  BY <1>2, FloorsFall DEF IInv

LEMMA RecordKept ==
    ASSUME IInv, NeverReturns, [Next]_vars, Typed', InOrder', NEW f \in File \ touched'
    PROVE  From(f, Floor(f))'
<1> USE DEF disk, run, user
<1>1. /\ Typed /\ InOrder /\ f \in File /\ (f \notin touched => From(f, Floor(f)))
      /\ file \in [File -> Content \cup {Absent}]
  BY DEF IInv, Typed, TypeOK
<1>2. ASSUME NEW g \in File,
             \/ \E r \in Region, text \in LocalText : Edit(g, r, text)
             \/ \E v \in 0..Latest : Adopt(g, v)
      PROVE  From(f, Floor(f))'
  <2>1. /\ UNCHANGED <<backup, recorded, run>> /\ touched' = touched \cup {g} /\ pc = "over"
        /\ file'[f] = file[f]
    BY <1>1, <1>2 DEF Edit, Adopt, Changes
  <2> QED
    BY <1>1, <2>1 DEF From, Floor
<1>3. ASSUME NEW o \in Option, Start(o)
      PROVE  From(f, Floor(f))'
  <2>1. Floor(f)' <= Floor(f) /\ f \notin touched /\ UNCHANGED file
    BY <1>1, <1>3, FloorIsRecorded DEF Start, Floor
  <2> QED
    BY <1>1, <2>1, FloorsFall
<1>4. CASE Skip \/ UNCHANGED vars
  <2>1. Floor(f)' <= Floor(f) /\ f \notin touched /\ UNCHANGED file
    BY <1>1, <1>4, FloorIsRecorded DEF Skip, NextVersion, vars, Floor, Managed, Behind
  <2> QED
    BY <1>1, <2>1, FloorsFall
<1>5. CASE EndVersion
  BY <1>5, VersionEnds DEF EndVersion
<1>6. CASE Preflight
  <2>1. Floor(f)' <= Floor(f) /\ f \notin touched /\ UNCHANGED file
    BY <1>1, <1>6, FloorIsRecorded DEF Preflight, Floor, Managed, Behind
  <2> QED
    BY <1>1, <2>1, FloorsFall
<1>7. CASE Refuse \/ Record \/ Dies \/ \E g \in File : DiesCopying(g)
  BY <1>7, RunEnds DEF Refuse, Record, Dies, DiesCopying
<1>8. ASSUME NEW g \in File, Archive(g)
      PROVE  From(f, Floor(f))'
  BY <1>1, <1>8 DEF Archive, From, Floor, Managed, Behind
<1>9. ASSUME NEW g \in File, Write(g)
      PROVE  From(f, Floor(f))'
  <2>1. /\ pc = "applying" /\ g \in todo /\ Applies(g) /\ f \notin touched
        /\ file' = IF options.dry THEN file ELSE [file EXCEPT ![g] = Result(g)]
        /\ todo' = todo \ {g} /\ UNCHANGED <<recorded, pc, options, reached, version>>
    BY <1>9 DEF Write
  <2>2. CASE options.dry \/ f # g
    <3>1. Floor(f)' = Floor(f) /\ file'[f] = file[f]
      BY <1>1, <2>1, <2>2 DEF Floor, Managed, Behind
    <3> QED
      BY <1>1, <2>1, <3>1 DEF From
  <2>3. CASE ~options.dry /\ f = g
    <3>1. file'[f] = Result(f) /\ f \in Managed /\ Floor(f)' = version
      BY <1>1, <2>1, <2>3 DEF Floor, Managed, Behind, InOrder
    <3>2. Floor(f) \in Nat /\ Floor(f) >= version - 1
      <4>1. scopeOf[f] \in Scope /\ Floor(f) = reached[scopeOf[f]]
        BY <2>1, <2>3, MigrationAssumption DEF Floor
      <4> QED
        BY <1>1, <4>1, FloorIsRecorded DEF InOrder
    <3>3. \E v \in version..Latest : Result(f) = Template[v][f]
      BY <1>1, <2>1, <2>3, <3>2, WritesTemplate
    <3> QED
      BY <3>1, <3>3 DEF From
  <2> QED
    BY <2>2, <2>3
<1> QED
  BY <1>2, <1>3, <1>4, <1>5, <1>6, <1>7, <1>8, <1>9 DEF Next, Step

(* With templates in which no merged region goes back, a file that nobody  *)
(* touched is never older than the record, whatever runs die, are refused, *)
(* forced and repeated.                                                    *)
THEOREM RecordNeverAhead == NeverReturns => (Spec => []RecordIsNotAhead)
<1> SUFFICES ASSUME NeverReturns PROVE Spec => []RecordIsNotAhead
  OBVIOUS
<1>1. Init => IInv
  <2> SUFFICES ASSUME Init PROVE IInv
    OBVIOUS
  <2>1. InOrder
    BY InitTypes DEF Init, InOrder, NoOption, Typed, TypeOK
  <2>2. \A f \in File : From(f, Floor(f))
    <3> TAKE f \in File
    <3>1. recorded[scopeOf[f]] \in 0..Latest /\ Floor(f) = recorded[scopeOf[f]]
      BY InitTypes, MigrationAssumption DEF Init, Typed, TypeOK, Floor
    <3>2. file[f] = Template[recorded[scopeOf[f]]][f]
      BY DEF Init
    <3> QED
      BY <3>1, <3>2, MigrationAssumption DEF From
  <2> QED
    BY <2>1, <2>2, InitTypes DEF IInv
<1>2. IInv /\ [Next]_vars => IInv'
  <2> SUFFICES ASSUME IInv, [Next]_vars PROVE IInv'
    OBVIOUS
  <2>1. Typed' /\ InOrder'
    BY NextTypes, OrderKept DEF IInv
  <2> QED
    BY <2>1, RecordKept DEF IInv
<1>3. IInv => RecordIsNotAhead
  <2> SUFFICES ASSUME IInv, NEW f \in File \ touched PROVE From(f, recorded[scopeOf[f]])
    BY DEF RecordIsNotAhead, From
  <2> QED
    BY FloorIsRecorded, FromEarlier DEF IInv
<1> QED
  BY <1>1, <1>2, <1>3, PTL DEF Spec
=============================================================================
