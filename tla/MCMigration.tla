----------------------------- MODULE MCMigration -----------------------------
(* Three migrations of a workspace file and a repository file.  The first    *)
(* is merged twice in the same region and once in another one; the second is *)
(* added, replaced and deleted.                                              *)
EXTENDS Migration, TLC

TextsAlike == Permutations(LocalText)

Text(top, rest) == [r \in Region |-> IF r = "top" THEN top ELSE rest]

Scopes == [f \in File |-> IF f = "policy" THEN "workspace" ELSE "repo"]

Templates ==
    [v \in 0..Latest |->
        [f \in File |->
            IF f = "policy" THEN Text(IF v < 2 THEN v ELSE 2, IF v < 3 THEN 0 ELSE 3)
            ELSE IF v \in {1, 2} THEN Text(v, 1) ELSE Absent]]

Strategies ==
    [v \in 1..Latest |->
        [f \in File |->
            IF f = "policy" THEN "merge" ELSE IF v = 3 THEN "delete" ELSE "replace"]]

ASSUME NothingReturns == NeverReturns
=============================================================================
