---------------------------- MODULE MCDelegation ----------------------------
(* Families of arguments for TLC: two server processes and three calls.      *)
EXTENDS Delegation, TLC

Argued(p, r, s) == [process |-> p, repository |-> r, session |-> s]

(* Every call STARTs in one repository, from two processes.                  *)
Starts ==
    {"c1" :> Argued("p1", "r1", NoSession) @@ "c2" :> Argued("p1", "r1", NoSession)
        @@ "c3" :> Argued("p2", "r1", NoSession)}

(* The others resume the session of the first, in its repository or not.     *)
Resumes ==
    {"c1" :> Argued("p1", "r1", NoSession) @@ "c2" :> Argued("p1", r, "c1")
        @@ "c3" :> Argued("p2", "r1", "c1") : r \in {"r1", "r2"}}

AnyArguments == Starts \cup Resumes
=============================================================================
