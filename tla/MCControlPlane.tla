---------------------------- MODULE MCControlPlane ----------------------------
(* A daemon that is started for other models, or for another Herdr session. *)
EXTENDS ControlPlane

Sessions == [i \in Identity |-> IF i = "other" THEN "s2" ELSE "s1"]
=============================================================================
