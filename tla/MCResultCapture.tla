--------------------------- MODULE MCResultCapture ---------------------------
(* The line is housekeeping beside the report, and neither that nor clearly  *)
(* substantial beside the final words, which are substantial beside both.    *)
EXTENDS ResultCapture

Lengths == [r \in Response |-> CASE r = "report" -> 5000 [] r = "final" -> 2200 [] r = "line" -> 600]
=============================================================================
