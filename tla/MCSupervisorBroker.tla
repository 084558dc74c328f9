------------------------- MODULE MCSupervisorBroker -------------------------
(* Two turns of one Work Item under a broker.                                *)
EXTENDS SupervisorBroker

SameSession == [t \in Turn |-> "s1"]

LaterTurn == [t \in Turn |-> IF t = "t1" THEN 1 ELSE 2]

OneTracked == [t \in Turn |-> IF t = "t1" THEN 1 ELSE 0]

Untracked == [t \in Turn |-> 0]

(* Explored are all ledgers of up to six events, and of the longer ones      *)
(* those of one candidate without signals, and those of a broker that is     *)
(* not enabled yet.                                                          *)
OneCandidate ==
    \A i \in 1..Len(log) :
        log[i].turn # "t2" /\ log[i].type \notin {"peer.signal", "dependency.consumed"}

Focused == Len(log) > 6 => ~enabled \/ OneCandidate
=============================================================================
