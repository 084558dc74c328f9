------------------------ MODULE MCSupervisorDelivery ------------------------
(* One turn, and a daemon that supervises it.                                *)
EXTENDS SupervisorDelivery

SameSession == [t \in Turn |-> "s1"]

AllTracked == [t \in Turn |-> 1]
=============================================================================
