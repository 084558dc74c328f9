---------------------------- MODULE ReviewedGraph ----------------------------
(***************************************************************************)
(* What a task graph run promises its Lead, without rows, attempts, waves, *)
(* revisions or child tasks: work starts only on accepted dependencies and *)
(* on distinct repositories, only a review moves finished work on, and a   *)
(* revised graph never leaves work standing on something it replaced.      *)
(***************************************************************************)
EXTENDS TaskGraph

VARIABLES
    authored,  \* the graph the Lead authored last
    status     \* where each node stands

Status == {"absent", "waiting", "running", "review", "accepted", "stopped"}

Init ==
    /\ authored \in Graph
    /\ status = [n \in NodeId |-> IF n \in DOMAIN authored THEN "waiting" ELSE "absent"]

Quiet == \A n \in NodeId : status[n] # "running"

Moved(S, to) == [n \in NodeId |-> IF n \in S THEN to ELSE status[n]]

Startable(W) ==
    /\ Quiet /\ W # {}
    /\ \A n \in W : /\ status[n] = "waiting"
                    /\ \A d \in authored[n].depends_on : status[d] = "accepted"
    /\ \A m, n \in W : authored[m].repository = authored[n].repository => m = n

Start(W) == Startable(W) /\ status' = Moved(W, "running") /\ UNCHANGED authored

(* Work that could not be started is put under review as well.             *)
FailToStart(W) == Startable(W) /\ status' = Moved(W, "review") /\ UNCHANGED authored

Settle(S) ==
    /\ S # {} /\ \A n \in S : status[n] = "running"
    /\ status' = Moved(S, "review")
    /\ UNCHANGED authored

Review(D) ==
    /\ Quiet /\ D # {} /\ \A n \in D : status[n] = "review"
    /\ \A n \in D : status'[n] \in {"accepted", "waiting", "stopped"}
    /\ status' = [n \in NodeId |-> IF n \in D THEN status'[n] ELSE status[n]]
    /\ UNCHANGED authored

(* The nodes n needs, directly or through others, and n itself.            *)
Upstream(g, n) ==
    {m \in DOMAIN g :
        \A S \in SUBSET DOMAIN g :
            (n \in S /\ \A k \in S : g[k].depends_on \subseteq S) => m \in S}

Untouched(h, n) == n \in DOMAIN authored /\ authored[n] = h[n]

(* kept: the nodes whose status survives the revision.                     *)
Revise(h, kept) ==
    /\ Quiet
    /\ \A n \in kept : Untouched(h, n)
    /\ \A n \in kept : status[n] \in {"accepted", "review"} =>
          \A d \in h[n].depends_on : d \in kept /\ status[d] = "accepted"
    /\ \A n \in DOMAIN h : (\A m \in Upstream(h, n) : Untouched(h, m)) => n \in kept
    /\ \A n \in DOMAIN h : Untouched(h, n) /\ status[n] = "stopped" => n \in kept
    /\ authored' = h
    /\ status' = [n \in NodeId |->
                    IF n \notin DOMAIN h THEN "absent"
                    ELSE IF n \in kept THEN status[n] ELSE "waiting"]

Next ==
    \/ \E W \in SUBSET NodeId : Start(W) \/ FailToStart(W) \/ Settle(W) \/ Review(W)
    \/ \E h \in Graph : \E kept \in SUBSET DOMAIN h : Revise(h, kept)

Spec == Init /\ [][Next]_<<authored, status>>
=============================================================================
