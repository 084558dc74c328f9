------------------------------ MODULE MCGraphs ------------------------------
(* Authored graphs for TLC.  The Lead may start with any graph of a family   *)
(* and reconcile to any other.                                               *)
EXTENDS TLC

Node(repository, packet, deps) ==
    [repository |-> repository, packet |-> packet, routed |-> TRUE, depends_on |-> deps]

(* b depends on a.  Revisions: the packet of a changes.  Topologies: b is    *)
(* freed of a, or a is dropped (and authored again later) while b loses its  *)
(* route.                                                                    *)
Chain == "a" :> Node("r1", "p", {}) @@ "b" :> Node("r2", "p", {"a"})
RootRevised == [Chain EXCEPT !["a"].packet = "q"]
Freed == [Chain EXCEPT !["b"].depends_on = {}]
Dropped == "b" :> [Node("r2", "p", {}) EXCEPT !.routed = FALSE]

Revisions == {Chain, RootRevised}

Topologies == {Chain, Freed, Dropped}

(* Three nodes, two of them in one repository, with and without a join.      *)
Parallel == "a" :> Node("r1", "p", {}) @@ "b" :> Node("r1", "p", {})
            @@ "c" :> Node("r2", "p", {})
Join == [Parallel EXCEPT !["b"] = Node("r2", "p", {"a", "c"}),
                         !["c"].repository = "r3"]

Waves == {Parallel, Join}

AnyGraph == Revisions \cup Topologies \cup Waves
=============================================================================
