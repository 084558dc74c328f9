------------------------------ MODULE TaskGraph ------------------------------
(***************************************************************************)
(* The authored TaskGraph and the pure scheduling functions over it:       *)
(* task_graph.py (the values), task_graph_validation.py (what a validated  *)
(* graph is), task_graph_scheduler.py (runnable nodes and the derived      *)
(* graph state) and the reconciliation sets of task_graph_runtime.py.      *)
(*                                                                         *)
(* A graph is a function from its node ids to authored nodes.  A TaskPacket*)
(* is an opaque value of Packet: only equality of packets matters here.    *)
(* The authored order of nodes is abstracted away (see WaveSelection).     *)
(***************************************************************************)
EXTENDS FiniteSets, Naturals

CONSTANTS
    NodeId,      \* every node id a Lead may author
    Repository,  \* repositories of repos.yaml
    Packet,      \* TaskPacket contents, compared only for equality
    Graph        \* the validated graphs a Lead may author

-----------------------------------------------------------------------------
(* States of a node: task_graph_scheduler.py.                              *)

SemanticState == {"pending", "satisfied", "blocked", "cancelled"}

ReviewableRuntime == {"settled", "failed", "blocked", "awaiting_review"}

RuntimeState == {"idle", "running"} \cup ReviewableRuntime

-----------------------------------------------------------------------------
(* What validate_task_graph accepts.                                       *)

GraphNode(ids) ==
    [repository: Repository, packet: Packet, routed: BOOLEAN, depends_on: SUBSET ids]

(* The reference form of acyclicity: no non-empty set of nodes in which    *)
(* every node waits for another one of the set.                            *)
Acyclic(g) ==
    \A S \in SUBSET DOMAIN g :
        S # {} => \E n \in S : g[n].depends_on \cap S = {}

ValidGraph(g) ==
    /\ DOMAIN g # {}
    /\ g \in [DOMAIN g -> GraphNode(DOMAIN g)]
    /\ Acyclic(g)

ASSUME GraphAssumption ==
    /\ IsFiniteSet(NodeId)
    /\ \A g \in Graph : DOMAIN g \subseteq NodeId /\ ValidGraph(g)

-----------------------------------------------------------------------------
(* Scheduling over a graph g and its node rows r.                          *)

DependenciesSatisfied(g, r, n) ==
    \A d \in g[n].depends_on : r[d].semantic = "satisfied"

Runnable(g, r) ==
    {n \in DOMAIN g : /\ r[n].semantic = "pending"
                      /\ r[n].runtime = "idle"
                      /\ DependenciesSatisfied(g, r, n)}

Reviewable(g, r) ==
    {n \in DOMAIN g : /\ r[n].semantic = "pending"
                      /\ r[n].runtime \in ReviewableRuntime}

GraphState(g, r) ==
    IF \E n \in DOMAIN g : r[n].runtime = "running" THEN "running"
    ELSE IF Reviewable(g, r) # {} THEN "awaiting_review"
    ELSE IF \E n \in DOMAIN g : r[n].semantic = "blocked" THEN "blocked"
    ELSE IF \A n \in DOMAIN g : r[n].semantic \in {"satisfied", "cancelled"} THEN "complete"
    ELSE IF Runnable(g, r) # {} THEN "ready"
    ELSE "blocked"

-----------------------------------------------------------------------------
(* Reconciliation of graph g with the next authored graph h.               *)

Added(g, h) == DOMAIN h \ DOMAIN g

Removed(g, h) == DOMAIN g \ DOMAIN h

ChangedTopology(g, h) ==
    {n \in DOMAIN g \cap DOMAIN h : g[n].depends_on # h[n].depends_on}

Changed(g, h) == {n \in DOMAIN g \cap DOMAIN h : g[n] # h[n]}

(* S contains the seed and every node, outside the barriers, that depends  *)
(* on a member of S.                                                       *)
ClosedUnderDependents(h, S, seed, barriers) ==
    /\ seed \subseteq S
    /\ \A n \in DOMAIN h \ barriers :
          h[n].depends_on \cap S # {} => n \in S

ResetChangedOnly(g, h, blocked) == Added(g, h) \cup Changed(g, h)

ResetEverything(g, h, blocked) == DOMAIN h

ResetWithoutAdded(g, h, blocked) == Changed(g, h)

(* The nodes whose state is reset: the least closed set, which the code    *)
(* computes by iterating to a fixpoint.  An unchanged blocked node is a    *)
(* barrier: it is neither reset nor does it pass the invalidation on.      *)
Reset(g, h, blocked) ==
    LET seed == Added(g, h) \cup Changed(g, h)
    IN  {n \in DOMAIN h :
            \A S \in SUBSET DOMAIN h :
                ClosedUnderDependents(h, S, seed, blocked \ Changed(g, h)) => n \in S}
=============================================================================
