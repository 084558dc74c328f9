----------------------------- MODULE GraphReview -----------------------------
(***************************************************************************)
(* GraphRuntime with a Lead that holds what its last get_graph returned    *)
(* while other callers, and the children of a wave, move the run on.       *)
(***************************************************************************)
EXTENDS GraphRuntime

VARIABLE seen  \* the revision, graph and node rows the Lead read last

reviewVars == <<vars, seen>>

Seen == [revision |-> revision, graph |-> graph, row |-> row]

ReviewInit == Init /\ seen = Seen

ReadGraph == loaded /\ seen' = Seen /\ UNCHANGED vars

LeadDecides(D, decide) == SubmitDecisions(D, decide, seen.revision) /\ UNCHANGED seen

LeadReconciles(h) == ReconcileGraph(h, seen.revision) /\ UNCHANGED seen

OthersMove == Next /\ UNCHANGED seen

ReviewNext ==
    \/ ReadGraph
    \/ \E D \in SUBSET NodeId : \E decide \in [D -> Decision] : LeadDecides(D, decide)
    \/ \E h \in Graph : LeadReconciles(h)
    \/ OthersMove

(* The fairness is that of the wave: nobody else is obliged to do anything. *)
ReviewSpec == ReviewInit /\ [][ReviewNext]_reviewVars /\ Fairness

(* Optimistic concurrency is sound: a caller that holds the current        *)
(* revision holds the current state, so a decision or a reconciliation     *)
(* that is applied was made on exactly what it changes.                    *)
RevisionIdentifiesState ==
    /\ seen.revision <= revision
    /\ seen.revision = revision => seen.graph = graph /\ seen.row = row
=============================================================================
