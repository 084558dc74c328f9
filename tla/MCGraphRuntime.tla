--------------------------- MODULE MCGraphRuntime ---------------------------
(* GraphReview over the graphs of MCGraphs: a run keeps to one family, and   *)
(* each family is explored to the revision that its interesting cases need.  *)
(* The Lead acts on an earlier read in the family of reviews only: in the    *)
(* others it has always just read.                                           *)
EXTENDS GraphReview, MCGraphs

VARIABLE family

Families == [revisions |-> [graphs |-> Revisions, revision |-> 11],
             topologies |-> [graphs |-> Topologies, revision |-> 8],
             waves |-> [graphs |-> Waves, revision |-> 6],
             reviews |-> [graphs |-> Revisions, revision |-> 6]]

MCInit == ReviewInit /\ family \in DOMAIN Families /\ graph \in Families[family].graphs

JustRead == Next /\ seen' = [revision |-> revision', graph |-> graph', row |-> row']

(* The process dies in the families of waves and reviews only: nothing       *)
(* follows a crash.                                                          *)
MCNext ==
    /\ IF family = "reviews" THEN ReviewNext ELSE JustRead
    /\ UNCHANGED family
    /\ graph' \in Families[family].graphs
    /\ loaded' \/ family \in {"waves", "reviews"}

MCSpec == MCInit /\ [][MCNext]_<<reviewVars, family>> /\ Fairness

Bounded == revision <= Families[family].revision
=============================================================================
