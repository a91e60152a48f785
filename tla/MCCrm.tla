--------------------------------- MODULE MCCrm ---------------------------------
(* Two machines of the CRM that share nothing, checked in one run, one of     *)
(* them at work in each behaviour: the links of CRM tasks to records, and the *)
(* Review Queue.                                                              *)
EXTENDS TaskLinks, ReviewQueue, TLC

VARIABLE work
vars == <<work, reviewVars, linkVars>>

MCLinks == {<<t, r>> : t \in LinkTasks, r \in {1, 3}}

MCInit ==
  \/ work = "links" /\ LinksInit /\ ReviewStart("field", 1)
  \/ /\ work = "review" /\ LinksInit
     /\ ReviewStart("field", 1) \/ ReviewStart("lead", MaxVersion)

MCNext ==
  \/ work = "links" /\ LinksNext /\ UNCHANGED <<work, reviewVars>>
  \/ work = "review" /\ ReviewNext /\ UNCHANGED <<work, linkVars>>

MCSpec == MCInit /\ [][MCNext]_vars
Symmetry == Permutations(Connections) \cup Permutations(LinkTasks)
=============================================================================
