-------------------------------- MODULE CrmProofs ------------------------------
(***************************************************************************)
(* The CRM, for every value of the constants: deals, their companies and   *)
(* their projects, for any number of requests in flight over any number of *)
(* deals (DealInv); the Review Queue, for any number of approvals in       *)
(* flight, items, versions and mishaps (ReviewInv); and the import of a    *)
(* CSV, for any file, any number of calls and any chunk (CsvInv).          *)
(***************************************************************************)
EXTENDS Deals, ReviewQueue, CsvImport, SequenceTheorems, FiniteSetTheorems,
        WellFoundedInduction, TLAPS

Stages == OPEN \cup CLOSED
LeadStages == MANUAL_LEAD_STAGES \cup ON_DEALS
Rows == DealIds \cup Companies
ActNames == {"nothing", "create", "link", "confirm", "sync_probability", "archive_release",
             "unarchive_unrelease", "retentative"}
Acts == [name : ActNames, link : Projects \cup {None}]

MovePlans ==
  [op : {"move"}, deal : DealIds, from : Stages, to : Stages, company : Companies,
   found : LeadStages, change : LeadStages \cup {None}, act : Acts, open : Nat,
   won : BOOLEAN, closing : BOOLEAN, compares : SUBSET Rows, stale : SUBSET Rows]
CompanyPlans ==
  [op : {"create", "set_company"}, deal : DealIds, company : Companies,
   change : LeadStages \cup {None}, compares : SUBSET Rows, stale : SUBSET Rows]
ProbabilityPlans ==
  [op : {"set_probability"}, deal : DealIds, prob : 0 .. 100, synced : BOOLEAN,
   compares : SUBSET Rows, stale : SUBSET Rows]
StagePlans ==
  [op : {"lead_stage"}, company : Companies, stage : LeadStages,
   compares : SUBSET Rows, stale : SUBSET Rows]
TrashPlans == [op : {"trash"}, deal : DealIds, compares : SUBSET Rows, stale : SUBSET Rows]
ProjectPlans ==
  [op : {"project"}, project : Projects, field : {"archived", "tentative"}, value : BOOLEAN,
   compares : SUBSET Rows, stale : SUBSET Rows]
    \cup [op : {"project"}, project : Projects, field : {"prob"}, value : 0 .. 100,
          compares : SUBSET Rows, stale : SUBSET Rows]
AllocationPlans ==
  [op : {"allocate"}, project : Projects, compares : SUBSET Rows, stale : SUBSET Rows]
Plans ==
  MovePlans \cup CompanyPlans \cup ProbabilityPlans \cup StagePlans \cup TrashPlans
    \cup ProjectPlans \cup AllocationPlans

DealsTypeOK ==
  /\ company_stage \in [Companies -> LeadStages]
  /\ deals \in [DealIds -> {None} \cup DealRow]
  /\ projects \in [Projects -> {None} \cup ProjectRow]
  /\ plans \in [Sessions -> {Idle} \cup Plans]
  /\ drifted \subseteq Projects

-----------------------------------------------------------------------------
(* The inductive invariant *)

(* A plan was worked out by the rules, whatever has changed since.          *)
MoveMade(plan) ==
  /\ plan.to # plan.from
  /\ plan.from = "closed_won" => plan.to = "negotiation"
  /\ plan.from = "closed_lost" => plan.to \in OPEN
  /\ Closes(plan.to) =>
       \E choice \in OnLoss :
         plan.change = company_effect_on_close(plan.found, plan.to, plan.open, plan.won, choice)
  /\ plan.act.name = "confirm" => plan.to = "closed_won"
  /\ plan.act.name \in {"create", "link"} =>
       plan.to \in PROJECT_STAGES /\ plan.from # "closed_won"
  /\ plan.act.link # None => plan.act.name \in {"link", "confirm"}
  /\ plan.act.name = "link" => plan.act.link # None

PlansMade == \A s \in Sessions : plans[s].op = "move" => MoveMade(plans[s])

(* What a plan is about is still there.                                     *)
PlansStand ==
  \A s \in Sessions :
    /\ plans[s].op \in {"move", "set_company", "set_probability", "trash"} =>
         deals[plans[s].deal] # None
    /\ plans[s].op \in {"project", "allocate"} => projects[plans[s].project] # None

(* A project is linked to a deal that exists and to no other's project, and *)
(* bears the trace of a deal only if it is linked.                          *)
Linked(p) == projects[p] # None /\ projects[p].deal # None

LinksApart ==
  /\ \A p \in Projects : Linked(p) => deals[projects[p].deal] # None
  /\ \A p, q \in Projects :
       Linked(p) /\ Linked(q) /\ projects[p].deal = projects[q].deal => p = q

NeverLinked ==
  \A p \in Projects : projects[p] # None /\ projects[p].deal = None =>
    ~projects[p].by_crm /\ projects[p].alloc # "released"

DealInv ==
  /\ DealsTypeOK /\ PlansMade /\ PlansStand /\ LinksApart /\ NeverLinked /\ ProjectFollowsDeal

-----------------------------------------------------------------------------
(* Lemmas about plans *)

(* A plan is still the same plan when rows it has read go stale.            *)
LEMMA Restaled ==
  ASSUME NEW plan \in Plans, NEW stale \in SUBSET Rows
  PROVE  LET new == [plan EXCEPT !.stale = stale] IN
         /\ new \in Plans /\ new.op = plan.op
         /\ plan.op = "move" => new.deal = plan.deal /\ (MoveMade(plan) => MoveMade(new))
         /\ plan.op \in {"set_company", "set_probability", "trash"} => new.deal = plan.deal
         /\ plan.op \in {"project", "allocate"} => new.project = plan.project
<1> DEFINE new == [plan EXCEPT !.stale = stale]
<1>1. CASE plan \in MovePlans
  <2>1. /\ new \in MovePlans /\ new.op = plan.op /\ new.deal = plan.deal
        /\ new.from = plan.from /\ new.to = plan.to /\ new.change = plan.change
        /\ new.found = plan.found /\ new.open = plan.open /\ new.won = plan.won
        /\ new.act = plan.act
    BY <1>1 DEF MovePlans
  <2>2. plan.op = "move"
    BY <1>1 DEF MovePlans
  <2> HIDE DEF new
  <2>3. MoveMade(plan) => MoveMade(new)
    BY <2>1 DEF MoveMade
  <2> QED BY <2>1, <2>2, <2>3 DEF Plans, new
<1>2. CASE plan \in CompanyPlans
  BY <1>2 DEF CompanyPlans, Plans
<1>3. CASE plan \in ProbabilityPlans \cup StagePlans \cup TrashPlans
  BY <1>3 DEF ProbabilityPlans, StagePlans, TrashPlans, Plans
<1>4. CASE plan \in ProjectPlans
  BY <1>4 DEF ProjectPlans, Plans
<1>5. CASE plan \in AllocationPlans
  BY <1>5 DEF AllocationPlans, Plans
<1> QED BY <1>1, <1>2, <1>3, <1>4, <1>5 DEF Plans

(* The kind of a plan, by its operation.                                    *)
LEMMA PlanOf ==
  ASSUME DealsTypeOK, NEW s \in Sessions
  PROVE  /\ plans[s].op = "move" => plans[s] \in MovePlans
         /\ plans[s].op \in {"create", "set_company"} => plans[s] \in CompanyPlans
         /\ plans[s].op = "set_probability" => plans[s] \in ProbabilityPlans
         /\ plans[s].op = "lead_stage" => plans[s] \in StagePlans
         /\ plans[s].op = "trash" => plans[s] \in TrashPlans
         /\ plans[s].op = "project" => plans[s] \in ProjectPlans
         /\ plans[s].op = "allocate" => plans[s] \in AllocationPlans
         /\ plans[s].op # "idle" => plans[s] \in Plans /\ plans[s] # Idle
<1>1. plans[s] = Idle \/ plans[s] \in Plans
  BY DEF DealsTypeOK
<1>2. CASE plans[s] = Idle
  BY <1>2 DEF Idle
<1>3. CASE plans[s] \in Plans
  BY <1>3 DEF Plans, MovePlans, CompanyPlans, ProbabilityPlans, StagePlans, TrashPlans,
              ProjectPlans, AllocationPlans, Idle
<1> QED BY <1>1, <1>2, <1>3

(* A request that has read changes nothing but its plan.                    *)
LEMMA BeginKeeps ==
  ASSUME DealInv, NEW s \in Sessions, NEW plan \in Plans, Begin(s, plan),
         plan.op = "move" => MoveMade(plan),
         plan.op \in {"move", "set_company", "set_probability", "trash"} =>
           deals[plan.deal] # None,
         plan.op \in {"project", "allocate"} => projects[plan.project] # None
  PROVE  DealInv'
<1>1. /\ plans' = [plans EXCEPT ![s] = plan]
      /\ UNCHANGED <<company_stage, deals, projects, drifted>>
  BY DEF Begin
<1>2. /\ plans' \in [Sessions -> {Idle} \cup Plans] /\ plans'[s] = plan
      /\ \A t \in Sessions \ {s} : plans'[t] = plans[t]
  BY <1>1 DEF DealInv, DealsTypeOK
<1>3. DealsTypeOK' /\ LinksApart' /\ NeverLinked' /\ ProjectFollowsDeal'
  BY <1>1, <1>2
  DEF DealInv, DealsTypeOK, LinksApart, NeverLinked, ProjectFollowsDeal, Linked
<1>4. PlansMade'
  BY <1>2 DEF DealInv, PlansMade
<1>5. PlansStand'
  BY <1>1, <1>2 DEF DealInv, PlansStand
<1> QED BY <1>3, <1>4, <1>5 DEF DealInv

(* A transaction leaves the plans of the others as they are, and no row     *)
(* is ever removed.                                                         *)
LEMMA CommitKeeps ==
  ASSUME DealInv, NEW s \in Sessions, NEW touched \in SUBSET Rows, Commit(s, touched),
         \A d \in DealIds : deals[d] # None => deals'[d] # None,
         \A p \in Projects : projects[p] # None => projects'[p] # None
  PROVE  plans' \in [Sessions -> {Idle} \cup Plans] /\ PlansMade' /\ PlansStand'
<1>1. plans' = [t \in Sessions |->
        IF t = s \/ plans[t] = Idle THEN Idle
        ELSE [plans[t] EXCEPT !.stale = @ \cup (touched \cap plans[t].compares)]]
  BY DEF Commit
<1>2. ASSUME NEW t \in Sessions
      PROVE  \/ plans'[t] = Idle
             \/ /\ plans[t] \in Plans
                /\ \E stale \in SUBSET Rows : plans'[t] = [plans[t] EXCEPT !.stale = stale]
  <2>1. CASE t = s \/ plans[t] = Idle
    BY <1>1, <2>1
  <2>2. CASE ~(t = s \/ plans[t] = Idle)
    <3>1. plans[t] \in Plans
      BY <2>2 DEF DealInv, DealsTypeOK
    <3>2. plans[t].stale \in SUBSET Rows
      BY <3>1 DEF Plans, MovePlans, CompanyPlans, ProbabilityPlans, StagePlans, TrashPlans,
                  ProjectPlans, AllocationPlans
    <3>3. plans'[t] = [plans[t] EXCEPT
                         !.stale = plans[t].stale \cup (touched \cap plans[t].compares)]
      BY <1>1, <2>2
    <3>4. plans[t].stale \cup (touched \cap plans[t].compares) \in SUBSET Rows
      BY <3>2
    <3> QED BY <3>1, <3>3, <3>4
  <2> QED BY <2>1, <2>2
<1>3. ASSUME NEW t \in Sessions
      PROVE  /\ plans'[t] \in {Idle} \cup Plans
             /\ plans'[t].op = "move" => MoveMade(plans'[t])
             /\ plans'[t].op \in {"move", "set_company", "set_probability", "trash"} =>
                  deals'[plans'[t].deal] # None
             /\ plans'[t].op \in {"project", "allocate"} => projects'[plans'[t].project] # None
  <2>1. CASE plans'[t] = Idle
    BY <2>1 DEF Idle
  <2>2. CASE plans'[t] # Idle
    <3>1. plans[t] \in Plans
      BY <1>2, <2>2
    <3>2. PICK stale \in SUBSET Rows : plans'[t] = [plans[t] EXCEPT !.stale = stale]
      BY <1>2, <2>2
    <3>3. /\ plans'[t] \in Plans /\ plans'[t].op = plans[t].op
          /\ plans[t].op = "move" =>
               plans'[t].deal = plans[t].deal /\ (MoveMade(plans[t]) => MoveMade(plans'[t]))
          /\ plans[t].op \in {"set_company", "set_probability", "trash"} =>
               plans'[t].deal = plans[t].deal
          /\ plans[t].op \in {"project", "allocate"} => plans'[t].project = plans[t].project
      BY <3>1, <3>2, Restaled
    <3>4. /\ plans[t].op = "move" => MoveMade(plans[t]) /\ plans[t].deal \in DealIds
          /\ plans[t].op \in {"set_company", "set_probability", "trash"} =>
               plans[t].deal \in DealIds
          /\ plans[t].op \in {"project", "allocate"} => plans[t].project \in Projects
      BY PlanOf
      DEF DealInv, PlansMade, MovePlans, CompanyPlans, ProbabilityPlans, TrashPlans,
                    ProjectPlans, AllocationPlans
    <3>5. /\ plans[t].op \in {"move", "set_company", "set_probability", "trash"} =>
               deals[plans[t].deal] # None
          /\ plans[t].op \in {"project", "allocate"} => projects[plans[t].project] # None
      BY DEF DealInv, PlansStand
    <3> QED BY <3>3, <3>4, <3>5
  <2> QED BY <2>1, <2>2
<1>4. plans' \in [Sessions -> {Idle} \cup Plans]
  BY <1>1, <1>3
<1> QED BY <1>3, <1>4 DEF PlansMade, PlansStand

-----------------------------------------------------------------------------
(* Lemmas about the rows *)

(* The columns of a deal that exists.                                       *)
LEMMA DealTyped ==
  ASSUME DealsTypeOK, NEW d \in DealIds, deals[d] # None
  PROVE  /\ deals[d] \in DealRow /\ deals[d].company \in Companies
         /\ deals[d].stage \in Stages /\ deals[d].lost_from \in OPEN \cup {None}
         /\ deals[d].prob \in 0 .. 100 /\ deals[d].task \in BOOLEAN /\ deals[d].trashed \in BOOLEAN
BY DEF DealsTypeOK, DealRow, Stages

(* The columns of a project that exists.                                    *)
LEMMA ProjectTyped ==
  ASSUME DealsTypeOK, NEW p \in Projects, projects[p] # None
  PROVE  /\ projects[p] \in ProjectRow /\ projects[p].deal \in DealIds \cup {None}
         /\ projects[p].tentative \in BOOLEAN /\ projects[p].archived \in BOOLEAN
         /\ projects[p].by_crm \in BOOLEAN /\ projects[p].prob \in 0 .. 100
         /\ projects[p].alloc \in {"none", "live", "released"}
BY DEF DealsTypeOK, ProjectRow

(* The stages of the pipeline are open or closed, and have a probability.   *)
LEMMA StagesApart ==
  /\ \A stage \in Stages : (stage \in OPEN) # (stage \in CLOSED)
  /\ \A stage \in Stages : default_probability(stage) \in 0 .. 100
  /\ None \notin LeadStages /\ OPEN \subseteq Stages /\ CLOSED \subseteq Stages
  /\ PROJECT_STAGES \subseteq OPEN
BY DealsAssumption DEF Stages, OPEN, CLOSED, PROJECT_STAGES, LeadStages, default_probability

(* A deal has finitely many siblings.                                       *)
LEMMA SiblingsCounted ==
  ASSUME NEW d, NEW stages
  PROVE  /\ Cardinality(Siblings(d, stages)) \in Nat
         /\ Cardinality(Siblings(d, stages)) = 0 <=> Siblings(d, stages) = {}
<1>1. Siblings(d, stages) \subseteq DealIds
  BY DEF Siblings, LiveDeals
<1>2. IsFiniteSet(Siblings(d, stages))
  BY <1>1, DealsAssumption, FS_Subset
<1> QED BY <1>2, FS_CardinalityType, FS_EmptySet

(* The project of a deal is the one that is linked to it, if any is.        *)
LEMMA ProjectOf ==
  ASSUME DealInv, NEW d \in DealIds
  PROVE  \/ /\ project_of(d) = None
            /\ \A p \in Projects : Linked(p) => projects[p].deal # d
         \/ /\ project_of(d) \in Projects /\ project_of(d) # None
            /\ Linked(project_of(d)) /\ projects[project_of(d)].deal = d
            /\ \A p \in Projects : Linked(p) /\ projects[p].deal = d => p = project_of(d)
<1>1. d # None /\ None \notin Projects
  BY DealsAssumption
<1>2. CASE \E p \in Projects : projects[p] # None /\ projects[p].deal = d
  <2>1. /\ project_of(d) \in Projects
        /\ projects[project_of(d)] # None /\ projects[project_of(d)].deal = d
    BY <1>2 DEF project_of
  <2> QED BY <1>1, <2>1 DEF Linked, DealInv, LinksApart
<1>3. CASE ~\E p \in Projects : projects[p] # None /\ projects[p].deal = d
  BY <1>3 DEF project_of, Linked
<1> QED BY <1>2, <1>3

(* One project is written: the links stay apart.                            *)
LEMMA ProjectPut ==
  ASSUME DealInv, NEW p \in Projects, NEW row \in ProjectRow,
         projects' = [projects EXCEPT ![p] = row],
         \A d \in DealIds : deals[d] # None => deals'[d] # None,
         row.deal = None => ~row.by_crm /\ row.alloc # "released",
         row.deal # None => /\ deals'[row.deal] # None
                            /\ \A q \in Projects \ {p} : Linked(q) => projects[q].deal # row.deal
  PROVE  /\ projects' \in [Projects -> {None} \cup ProjectRow]
         /\ projects'[p] = row /\ row # None
         /\ \A q \in Projects \ {p} : projects'[q] = projects[q]
         /\ LinksApart' /\ NeverLinked'
<1>1. /\ projects' \in [Projects -> {None} \cup ProjectRow]
      /\ projects'[p] = row /\ row # None
      /\ \A q \in Projects \ {p} : projects'[q] = projects[q]
  BY DealsAssumption DEF DealInv, DealsTypeOK
<1>2. \A q \in Projects : Linked(q) => projects[q].deal \in DealIds
  BY ProjectTyped DEF DealInv, Linked
<1>3. LinksApart'
  BY <1>1, <1>2 DEF DealInv, LinksApart, Linked
<1>4. NeverLinked'
  BY <1>1 DEF DealInv, NeverLinked
<1> QED BY <1>1, <1>3, <1>4

(* No project is written.                                                   *)
LEMMA ProjectsStay ==
  ASSUME DealInv, projects' = projects,
         \A d \in DealIds : deals[d] # None => deals'[d] # None
  PROVE  LinksApart' /\ NeverLinked' /\ projects' \in [Projects -> {None} \cup ProjectRow]
<1>1. \A q \in Projects : Linked(q) => projects[q].deal \in DealIds
  BY ProjectTyped DEF DealInv, Linked
<1> QED BY <1>1 DEF DealInv, DealsTypeOK, LinksApart, NeverLinked, Linked

(* A project whose deal keeps its stage and probability stays in step.      *)
LEMMA FollowsStill ==
  ASSUME DealInv, projects' = projects, drifted \subseteq drifted',
         \A p \in Projects \ drifted' : Linked(p) =>
           LET d == projects[p].deal IN
           /\ deals'[d].stage = deals[d].stage /\ deals'[d].prob = deals[d].prob
           /\ deals'[d].trashed => deals[d].trashed
  PROVE  ProjectFollowsDeal'
BY DEF DealInv, ProjectFollowsDeal, InStep, Linked

(* What a move may do to the deal's project, by the move.                   *)
LEMMA EffectShape ==
  ASSUME NEW d, NEW to, NEW prob, NEW act \in effect(d, to, prob)
  PROVE  LET p == project_of(d) IN
         \/ /\ to = "closed_won"
            /\ act = Act("confirm") \/ (p = None /\ act \in Adopting("confirm", TRUE))
         \/ /\ to # "closed_won" /\ deals[d].stage = "closed_won"
            /\ act = IF p = None THEN Act("nothing") ELSE Act("retentative")
         \/ /\ to = "closed_lost" /\ deals[d].stage # "closed_won"
            /\ act = IF p = None THEN Act("nothing") ELSE Act("archive_release")
         \/ /\ to \notin CLOSED /\ deals[d].stage = "closed_lost" /\ p # None
            /\ act = Act("unarchive_unrelease")
         \/ /\ to \in PROJECT_STAGES /\ deals[d].stage # "closed_won" /\ p = None
            /\ act = Act("create") \/ act \in Adopting("link", TRUE)
         \/ /\ to \notin CLOSED /\ deals[d].stage \notin CLOSED /\ Tentative(p)
            /\ act = Act("sync_probability")
         \/ /\ to \notin CLOSED /\ deals[d].stage # "closed_won"
            /\ p # None => /\ deals[d].stage # "closed_lost"
                           /\ ~(Tentative(p) /\ projects[p].prob # prob)
            /\ act = Act("nothing")
<1> PICK p : p = project_of(d)
  OBVIOUS
<1>1. act \in
        IF to = "closed_won"
        THEN {Act("confirm")} \cup (IF p = None THEN Adopting("confirm", TRUE) ELSE {})
        ELSE IF deals[d].stage = "closed_won"
        THEN {IF p = None THEN Act("nothing") ELSE Act("retentative")}
        ELSE IF to = "closed_lost"
        THEN {IF p = None THEN Act("nothing") ELSE Act("archive_release")}
        ELSE IF deals[d].stage = "closed_lost" /\ p # None THEN {Act("unarchive_unrelease")}
        ELSE IF p = None /\ to \in PROJECT_STAGES
        THEN {Act("create")} \cup Adopting("link", TRUE)
        ELSE IF Tentative(p) /\ projects[p].prob # prob THEN {Act("sync_probability")}
        ELSE {Act("nothing")}
  BY DEF effect
<1>2. to \in CLOSED <=> to = "closed_won" \/ to = "closed_lost"
  BY DEF CLOSED
<1>3. Tentative(p) => p # None
  BY DEF Tentative
<1>4. CASE to = "closed_won"
  <2>1. CASE p = None
    BY <1>1, <1>4, <2>1
  <2>2. CASE p # None
    <3>1. act \in {Act("confirm")}
      BY <1>1, <1>4, <2>2
    <3> QED BY <1>4, <3>1
  <2> QED BY <2>1, <2>2
<1>5. CASE to # "closed_won" /\ deals[d].stage = "closed_won"
  BY <1>1, <1>5
<1>6. CASE to = "closed_lost" /\ deals[d].stage # "closed_won"
  BY <1>1, <1>6
<1>7. CASE to \notin CLOSED /\ deals[d].stage # "closed_won"
  <2>1. CASE deals[d].stage = "closed_lost" /\ p # None
    BY <1>1, <1>2, <1>7, <2>1
  <2>2. CASE p = None /\ to \in PROJECT_STAGES
    BY <1>1, <1>2, <1>7, <2>2
  <2>3. CASE Tentative(p) /\ projects[p].prob # prob /\ deals[d].stage # "closed_lost"
    BY <1>1, <1>2, <1>3, <1>7, <2>3 DEF CLOSED
  <2>4. CASE /\ ~(Tentative(p) /\ projects[p].prob # prob)
             /\ ~(deals[d].stage = "closed_lost" /\ p # None)
             /\ ~(p = None /\ to \in PROJECT_STAGES)
    BY <1>1, <1>2, <1>3, <1>7, <2>4
  <2> QED BY <1>3, <2>1, <2>2, <2>3, <2>4
<1> QED BY <1>2, <1>4, <1>5, <1>6, <1>7

(* An action of a move is well formed, and fits the move.                   *)
LEMMA ActTyped ==
  ASSUME NEW d, NEW to, NEW prob, NEW act \in effect(d, to, prob)
  PROVE  /\ act \in Acts
         /\ act.name = "confirm" => to = "closed_won"
         /\ act.name \in {"create", "link"} =>
              to \in PROJECT_STAGES /\ deals[d].stage # "closed_won"
         /\ act.link # None => act.name \in {"link", "confirm"}
         /\ act.name = "link" => act.link # None
<1>1. \A name \in ActNames :
        Act(name) \in Acts /\ Act(name).name = name /\ Act(name).link = None
  BY DEF Act, Acts
<1>2. ASSUME NEW name \in ActNames, NEW a \in Adopting(name, TRUE)
      PROVE  a \in Acts /\ a.name = name /\ a.link # None
  <2>1. PICK p \in Projects : a = [name |-> name, link |-> p]
    BY DEF Adopting
  <2> QED BY <2>1, DealsAssumption DEF Acts
<1>3. \/ \E name \in ActNames \ {"create", "link", "confirm"} : act = Act(name)
      \/ to = "closed_won" /\ (act = Act("confirm") \/ act \in Adopting("confirm", TRUE))
      \/ /\ to \in PROJECT_STAGES /\ deals[d].stage # "closed_won"
         /\ act = Act("create") \/ act \in Adopting("link", TRUE)
  <2>1. /\ "nothing" \in ActNames \ {"create", "link", "confirm"}
        /\ "retentative" \in ActNames \ {"create", "link", "confirm"}
        /\ "archive_release" \in ActNames \ {"create", "link", "confirm"}
        /\ "unarchive_unrelease" \in ActNames \ {"create", "link", "confirm"}
        /\ "sync_probability" \in ActNames \ {"create", "link", "confirm"}
    BY DEF ActNames
  <2> QED BY <2>1, EffectShape
<1>4. CASE \E name \in ActNames \ {"create", "link", "confirm"} : act = Act(name)
  BY <1>1, <1>4
<1>5. CASE to = "closed_won" /\ (act = Act("confirm") \/ act \in Adopting("confirm", TRUE))
  BY <1>1, <1>2, <1>5 DEF ActNames
<1>6. CASE /\ to \in PROJECT_STAGES /\ deals[d].stage # "closed_won"
           /\ act = Act("create") \/ act \in Adopting("link", TRUE)
  BY <1>1, <1>2, <1>6 DEF ActNames
<1> QED BY <1>3, <1>4, <1>5, <1>6

-----------------------------------------------------------------------------
(* A request reads and plans *)

(* A request compares rows.                                                 *)
LEMMA ComparesRows ==
  ASSUME NEW rows \in SUBSET Rows, NEW stamped, NEW c \in Companies, NEW change
  PROVE  Compares(rows, stamped, c, change) \in SUBSET Rows
BY DEF Compares, Rows

(* A move is planned: deals._plan.                                          *)
LEMMA MovePlanned ==
  ASSUME DealInv, NEW s \in Sessions, NEW d \in LiveDeals, NEW to \in Targets,
         NEW choice \in OnLoss, NEW stamped,
         NEW act \in effect(d, to, default_probability(to)),
         PlanMove(s, d, to, choice, stamped, act)
  PROVE  DealInv'
<1> DEFINE c == deals[d].company
           change == CompanyEffect(d, to, choice)
           plan == [op |-> "move", deal |-> d, from |-> deals[d].stage, to |-> to,
                    company |-> c, found |-> company_stage[c], change |-> change, act |-> act,
                    open |-> Cardinality(Siblings(d, OPEN)),
                    won |-> Siblings(d, {"closed_won"}) # {},
                    closing |-> to = "closed_lost" /\ deals[d].task,
                    compares |-> Compares({d}, stamped, c, change), stale |-> {}]
<1>1. /\ may_move(deals[d], to) /\ change # "refused" /\ Begin(s, plan)
  BY DEF PlanMove
<1>2. /\ d \in DealIds /\ deals[d] # None /\ to \in Stages
      /\ c \in Companies /\ deals[d].stage \in Stages /\ deals[d].task \in BOOLEAN
  BY DealTyped, DealsAssumption DEF DealInv, LiveDeals, Live, Stages
<1>3. company_stage[c] \in LeadStages
  BY <1>2 DEF DealInv, DealsTypeOK
<1>4. change \in LeadStages \cup {None}
  BY <1>1, <1>3, DealsAssumption
  DEF CompanyEffect, company_effect_on_close, company_effect_on_reopen,
      company_effect_on_open,
      LeadStages, MANUAL_LEAD_STAGES, ON_DEALS
<1>5. act \in Acts /\ (act.name = "confirm" => to = "closed_won")
      /\ (act.name \in {"create", "link"} =>
            to \in PROJECT_STAGES /\ deals[d].stage # "closed_won")
      /\ (act.link # None => act.name \in {"link", "confirm"})
      /\ (act.name = "link" => act.link # None)
  BY ActTyped
<1>6. Compares({d}, stamped, c, change) \in SUBSET Rows
  BY <1>2, ComparesRows DEF Rows
<1>7. plan \in MovePlans
  BY <1>2, <1>3, <1>4, <1>5, <1>6, SiblingsCounted DEF MovePlans
<1>8. Closes(to) =>
        change = company_effect_on_close(company_stage[c], to, Cardinality(Siblings(d, OPEN)),
                                         Siblings(d, {"closed_won"}) # {}, choice)
  BY DEF CompanyEffect, Closes
<1>9. MoveMade(plan)
  <2>1. /\ to # deals[d].stage
        /\ deals[d].stage = "closed_won" => to = "negotiation"
        /\ deals[d].stage = "closed_lost" => to \in OPEN
    BY <1>1 DEF may_move
  <2> HIDE DEF change, c
  <2> QED BY <1>5, <1>8, <2>1 DEF MoveMade
<1>10. plan \in Plans /\ plan.op = "move" /\ plan.deal = d
  BY <1>7 DEF Plans
<1> HIDE DEF plan
<1> QED BY <1>1, <1>2, <1>9, <1>10, BeginKeeps

(* Any other request is planned.                                            *)
LEMMA OthersPlanned ==
  ASSUME DealInv, NEW s \in Sessions,
         \/ \E d \in LiveDeals, stamped \in Stamping :
              \/ \E c \in Companies : PlanMoveTo(s, d, c, stamped)
              \/ \E prob \in Edits : PlanProbability(s, d, prob, stamped)
              \/ PlanTrash(s, d)
         \/ \E d \in DealIds, c \in Companies : PlanCreate(s, d, c)
         \/ \E c \in Companies, stage \in HandStages, stamped \in Stamping :
              PlanLeadStage(s, c, stage, stamped)
         \/ \E p \in Projects :
              \/ \E field \in {"archived", "tentative", "prob"} :
                   \E value \in Values(projects[p], field) : PlanProject(s, p, field, value)
              \/ PlanAllocation(s, p)
  PROVE  DealInv'
<1>1. \A c \in Companies : /\ company_stage[c] \in LeadStages
                           /\ \/ company_effect_on_open(company_stage[c]) \in LeadStages \cup {None}
                              \/ company_effect_on_open(company_stage[c]) = "refused"
  BY DEF DealInv, DealsTypeOK, company_effect_on_open, LeadStages, ON_DEALS
<1>2. ASSUME NEW d \in LiveDeals, NEW c \in Companies, NEW stamped, PlanMoveTo(s, d, c, stamped)
      PROVE  DealInv'
  <2>1. PICK change : /\ change \in LeadStages \cup {None}
                      /\ Begin(s, [op |-> "set_company", deal |-> d, company |-> c,
                                   change |-> change,
                                   compares |-> Compares({d}, stamped, c, change), stale |-> {}])
    BY <1>1, <1>2 DEF PlanMoveTo
  <2>2. d \in DealIds /\ deals[d] # None /\ Compares({d}, stamped, c, change) \in SUBSET Rows
    BY ComparesRows DEF LiveDeals, Live, Rows
  <2>3. [op |-> "set_company", deal |-> d, company |-> c, change |-> change,
         compares |-> Compares({d}, stamped, c, change), stale |-> {}] \in CompanyPlans
    BY <2>1, <2>2 DEF CompanyPlans
  <2> QED BY <2>1, <2>2, <2>3, BeginKeeps DEF Plans
<1>3. ASSUME NEW d \in LiveDeals, NEW prob \in Edits, NEW stamped,
             PlanProbability(s, d, prob, stamped)
      PROVE  DealInv'
  <2>1. PICK synced \in BOOLEAN, compares \in SUBSET Rows :
          Begin(s, [op |-> "set_probability", deal |-> d, prob |-> prob, synced |-> synced,
                    compares |-> compares, stale |-> {}])
    <3>1. Compares({d}, stamped, None, None) \in SUBSET Rows
      BY DEF Compares, Rows, LiveDeals
    <3>2. Tentative(project_of(d)) \in BOOLEAN
      <4>1. d \in DealIds
        BY DEF LiveDeals
      <4> QED BY <4>1, ProjectOf, ProjectTyped DEF Tentative, DealInv, Linked
    <3> QED BY <1>3, <3>1, <3>2 DEF PlanProbability
  <2>2. d \in DealIds /\ deals[d] # None /\ prob \in 0 .. 100
    BY DealsAssumption DEF LiveDeals, Live
  <2>3. [op |-> "set_probability", deal |-> d, prob |-> prob, synced |-> synced,
         compares |-> compares, stale |-> {}] \in ProbabilityPlans
    BY <2>1, <2>2 DEF ProbabilityPlans
  <2> QED BY <2>1, <2>2, <2>3, BeginKeeps DEF Plans
<1>4. ASSUME NEW d \in LiveDeals, PlanTrash(s, d) PROVE DealInv'
  <2>1. Begin(s, [op |-> "trash", deal |-> d, compares |-> {}, stale |-> {}])
    BY <1>4 DEF PlanTrash
  <2>2. d \in DealIds /\ deals[d] # None
    BY DEF LiveDeals, Live
  <2>3. [op |-> "trash", deal |-> d, compares |-> {}, stale |-> {}] \in TrashPlans
    BY <2>2 DEF TrashPlans
  <2> QED BY <2>1, <2>2, <2>3, BeginKeeps DEF Plans
<1>5. ASSUME NEW d \in DealIds, NEW c \in Companies, PlanCreate(s, d, c) PROVE DealInv'
  <2>1. PICK change \in LeadStages \cup {None} :
          Begin(s, [op |-> "create", deal |-> d, company |-> c, change |-> change,
                    compares |-> Compares({}, FALSE, c, change), stale |-> {}])
    BY <1>1, <1>5 DEF PlanCreate
  <2>2. Compares({}, FALSE, c, change) \in SUBSET Rows
    BY ComparesRows
  <2>3. [op |-> "create", deal |-> d, company |-> c, change |-> change,
         compares |-> Compares({}, FALSE, c, change), stale |-> {}] \in CompanyPlans
    BY <2>1, <2>2 DEF CompanyPlans
  <2> QED BY <2>1, <2>3, BeginKeeps DEF Plans
<1>6. ASSUME NEW c \in Companies, NEW stage \in HandStages, NEW stamped,
             PlanLeadStage(s, c, stage, stamped)
      PROVE  DealInv'
  <2>1. PICK compares \in SUBSET Rows :
          Begin(s, [op |-> "lead_stage", company |-> c, stage |-> stage,
                    compares |-> compares, stale |-> {}])
    BY <1>6 DEF PlanLeadStage, Compares, Rows
  <2>2. [op |-> "lead_stage", company |-> c, stage |-> stage,
         compares |-> compares, stale |-> {}] \in StagePlans
    BY <2>1, DealsAssumption DEF StagePlans, LeadStages
  <2> QED BY <2>1, <2>2, BeginKeeps DEF Plans
<1>7. ASSUME NEW p \in Projects, NEW field \in {"archived", "tentative", "prob"},
             NEW value \in Values(projects[p], field), PlanProject(s, p, field, value)
      PROVE  DealInv'
  <2>1. /\ projects[p] # None
        /\ Begin(s, [op |-> "project", project |-> p, field |-> field, value |-> value,
                     compares |-> {}, stale |-> {}])
    BY <1>7 DEF PlanProject
  <2>2. IF field = "prob" THEN value \in 0 .. 100 ELSE value \in BOOLEAN
    BY <2>1, ProjectTyped, DealsAssumption DEF DealInv, Values
  <2>3. [op |-> "project", project |-> p, field |-> field, value |-> value,
         compares |-> {}, stale |-> {}] \in ProjectPlans
    BY <2>2 DEF ProjectPlans
  <2> QED BY <2>1, <2>3, BeginKeeps DEF Plans
<1>8. ASSUME NEW p \in Projects, PlanAllocation(s, p) PROVE DealInv'
  <2>1. /\ projects[p] # None
        /\ Begin(s, [op |-> "allocate", project |-> p, compares |-> {}, stale |-> {}])
    BY <1>8 DEF PlanAllocation
  <2>2. [op |-> "allocate", project |-> p, compares |-> {}, stale |-> {}] \in AllocationPlans
    BY DEF AllocationPlans
  <2> QED BY <2>1, <2>2, BeginKeeps DEF Plans
<1> QED BY <1>2, <1>3, <1>4, <1>5, <1>6, <1>7, <1>8

-----------------------------------------------------------------------------
(* The row of a project that a deal's move writes *)

(* The row an action writes: a new one, one it adopts, or the deal's own.   *)
LEMMA TvaTargetIs ==
  ASSUME DealInv, NEW d \in DealIds, NEW act \in Acts, TvaMay(act, d),
         act.link # None => act.name \in {"link", "confirm"},
         act.name = "link" => act.link # None
  PROVE  LET p == TvaTarget(act, d) IN
         \/ /\ p = None
            /\ act.name \in {"nothing", "create"} \/ project_of(d) = None
         \/ /\ p \in Projects /\ projects[p] = None /\ project_of(d) = None
            /\ act.name \in {"create", "confirm"}
         \/ /\ p \in Projects /\ project_of(d) = None /\ is_linkable(p, TRUE)
            /\ act.name \in {"link", "confirm"}
         \/ /\ p \in Projects /\ p = project_of(d)
            /\ act.name \in ActNames \ {"nothing", "create", "link"}
<1> PICK q : q = project_of(d)
  OBVIOUS
<1>1. q = None \/ q \in Projects
  BY ProjectOf
<1>2. act.name \in ActNames /\ act.link \in Projects \cup {None} /\ None \notin Projects
  BY DealsAssumption DEF Acts
<1>3. CASE act.name = "nothing"
  BY <1>3 DEF TvaTarget
<1>4. CASE act.name # "nothing" /\ act.link # None
  <2>1. TvaTarget(act, d) = act.link
    BY <1>4 DEF TvaTarget
  <2> QED BY <1>2, <1>4, <2>1 DEF TvaMay
<1>5. CASE act.name # "nothing" /\ act.link = None /\ q # None
  <2>1. TvaTarget(act, d) = IF act.name = "create" THEN None ELSE q
    BY <1>5 DEF TvaTarget
  <2> QED BY <1>1, <1>2, <1>5, <2>1 DEF ActNames
<1>6. CASE act.name \in {"create", "confirm"} /\ act.link = None /\ q = None
  <2>1. TvaTarget(act, d) = CHOOSE p \in Projects : projects[p] = None
    BY <1>6 DEF TvaTarget
  <2>2. \E p \in Projects : projects[p] = None
    BY <1>6 DEF TvaMay
  <2> QED BY <1>6, <2>1, <2>2
<1>7. CASE act.name \notin {"nothing", "create", "confirm"} /\ act.link = None /\ q = None
  BY <1>7 DEF TvaTarget
<1> QED BY <1>3, <1>4, <1>5, <1>6, <1>7

(* What becomes of a row by the action, and of its archive flags.           *)
Becomes(row, new, name, d, prob) ==
  /\ new \in ProjectRow
  /\ new.deal = IF name \in {"create", "link", "confirm"} THEN d ELSE row.deal
  /\ name = "confirm" => ~new.tentative
  /\ name = "retentative" => new.tentative
  /\ name \notin {"confirm", "retentative"} => new.tentative = row.tentative
  /\ name \in {"create", "link", "confirm", "retentative"} => new.prob = prob
  /\ name \in {"sync_probability", "unarchive_unrelease"} =>
       new.prob = IF row.tentative THEN prob ELSE row.prob
  /\ name \notin {"archive_release", "unarchive_unrelease"} =>
       new.archived = row.archived /\ new.by_crm = row.by_crm /\ new.alloc = row.alloc
  /\ name = "archive_release" => new.archived /\ new.alloc # "live"
  /\ name = "unarchive_unrelease" =>
       /\ new.archived = (row.archived /\ ~row.by_crm)
       /\ ~new.by_crm /\ new.alloc # "released"

(* The rows of crm_tva_apply are what Becomes says.                         *)
LEMMA TvaRowTyped ==
  ASSUME NEW row \in ProjectRow, NEW act \in Acts, act.name # "nothing",
         NEW d \in DealIds, NEW prob \in 0 .. 100
  PROVE  Becomes(row, TvaRow(row, act, d, prob), act.name, d, prob)
<1> PICK name \in ActNames : name = act.name
  BY DEF Acts
<1> PICK new : new = TvaRow(row, act, d, prob)
  OBVIOUS
<1> SUFFICES Becomes(row, new, name, d, prob)
  OBVIOUS
<1>1. CASE name \in {"create", "link"}
  <2>1. new = [row EXCEPT !.deal = d, !.prob = prob]
    BY <1>1 DEF TvaRow
  <2> QED BY <1>1, <2>1 DEF Becomes, ProjectRow
<1>2. CASE name = "confirm"
  <2>1. new = [row EXCEPT !.deal = d, !.tentative = FALSE, !.prob = prob]
    BY <1>2 DEF TvaRow
  <2> QED BY <1>2, <2>1 DEF Becomes, ProjectRow
<1>3. CASE name = "retentative"
  <2>1. new = [row EXCEPT !.tentative = TRUE, !.prob = prob]
    BY <1>3 DEF TvaRow
  <2> QED BY <1>3, <2>1 DEF Becomes, ProjectRow
<1>4. CASE name = "sync_probability"
  <2>1. new = [row EXCEPT !.prob = IF row.tentative THEN prob ELSE row.prob]
    BY <1>4 DEF TvaRow
  <2> QED BY <1>4, <2>1 DEF Becomes, ProjectRow
<1>5. CASE name = "archive_release"
  <2>1. new = archive_release(row, prob)
    BY <1>5 DEF TvaRow
  <2> QED BY <1>5, <2>1 DEF archive_release, Released, Becomes, ProjectRow
<1>6. CASE name = "unarchive_unrelease"
  <2>1. new = unarchive_unrelease(row, prob)
    BY <1>6 DEF TvaRow
  <2> QED BY <1>6, <2>1 DEF unarchive_unrelease, Restored, Becomes, ProjectRow
<1> QED BY <1>1, <1>2, <1>3, <1>4, <1>5, <1>6 DEF ActNames

(* A project as it is created.                                              *)
LEMMA UnlinkedTyped ==
  Unlinked(TRUE, FALSE) \in ProjectRow /\ Unlinked(TRUE, FALSE).deal = None
  /\ Unlinked(TRUE, FALSE).tentative = TRUE /\ Unlinked(TRUE, FALSE).archived = FALSE
  /\ Unlinked(TRUE, FALSE).by_crm = FALSE /\ Unlinked(TRUE, FALSE).alloc = "none"
BY DEF Unlinked, ProjectRow

-----------------------------------------------------------------------------
(* A move is carried out *)

(* What the transaction of a move has tested and written, conjunct by conjunct. *)
LEMMA MoveDone ==
  ASSUME DealInv, NEW s \in Sessions, crm_deal_transition(s)
  PROVE  LET plan == plans[s]
             d == plan.deal
         IN
         /\ plan \in MovePlans /\ MoveMade(plan) /\ plan.stale = {}
         /\ plan.change # None => deals[d].company = plan.company
         /\ SiblingsAsPlanned(plan) /\ TasksAsPlanned(plan) /\ TvaMay(plan.act, d)
         /\ d \in DealIds /\ deals[d] # None /\ ~deals[d].trashed /\ deals[d].stage = plan.from
         /\ deals' \in [DealIds -> {None} \cup DealRow]
         /\ \A x \in DealIds \ {d} : deals'[x] = deals[x]
         /\ deals'[d] # None /\ deals'[d].stage = plan.to
         /\ deals'[d].prob = default_probability(plan.to)
         /\ deals'[d].task = (deals[d].task /\ ~plan.closing)
         /\ deals'[d].company = deals[d].company /\ deals'[d].trashed = FALSE
         /\ company_stage' = WithChange(plan.company, plan.change)
         /\ projects' = TvaAfter(plan.act, d, default_probability(plan.to))
         /\ drifted' = drifted \cup
              (IF plan.act.name = "confirm"
                    \/ plan.act \in effect(d, plan.to, default_probability(plan.to))
               THEN {} ELSE {project_of(d)} \ {None})
         /\ Commit(s, {d} \cup Changed(plan.company, plan.change))
<1> PICK plan : plan = plans[s]
  OBVIOUS
<1> PICK d : d = plan.deal
  OBVIOUS
<1>1. /\ plan.op = "move" /\ Live(d) /\ deals[d].stage = plan.from /\ plan.stale = {}
      /\ plan.change # None => deals[d].company = plan.company
      /\ SiblingsAsPlanned(plan) /\ TasksAsPlanned(plan) /\ TvaMay(plan.act, d)
      /\ company_stage' = WithChange(plan.company, plan.change)
      /\ projects' = TvaAfter(plan.act, d, default_probability(plan.to))
      /\ drifted' = drifted \cup
           (IF plan.act.name = "confirm"
                 \/ plan.act \in effect(d, plan.to, default_probability(plan.to))
            THEN {} ELSE {project_of(d)} \ {None})
      /\ Commit(s, {d} \cup Changed(plan.company, plan.change))
  BY DEF crm_deal_transition
<1>12. deals' = [deals EXCEPT ![d] =
          [deals[d] EXCEPT !.stage = plan.to, !.prob = default_probability(plan.to),
                           !.task = deals[d].task /\ ~plan.closing,
                           !.lost_from = IF plan.to = "closed_lost" THEN plan.from ELSE None]]
  BY DEF crm_deal_transition
<1>2. plan \in MovePlans /\ MoveMade(plan)
  BY <1>1, PlanOf DEF DealInv, PlansMade
<1>3. /\ d \in DealIds /\ plan.to \in Stages /\ plan.from \in Stages /\ plan.closing \in BOOLEAN
      /\ default_probability(plan.to) \in 0 .. 100
  BY <1>2, StagesApart DEF MovePlans
<1>4. deals[d] \in DealRow /\ deals[d] # None /\ deals[d].trashed = FALSE
  BY <1>1, <1>3, DealTyped DEF DealInv, Live
<1>5. (IF plan.to = "closed_lost" THEN plan.from ELSE None) \in OPEN \cup {None}
  BY <1>2, <1>3 DEF MoveMade, Stages, CLOSED
<1>6. PICK task \in BOOLEAN : task = (deals[d].task /\ ~plan.closing)
  BY <1>3, <1>4 DEF DealRow
<1>7. PICK lost_from \in OPEN \cup {None} :
        lost_from = IF plan.to = "closed_lost" THEN plan.from ELSE None
  BY <1>5
<1>8. PICK new : new = [deals[d] EXCEPT !.stage = plan.to, !.prob = default_probability(plan.to),
                                        !.task = task, !.lost_from = lost_from]
  OBVIOUS
<1>9. /\ new \in DealRow /\ deals' = [deals EXCEPT ![d] = new]
      /\ new.stage = plan.to /\ new.prob = default_probability(plan.to)
      /\ new.task = (deals[d].task /\ ~plan.closing) /\ new.company = deals[d].company
      /\ new.trashed = deals[d].trashed
  <2>1. new \in DealRow
    <3>1. ASSUME NEW row \in DealRow, NEW stage \in Stages, NEW prob \in 0 .. 100,
                 NEW t \in BOOLEAN, NEW from \in OPEN \cup {None}
          PROVE  [row EXCEPT !.stage = stage, !.prob = prob, !.task = t, !.lost_from = from]
                   \in DealRow
      BY DEF DealRow, Stages
    <3> QED BY <1>3, <1>4, <1>8, <3>1, Zenon
  <2>2. deals' = [deals EXCEPT ![d] = new]
    BY <1>12, <1>6, <1>7, <1>8
  <2>3. /\ new.stage = plan.to /\ new.prob = default_probability(plan.to)
        /\ new.task = task /\ new.company = deals[d].company
        /\ new.trashed = deals[d].trashed
    BY <1>4, <1>8 DEF DealRow
  <2> QED BY <1>6, <2>1, <2>2, <2>3
<1>10. /\ deals' \in [DealIds -> {None} \cup DealRow] /\ deals'[d] = new
       /\ \A x \in DealIds \ {d} : deals'[x] = deals[x]
  BY <1>3, <1>9 DEF DealInv, DealsTypeOK
<1>11. new # None
  BY <1>9, DealsAssumption
<1> QED BY <1>1, <1>2, <1>3, <1>4, <1>9, <1>10, <1>11

(* The deal's project after the move: written as the row of one action, or  *)
(* left alone.                                                              *)
LEMMA MoveWrites ==
  ASSUME DealInv, NEW s \in Sessions, crm_deal_transition(s)
  PROVE  LET act == plans[s].act
             d == plans[s].deal
             prob == default_probability(plans[s].to)
         IN
         \/ /\ projects' = projects
            /\ act.name \in {"nothing", "create"} \/ project_of(d) = None
         \/ \E p \in Projects :
              /\ projects' = [projects EXCEPT ![p] =
                   TvaRow(IF projects[p] = None THEN Unlinked(TRUE, FALSE) ELSE projects[p],
                          act, d, prob)]
              /\ \/ /\ projects[p] = None /\ project_of(d) = None
                    /\ act.name \in {"create", "confirm"}
                 \/ /\ project_of(d) = None /\ is_linkable(p, TRUE)
                    /\ act.name \in {"link", "confirm"}
                 \/ /\ p = project_of(d) /\ act.name \in ActNames \ {"nothing", "create", "link"}
<1> PICK act : act = plans[s].act
  OBVIOUS
<1> PICK d : d = plans[s].deal
  OBVIOUS
<1> PICK p : p = TvaTarget(act, d)
  OBVIOUS
<1>1. /\ act \in Acts /\ d \in DealIds /\ TvaMay(act, d)
      /\ act.link # None => act.name \in {"link", "confirm"}
      /\ act.name = "link" => act.link # None
      /\ projects' = TvaAfter(act, d, default_probability(plans[s].to))
  BY MoveDone DEF MovePlans, MoveMade
<1>2. CASE p = None
  <2>1. projects' = projects
    BY <1>1, <1>2 DEF TvaAfter
  <2> QED BY <1>1, <1>2, <2>1, TvaTargetIs, DealsAssumption
<1>3. CASE p # None
  <2>1. projects' = [projects EXCEPT ![p] =
          TvaRow(IF projects[p] = None THEN Unlinked(TRUE, FALSE) ELSE projects[p],
                 act, d, default_probability(plans[s].to))]
    BY <1>1, <1>3 DEF TvaAfter
  <2> QED BY <1>1, <1>3, <2>1, TvaTargetIs
<1> QED BY <1>2, <1>3

(* What a move may do to the deal's project, by the name of its action.     *)
LEMMA EffectNamed ==
  ASSUME NEW d, NEW to, NEW prob, NEW act \in effect(d, to, prob)
  PROVE  LET p == project_of(d) IN
         \/ to = "closed_won" /\ act.name = "confirm"
         \/ /\ to # "closed_won" /\ deals[d].stage = "closed_won"
            /\ act.name = IF p = None THEN "nothing" ELSE "retentative"
         \/ /\ to = "closed_lost" /\ deals[d].stage # "closed_won"
            /\ act.name = IF p = None THEN "nothing" ELSE "archive_release"
         \/ /\ to \notin CLOSED /\ deals[d].stage = "closed_lost" /\ p # None
            /\ act.name = "unarchive_unrelease"
         \/ p = None /\ act.name \in {"create", "link"}
         \/ /\ to \notin CLOSED /\ deals[d].stage \notin CLOSED
            /\ act.name = "sync_probability"
         \/ /\ to \notin CLOSED /\ deals[d].stage # "closed_won"
            /\ p # None => /\ deals[d].stage # "closed_lost"
                           /\ ~(Tentative(p) /\ projects[p].prob # prob)
            /\ act.name = "nothing"
<1>1. /\ Act("confirm").name = "confirm" /\ Act("nothing").name = "nothing"
      /\ Act("retentative").name = "retentative" /\ Act("create").name = "create"
      /\ Act("archive_release").name = "archive_release"
      /\ Act("unarchive_unrelease").name = "unarchive_unrelease"
      /\ Act("sync_probability").name = "sync_probability"
  BY DEF Act
<1>2. ASSUME NEW name, NEW a \in Adopting(name, TRUE) PROVE a.name = name
  <2>1. PICK p \in Projects : a = [name |-> name, link |-> p]
    BY DEF Adopting
  <2> QED BY <2>1
<1>3. act \in Adopting("confirm", TRUE) => act.name = "confirm"
  BY <1>2
<1>4. act \in Adopting("link", TRUE) => act.name = "link"
  BY <1>2
<1>5. CASE project_of(d) = None
  <2>1. \/ /\ to = "closed_won"
           /\ act = Act("confirm") \/ act \in Adopting("confirm", TRUE)
        \/ to # "closed_won" /\ deals[d].stage = "closed_won" /\ act = Act("nothing")
        \/ to = "closed_lost" /\ deals[d].stage # "closed_won" /\ act = Act("nothing")
        \/ act = Act("create") \/ act \in Adopting("link", TRUE)
        \/ to \notin CLOSED /\ deals[d].stage # "closed_won" /\ act = Act("nothing")
    BY <1>5, EffectShape DEF Tentative
  <2> QED BY <1>1, <1>3, <1>4, <1>5, <2>1
<1>6. CASE project_of(d) # None
  <2> PICK p : p = project_of(d)
    OBVIOUS
  <2>1. act \in
          IF to = "closed_won" THEN {Act("confirm")}
          ELSE IF deals[d].stage = "closed_won" THEN {Act("retentative")}
          ELSE IF to = "closed_lost" THEN {Act("archive_release")}
          ELSE IF deals[d].stage = "closed_lost" THEN {Act("unarchive_unrelease")}
          ELSE IF Tentative(p) /\ projects[p].prob # prob THEN {Act("sync_probability")}
          ELSE {Act("nothing")}
    <3>1. p # None
      BY <1>6
    <3>2. act \in
            IF to = "closed_won"
            THEN {Act("confirm")} \cup (IF p = None THEN Adopting("confirm", TRUE) ELSE {})
            ELSE IF deals[d].stage = "closed_won"
            THEN {IF p = None THEN Act("nothing") ELSE Act("retentative")}
            ELSE IF to = "closed_lost"
            THEN {IF p = None THEN Act("nothing") ELSE Act("archive_release")}
            ELSE IF deals[d].stage = "closed_lost" /\ p # None THEN {Act("unarchive_unrelease")}
            ELSE IF p = None /\ to \in PROJECT_STAGES
            THEN {Act("create")} \cup Adopting("link", TRUE)
            ELSE IF Tentative(p) /\ projects[p].prob # prob THEN {Act("sync_probability")}
            ELSE {Act("nothing")}
      BY DEF effect
    <3> QED BY <3>1, <3>2
  <2>2. to \in CLOSED <=> to = "closed_won" \/ to = "closed_lost"
    BY DEF CLOSED
  <2>3. deals[d].stage \in CLOSED <=>
          deals[d].stage = "closed_won" \/ deals[d].stage = "closed_lost"
    BY DEF CLOSED
  <2> QED BY <1>1, <1>6, <2>1, <2>2, <2>3
<1> QED BY <1>5, <1>6

(* A project that the move adopts, or creates, is in step with the deal.    *)
LEMMA AdoptedInStep ==
  ASSUME NEW row \in ProjectRow, row.tentative, ~row.by_crm, row.alloc # "released",
         NEW act \in Acts, act.name \in {"create", "link", "confirm"},
         NEW d \in DealIds, NEW to, NEW deal,
         deal.stage = to, deal.prob = default_probability(to), ~deal.trashed,
         default_probability(to) \in 0 .. 100,
         act.name = "confirm" => to = "closed_won",
         act.name \in {"create", "link"} => to \in PROJECT_STAGES
  PROVE  InStep(TvaRow(row, act, d, default_probability(to)), deal)
<1> PICK new : new = TvaRow(row, act, d, default_probability(to))
  OBVIOUS
<1>1. act.name # "nothing"
  OBVIOUS
<1>5. Becomes(row, new, act.name, d, default_probability(to))
  BY <1>1, TvaRowTyped
<1>2. /\ act.name = "confirm" => ~new.tentative
      /\ act.name # "confirm" => new.tentative = row.tentative
      /\ new.prob = default_probability(to)
      /\ new.by_crm = row.by_crm /\ new.alloc = row.alloc
  BY <1>5 DEF Becomes
<1>3. CASE act.name = "confirm"
  BY <1>2, <1>3 DEF InStep, OPEN
<1>4. CASE act.name \in {"create", "link"}
  <2>1. to \in OPEN /\ to \notin {"closed_won", "closed_lost"}
    BY <1>4 DEF PROJECT_STAGES, OPEN
  <2>2. new.tentative
    BY <1>2, <1>4
  <2> QED BY <1>2, <2>1, <2>2 DEF InStep
<1> QED BY <1>3, <1>4

(* A project that is in step with its deal stays so, if the action is the   *)
(* one the move calls for.                                                  *)
LEMMA OwnInStep ==
  ASSUME DealInv, NEW d \in DealIds, deals[d] # None, NEW p \in Projects, p = project_of(d),
         projects[p] # None, InStep(projects[p], deals[d]),
         NEW act \in Acts, act.name \in ActNames \ {"nothing", "create", "link"},
         NEW to \in Stages, to # deals[d].stage, NEW deal,
         deals[d].stage = "closed_won" => to = "negotiation",
         deals[d].stage = "closed_lost" => to \in OPEN,
         deal.stage = to, deal.prob = default_probability(to), ~deal.trashed,
         act.name = "confirm" => to = "closed_won",
         act.name = "confirm" \/ act \in effect(d, to, default_probability(to))
  PROVE  InStep(TvaRow(projects[p], act, d, default_probability(to)), deal)
<1> DEFINE row == projects[p]
           prob == default_probability(to)
           new == TvaRow(row, act, d, prob)
<1>1. p # None /\ row \in ProjectRow /\ prob \in 0 .. 100
  BY ProjectTyped, StagesApart, DealsAssumption DEF DealInv
<1>2. deals[d].stage \in Stages
  BY DealTyped DEF DealInv
<1>3. \/ to = "closed_won" /\ act.name = "confirm"
      \/ /\ deals[d].stage = "closed_won" /\ to \in OPEN /\ act.name = "retentative"
      \/ /\ deals[d].stage \in OPEN /\ to = "closed_lost" /\ act.name = "archive_release"
      \/ /\ deals[d].stage = "closed_lost" /\ to \in OPEN /\ act.name = "unarchive_unrelease"
      \/ /\ deals[d].stage \in OPEN /\ to \in OPEN /\ act.name = "sync_probability"
  <2>1. CASE act.name = "confirm"
    BY <2>1
  <2>2. CASE act.name # "confirm"
    <3>1. act \in effect(d, to, prob)
      BY <2>2
    <3>2. p # None
      BY <1>1
    <3>3. \/ to # "closed_won" /\ deals[d].stage = "closed_won" /\ act.name = "retentative"
          \/ to = "closed_lost" /\ deals[d].stage # "closed_won" /\ act.name = "archive_release"
          \/ to \notin CLOSED /\ deals[d].stage = "closed_lost" /\ act.name = "unarchive_unrelease"
          \/ to \notin CLOSED /\ deals[d].stage \notin CLOSED /\ act.name = "sync_probability"
      BY <2>2, <3>1, <3>2, EffectNamed DEF CLOSED
    <3> QED BY <1>2, <3>3 DEF Stages, OPEN, CLOSED
  <2> QED BY <2>1, <2>2
<1>4. deals[d].stage \in OPEN => row.tentative /\ ~row.by_crm /\ row.alloc # "released"
  BY DEF InStep
<1>5. deals[d].stage = "closed_lost" => row.tentative /\ row.archived /\ row.alloc # "live"
  BY DEF InStep
<1>6. deals[d].stage = "closed_won" => ~row.tentative /\ ~row.by_crm /\ row.alloc # "released"
  BY DEF InStep
<1> HIDE DEF row, prob
<1> SUFFICES InStep(new, deal)
  BY DEF row, prob
<1>7. /\ act.name = "confirm" => ~new.tentative
      /\ act.name = "retentative" => new.tentative
      /\ act.name \notin {"confirm", "retentative"} => new.tentative = row.tentative
      /\ act.name \in {"confirm", "retentative"} =>
           new.prob = prob /\ new.by_crm = row.by_crm /\ new.alloc = row.alloc
      /\ act.name = "sync_probability" =>
           /\ new.prob = IF row.tentative THEN prob ELSE row.prob
           /\ new.by_crm = row.by_crm /\ new.alloc = row.alloc
      /\ act.name = "archive_release" => new.archived /\ new.alloc # "live"
      /\ act.name = "unarchive_unrelease" =>
           /\ new.prob = IF row.tentative THEN prob ELSE row.prob
           /\ ~new.by_crm /\ new.alloc # "released"
  <2>1. act.name # "nothing"
    OBVIOUS
  <2>2. Becomes(row, new, act.name, d, prob)
    BY <1>1, <2>1, TvaRowTyped
  <2> HIDE DEF new
  <2> QED BY <2>2 DEF Becomes
<1> HIDE DEF new
<1>8. deal.prob = prob
  BY DEF prob
<1>9. CASE to = "closed_won" /\ act.name = "confirm"
  <2>1. deals[d].stage \in OPEN /\ to \notin OPEN
    BY <1>2, <1>9 DEF Stages, OPEN, CLOSED
  <2> QED BY <1>4, <1>7, <1>9, <2>1 DEF InStep
<1>10. CASE to = "closed_lost" /\ deals[d].stage \in OPEN /\ act.name = "archive_release"
  <2>1. to \notin OPEN
    BY <1>10 DEF OPEN
  <2> QED BY <1>4, <1>7, <1>10, <2>1 DEF InStep
<1>11. CASE /\ to \in OPEN
            /\ \/ deals[d].stage = "closed_won" /\ act.name = "retentative"
               \/ deals[d].stage = "closed_lost" /\ act.name = "unarchive_unrelease"
               \/ deals[d].stage \in OPEN /\ act.name = "sync_probability"
  <2>1. to # "closed_won" /\ to # "closed_lost"
    BY <1>11 DEF OPEN
  <2>2. new.tentative /\ ~new.by_crm /\ new.prob = prob /\ new.alloc # "released"
    BY <1>4, <1>5, <1>6, <1>7, <1>11
  <2> QED BY <1>8, <1>11, <2>1, <2>2 DEF InStep
<1> QED BY <1>3, <1>9, <1>10, <1>11

(* A move is carried out: the links and the rows stay in step.              *)
LEMMA MoveStep ==
  ASSUME DealInv, NEW s \in Sessions, crm_deal_transition(s)
  PROVE  DealInv'
<1> PICK plan : plan = plans[s]
  OBVIOUS
<1> PICK d : d = plan.deal
  OBVIOUS
<1> PICK prob : prob = default_probability(plan.to)
  OBVIOUS
<1>1. /\ plan \in MovePlans /\ MoveMade(plan) /\ plan.act \in Acts
      /\ plan.to \in Stages /\ plan.company \in Companies /\ prob \in 0 .. 100
      /\ plan.change \in LeadStages \cup {None}
      /\ d \in DealIds /\ deals[d] # None /\ ~deals[d].trashed /\ deals[d].stage = plan.from
      /\ deals' \in [DealIds -> {None} \cup DealRow]
      /\ \A x \in DealIds \ {d} : deals'[x] = deals[x]
      /\ deals'[d] # None /\ deals'[d].stage = plan.to
      /\ deals'[d].prob = prob /\ deals'[d].trashed = FALSE
      /\ company_stage' = WithChange(plan.company, plan.change)
      /\ Commit(s, {d} \cup Changed(plan.company, plan.change))
  BY MoveDone, StagesApart DEF MovePlans
<1>2. drifted' = drifted \cup
        (IF plan.act.name = "confirm" \/ plan.act \in effect(d, plan.to, prob)
         THEN {} ELSE {project_of(d)} \ {None})
  BY MoveDone
<1>3. \A x \in DealIds : deals[x] # None => deals'[x] # None
  BY <1>1
<1>4. company_stage' \in [Companies -> LeadStages] /\ drifted' \subseteq Projects
  <2>1. company_stage' \in [Companies -> LeadStages]
    BY <1>1 DEF WithChange, DealInv, DealsTypeOK
  <2>2. project_of(d) \in Projects \cup {None}
    BY <1>1, ProjectOf
  <2> QED BY <1>2, <2>1, <2>2 DEF DealInv, DealsTypeOK
<1>5. {d} \cup Changed(plan.company, plan.change) \in SUBSET Rows
  BY <1>1 DEF Changed, Rows
<1>6. CASE projects' = projects /\ (plan.act.name \in {"nothing", "create"} \/ project_of(d) = None)
  <2>1. LinksApart' /\ NeverLinked' /\ projects' \in [Projects -> {None} \cup ProjectRow]
    BY <1>3, <1>6, ProjectsStay
  <2>2. plans' \in [Sessions -> {Idle} \cup Plans] /\ PlansMade' /\ PlansStand'
    BY <1>1, <1>3, <1>5, <1>6, CommitKeeps
  <2>3. ProjectFollowsDeal'
    <3> SUFFICES ASSUME NEW q \in Projects \ drifted', Linked(q)
                 PROVE  InStep(projects[q], deals'[projects[q].deal])
      BY <1>6 DEF ProjectFollowsDeal, Linked
    <3>1. /\ projects[q].deal \in DealIds /\ q \notin drifted
          /\ InStep(projects[q], deals[projects[q].deal])
      BY <1>2, ProjectTyped DEF DealInv, ProjectFollowsDeal, Linked
    <3>2. CASE projects[q].deal # d
      BY <1>1, <3>1, <3>2
    <3>3. CASE projects[q].deal = d
      <4>1. q = project_of(d) /\ project_of(d) # None
        BY <1>1, <3>3, ProjectOf
      <4>2. plan.act.name \in {"nothing", "create"} /\ plan.act \in effect(d, plan.to, prob)
        BY <1>2, <1>6, <4>1
      <4>4. /\ plan.to \notin CLOSED /\ deals[d].stage \notin CLOSED
            /\ ~(Tentative(q) /\ projects[q].prob # prob)
        <5>1. \/ plan.to \notin CLOSED /\ deals[d].stage # "closed_won"
              /\ deals[d].stage # "closed_lost"
              /\ ~(Tentative(q) /\ projects[q].prob # prob)
          BY <4>1, <4>2, EffectNamed
        <5> QED BY <5>1 DEF CLOSED
      <4>5. plan.to \in OPEN /\ deals[d].stage \in OPEN /\ plan.to # "closed_won"
            /\ plan.to # "closed_lost"
        <5>1. deals[d].stage \in Stages
          BY <1>1, DealTyped DEF DealInv
        <5> QED BY <1>1, <4>4, <5>1 DEF Stages, CLOSED
      <4>6. projects[q].tentative /\ projects[q].prob = prob
        BY <3>1, <3>3, <4>1, <4>4, <4>5 DEF InStep, Tentative
      <4> QED BY <1>1, <3>1, <3>3, <4>5, <4>6 DEF InStep
    <3> QED BY <3>2, <3>3
  <2> QED BY <1>1, <1>4, <2>1, <2>2, <2>3 DEF DealInv, DealsTypeOK
<1>7. ASSUME NEW p \in Projects, NEW base, base = IF projects[p] = None THEN Unlinked(TRUE, FALSE)
                                                  ELSE projects[p],
             projects' = [projects EXCEPT ![p] = TvaRow(base, plan.act, d, prob)],
             \/ /\ projects[p] = None /\ project_of(d) = None
                /\ plan.act.name \in {"create", "confirm"}
             \/ /\ project_of(d) = None /\ is_linkable(p, TRUE)
                /\ plan.act.name \in {"link", "confirm"}
             \/ /\ p = project_of(d) /\ plan.act.name \in ActNames \ {"nothing", "create", "link"}
      PROVE  DealInv'
  <2> PICK new : new = TvaRow(base, plan.act, d, prob)
    OBVIOUS
  <2>9. \/ project_of(d) = None /\ \A q \in Projects : Linked(q) => projects[q].deal # d
        \/ /\ project_of(d) # None /\ Linked(project_of(d)) /\ projects[project_of(d)].deal = d
           /\ \A q \in Projects : Linked(q) /\ projects[q].deal = d => q = project_of(d)
    BY <1>1, ProjectOf
  <2>1. base \in ProjectRow /\ plan.act.name # "nothing"
    BY <1>7, UnlinkedTyped, ProjectTyped DEF DealInv
  <2>2. Becomes(base, new, plan.act.name, d, prob) /\ projects' = [projects EXCEPT ![p] = new]
    BY <1>1, <1>7, <2>1, TvaRowTyped
  <2>3. new \in ProjectRow /\ new.deal = d
    <3>1. p = project_of(d) => base.deal = d
      BY <1>7, <2>9, DealsAssumption DEF Linked
    <3> QED BY <1>7, <2>2, <3>1 DEF Becomes, ActNames
  <2>4. \A q \in Projects \ {p} : Linked(q) => projects[q].deal # d
    BY <1>7, <2>9, DealsAssumption
  <2>5. /\ projects' \in [Projects -> {None} \cup ProjectRow] /\ projects'[p] = new /\ new # None
        /\ \A q \in Projects \ {p} : projects'[q] = projects[q]
        /\ LinksApart' /\ NeverLinked'
    <3>1. d # None
      BY <1>1, DealsAssumption
    <3>2. /\ deals'[new.deal] # None
          /\ \A q \in Projects \ {p} : Linked(q) => projects[q].deal # new.deal
      BY <1>1, <2>3, <2>4
    <3> HIDE DEF DealInv
    <3> QED BY <1>3, <2>2, <2>3, <3>1, <3>2, ProjectPut
  <2>6. plans' \in [Sessions -> {Idle} \cup Plans] /\ PlansMade' /\ PlansStand'
    BY <1>1, <1>3, <1>5, <2>5, CommitKeeps
  <2>7. ASSUME p \notin drifted' PROVE InStep(new, deals'[d])
    <3>1. CASE p # project_of(d)
      <4>1. base.tentative /\ ~base.by_crm /\ base.alloc # "released"
        BY <1>7, <3>1, UnlinkedTyped DEF is_linkable, DealInv, NeverLinked
      <4>2. plan.act.name \in {"create", "link", "confirm"}
        BY <1>7, <3>1
      <4> QED BY <1>1, <2>1, <4>1, <4>2, AdoptedInStep DEF MoveMade
    <3>2. CASE p = project_of(d)
      <4>1. project_of(d) # None /\ Linked(p) /\ projects[p].deal = d
        BY <1>1, <3>2, ProjectOf, DealsAssumption
      <4>2. /\ plan.act.name = "confirm" \/ plan.act \in effect(d, plan.to, prob)
            /\ p \notin drifted
        BY <1>2, <2>7, <3>2, <4>1
      <4>3. base = projects[p] /\ projects[p] # None
            /\ plan.act.name \in ActNames \ {"nothing", "create", "link"}
        BY <1>7, <3>2, <4>1 DEF Linked
      <4>4. InStep(projects[p], deals[d])
        BY <4>1, <4>2 DEF DealInv, ProjectFollowsDeal, Linked
      <4> QED BY <1>1, <3>2, <4>2, <4>3, <4>4, OwnInStep DEF MoveMade
    <3> QED BY <3>1, <3>2
  <2>8. ProjectFollowsDeal'
    <3> SUFFICES ASSUME NEW q \in Projects \ drifted', projects'[q] # None, projects'[q].deal # None
                 PROVE  InStep(projects'[q], deals'[projects'[q].deal])
      BY DEF ProjectFollowsDeal
    <3>1. CASE q = p
      BY <2>3, <2>5, <2>7, <3>1
    <3>2. CASE q # p
      <4>1. /\ projects'[q] = projects[q] /\ Linked(q) /\ projects[q].deal # d
            /\ projects[q].deal \in DealIds /\ q \notin drifted
        BY <1>2, <2>4, <2>5, <3>2, ProjectTyped DEF Linked, DealInv
      <4>2. InStep(projects[q], deals[projects[q].deal])
        BY <4>1 DEF DealInv, ProjectFollowsDeal, Linked
      <4> QED BY <1>1, <4>1, <4>2
    <3> QED BY <3>1, <3>2
  <2> QED BY <1>1, <1>4, <2>5, <2>6, <2>8 DEF DealInv, DealsTypeOK
<1>8. \/ projects' = projects /\ (plan.act.name \in {"nothing", "create"} \/ project_of(d) = None)
      \/ \E p \in Projects :
           /\ projects' = [projects EXCEPT ![p] =
                TvaRow(IF projects[p] = None THEN Unlinked(TRUE, FALSE) ELSE projects[p],
                       plan.act, d, prob)]
           /\ \/ /\ projects[p] = None /\ project_of(d) = None
                 /\ plan.act.name \in {"create", "confirm"}
              \/ /\ project_of(d) = None /\ is_linkable(p, TRUE)
                 /\ plan.act.name \in {"link", "confirm"}
              \/ /\ p = project_of(d)
                 /\ plan.act.name \in ActNames \ {"nothing", "create", "link"}
  BY MoveWrites
<1> QED BY <1>6, <1>7, <1>8

-----------------------------------------------------------------------------
(* The other transactions *)

(* The plans are left alone, or a transaction commits.                      *)
CarriedOn ==
  plans' = plans \/ \E s \in Sessions, touched \in SUBSET Rows : Commit(s, touched)

(* The plans after a transaction, or after a request that makes none.       *)
LEMMA PlansKept ==
  ASSUME DealInv,
         CarriedOn,
         \A d \in DealIds : deals[d] # None => deals'[d] # None,
         \A p \in Projects : projects[p] # None => projects'[p] # None
  PROVE  plans' \in [Sessions -> {Idle} \cup Plans] /\ PlansMade' /\ PlansStand'
<1>1. CASE \E s \in Sessions, touched \in SUBSET Rows : Commit(s, touched)
  BY <1>1, CommitKeeps
<1>2. CASE plans' = plans
  <2>1. plans' \in [Sessions -> {Idle} \cup Plans]
    BY <1>2 DEF DealInv, DealsTypeOK
  <2>2. PlansMade'
    BY <1>2 DEF DealInv, PlansMade
  <2>3. PlansStand'
    <3> SUFFICES ASSUME NEW t \in Sessions
                 PROVE  /\ plans[t].op \in {"move", "set_company", "set_probability", "trash"} =>
                             deals'[plans[t].deal] # None
                        /\ plans[t].op \in {"project", "allocate"} =>
                             projects'[plans[t].project] # None
      BY <1>2 DEF PlansStand
    <3>1. /\ plans[t].op \in {"move", "set_company", "set_probability", "trash"} =>
               plans[t].deal \in DealIds /\ deals[plans[t].deal] # None
          /\ plans[t].op \in {"project", "allocate"} =>
               plans[t].project \in Projects /\ projects[plans[t].project] # None
      BY PlanOf
      DEF DealInv, PlansStand, MovePlans, CompanyPlans, ProbabilityPlans, TrashPlans,
                    ProjectPlans, AllocationPlans
    <3> QED BY <3>1
  <2> QED BY <2>1, <2>2, <2>3
<1> QED BY <1>1, <1>2 DEF CarriedOn

(* The deal's project is in step with the new row if it was with the old.   *)
StillInStep(d, row) ==
  \A p \in Projects \ drifted' : Linked(p) /\ projects[p].deal = d =>
    (InStep(projects[p], deals[d]) => InStep(projects[p], row))

(* One deal is written and no project.                                      *)
LEMMA DealPut ==
  ASSUME DealInv, NEW d \in DealIds, NEW row \in DealRow, deals' = [deals EXCEPT ![d] = row],
         projects' = projects, company_stage' \in [Companies -> LeadStages],
         drifted \subseteq drifted', drifted' \subseteq Projects,
         CarriedOn,
         StillInStep(d, row)
  PROVE  DealInv'
<1>1. row # None
  BY DealsAssumption
<1>2. /\ deals' \in [DealIds -> {None} \cup DealRow] /\ deals'[d] = row
      /\ \A x \in DealIds \ {d} : deals'[x] = deals[x]
  BY DEF DealInv, DealsTypeOK
<1>3. \A x \in DealIds : deals[x] # None => deals'[x] # None
  BY <1>1, <1>2
<1>4. plans' \in [Sessions -> {Idle} \cup Plans] /\ PlansMade' /\ PlansStand'
  BY <1>3, PlansKept
<1>5. LinksApart' /\ NeverLinked' /\ projects' \in [Projects -> {None} \cup ProjectRow]
  BY <1>3, ProjectsStay
<1>6. ProjectFollowsDeal'
  <2> SUFFICES ASSUME NEW p \in Projects \ drifted', Linked(p)
               PROVE  InStep(projects[p], deals'[projects[p].deal])
    BY DEF ProjectFollowsDeal, Linked
  <2>1. /\ projects[p].deal \in DealIds /\ p \notin drifted
        /\ InStep(projects[p], deals[projects[p].deal])
    BY ProjectTyped DEF DealInv, ProjectFollowsDeal, Linked
  <2>2. CASE projects[p].deal # d
    BY <1>2, <2>1, <2>2
  <2>3. CASE projects[p].deal = d
    BY <1>2, <2>1, <2>3 DEF StillInStep
  <2> QED BY <2>2, <2>3
<1> QED BY <1>2, <1>4, <1>5, <1>6 DEF DealInv, DealsTypeOK

(* One project is written, and no deal.                                     *)
LEMMA RowPut ==
  ASSUME DealInv, NEW p \in Projects, NEW row \in ProjectRow,
         projects' = [projects EXCEPT ![p] = row], UNCHANGED <<deals, company_stage>>,
         drifted \subseteq drifted', drifted' \subseteq Projects,
         CarriedOn,
         row.deal = None => ~row.by_crm /\ row.alloc # "released",
         row.deal # None =>
           /\ deals[row.deal] # None
           /\ \A q \in Projects \ {p} : Linked(q) => projects[q].deal # row.deal,
         row.deal # None /\ p \notin drifted' => InStep(row, deals[row.deal])
  PROVE  DealInv'
<1>1. deals' = deals /\ company_stage' = company_stage
  OBVIOUS
<1>2. \A x \in DealIds : deals[x] # None => deals'[x] # None
  BY <1>1
<1>3. /\ projects' \in [Projects -> {None} \cup ProjectRow]
      /\ projects'[p] = row /\ row # None
      /\ \A q \in Projects \ {p} : projects'[q] = projects[q]
      /\ LinksApart' /\ NeverLinked'
  <2>1. row.deal # None =>
          /\ deals'[row.deal] # None
          /\ \A q \in Projects \ {p} : Linked(q) => projects[q].deal # row.deal
    BY <1>1
  <2> QED BY <1>2, <2>1, ProjectPut
<1>4. plans' \in [Sessions -> {Idle} \cup Plans] /\ PlansMade' /\ PlansStand'
  BY <1>2, <1>3, PlansKept
<1>5. ProjectFollowsDeal'
  <2> SUFFICES ASSUME NEW q \in Projects \ drifted', projects'[q] # None, projects'[q].deal # None
               PROVE  InStep(projects'[q], deals[projects'[q].deal])
    BY <1>1 DEF ProjectFollowsDeal
  <2>1. CASE q = p
    BY <1>3, <2>1
  <2>2. CASE q # p
    BY <1>3, <2>2 DEF DealInv, ProjectFollowsDeal
  <2> QED BY <2>1, <2>2
<1> QED BY <1>1, <1>3, <1>4, <1>5 DEF DealInv, DealsTypeOK

(* A company moves to a lead stage, or stays.                               *)
LEMMA ChangeTyped ==
  ASSUME DealInv, NEW c \in Companies, NEW change \in LeadStages \cup {None}
  PROVE  /\ WithChange(c, change) \in [Companies -> LeadStages]
         /\ Changed(c, change) \in SUBSET Rows
BY DEF WithChange, Changed, Rows, DealInv, DealsTypeOK

(* A deal is created: no project is linked to it yet.                       *)
LEMMA CreateStep ==
  ASSUME DealInv, NEW s \in Sessions, create(s)
  PROVE  DealInv'
<1> PICK d : d = plans[s].deal
  OBVIOUS
<1> PICK row : row = [company |-> plans[s].company, stage |-> "discovery", lost_from |-> None,
                      prob |-> default_probability("discovery"), task |-> FALSE, trashed |-> FALSE]
  OBVIOUS
<1>1. /\ plans[s].op = "create" /\ deals[d] = None /\ deals' = [deals EXCEPT ![d] = row]
      /\ company_stage' = WithChange(plans[s].company, plans[s].change)
      /\ Commit(s, Changed(plans[s].company, plans[s].change))
      /\ projects' = projects /\ drifted' = drifted
  BY DEF create
<1>2. d \in DealIds /\ plans[s].company \in Companies /\ plans[s].change \in LeadStages \cup {None}
  BY <1>1, PlanOf DEF DealInv, CompanyPlans
<1>3. row \in DealRow
  <2>1. "discovery" \in OPEN
    BY DEF OPEN
  <2>2. default_probability("discovery") \in 0 .. 100
    BY <2>1, StagesApart
  <2> QED BY <1>2, <2>1, <2>2 DEF DealRow
<1>4. \A p \in Projects : ~(Linked(p) /\ projects[p].deal = d)
  BY <1>1 DEF DealInv, LinksApart
<1>5. drifted' \subseteq Projects
  BY <1>1 DEF DealInv, DealsTypeOK
<1>6. CarriedOn /\ company_stage' \in [Companies -> LeadStages]
  BY <1>1, <1>2, ChangeTyped DEF CarriedOn
<1>7. deals' = [deals EXCEPT ![d] = row] /\ projects' = projects /\ drifted \subseteq drifted'
  BY <1>1
<1>8. StillInStep(d, row)
  BY <1>4 DEF StillInStep
<1> QED BY <1>2, <1>3, <1>5, <1>6, <1>7, <1>8, DealPut

(* A deal moves to another company; its project does not notice.            *)
LEMMA MoveToStep ==
  ASSUME DealInv, NEW s \in Sessions, set_company(s)
  PROVE  DealInv'
<1> PICK d : d = plans[s].deal
  OBVIOUS
<1> PICK c : c = plans[s].company
  OBVIOUS
<1>1. /\ plans[s].op = "set_company" /\ deals' = [deals EXCEPT ![d].company = c]
      /\ company_stage' = WithChange(c, plans[s].change)
      /\ Commit(s, {d} \cup Changed(c, plans[s].change))
      /\ projects' = projects /\ drifted' = drifted
  BY DEF set_company
<1>2. /\ d \in DealIds /\ c \in Companies /\ plans[s].change \in LeadStages \cup {None}
      /\ deals[d] # None
  BY <1>1, PlanOf DEF DealInv, CompanyPlans, PlansStand
<1> PICK row : row = [deals[d] EXCEPT !.company = c]
  OBVIOUS
<1>3. /\ row \in DealRow /\ row.stage = deals[d].stage /\ row.prob = deals[d].prob
      /\ row.trashed = deals[d].trashed
  BY <1>2, DealTyped DEF DealInv, DealRow
<1>4. deals' = [deals EXCEPT ![d] = row]
  BY <1>1
<1>5. drifted' \subseteq Projects /\ {d} \cup Changed(c, plans[s].change) \in SUBSET Rows
      /\ company_stage' \in [Companies -> LeadStages]
  BY <1>1, <1>2, ChangeTyped DEF DealInv, DealsTypeOK, Rows
<1>6. \A p : InStep(p, deals[d]) => InStep(p, row)
  BY <1>3 DEF InStep
<1>7. CarriedOn /\ projects' = projects /\ drifted \subseteq drifted'
  BY <1>1, <1>5 DEF CarriedOn
<1>8. StillInStep(d, row)
  BY <1>6 DEF StillInStep
<1> QED BY <1>2, <1>3, <1>4, <1>5, <1>7, <1>8, DealPut

(* A deal goes to the Trash or comes back: its project has drifted either way. *)
LEMMA TrashSteps ==
  ASSUME DealInv, NEW s \in Sessions, soft_delete(s) \/ \E d \in DealIds : restore(s, d)
  PROVE  DealInv'
<1>1. CASE soft_delete(s)
  <2> PICK d : d = plans[s].deal
    OBVIOUS
  <2>1. /\ plans[s].op = "trash" /\ deals' = [deals EXCEPT ![d].trashed = TRUE]
        /\ drifted' = drifted \cup ({project_of(d)} \ {None}) /\ Commit(s, {d})
        /\ company_stage' = company_stage /\ projects' = projects
    BY <1>1 DEF soft_delete
  <2>2. d \in DealIds /\ deals[d] # None
    BY <2>1, PlanOf DEF DealInv, TrashPlans, PlansStand
  <2> PICK row : row = [deals[d] EXCEPT !.trashed = TRUE]
    OBVIOUS
  <2>3. row \in DealRow
    <3>1. deals[d] \in DealRow
      BY <2>2, DealTyped DEF DealInv
    <3> QED BY <3>1 DEF DealRow
  <2>4. /\ drifted' \subseteq Projects /\ {d} \in SUBSET Rows
        /\ company_stage' \in [Companies -> LeadStages]
    BY <2>1, <2>2, ProjectOf DEF DealInv, DealsTypeOK, Rows
  <2>5. \A p \in Projects \ drifted' : ~(Linked(p) /\ projects[p].deal = d)
    BY <2>1, <2>2, ProjectOf
  <2>6. /\ CarriedOn /\ deals' = [deals EXCEPT ![d] = row] /\ projects' = projects
        /\ drifted \subseteq drifted'
    BY <2>1, <2>4 DEF CarriedOn
  <2>7. StillInStep(d, row)
    BY <2>5 DEF StillInStep
  <2> QED BY <2>2, <2>3, <2>4, <2>6, <2>7, DealPut
<1>2. ASSUME NEW d \in DealIds, restore(s, d) PROVE DealInv'
  <2>1. /\ deals[d] # None /\ deals[d].trashed /\ deals' = [deals EXCEPT ![d].trashed = FALSE]
        /\ Commit(s, {d})
        /\ company_stage' = company_stage /\ projects' = projects /\ drifted' = drifted
    BY <1>2 DEF restore
  <2> PICK row : row = [deals[d] EXCEPT !.trashed = FALSE]
    OBVIOUS
  <2>2. row \in DealRow
    BY <2>1, DealTyped DEF DealInv, DealRow
  <2>3. /\ drifted' \subseteq Projects /\ {d} \in SUBSET Rows
        /\ company_stage' \in [Companies -> LeadStages]
    BY <2>1 DEF DealInv, DealsTypeOK, Rows
  <2>4. \A p : ~InStep(p, deals[d])
    BY <2>1 DEF InStep
  <2>5. /\ CarriedOn /\ deals' = [deals EXCEPT ![d] = row] /\ projects' = projects
        /\ drifted \subseteq drifted'
    BY <2>1, <2>3 DEF CarriedOn
  <2>6. StillInStep(d, row)
    BY <2>4 DEF StillInStep
  <2> QED BY <2>2, <2>3, <2>5, <2>6, DealPut
<1> QED BY <1>1, <1>2

(* A task of a deal is opened or closed.                                    *)
LEMMA TaskStep ==
  ASSUME DealInv, NEW d \in LiveDeals, task_of_deal(d)
  PROVE  DealInv'
<1>1. /\ d \in DealIds /\ deals[d] # None
      /\ deals' = [deals EXCEPT ![d].task = ~deals[d].task]
      /\ company_stage' = company_stage /\ projects' = projects /\ plans' = plans
      /\ drifted' = drifted
  BY DEF task_of_deal, LiveDeals, Live
<1> PICK task \in BOOLEAN : task = ~deals[d].task
  BY <1>1, DealTyped DEF DealInv
<1> PICK row : row = [deals[d] EXCEPT !.task = task]
  OBVIOUS
<1>2. /\ row \in DealRow /\ row.stage = deals[d].stage /\ row.prob = deals[d].prob
      /\ row.trashed = deals[d].trashed
  BY <1>1, DealTyped DEF DealInv, DealRow
<1>3. deals' = [deals EXCEPT ![d] = row]
  BY <1>1
<1>4. drifted' \subseteq Projects /\ company_stage' \in [Companies -> LeadStages]
  BY <1>1 DEF DealInv, DealsTypeOK
<1>5. \A p : InStep(p, deals[d]) => InStep(p, row)
  BY <1>2 DEF InStep
<1>6. CarriedOn /\ projects' = projects /\ drifted \subseteq drifted'
  BY <1>1 DEF CarriedOn
<1>7. StillInStep(d, row)
  BY <1>5 DEF StillInStep
<1> QED BY <1>1, <1>2, <1>3, <1>4, <1>6, <1>7, DealPut

(* A company is edited by hand, or a request gives up.                      *)
LEMMA CompanyStep ==
  ASSUME DealInv, NEW s \in Sessions, lead_stage(s) \/ GiveUp(s)
  PROVE  DealInv'
<1>1. CASE lead_stage(s)
  <2>1. /\ plans[s].op = "lead_stage"
        /\ company_stage' = [company_stage EXCEPT ![plans[s].company] = plans[s].stage]
        /\ Commit(s, {plans[s].company})
        /\ deals' = deals /\ projects' = projects /\ drifted' = drifted
    BY <1>1 DEF lead_stage
  <2>2. plans[s].company \in Companies /\ plans[s].stage \in LeadStages
    BY <2>1, PlanOf DEF DealInv, StagePlans
  <2>3. /\ company_stage' \in [Companies -> LeadStages] /\ {plans[s].company} \in SUBSET Rows
    BY <2>1, <2>2 DEF DealInv, DealsTypeOK, Rows
  <2>4. plans' \in [Sessions -> {Idle} \cup Plans] /\ PlansMade' /\ PlansStand'
    BY <2>1, <2>3, CommitKeeps
  <2>5. LinksApart' /\ NeverLinked' /\ ProjectFollowsDeal'
    BY <2>1 DEF DealInv, LinksApart, NeverLinked, ProjectFollowsDeal, Linked
  <2> QED BY <2>1, <2>3, <2>4, <2>5 DEF DealInv, DealsTypeOK
<1>2. CASE GiveUp(s)
  <2>1. /\ plans' = [plans EXCEPT ![s] = Idle]
        /\ company_stage' = company_stage /\ deals' = deals /\ projects' = projects
        /\ drifted' = drifted
    BY <1>2 DEF GiveUp
  <2>2. /\ plans' \in [Sessions -> {Idle} \cup Plans] /\ plans'[s] = Idle
        /\ \A t \in Sessions \ {s} : plans'[t] = plans[t]
    BY <2>1 DEF DealInv, DealsTypeOK
  <2>3. Idle.op = "idle"
    BY DEF Idle
  <2>4. PlansMade'
    BY <2>2, <2>3 DEF DealInv, PlansMade
  <2>5. PlansStand'
    BY <2>1, <2>2, <2>3 DEF DealInv, PlansStand
  <2>6. LinksApart' /\ NeverLinked' /\ ProjectFollowsDeal'
    BY <2>1 DEF DealInv, LinksApart, NeverLinked, ProjectFollowsDeal, Linked
  <2> QED BY <2>1, <2>2, <2>4, <2>5, <2>6 DEF DealInv, DealsTypeOK
<1> QED BY <1>1, <1>2

(* People are put on a project.                                             *)
LEMMA AllocationStep ==
  ASSUME DealInv, NEW s \in Sessions, create_allocation(s)
  PROVE  DealInv'
<1>1. plans[s].op = "allocate"
  BY DEF create_allocation
<1>2. plans[s].project \in Projects /\ projects[plans[s].project] # None
  BY <1>1, PlanOf DEF DealInv, AllocationPlans, PlansStand
<1> PICK p \in Projects : p = plans[s].project
  BY <1>2
<1>3. /\ projects[p] # None /\ projects[p].alloc = "none"
      /\ projects' = [projects EXCEPT ![p].alloc = "live"]
      /\ drifted' = drifted \cup (IF projects[p].archived THEN {p} ELSE {})
      /\ Commit(s, {}) /\ UNCHANGED <<company_stage, deals>>
  BY <1>2 DEF create_allocation
<1> PICK row : row = [projects[p] EXCEPT !.alloc = "live"]
  OBVIOUS
<1>4. projects[p] \in ProjectRow
  BY <1>3, ProjectTyped DEF DealInv
<1>5. /\ row \in ProjectRow /\ row.deal = projects[p].deal /\ row.alloc = "live"
      /\ row.tentative = projects[p].tentative /\ row.archived = projects[p].archived
      /\ row.by_crm = projects[p].by_crm /\ row.prob = projects[p].prob
  BY <1>4 DEF ProjectRow
<1>6. /\ CarriedOn /\ projects' = [projects EXCEPT ![p] = row]
      /\ drifted \subseteq drifted' /\ drifted' \subseteq Projects
  <2>1. {} \in SUBSET Rows
    OBVIOUS
  <2> QED BY <1>3, <2>1 DEF CarriedOn, DealInv, DealsTypeOK
<1>7. row.deal = None => ~row.by_crm /\ row.alloc # "released"
  BY <1>3, <1>5 DEF DealInv, NeverLinked
<1>8. row.deal # None =>
        /\ deals[row.deal] # None
        /\ \A q \in Projects \ {p} : Linked(q) => projects[q].deal # row.deal
  BY <1>3, <1>5 DEF DealInv, LinksApart, Linked
<1>9. row.deal # None /\ p \notin drifted' => InStep(row, deals[row.deal])
  <2> SUFFICES ASSUME row.deal # None, p \notin drifted'
               PROVE  InStep(row, deals[row.deal])
    OBVIOUS
  <2>1. InStep(projects[p], deals[row.deal]) /\ ~projects[p].archived
    BY <1>3, <1>5 DEF DealInv, ProjectFollowsDeal
  <2> QED BY <1>5, <2>1 DEF InStep
<1> QED BY <1>3, <1>5, <1>6, <1>7, <1>8, <1>9, RowPut

(* The Projects page edits what the deal does not control.                  *)
LEMMA ByHandStep ==
  ASSUME DealInv, NEW s \in Sessions, update_project(s)
  PROVE  DealInv'
<1>1. plans[s].op = "project"
  BY DEF update_project
<1>2. plans[s] \in ProjectPlans /\ projects[plans[s].project] # None
  BY <1>1, PlanOf DEF DealInv, PlansStand
<1> PICK plan \in ProjectPlans : plan = plans[s]
  BY <1>2
<1> PICK p \in Projects : p = plan.project
  BY DEF ProjectPlans
<1> PICK value : value = plan.value
  OBVIOUS
<1>3. /\ projects[p] # None
      /\ projects' = [projects EXCEPT ![p] = [projects[p] EXCEPT ![plan.field] = value]]
      /\ drifted' = drifted \cup
           (IF Sendable(projects[p], plan.field, value) THEN {} ELSE {p})
      /\ Commit(s, {}) /\ UNCHANGED <<company_stage, deals>>
  BY <1>2 DEF update_project
<1> PICK row : row = [projects[p] EXCEPT ![plan.field] = value]
  OBVIOUS
<1>4. /\ projects[p] \in ProjectRow
      /\ \/ plan.field \in {"archived", "tentative"} /\ value \in BOOLEAN
         \/ plan.field = "prob" /\ value \in 0 .. 100
  BY <1>3, ProjectTyped DEF DealInv, ProjectPlans
<1>5. /\ row \in ProjectRow /\ row.deal = projects[p].deal /\ row.alloc = projects[p].alloc
      /\ row.by_crm = projects[p].by_crm
      /\ plan.field = "archived" => /\ row.tentative = projects[p].tentative
                                    /\ row.prob = projects[p].prob
      /\ value = projects[p][plan.field] => row = projects[p]
  <2>1. CASE plan.field = "archived"
    <3>1. row = [projects[p] EXCEPT !.archived = value]
      BY <2>1
    <3> QED BY <1>4, <2>1, <3>1 DEF ProjectRow
  <2>2. CASE plan.field = "tentative"
    <3>1. row = [projects[p] EXCEPT !.tentative = value]
      BY <2>2
    <3> QED BY <1>4, <2>2, <3>1 DEF ProjectRow
  <2>3. CASE plan.field = "prob"
    <3>1. row = [projects[p] EXCEPT !.prob = value]
      BY <2>3
    <3> QED BY <1>4, <2>3, <3>1 DEF ProjectRow
  <2> QED BY <1>4, <2>1, <2>2, <2>3
<1>6. /\ CarriedOn /\ projects' = [projects EXCEPT ![p] = row]
      /\ drifted \subseteq drifted' /\ drifted' \subseteq Projects
  <2>1. {} \in SUBSET Rows
    OBVIOUS
  <2> QED BY <1>3, <2>1 DEF CarriedOn, DealInv, DealsTypeOK
<1>7. row.deal = None => ~row.by_crm /\ row.alloc # "released"
  BY <1>3, <1>5 DEF DealInv, NeverLinked
<1>8. row.deal # None =>
        /\ deals[row.deal] # None
        /\ \A q \in Projects \ {p} : Linked(q) => projects[q].deal # row.deal
  BY <1>3, <1>5 DEF DealInv, LinksApart, Linked
<1>9. row.deal # None /\ p \notin drifted' => InStep(row, deals[row.deal])
  <2> SUFFICES ASSUME row.deal # None, p \notin drifted'
               PROVE  InStep(row, deals[row.deal])
    OBVIOUS
  <2>1. InStep(projects[p], deals[row.deal])
    BY <1>3, <1>5 DEF DealInv, ProjectFollowsDeal
  <2>2. CASE row = projects[p]
    BY <2>1, <2>2
  <2>3. CASE row # projects[p]
    <3>1. plan.field = "archived" /\ ~projects[p].tentative
      BY <1>3, <1>4, <1>5, <2>3 DEF Sendable, Controlled
    <3>2. deals[row.deal].stage \notin OPEN /\ deals[row.deal].stage # "closed_lost"
      BY <2>1, <3>1 DEF InStep
    <3> QED BY <1>5, <2>1, <3>1, <3>2 DEF InStep
  <2> QED BY <2>2, <2>3
<1>10. row \in ProjectRow /\ UNCHANGED <<deals, company_stage>>
  BY <1>3, <1>5
<1> QED BY <1>6, <1>7, <1>8, <1>9, <1>10, RowPut

(* A deal is linked to a project, or a new one made for it.                 *)
LEMMA LinkStep ==
  ASSUME DealInv, NEW d \in LiveDeals, NEW p \in Projects, link_project(d, p)
  PROVE  DealInv'
<1>1. /\ d \in DealIds /\ deals[d] # None /\ ~deals[d].trashed /\ deals[d] \in DealRow
      /\ deals[d].prob \in 0 .. 100 /\ d # None
  BY DealTyped, DealsAssumption DEF LiveDeals, Live, DealInv
<1>2. /\ deals[d].stage \in PROJECT_STAGES \cup {"closed_won"} /\ project_of(d) = None
      /\ company_stage' = company_stage /\ deals' = deals /\ plans' = plans /\ drifted' = drifted
  BY DEF link_project
<1>3. \A q \in Projects : Linked(q) => projects[q].deal # d
  BY <1>1, <1>2, ProjectOf
<1>4. ASSUME NEW row \in ProjectRow, projects' = [projects EXCEPT ![p] = row], row.deal = d,
             InStep(row, deals[d])
      PROVE  DealInv'
  <2>1. CarriedOn /\ drifted \subseteq drifted' /\ drifted' \subseteq Projects
    BY <1>2 DEF CarriedOn, DealInv, DealsTypeOK
  <2>2. row.deal = None => ~row.by_crm /\ row.alloc # "released"
    BY <1>1, <1>4
  <2>3. row.deal # None =>
          /\ deals[row.deal] # None
          /\ \A q \in Projects \ {p} : Linked(q) => projects[q].deal # row.deal
    BY <1>1, <1>3, <1>4
  <2>4. row.deal # None /\ p \notin drifted' => InStep(row, deals[row.deal])
    BY <1>4
  <2>5. UNCHANGED <<deals, company_stage>>
    BY <1>2
  <2> QED BY <1>4, <2>1, <2>2, <2>3, <2>4, <2>5, RowPut
<1>5. CASE projects[p] = None
  <2> PICK row : row = [Unlinked(TRUE, FALSE) EXCEPT !.deal = d, !.prob = deals[d].prob]
    OBVIOUS
  <2>1. projects' = [projects EXCEPT ![p] = row] /\ deals[d].stage # "closed_won"
    BY <1>5 DEF link_project
  <2>2. /\ row \in ProjectRow /\ row.deal = d /\ row.prob = deals[d].prob
        /\ row.tentative = TRUE /\ row.by_crm = FALSE /\ row.alloc = "none"
    BY <1>1 DEF Unlinked, ProjectRow
  <2>3. deals[d].stage # "closed_lost"
    BY <1>2 DEF PROJECT_STAGES
  <2>4. InStep(row, deals[d])
    BY <1>1, <2>1, <2>2, <2>3 DEF InStep
  <2> QED BY <1>4, <2>1, <2>2, <2>4
<1>6. CASE projects[p] # None
  <2> PICK prob : prob = IF deals[d].stage = "closed_won" THEN projects[p].prob ELSE deals[d].prob
    OBVIOUS
  <2> PICK row : row = [projects[p] EXCEPT !.deal = d, !.prob = prob]
    OBVIOUS
  <2>1. projects[p] \in ProjectRow /\ prob \in 0 .. 100
    BY <1>1, <1>6, ProjectTyped DEF DealInv
  <2>2. /\ is_linkable(p, deals[d].stage # "closed_won")
        /\ projects' = [projects EXCEPT ![p].deal = d,
             ![p].prob = IF deals[d].stage = "closed_won" THEN @ ELSE deals[d].prob]
    BY <1>6 DEF link_project
  <2>3. projects' = [projects EXCEPT ![p] = row]
    BY <2>1, <2>2 DEF ProjectRow, DealInv, DealsTypeOK
  <2>4. /\ row \in ProjectRow /\ row.deal = d /\ row.prob = prob
        /\ row.tentative = projects[p].tentative /\ row.by_crm = projects[p].by_crm
        /\ row.alloc = projects[p].alloc
    BY <1>1, <2>1 DEF ProjectRow
  <2>5. ~row.by_crm /\ row.alloc # "released"
    BY <1>6, <2>2, <2>4 DEF is_linkable, DealInv, NeverLinked
  <2>6. row.tentative = (deals[d].stage # "closed_won")
    BY <2>2, <2>4 DEF is_linkable
  <2>7. CASE deals[d].stage = "closed_won"
    <3>1. deals[d].stage \notin OPEN /\ deals[d].stage # "closed_lost"
      BY <2>7 DEF OPEN
    <3>2. InStep(row, deals[d])
      BY <1>1, <2>5, <2>6, <2>7, <3>1 DEF InStep
    <3> QED BY <1>4, <2>3, <2>4, <3>2
  <2>8. CASE deals[d].stage # "closed_won"
    <3>1. deals[d].stage # "closed_lost"
      BY <1>2 DEF PROJECT_STAGES
    <3>2. InStep(row, deals[d])
      BY <1>1, <2>4, <2>5, <2>6, <2>8, <3>1 DEF InStep
    <3> QED BY <1>4, <2>3, <2>4, <3>2
  <2> QED BY <2>7, <2>8
<1> QED BY <1>5, <1>6

(* A probability is set, and synced if the plan saw a tentative project.    *)
LEMMA ProbabilityStep ==
  ASSUME DealInv, NEW s \in Sessions, set_probability(s)
  PROVE  DealInv'
<1>1. plans[s].op = "set_probability"
  BY DEF set_probability
<1>2. plans[s] \in ProbabilityPlans /\ deals[plans[s].deal] # None
  BY <1>1, PlanOf DEF DealInv, PlansStand
<1> PICK plan \in ProbabilityPlans : plan = plans[s]
  BY <1>2
<1> PICK d \in DealIds : d = plan.deal
  BY DEF ProbabilityPlans
<1> PICK prob \in 0 .. 100 : prob = plan.prob
  BY DEF ProbabilityPlans
<1> PICK row : row = [deals[d] EXCEPT !.prob = prob]
  OBVIOUS
<1>3. /\ deals' = [deals EXCEPT ![d] = row]
      /\ projects' = IF plan.synced THEN TvaAfter(Act("sync_probability"), d, prob) ELSE projects
      /\ drifted' = drifted \cup
           (IF ~plan.synced /\ Tentative(project_of(d)) THEN {project_of(d)} ELSE {})
      /\ Commit(s, {d}) /\ company_stage' = company_stage
  BY DEF set_probability
<1>4. deals[d] # None /\ deals[d] \in DealRow
  BY <1>2, DealTyped DEF DealInv
<1>5. /\ row \in DealRow /\ row.prob = prob /\ row.stage = deals[d].stage
      /\ row.trashed = deals[d].trashed /\ row # None
  BY <1>4, DealsAssumption DEF DealRow
<1>6. /\ CarriedOn /\ drifted \subseteq drifted' /\ drifted' \subseteq Projects
      /\ company_stage' \in [Companies -> LeadStages] /\ {d} \in SUBSET Rows
  <2>1. {d} \in SUBSET Rows
    BY DEF Rows
  <2>2. Tentative(project_of(d)) => project_of(d) \in Projects
    BY ProjectOf DEF Tentative
  <2> QED BY <1>3, <2>1, <2>2 DEF CarriedOn, DealInv, DealsTypeOK
<1>7. CASE project_of(d) = None \/ ~plan.synced
  <2>1. projects' = projects
    BY <1>3, <1>7 DEF TvaAfter, TvaTarget, Act
  <2>2. StillInStep(d, row)
    <3> SUFFICES ASSUME NEW p \in Projects \ drifted', Linked(p), projects[p].deal = d,
                        InStep(projects[p], deals[d])
                 PROVE  InStep(projects[p], row)
      BY DEF StillInStep
    <3>1. p = project_of(d) /\ ~Tentative(p)
      BY <1>3, <1>7, ProjectOf
    <3>2. ~projects[p].tentative
      BY <3>1, DealsAssumption DEF Tentative
    <3>3. deals[d].stage \notin OPEN
      BY <3>2 DEF InStep
    <3> QED BY <1>5, <3>2, <3>3 DEF InStep
  <2> QED BY <1>3, <1>5, <1>6, <2>1, <2>2, DealPut
<1>8. CASE project_of(d) # None /\ plan.synced
  <2> PICK p \in Projects : p = project_of(d)
    BY <1>8, ProjectOf
  <2>1. /\ Linked(p) /\ projects[p].deal = d /\ projects[p] # None
        /\ \A q \in Projects : Linked(q) /\ projects[q].deal = d => q = p
    BY <1>8, ProjectOf DEF Linked
  <2> PICK act : act = Act("sync_probability")
    OBVIOUS
  <2>2. act \in Acts /\ act.name = "sync_probability" /\ act.link = None
    BY DEF Act, Acts, ActNames
  <2> PICK new : new = TvaRow(projects[p], act, d, prob)
    OBVIOUS
  <2>3. projects' = [projects EXCEPT ![p] = new]
    <3>1. TvaTarget(act, d) = p
      BY <1>8, <2>2 DEF TvaTarget
    <3>2. p # None
      BY <1>8
    <3> QED BY <1>3, <1>8, <2>1, <3>1, <3>2 DEF TvaAfter
  <2>4. projects[p] \in ProjectRow
    BY <2>1, ProjectTyped DEF DealInv
  <2>5. Becomes(projects[p], new, act.name, d, prob)
    <3>1. act.name # "nothing"
      BY <2>2
    <3> QED BY <2>2, <2>4, <3>1, TvaRowTyped
  <2>6. /\ new \in ProjectRow /\ new.deal = d /\ new.tentative = projects[p].tentative
        /\ new.prob = IF projects[p].tentative THEN prob ELSE projects[p].prob
        /\ new.archived = projects[p].archived /\ new.by_crm = projects[p].by_crm
        /\ new.alloc = projects[p].alloc
    BY <2>1, <2>2, <2>5 DEF Becomes
  <2>7. \A x \in DealIds : deals[x] # None => deals'[x] # None
    BY <1>3, <1>5 DEF DealInv, DealsTypeOK
  <2>8. deals'[d] = row /\ d # None
    BY <1>3, DealsAssumption DEF DealInv, DealsTypeOK
  <2>9. /\ projects' \in [Projects -> {None} \cup ProjectRow] /\ projects'[p] = new /\ new # None
        /\ \A q \in Projects \ {p} : projects'[q] = projects[q]
        /\ LinksApart' /\ NeverLinked'
    <3>1. new.deal # None
      BY <2>6, <2>8
    <3>2. /\ deals'[new.deal] # None
          /\ \A q \in Projects \ {p} : Linked(q) => projects[q].deal # new.deal
      BY <1>5, <2>1, <2>6, <2>8
    <3>3. new \in ProjectRow
      BY <2>6
    <3> HIDE DEF DealInv
    <3> QED BY <2>3, <2>7, <3>1, <3>2, <3>3, ProjectPut
  <2>10. plans' \in [Sessions -> {Idle} \cup Plans] /\ PlansMade' /\ PlansStand'
    <3>1. \A q \in Projects : projects[q] # None => projects'[q] # None
      BY <2>9
    <3> QED BY <1>6, <2>7, <3>1, PlansKept
  <2>11. ProjectFollowsDeal'
    <3> SUFFICES ASSUME NEW q \in Projects \ drifted', projects'[q] # None, projects'[q].deal # None
                 PROVE  InStep(projects'[q], deals'[projects'[q].deal])
      BY DEF ProjectFollowsDeal
    <3>1. CASE q = p
      <4>1. InStep(projects[p], deals[d])
        BY <1>3, <2>1, <2>8, <3>1 DEF DealInv, ProjectFollowsDeal
      <4>2. InStep(new, row)
        BY <1>5, <2>6, <4>1 DEF InStep
      <4> QED BY <2>6, <2>8, <2>9, <3>1, <4>2
    <3>2. CASE q # p
      <4>1. projects'[q] = projects[q] /\ Linked(q) /\ projects[q].deal # d /\ q \notin drifted
        BY <1>3, <2>1, <2>9, <3>2 DEF Linked
      <4>2. projects[q].deal \in DealIds /\ InStep(projects[q], deals[projects[q].deal])
        BY <4>1, ProjectTyped DEF DealInv, ProjectFollowsDeal, Linked
      <4>3. deals'[projects[q].deal] = deals[projects[q].deal]
        BY <1>3, <4>1, <4>2 DEF DealInv, DealsTypeOK
      <4> QED BY <4>1, <4>2, <4>3
    <3> QED BY <3>1, <3>2
  <2>12. deals' \in [DealIds -> {None} \cup DealRow]
    BY <1>3, <1>5 DEF DealInv, DealsTypeOK
  <2> QED BY <1>6, <2>9, <2>10, <2>11, <2>12 DEF DealInv, DealsTypeOK
<1> QED BY <1>7, <1>8

-----------------------------------------------------------------------------
(* The inductive invariant holds *)

(* Every action keeps the invariant.                                        *)
LEMMA DealNextKeeps ==
  ASSUME DealInv, DealNext
  PROVE  DealInv'
<1>1. ASSUME NEW s \in Sessions, NEW d \in LiveDeals, NEW stamped \in Stamping,
             \/ \E to \in Targets, choice \in OnLoss :
                  \E act \in effect(d, to, default_probability(to)) :
                    PlanMove(s, d, to, choice, stamped, act)
             \/ \E c \in Companies : PlanMoveTo(s, d, c, stamped)
             \/ \E prob \in Edits : PlanProbability(s, d, prob, stamped)
             \/ PlanTrash(s, d)
      PROVE  DealInv'
  BY <1>1, MovePlanned, OthersPlanned
<1>2. ASSUME NEW s \in Sessions, NEW d \in DealIds,
             (\E c \in Companies : PlanCreate(s, d, c)) \/ restore(s, d)
      PROVE  DealInv'
  BY <1>2, OthersPlanned, TrashSteps
<1>3. ASSUME NEW s \in Sessions, NEW c \in Companies, NEW stage \in HandStages,
             NEW stamped \in Stamping, PlanLeadStage(s, c, stage, stamped)
      PROVE  DealInv'
  BY <1>3, OthersPlanned
<1>4. ASSUME NEW s \in Sessions, NEW p \in Projects,
             \/ \E field \in {"archived", "tentative", "prob"} :
                  \E value \in Values(projects[p], field) : PlanProject(s, p, field, value)
             \/ PlanAllocation(s, p)
      PROVE  DealInv'
  BY <1>4, OthersPlanned
<1>5. ASSUME NEW d \in LiveDeals, task_of_deal(d) \/ \E p \in Projects : link_project(d, p)
      PROVE  DealInv'
  BY <1>5, TaskStep, LinkStep
<1>6. ASSUME NEW s \in Sessions,
             \/ crm_deal_transition(s) \/ create(s) \/ set_company(s) \/ set_probability(s)
             \/ lead_stage(s) \/ soft_delete(s) \/ update_project(s) \/ create_allocation(s)
             \/ GiveUp(s)
      PROVE  DealInv'
  BY <1>6, MoveStep, CreateStep, MoveToStep, ProbabilityStep, CompanyStep, TrashSteps,
     ByHandStep, AllocationStep
<1> QED BY <1>1, <1>2, <1>3, <1>4, <1>5, <1>6 DEF DealNext

(* The initial states satisfy it.                                           *)
LEMMA DealInitHolds == DealInit => DealInv
<1> SUFFICES ASSUME DealInit PROVE DealInv
  OBVIOUS
<1>1. /\ company_stage \in [Companies -> LeadStages]
      /\ deals \in [DealIds -> {None} \cup DealRow]
      /\ projects \in [Projects -> {None} \cup ProjectRow]
      /\ plans = [s \in Sessions |-> Idle] /\ drifted = {}
  BY DEF DealInit, LeadStages
<1>2. \A p \in Projects : projects[p] # None =>
        IF projects[p].deal = None
        THEN ~projects[p].by_crm /\ projects[p].alloc # "released"
        ELSE /\ deals[projects[p].deal] # None
             /\ InStep(projects[p], deals[projects[p].deal])
             /\ \A q \in Projects :
                  projects[q] # None /\ projects[q].deal = projects[p].deal => q = p
  BY DEF DealInit
<1>3. DealsTypeOK
  BY <1>1 DEF DealsTypeOK
<1>4. \A s \in Sessions : plans[s].op = "idle"
  BY <1>1 DEF Idle
<1>5. PlansMade /\ PlansStand
  BY <1>4 DEF PlansMade, PlansStand
<1>6. LinksApart
  BY <1>2 DEF LinksApart, Linked
<1>7. NeverLinked /\ ProjectFollowsDeal
  BY <1>1, <1>2 DEF NeverLinked, ProjectFollowsDeal
<1> QED BY <1>3, <1>5, <1>6, <1>7 DEF DealInv

(* So does every step, stuttering ones included.                            *)
LEMMA DealInvStays == DealInv /\ [DealNext]_dealVars => DealInv'
<1> SUFFICES ASSUME DealInv, [DealNext]_dealVars PROVE DealInv'
  OBVIOUS
<1>1. CASE DealNext
  BY <1>1, DealNextKeeps
<1>2. CASE UNCHANGED dealVars
  <2>1. /\ company_stage' = company_stage /\ deals' = deals /\ projects' = projects
        /\ plans' = plans /\ drifted' = drifted
    BY <1>2 DEF dealVars
  <2> QED BY <2>1
      DEF DealInv, DealsTypeOK, PlansMade, MoveMade, PlansStand, LinksApart,
          Linked,
          NeverLinked, ProjectFollowsDeal
<1> QED BY <1>1, <1>2

(* Whatever requests are in flight together, each plan is one the rules     *)
(* made, what it is about still exists, no deal has two projects, and no    *)
(* project without a deal bears a deal's trace.                             *)
THEOREM DealInvariant == DealSpec => []DealInv
BY DealInitHolds, DealInvStays, PTL DEF DealSpec

(* A project is where its deal says, except those a write not tested        *)
(* against the deal has moved since: services/crm/tva.py and the            *)
(* transactions of migrations 055 to 066.                                   *)
THEOREM ProjectsFollow == DealSpec => []ProjectFollowsDeal
<1>1. DealInv => ProjectFollowsDeal
  BY DEF DealInv
<1> QED BY <1>1, DealInvariant, PTL

-----------------------------------------------------------------------------
(* What a step may do to a deal *)

(* Only a move changes the stage of a deal.                                 *)
LEMMA StageKept ==
  ASSUME DealInv, [DealNext]_dealVars, \A s \in Sessions : ~crm_deal_transition(s),
         NEW d \in DealIds, deals[d] # None
  PROVE  deals'[d].stage = deals[d].stage
<1>1. deals[d] \in DealRow /\ deals \in [DealIds -> {None} \cup DealRow]
  BY DealTyped DEF DealInv, DealsTypeOK
<1>2. CASE deals' = deals
  BY <1>2
<1>3. ASSUME NEW s \in Sessions, create(s) PROVE deals'[d].stage = deals[d].stage
  <2>1. d # plans[s].deal
    BY <1>3 DEF create
  <2>2. PICK row : deals' = [deals EXCEPT ![plans[s].deal] = row]
    BY <1>3 DEF create
  <2>3. deals'[d] = deals[d]
    BY <1>1, <2>1, <2>2
  <2> QED BY <2>3
<1>4. ASSUME NEW x, NEW value,
             \/ deals' = [deals EXCEPT ![x].company = value]
             \/ deals' = [deals EXCEPT ![x].prob = value]
             \/ deals' = [deals EXCEPT ![x].trashed = value]
             \/ deals' = [deals EXCEPT ![x].task = value]
      PROVE  deals'[d].stage = deals[d].stage
  BY <1>1, <1>4 DEF DealRow
<1>5. ASSUME NEW s \in Sessions, set_company(s) PROVE deals'[d].stage = deals[d].stage
  BY <1>4, <1>5 DEF set_company
<1>6. ASSUME NEW s \in Sessions, set_probability(s) PROVE deals'[d].stage = deals[d].stage
  BY <1>4, <1>6 DEF set_probability
<1>7. ASSUME NEW s \in Sessions, soft_delete(s) \/ \E x \in DealIds : restore(s, x)
      PROVE  deals'[d].stage = deals[d].stage
  BY <1>4, <1>7 DEF soft_delete, restore
<1>8. ASSUME NEW x \in LiveDeals, task_of_deal(x) PROVE deals'[d].stage = deals[d].stage
  <2>1. deals' = [deals EXCEPT ![x].task = ~deals[x].task]
    BY <1>8 DEF task_of_deal
  <2> QED BY <1>4, <2>1
<1>9. CASE UNCHANGED dealVars
  BY <1>2, <1>9 DEF dealVars
<1>10. ASSUME NEW s \in Sessions, \E plan : Begin(s, plan)
       PROVE  deals'[d].stage = deals[d].stage
  BY <1>2, <1>10 DEF Begin
<1>11. CASE DealNext
  <2>1. CASE \E s \in Sessions, x \in LiveDeals, stamped \in Stamping :
               \/ \E to \in Targets, choice \in OnLoss :
                    \E act \in effect(x, to, default_probability(to)) :
                      PlanMove(s, x, to, choice, stamped, act)
               \/ \E c \in Companies : PlanMoveTo(s, x, c, stamped)
               \/ \E prob \in Edits : PlanProbability(s, x, prob, stamped)
               \/ PlanTrash(s, x)
    <3>1. PICK s \in Sessions, x \in LiveDeals, stamped \in Stamping :
            \/ \E to \in Targets, choice \in OnLoss :
                 \E act \in effect(x, to, default_probability(to)) :
                   PlanMove(s, x, to, choice, stamped, act)
            \/ \E c \in Companies : PlanMoveTo(s, x, c, stamped)
            \/ \E prob \in Edits : PlanProbability(s, x, prob, stamped)
            \/ PlanTrash(s, x)
      BY <2>1
    <3>2. ASSUME NEW to, NEW choice, NEW act, PlanMove(s, x, to, choice, stamped, act)
          PROVE  \E plan : Begin(s, plan)
      BY <3>2 DEF PlanMove
    <3>3. ASSUME NEW c, PlanMoveTo(s, x, c, stamped) PROVE \E plan : Begin(s, plan)
      BY <3>3 DEF PlanMoveTo
    <3>4. ASSUME NEW prob, PlanProbability(s, x, prob, stamped) PROVE \E plan : Begin(s, plan)
      BY <3>4 DEF PlanProbability
    <3>5. PlanTrash(s, x) => \E plan : Begin(s, plan)
      BY DEF PlanTrash
    <3> QED BY <1>10, <3>1, <3>2, <3>3, <3>4, <3>5
  <2>2. CASE \E s \in Sessions, x \in DealIds :
               (\E c \in Companies : PlanCreate(s, x, c)) \/ restore(s, x)
    <3>1. \/ \E s \in Sessions : \E plan : Begin(s, plan)
          \/ \E s \in Sessions, x \in DealIds : restore(s, x)
      BY <2>2 DEF PlanCreate
    <3> QED BY <1>7, <1>10, <3>1
  <2>3. CASE \E s \in Sessions, c \in Companies, stage \in HandStages, stamped \in Stamping :
               PlanLeadStage(s, c, stage, stamped)
    <3>1. \E s \in Sessions : \E plan : Begin(s, plan)
      BY <2>3 DEF PlanLeadStage
    <3> QED BY <1>10, <3>1
  <2>4. CASE \E s \in Sessions, p \in {q \in Projects : projects[q] # None} :
               \/ \E field \in {"archived", "tentative", "prob"} :
                    \E value \in Values(projects[p], field) : PlanProject(s, p, field, value)
               \/ PlanAllocation(s, p)
    <3>1. \E s \in Sessions : \E plan : Begin(s, plan)
      BY <2>4 DEF PlanProject, PlanAllocation
    <3> QED BY <1>10, <3>1
  <2>5. CASE \E x \in LiveDeals : task_of_deal(x) \/ \E p \in Projects : link_project(x, p)
    <3>1. (\E x \in LiveDeals : task_of_deal(x)) \/ deals' = deals
      BY <2>5 DEF link_project
    <3> QED BY <1>2, <1>8, <3>1
  <2>6. CASE \E s \in Sessions :
               \/ crm_deal_transition(s) \/ create(s) \/ set_company(s) \/ set_probability(s)
               \/ lead_stage(s) \/ soft_delete(s) \/ update_project(s) \/ create_allocation(s)
               \/ GiveUp(s)
    <3>1. \/ deals' = deals
          \/ \E s \in Sessions : create(s) \/ set_company(s) \/ set_probability(s) \/ soft_delete(s)
      BY <2>6 DEF lead_stage, update_project, create_allocation, GiveUp
    <3> QED BY <1>2, <1>3, <1>5, <1>6, <1>7, <3>1
  <2> QED BY <1>11, <2>1, <2>2, <2>3, <2>4, <2>5, <2>6 DEF DealNext
<1> QED BY <1>9, <1>11

(* So a deal closes by a move of it.                                        *)
LEMMA ClosedByMove ==
  ASSUME DealInv, [DealNext]_dealVars, NEW d \in DealIds, Closing(d)
  PROVE  \E s \in Sessions : crm_deal_transition(s) /\ plans[s].deal = d
<1>1. /\ deals[d] # None /\ deals[d].stage \in OPEN /\ deals'[d].stage \in CLOSED
      /\ deals[d].stage \in Stages
  BY DealTyped DEF Closing, Live, DealInv
<1>2. deals'[d].stage # deals[d].stage
  BY <1>1 DEF OPEN, CLOSED
<1>3. PICK s \in Sessions : crm_deal_transition(s)
  BY <1>1, <1>2, StageKept
<1>4. CASE plans[s].deal # d
  <2>1. deals'[d] = deals[d]
    BY <1>3, <1>4, MoveDone
  <2> QED BY <1>2, <2>1
<1> QED BY <1>3, <1>4

(* A lost deal's open tasks are cancelled with it, those opened since the   *)
(* move was planned included: crm_deal_transition tests them again.         *)
THEOREM LossTakesItsTasks == DealSpec => LossClosesTasks
<1>1. DealInv /\ [DealNext]_dealVars =>
        [\A d \in DealIds :
           Closing(d) /\ deals'[d].stage = "closed_lost" => ~deals'[d].task]_dealVars
  <2> SUFFICES ASSUME DealInv, [DealNext]_dealVars, NEW d \in DealIds, Closing(d),
                      deals'[d].stage = "closed_lost"
               PROVE  ~deals'[d].task
    OBVIOUS
  <2>1. PICK s \in Sessions : crm_deal_transition(s) /\ plans[s].deal = d
    BY ClosedByMove
  <2>2. /\ deals'[d].stage = plans[s].to /\ deals'[d].task = (deals[d].task /\ ~plans[s].closing)
        /\ TasksAsPlanned(plans[s])
    BY <2>1, MoveDone
  <2>3. deals[d].task => plans[s].closing
    BY <2>1, <2>2 DEF TasksAsPlanned
  <2> QED BY <2>2, <2>3
<1> QED BY <1>1, DealInvariant, PTL DEF DealSpec, LossClosesTasks

(* What a move that closes a deal does to its company.                      *)
LEMMA ClosingMove ==
  ASSUME DealInv, NEW s \in Sessions, crm_deal_transition(s), plans[s].to \in CLOSED
  PROVE  LET plan == plans[s]
             c == deals[plan.deal].company
         IN
         /\ c \in Companies /\ plan.op = "move" /\ plans'[s] = Idle
         /\ plan.open = 0 <=> Siblings(plan.deal, OPEN) = {}
         /\ company_stage' = WithChange(plan.company, plan.change)
         /\ plan.change # None => c = plan.company
         /\ \E choice \in OnLoss :
              plan.change =
                company_effect_on_close(plan.found, plan.to, plan.open, plan.won, choice)
<1> PICK plan : plan = plans[s]
  OBVIOUS
<1>1. /\ plan.op = "move" /\ MoveMade(plan) /\ SiblingsAsPlanned(plan)
      /\ plan.deal \in DealIds /\ deals[plan.deal] # None
      /\ company_stage' = WithChange(plan.company, plan.change)
      /\ plan.change # None => deals[plan.deal].company = plan.company
      /\ Commit(s, {plan.deal} \cup Changed(plan.company, plan.change))
  BY MoveDone DEF MovePlans
<1>2. plans'[s] = Idle
  BY <1>1 DEF Commit
<1>3. Cardinality(Siblings(plan.deal, OPEN)) = plan.open
  BY <1>1 DEF SiblingsAsPlanned, Closes
<1>4. plan.open = 0 <=> Siblings(plan.deal, OPEN) = {}
  BY <1>3, SiblingsCounted
<1>5. \E choice \in OnLoss :
        plan.change = company_effect_on_close(plan.found, plan.to, plan.open, plan.won, choice)
  BY <1>1 DEF MoveMade, Closes
<1>6. deals[plan.deal].company \in Companies
  BY <1>1, DealTyped DEF DealInv
<1> QED BY <1>1, <1>2, <1>4, <1>5, <1>6

(* The deals that are open on the company of a deal that has just closed.   *)
LEMMA OpenAfterClosing ==
  ASSUME DealInv, NEW s \in Sessions, crm_deal_transition(s), plans[s].to \in CLOSED,
         NEW c, c = deals[plans[s].deal].company
  PROVE  OpenOn(c)' <=> Siblings(plans[s].deal, OPEN) # {}
<1> PICK d : d = plans[s].deal
  OBVIOUS
<1>1. /\ d \in DealIds /\ \A x \in DealIds \ {d} : deals'[x] = deals[x]
      /\ deals'[d].stage \in CLOSED
  BY MoveDone
<1>2. \A stage \in CLOSED : stage \notin OPEN
  BY DEF OPEN, CLOSED
<1>3. OpenOn(c)' <=>
        \E x \in DealIds : /\ deals'[x] # None /\ ~deals'[x].trashed
                           /\ deals'[x].company = c' /\ deals'[x].stage \in OPEN
  BY DEF OpenOn, LiveDeals, Live
<1> QED BY <1>1, <1>2, <1>3 DEF Siblings, LiveDeals, Live

(* The actions that write projects.                                         *)
LEMMA ProjectWriters ==
  ASSUME [DealNext]_dealVars
  PROVE  \/ projects' = projects
         \/ \E d \in LiveDeals, q \in Projects : link_project(d, q)
         \/ \E s \in Sessions : \/ crm_deal_transition(s) \/ set_probability(s)
                                \/ update_project(s) \/ create_allocation(s)
<1>1. \A s, plan : Begin(s, plan) => projects' = projects
  BY DEF Begin
<1>2. CASE UNCHANGED dealVars
  BY <1>2 DEF dealVars
<1>3. ASSUME NEW s, NEW d, NEW stamped,
             \/ \E to \in Targets, choice \in OnLoss :
                  \E act \in effect(d, to, default_probability(to)) :
                    PlanMove(s, d, to, choice, stamped, act)
             \/ \E c \in Companies : PlanMoveTo(s, d, c, stamped)
             \/ \E prob \in Edits : PlanProbability(s, d, prob, stamped)
             \/ PlanTrash(s, d)
      PROVE  projects' = projects
  <2>1. ASSUME NEW to, NEW choice, NEW act, PlanMove(s, d, to, choice, stamped, act)
        PROVE  projects' = projects
    BY <1>1, <2>1 DEF PlanMove
  <2>2. ASSUME NEW c, PlanMoveTo(s, d, c, stamped) PROVE projects' = projects
    BY <1>1, <2>2 DEF PlanMoveTo
  <2>3. ASSUME NEW prob, PlanProbability(s, d, prob, stamped) PROVE projects' = projects
    BY <1>1, <2>3 DEF PlanProbability
  <2>4. PlanTrash(s, d) => projects' = projects
    BY <1>1 DEF PlanTrash
  <2> QED BY <1>3, <2>1, <2>2, <2>3, <2>4
<1>4. ASSUME NEW s, NEW d, (\E c \in Companies : PlanCreate(s, d, c)) \/ restore(s, d)
      PROVE  projects' = projects
  BY <1>1, <1>4 DEF PlanCreate, restore
<1>5. ASSUME NEW s, NEW c, NEW stage, NEW stamped, PlanLeadStage(s, c, stage, stamped)
      PROVE  projects' = projects
  BY <1>1, <1>5 DEF PlanLeadStage
<1>6. ASSUME NEW s, NEW p,
             \/ \E field \in {"archived", "tentative", "prob"} :
                  \E value \in Values(projects[p], field) : PlanProject(s, p, field, value)
             \/ PlanAllocation(s, p)
      PROVE  projects' = projects
  BY <1>1, <1>6 DEF PlanProject, PlanAllocation
<1>7. ASSUME NEW d, task_of_deal(d) PROVE projects' = projects
  BY <1>7 DEF task_of_deal
<1>8. ASSUME NEW s,
             \/ create(s) \/ set_company(s) \/ lead_stage(s) \/ soft_delete(s) \/ GiveUp(s)
      PROVE  projects' = projects
  BY <1>8 DEF create, set_company, lead_stage, soft_delete, GiveUp
<1> QED BY <1>2, <1>3, <1>4, <1>5, <1>6, <1>7, <1>8 DEF DealNext

(* A deal that closes takes its company out of Qualified and Deal open only *)
(* if no deal is open on it, and the last one to close does take it out:    *)
(* the siblings are counted again under the company's lock.                 *)
THEOREM CompanyFollows == DealSpec => CompanyFollowsDeals
<1>1. DealInv /\ [DealNext]_dealVars =>
        [\A d \in DealIds : Closing(d) =>
           LET c == deals[d].company IN
           company_stage[c] \in OPENABLE /\ company_stage'[c] \notin OPENABLE
             => ~OpenOn(c)']_dealVars
  <2> SUFFICES ASSUME DealInv, [DealNext]_dealVars, NEW d \in DealIds, Closing(d)
               PROVE  LET c == deals[d].company IN
                      company_stage[c] \in OPENABLE /\ company_stage'[c] \notin OPENABLE
                        => ~OpenOn(c)'
    OBVIOUS
  <2>1. PICK s \in Sessions : crm_deal_transition(s) /\ plans[s].deal = d
    BY ClosedByMove
  <2> PICK c : c = deals[d].company
    OBVIOUS
  <2>2. plans[s].to \in CLOSED /\ c = deals'[d].company
    BY <2>1, MoveDone DEF Closing
  <2>3. OpenOn(c)' <=> OpenOn(deals[d].company)'
    BY <2>2 DEF OpenOn
  <2>4. /\ plans[s].open = 0 => ~OpenOn(c)'
        /\ company_stage' = WithChange(plans[s].company, plans[s].change)
        /\ plans[s].change # None => c = plans[s].company
        /\ \E choice \in OnLoss :
             plans[s].change = company_effect_on_close(plans[s].found, plans[s].to, plans[s].open,
                                                       plans[s].won, choice)
    BY <2>1, <2>2, ClosingMove, OpenAfterClosing
  <2>5. CASE company_stage'[c] # company_stage[c]
    <3>1. plans[s].change # None
      BY <2>4, <2>5 DEF WithChange
    <3>2. plans[s].open \in Nat
      BY <2>1, MoveDone DEF MovePlans
    <3>3. ~(plans[s].open > 0)
      BY <2>4, <3>1 DEF company_effect_on_close
    <3> QED BY <2>3, <2>4, <3>2, <3>3
  <2>6. CASE company_stage'[c] = company_stage[c]
    BY <2>6
  <2> QED BY <2>5, <2>6
<1>2. DealInv /\ [DealNext]_dealVars =>
        [\A d \in DealIds : Closing(d) /\ ~OpenOn(deals[d].company)' /\ ~Overtaken(d) =>
           company_stage'[deals[d].company] # "deal_open"]_dealVars
  <2> SUFFICES ASSUME DealInv, [DealNext]_dealVars, NEW d \in DealIds, Closing(d),
                      ~OpenOn(deals[d].company)', ~Overtaken(d)
               PROVE  company_stage'[deals[d].company] # "deal_open"
    OBVIOUS
  <2>1. PICK s \in Sessions : crm_deal_transition(s) /\ plans[s].deal = d
    BY ClosedByMove
  <2> PICK c : c = deals[d].company
    OBVIOUS
  <2>2. plans[s].to \in CLOSED /\ c = deals'[d].company
    BY <2>1, MoveDone DEF Closing
  <2>3. OpenOn(c)' <=> OpenOn(deals[d].company)'
    BY <2>2 DEF OpenOn
  <2>4. /\ plans[s].open = 0
        /\ c \in Companies /\ plans[s].op = "move" /\ plans'[s] = Idle
        /\ company_stage' = WithChange(plans[s].company, plans[s].change)
        /\ plans[s].change # None => c = plans[s].company
    BY <2>1, <2>2, <2>3, ClosingMove, OpenAfterClosing
  <2>5. plans[s].company = c /\ plans[s].found = company_stage[c]
    BY <2>1, <2>4 DEF Overtaken
  <2>6. PICK choice \in OnLoss :
          plans[s].change =
            company_effect_on_close(plans[s].found, plans[s].to, 0, plans[s].won, choice)
    BY <2>1, <2>2, <2>4, ClosingMove
  <2>7. choice # "deal_open" /\ choice # None
    BY DealsAssumption DEF ON_DEALS, MANUAL_LEAD_STAGES
  <2>8. None # "customer"
    BY DealsAssumption DEF ON_DEALS
  <2>9. CASE plans[s].change = None
    <3>1. company_stage' = company_stage
      BY <2>4, <2>9 DEF WithChange
    <3>2. plans[s].found # "deal_open"
      BY <2>6, <2>7, <2>8, <2>9 DEF company_effect_on_close
    <3> QED BY <2>5, <3>1, <3>2
  <2>10. CASE plans[s].change # None
    <3>1. company_stage'[c] = plans[s].change
      BY <2>4, <2>5, <2>10 DEF WithChange, DealInv, DealsTypeOK
    <3>2. plans[s].change # "deal_open"
      BY <2>6, <2>7, <2>10 DEF company_effect_on_close
    <3> QED BY <3>1, <3>2
  <2> QED BY <2>9, <2>10
<1> QED BY <1>1, <1>2, DealInvariant, PTL
    DEF DealSpec, CompanyFollowsDeals, ClosingSparesOpenDeals, LastCloseMovesCompany

(* What a person has archived, no deal brings back: a reopened deal undoes  *)
(* only what its loss had done (services/crm/tva.py).                       *)
THEOREM ArchivedByHandStays == DealSpec => HandArchiveStands
<1>1. DealInv /\ [DealNext]_dealVars =>
        [\A p \in Projects :
           /\ projects[p] # None /\ projects[p].archived /\ ~projects[p].by_crm
           /\ ~projects'[p].archived
           => \E s \in Sessions : plans[s].op = "project" /\ plans[s].project = p]_dealVars
  <2> SUFFICES ASSUME DealInv, [DealNext]_dealVars, NEW p \in Projects, projects[p] # None,
                      projects[p].archived, ~projects[p].by_crm, ~projects'[p].archived
               PROVE  \E s \in Sessions : plans[s].op = "project" /\ plans[s].project = p
    OBVIOUS
  <2>1. projects[p] \in ProjectRow /\ projects \in [Projects -> {None} \cup ProjectRow]
    BY ProjectTyped DEF DealInv, DealsTypeOK
  <2>2. projects'[p] # projects[p]
    OBVIOUS
  <2>3. ASSUME NEW q \in Projects, NEW act \in Acts, act.name # "nothing", NEW d \in DealIds,
               NEW prob \in 0 .. 100,
               projects' = [projects EXCEPT ![q] =
                 TvaRow(IF projects[q] = None THEN Unlinked(TRUE, FALSE) ELSE projects[q],
                        act, d, prob)]
        PROVE  FALSE
    <3>1. q = p
      BY <2>1, <2>2, <2>3
    <3> PICK new : new = TvaRow(projects[p], act, d, prob)
      OBVIOUS
    <3>2. projects'[p] = new
      BY <2>1, <2>3, <3>1
    <3>3. Becomes(projects[p], new, act.name, d, prob)
      BY <2>1, <2>3, TvaRowTyped
    <3>4. new.archived
      BY <2>1, <3>3 DEF Becomes
    <3> QED BY <3>2, <3>4
  <2>4. ASSUME NEW s \in Sessions, crm_deal_transition(s) PROVE FALSE
    <3>1. /\ plans[s].act \in Acts /\ plans[s].deal \in DealIds
          /\ default_probability(plans[s].to) \in 0 .. 100
      BY <2>4, MoveDone, StagesApart DEF MovePlans
    <3> PICK act \in Acts : act = plans[s].act
      BY <3>1
    <3> PICK d \in DealIds : d = plans[s].deal
      BY <3>1
    <3> PICK prob \in 0 .. 100 : prob = default_probability(plans[s].to)
      BY <3>1
    <3>2. \/ projects' = projects
          \/ \E q \in Projects :
               /\ projects' = [projects EXCEPT ![q] =
                    TvaRow(IF projects[q] = None THEN Unlinked(TRUE, FALSE) ELSE projects[q],
                           act, d, prob)]
               /\ act.name # "nothing"
      BY <2>4, MoveWrites
    <3>3. PICK q \in Projects :
            /\ projects' = [projects EXCEPT ![q] =
                 TvaRow(IF projects[q] = None THEN Unlinked(TRUE, FALSE) ELSE projects[q],
                        act, d, prob)]
            /\ act.name # "nothing"
      BY <2>2, <3>2
    <3> QED BY <2>3, <3>3
  <2>5. ASSUME NEW s \in Sessions, set_probability(s) PROVE FALSE
    <3>1. /\ plans[s].op = "set_probability"
          /\ projects' = IF plans[s].synced
                         THEN TvaAfter(Act("sync_probability"), plans[s].deal, plans[s].prob)
                         ELSE projects
      BY <2>5 DEF set_probability
    <3>2. plans[s].deal \in DealIds /\ plans[s].prob \in 0 .. 100
      BY <3>1, PlanOf DEF DealInv, ProbabilityPlans
    <3> PICK d \in DealIds : d = plans[s].deal
      BY <3>2
    <3> PICK act : act = Act("sync_probability")
      OBVIOUS
    <3>3. act \in Acts /\ act.name = "sync_probability" /\ act.link = None
      BY DEF Act, Acts, ActNames
    <3>4. TvaTarget(act, d) \in Projects \cup {None}
      BY <3>3, ProjectOf DEF TvaTarget
    <3>5. projects' = TvaAfter(act, d, plans[s].prob)
      BY <2>2, <3>1
    <3>6. CASE TvaTarget(act, d) = None
      BY <2>2, <3>5, <3>6 DEF TvaAfter
    <3>7. CASE TvaTarget(act, d) # None
      <4> PICK q \in Projects : q = TvaTarget(act, d)
        BY <3>4, <3>7
      <4>1. projects' = [projects EXCEPT ![q] =
              TvaRow(IF projects[q] = None THEN Unlinked(TRUE, FALSE) ELSE projects[q],
                     act, d, plans[s].prob)]
        BY <3>5, <3>7 DEF TvaAfter
      <4>2. act.name # "nothing"
        BY <3>3
      <4> QED BY <2>3, <3>2, <3>3, <4>1, <4>2
    <3> QED BY <3>6, <3>7
  <2>6. ASSUME NEW d \in LiveDeals, NEW q \in Projects, link_project(d, q) PROVE FALSE
    <3>1. CASE projects[q] = None
      <4>1. PICK row : projects' = [projects EXCEPT ![q] = row]
        BY <2>6, <3>1 DEF link_project
      <4> QED BY <2>1, <2>2, <3>1, <4>1
    <3>2. CASE projects[q] # None
      <4>1. PICK prob : projects' = [projects EXCEPT ![q].deal = d, ![q].prob = prob]
        BY <2>6, <3>2 DEF link_project
      <4>2. projects'[p].archived = projects[p].archived
        BY <2>1, <4>1 DEF ProjectRow
      <4> QED BY <4>2
    <3> QED BY <3>1, <3>2
  <2>7. ASSUME NEW s \in Sessions, create_allocation(s) PROVE FALSE
    <3>1. projects' = [projects EXCEPT ![plans[s].project].alloc = "live"]
      BY <2>7 DEF create_allocation
    <3>2. projects'[p].archived = projects[p].archived
      BY <2>1, <3>1 DEF ProjectRow
    <3> QED BY <3>2
  <2>8. ASSUME NEW s \in Sessions, update_project(s)
        PROVE  plans[s].op = "project" /\ plans[s].project = p
    <3>1. /\ plans[s].op = "project"
          /\ projects' = [projects EXCEPT ![plans[s].project][plans[s].field] = plans[s].value]
      BY <2>8 DEF update_project
    <3>2. CASE plans[s].project # p
      BY <2>1, <2>2, <3>1, <3>2
    <3> QED BY <3>1, <3>2
  <2>9. \/ projects' = projects
        \/ \E d \in LiveDeals, q \in Projects : link_project(d, q)
        \/ \E s \in Sessions : \/ crm_deal_transition(s) \/ set_probability(s)
                               \/ update_project(s) \/ create_allocation(s)
    BY ProjectWriters
  <2> QED BY <2>2, <2>4, <2>5, <2>6, <2>7, <2>8, <2>9
<1> QED BY <1>1, DealInvariant, PTL DEF DealSpec, HandArchiveStands

-----------------------------------------------------------------------------
(* The Review Queue.  An approval is three transactions with anything       *)
(* between them, so the properties are no invariants by themselves: each    *)
(* needs to know what an approval has in hand at each of its steps.         *)
(* ReviewInv says it: an approval that won its claim has its item for       *)
(* itself, as it was shown; a write waits only while the value read stands; *)
(* a job that is to store has not been decided against; and the one company *)
(* of an item is the one its row names or the one the approval that made it *)
(* has in hand.                                                             *)

Items == [status : {"open", "approved", "dismissed", "expired"}, revision : Nat, version : Nat,
          recorded : Nat, refusal : BOOLEAN, company : Nat, result : BOOLEAN]
QueuedCompanies == [item : Nat, trashed : BOOLEAN]
Jobs == {Ready} \cup [step : {"look", "store"}, version : Nat, recorded : Nat, overtaken : BOOLEAN]

(* The steps of an approval before its release, and those that hold the    *)
(* company the approval uses.                                              *)
Unwritten == {"change", "write", "locked out", "refused"}
Naming == {"people", "keep", "done"}
Seen == [revision : Nat, version : Nat, recorded : Nat, company : Nat]
Claims == [step : {"claim"} \cup Unwritten \cup Naming, i : Nat, item : Seen, edits : BOOLEAN]
Releases == [step : {"expire", "reopen"}, i : Nat, found : SUBSET Nat]

ReviewTypeOK ==
  /\ kind \in {"field", "lead"} /\ source \in Nat /\ record \in Nat /\ mishaps \in Nat
  /\ job \in Jobs
  /\ items \in Seq(Items)
  /\ companies \in Seq(QueuedCompanies)
  /\ approvals \in [Approvals -> {Ready} \cup Claims \cup Releases]
  /\ cut_off \in SUBSET Nat /\ unheard \in SUBSET Nat

Working(a) == approvals[a].step \notin {"idle", "claim"}
Carrying(a) == approvals[a].step \in Unwritten \cup Naming

(* Every approval in flight, and every company, is of an item there is.    *)
OfItems ==
  /\ \A a \in Approvals : approvals[a].step # "idle" => approvals[a].i \in DOMAIN items
  /\ \A c \in DOMAIN companies : companies[c].item \in DOMAIN items

(* An approval that won its claim has the item for itself.                 *)
InHand ==
  \A a \in Approvals : Working(a) =>
    /\ items[approvals[a].i].status = "approved"
    /\ \A b \in Approvals : Working(b) /\ approvals[b].i = approvals[a].i => a = b

(* The item an approval carries is the one it was shown: the row it loaded *)
(* has the version of the row, while their revisions are the same.         *)
AsShown ==
  \A a \in Approvals :
    LET at == approvals[a] IN
    /\ Carrying(a) => items[at.i].version = at.item.version
    /\ at.step = "claim" =>
         /\ at.item.revision <= items[at.i].revision
         /\ at.item.revision = items[at.i].revision => at.item.version = items[at.i].version

(* A write that is not an edit waits while the record is as it was read.   *)
ReadStands ==
  \A a \in Approvals :
    approvals[a].step = "write" => approvals[a].edits \/ record = approvals[a].item.recorded

(* What is to open again found no newer item.                              *)
FoundNone == \A a \in Approvals : approvals[a].step = "reopen" => approvals[a].found = {}

(* What is to be stored was not decided, unless it was since it looked.    *)
NotDecided == job.step = "store" /\ ~job.overtaken => ~decided(job.version)

(* The company of an item is known: to its approval, or on its row.        *)
CompanyInHand ==
  \A a \in Approvals :
    LET at == approvals[a] IN
    /\ Carrying(a) /\ at.i \notin unheard
    => IF at.step \in Naming
       THEN MadeFor(at.i) \subseteq {at.item.company}
       ELSE at.item.company = items[at.i].company

CompanyOnRow ==
  \A i \in DOMAIN items \ unheard :
    \/ MadeFor(i) \subseteq {items[i].company}
    \/ \E a \in Approvals : approvals[a].step \in Naming /\ approvals[a].i = i

ReviewInv ==
  /\ ReviewTypeOK /\ OfItems /\ InHand /\ AsShown /\ ReadStands /\ FoundNone
  /\ NotDecided /\ CompanyInHand /\ CompanyOnRow /\ ApprovedIsMade

-----------------------------------------------------------------------------
(* Sequences and the forms of an approval *)

(* A sequence whose elements are replaced is a sequence of its length.      *)
LEMMA Rewritten ==
  ASSUME NEW S, NEW s \in Seq(S), NEW f \in [DOMAIN s -> S]
  PROVE  f \in Seq(S) /\ Len(f) = Len(s)
<1>1. Len(s) \in Nat /\ DOMAIN s = 1..Len(s)
  BY LenProperties
<1>2. f \in [1..Len(s) -> S]
  BY <1>1
<1>3. f \in Seq(S)
  BY <1>1, <1>2, SeqDef
<1>4. DOMAIN f = 1..Len(f) /\ Len(f) \in Nat
  BY <1>3, LenProperties
<1>5. DOMAIN f = 1..Len(s)
  BY <1>2
<1> QED BY <1>1, <1>3, <1>4, <1>5, SMT

(* One element more, at the end.                                            *)
LEMMA Appended ==
  ASSUME NEW S, NEW s \in Seq(S), NEW e \in S
  PROVE  /\ Append(s, e) \in Seq(S)
         /\ DOMAIN Append(s, e) = DOMAIN s \cup {Len(s) + 1}
         /\ \A j \in DOMAIN s : Append(s, e)[j] = s[j]
         /\ Append(s, e)[Len(s) + 1] = e
         /\ Len(Append(s, e)) = Len(s) + 1 /\ Len(s) + 1 \notin DOMAIN s
         /\ Len(s) \in Nat /\ DOMAIN s = 1..Len(s)
<1>1. Len(s) \in Nat /\ DOMAIN s = 1..Len(s)
  BY LenProperties
<1>2. /\ Append(s, e) \in Seq(S) /\ Len(Append(s, e)) = Len(s) + 1
      /\ \A j \in 1..Len(s) : Append(s, e)[j] = s[j]
      /\ Append(s, e)[Len(s) + 1] = e
  BY AppendProperties
<1>3. DOMAIN Append(s, e) = 1..(Len(s) + 1)
  BY <1>2, LenProperties
<1> QED BY <1>1, <1>2, <1>3, SMT

(* What an approval is at each of its steps.                                *)
AnyApproval == {Ready} \cup Claims \cup Releases

LEMMA Forms ==
  ASSUME NEW e \in AnyApproval
  PROVE  /\ e.step = "idle" => e = Ready
         /\ e.step \in {"claim"} \cup Unwritten \cup Naming => e \in Claims
         /\ e.step \in {"expire", "reopen"} => e \in Releases
         /\ e.step \in {"idle", "claim", "expire", "reopen"} \cup Unwritten \cup Naming
<1>1. CASE e = Ready
  BY <1>1, SMT DEF Ready, Unwritten, Naming
<1>2. CASE e \in Claims
  <2>1. e.step \in {"claim"} \cup Unwritten \cup Naming
    BY <1>2 DEF Claims
  <2>2. e.step \in {"claim", "change", "write", "locked out", "refused", "people", "keep", "done"}
    BY <2>1 DEF Unwritten, Naming
  <2>3. e.step \notin {"idle", "expire", "reopen"}
    BY <2>2
  <2> QED BY <1>2, <2>1, <2>3
<1>3. CASE e \in Releases
  <2>1. e.step \in {"expire", "reopen"}
    BY <1>3, SMT DEF Releases
  <2>2. e.step \notin {"claim"} \cup Unwritten \cup Naming /\ e.step # "idle"
    BY <2>1 DEF Unwritten, Naming
  <2> QED BY <1>3, <2>1, <2>2
<1> QED BY <1>1, <1>2, <1>3 DEF AnyApproval

(* An approval that goes to another step keeps what it carries.             *)
LEMMA Gone ==
  ASSUME NEW e \in Claims, NEW step \in {"claim"} \cup Unwritten \cup Naming,
         NEW g, g = [e EXCEPT !.step = step]
  PROVE  g \in Claims /\ g.step = step /\ g.i = e.i /\ g.item = e.item /\ g.edits = e.edits
BY SMT DEF Claims

LEMMA LockedOut ==
  ASSUME NEW e \in Claims, NEW g, g = [e EXCEPT !.step = "locked out"]
  PROVE  g \in Claims /\ g.step = "locked out" /\ g.i = e.i /\ g.item = e.item /\ g.edits = e.edits
<1>1. "locked out" \in {"claim"} \cup Unwritten \cup Naming
  BY DEF Unwritten
<1> QED BY <1>1, Gone

LEMMA Reloaded ==
  ASSUME NEW e \in Claims, NEW s \in Seen, NEW g, g = [e EXCEPT !.item = s]
  PROVE  g \in Claims /\ g.step = e.step /\ g.i = e.i /\ g.item = s
BY SMT DEF Claims

(* The types, in the form that the steps below use them.                    *)
LEMMA ItemsAre ==
  ASSUME ReviewTypeOK
  PROVE  /\ items \in [DOMAIN items -> Items]
         /\ companies \in [DOMAIN companies -> QueuedCompanies]
         /\ approvals \in [Approvals -> AnyApproval]
         /\ DOMAIN items \subseteq Nat /\ DOMAIN companies \subseteq Nat \ {0}
<1>1. items \in Seq(Items) /\ companies \in Seq(QueuedCompanies)
  BY DEF ReviewTypeOK
<1>2. items \in [1..Len(items) -> Items] /\ Len(items) \in Nat
  BY <1>1, LenProperties
<1>3. companies \in [1..Len(companies) -> QueuedCompanies] /\ Len(companies) \in Nat
  BY <1>1, LenProperties
<1>4. approvals \in [Approvals -> AnyApproval]
  BY DEF ReviewTypeOK, AnyApproval
<1> QED BY <1>2, <1>3, <1>4, SMT

-----------------------------------------------------------------------------
(* What a step of one approval keeps *)

(* Another approval stays as it is, or is locked out of its write.          *)
LeftTo(b) ==
  \/ approvals'[b] = approvals[b] /\ (approvals[b].step = "write" => record' = record)
  \/ approvals[b].step = "write" /\ approvals'[b] = [approvals[b] EXCEPT !.step = "locked out"]

(* Approval a goes on to e, and the row of its item i becomes f.            *)
MovesOn(a, i, e, f) ==
  /\ \A b \in Approvals \ {a} : LeftTo(b) /\ (Working(b) => approvals[b].i # i)
  /\ approvals[a].step \in {"idle", "claim"} \/ approvals[a].i = i
  /\ approvals' \in [Approvals -> AnyApproval] /\ approvals'[a] = e
  /\ items' = [items EXCEPT ![i] = f]
  /\ f.version = items[i].version /\ f.revision = items[i].revision
  /\ unheard \subseteq unheard' /\ cut_off \subseteq cut_off'
  /\ \A c \in DOMAIN companies' : companies'[c].item \in DOMAIN items
  /\ \A j \in DOMAIN items \ {i} : MadeFor(j)' \subseteq MadeFor(j)

(* What e and f have to be for the invariant to stand.                      *)
InOrder(i, e, f) ==
  /\ e.step # "idle" => e.i = i
  /\ e.step \notin {"idle", "claim"} => f.status = "approved"
  /\ e.step \in Unwritten \cup Naming => f.version = e.item.version
  /\ e.step = "claim" =>
       /\ e.item.revision <= f.revision
       /\ e.item.revision = f.revision => e.item.version = f.version
  /\ e.step = "write" => e.edits \/ record' = e.item.recorded
  /\ e.step = "reopen" => e.found = {}
  /\ i \notin unheard' =>
       /\ e.step \in Naming => MadeFor(i)' \subseteq {e.item.company}
       /\ e.step \in Unwritten => e.item.company = f.company
       /\ e.step \in Naming \/ MadeFor(i)' \subseteq {f.company}
  /\ f.status = "approved" /\ ~f.result /\ i \notin cut_off' => e.step \notin {"idle", "claim"}

LEMMA Moves ==
  ASSUME ReviewInv, NEW a \in Approvals, NEW i \in DOMAIN items,
         NEW e \in AnyApproval, NEW f \in Items,
         MovesOn(a, i, e, f), InOrder(i, e, f)
  PROVE  (/\ OfItems /\ InHand /\ AsShown /\ ReadStands /\ FoundNone
          /\ CompanyInHand /\ CompanyOnRow /\ ApprovedIsMade)'
<1> USE DEF Working, Carrying
<1>1. ReviewTypeOK
  BY DEF ReviewInv
<1>2. /\ items \in [DOMAIN items -> Items] /\ approvals \in [Approvals -> AnyApproval]
      /\ DOMAIN items \subseteq Nat
  BY <1>1, ItemsAre
<1>3. DOMAIN items' = DOMAIN items /\ items'[i] = f
      /\ \A j \in DOMAIN items \ {i} : items'[j] = items[j]
  BY <1>2 DEF MovesOn
<1>4. \A b \in Approvals \ {a} :
        /\ \/ approvals'[b].step = approvals[b].step
           \/ approvals[b].step = "write" /\ approvals'[b].step = "locked out"
        /\ approvals[b].step # "idle" => approvals'[b].i = approvals[b].i
        /\ Carrying(b) \/ approvals[b].step = "claim" =>
             /\ approvals'[b].item = approvals[b].item
             /\ approvals'[b].edits = approvals[b].edits
        /\ approvals[b].step = "reopen" => approvals'[b] = approvals[b]
        /\ approvals'[b].step = "write" => approvals'[b] = approvals[b] /\ record' = record
  <2> SUFFICES ASSUME NEW b \in Approvals \ {a} PROVE
        /\ \/ approvals'[b].step = approvals[b].step
           \/ approvals[b].step = "write" /\ approvals'[b].step = "locked out"
        /\ approvals[b].step # "idle" => approvals'[b].i = approvals[b].i
        /\ Carrying(b) \/ approvals[b].step = "claim" =>
             /\ approvals'[b].item = approvals[b].item
             /\ approvals'[b].edits = approvals[b].edits
        /\ approvals[b].step = "reopen" => approvals'[b] = approvals[b]
        /\ approvals'[b].step = "write" => approvals'[b] = approvals[b] /\ record' = record
    OBVIOUS
  <2>1. CASE approvals'[b] = approvals[b] /\ (approvals[b].step = "write" => record' = record)
    <3> HIDE DEF Carrying
    <3> QED BY <2>1
  <2>2. CASE approvals[b].step = "write" /\ approvals'[b] = [approvals[b] EXCEPT !.step = "locked out"]
    <3>1. approvals[b] \in Claims
      BY <1>2, <2>2, Forms DEF Unwritten
    <3>2. approvals'[b].step = "locked out" /\ approvals'[b].i = approvals[b].i
          /\ approvals'[b].item = approvals[b].item /\ approvals'[b].edits = approvals[b].edits
      BY <2>2, <3>1, LockedOut
    <3> QED BY <2>2, <3>2
  <2> QED BY <2>1, <2>2 DEF MovesOn, LeftTo
<1>5. \A b \in Approvals \ {a} : Working(b) => approvals[b].i # i
  BY DEF MovesOn
<1>6. approvals'[a] = e
  BY DEF MovesOn
<1>7. OfItems'
  <2>1. \A c \in DOMAIN companies' : companies'[c].item \in DOMAIN items'
    BY <1>3 DEF MovesOn
  <2>2. ASSUME NEW b \in Approvals, approvals'[b].step # "idle"
        PROVE  approvals'[b].i \in DOMAIN items'
    <3>1. CASE b = a
      BY <1>3, <1>6, <2>2, <3>1 DEF InOrder
    <3>2. CASE b # a
      BY <1>3, <1>4, <2>2, <3>2 DEF ReviewInv, OfItems
    <3> QED BY <3>1, <3>2
  <2> QED BY <2>1, <2>2 DEF OfItems
<1>8. InHand'
  <2>1. ASSUME NEW b \in Approvals, Working(b)'
        PROVE  items'[approvals'[b].i].status = "approved"
    <3>1. CASE b = a
      BY <1>3, <1>6, <2>1, <3>1 DEF InOrder
    <3>2. CASE b # a
      <4>1. Working(b) /\ approvals'[b].i = approvals[b].i
        BY <1>4, <2>1, <3>2
      <4>2. approvals[b].i \in DOMAIN items \ {i} /\ items[approvals[b].i].status = "approved"
        BY <1>5, <3>2, <4>1 DEF ReviewInv, OfItems, InHand
      <4> QED BY <1>3, <4>1, <4>2
    <3> QED BY <3>1, <3>2
  <2>2. ASSUME NEW b \in Approvals, NEW d \in Approvals, Working(b)', Working(d)',
               approvals'[b].i = approvals'[d].i
        PROVE  b = d
    <3>1. ASSUME NEW x \in Approvals \ {a}, Working(x)'
          PROVE  Working(x) /\ approvals'[x].i = approvals[x].i /\ approvals[x].i # i
      BY <1>4, <1>5, <3>1
    <3>2. Working(a)' => approvals'[a].i = i
      BY <1>6 DEF InOrder
    <3>3. CASE b = a \/ d = a
      BY <2>2, <3>1, <3>2, <3>3
    <3>4. CASE b # a /\ d # a
      <4>1. Working(b) /\ Working(d) /\ approvals[b].i = approvals[d].i
        BY <2>2, <3>1, <3>4
      <4> QED BY <4>1 DEF ReviewInv, InHand
    <3> QED BY <3>3, <3>4
  <2> QED BY <2>1, <2>2 DEF InHand
<1>9. AsShown'
  <2>1. \A j \in DOMAIN items :
          items'[j].version = items[j].version /\ items'[j].revision = items[j].revision
    BY <1>3 DEF MovesOn
  <2>2. ASSUME NEW b \in Approvals
        PROVE  LET at == approvals'[b] IN
               /\ at.step \in Unwritten \cup Naming => items'[at.i].version = at.item.version
               /\ at.step = "claim" =>
                    /\ at.item.revision <= items'[at.i].revision
                    /\ at.item.revision = items'[at.i].revision => at.item.version = items'[at.i].version
    <3>1. CASE b = a
      BY <1>3, <1>6, <3>1 DEF InOrder, Unwritten, Naming
    <3>2. CASE b # a
      <4>1. CASE approvals'[b].step \in Unwritten \cup Naming
        <5>1. Carrying(b) /\ approvals'[b].step # "claim"
          BY <1>4, <3>2, <4>1 DEF Unwritten, Naming
        <5>2. items[approvals[b].i].version = approvals[b].item.version
              /\ approvals[b].i \in DOMAIN items /\ approvals[b].step # "idle"
          BY <5>1 DEF ReviewInv, AsShown, OfItems, Unwritten, Naming
        <5> QED BY <1>4, <2>1, <3>2, <5>1, <5>2
      <4>2. CASE approvals'[b].step = "claim"
        <5>1. approvals[b].step = "claim" /\ approvals'[b].step \notin Unwritten \cup Naming
          BY <1>4, <3>2, <4>2 DEF Unwritten, Naming
        <5>2. /\ approvals[b].i \in DOMAIN items
              /\ approvals[b].item.revision <= items[approvals[b].i].revision
              /\ approvals[b].item.revision = items[approvals[b].i].revision
                   => approvals[b].item.version = items[approvals[b].i].version
          BY <5>1 DEF ReviewInv, AsShown, OfItems
        <5> QED BY <1>4, <2>1, <3>2, <5>1, <5>2
      <4> QED BY <4>1, <4>2
    <3> QED BY <3>1, <3>2
  <2> QED BY <2>2 DEF AsShown
<1>10. ReadStands'
  <2>1. ASSUME NEW b \in Approvals, approvals'[b].step = "write"
        PROVE  approvals'[b].edits \/ record' = approvals'[b].item.recorded
    <3>1. CASE b = a
      BY <1>6, <2>1, <3>1 DEF InOrder
    <3>2. CASE b # a
      BY <1>4, <2>1, <3>2 DEF ReviewInv, ReadStands
    <3> QED BY <3>1, <3>2
  <2> QED BY <2>1 DEF ReadStands
<1>11. FoundNone'
  <2>1. ASSUME NEW b \in Approvals, approvals'[b].step = "reopen"
        PROVE  approvals'[b].found = {}
    <3>1. CASE b = a
      BY <1>6, <2>1, <3>1 DEF InOrder
    <3>2. CASE b # a
      BY <1>4, <2>1, <3>2 DEF ReviewInv, FoundNone
    <3> QED BY <3>1, <3>2
  <2> QED BY <2>1 DEF FoundNone
<1>12. CompanyInHand'
  <2>1. ASSUME NEW b \in Approvals, Carrying(b)', approvals'[b].i \notin unheard'
        PROVE  (IF approvals[b].step \in Naming
                THEN MadeFor(approvals[b].i) \subseteq {approvals[b].item.company}
                ELSE approvals[b].item.company = items[approvals[b].i].company)'
    <3> SUFFICES ASSUME NEW j, j = approvals'[b].i
                 PROVE  IF approvals'[b].step \in Naming
                        THEN MadeFor(j)' \subseteq {approvals'[b].item.company}
                        ELSE approvals'[b].item.company = items'[j].company
      BY DEF MadeFor
    <3>1. CASE b = a
      <4>1. e.step \in Unwritten \cup Naming /\ e.step # "idle"
        BY <1>6, <2>1, <3>1 DEF Unwritten, Naming
      <4>2. j = i /\ i \notin unheard'
        BY <1>6, <2>1, <3>1, <4>1 DEF InOrder
      <4> QED BY <1>3, <1>6, <3>1, <4>1, <4>2 DEF InOrder
    <3>2. CASE b # a
      <4>1. Carrying(b) /\ Working(b) /\ j = approvals[b].i
            /\ approvals'[b].item = approvals[b].item
            /\ (approvals'[b].step \in Naming <=> approvals[b].step \in Naming)
        BY <1>4, <2>1, <3>2 DEF Unwritten, Naming
      <4>2. j \in DOMAIN items \ {i} /\ j \notin unheard
        BY <1>5, <2>1, <3>2, <4>1 DEF ReviewInv, OfItems, MovesOn
      <4>3. IF approvals[b].step \in Naming
            THEN MadeFor(j) \subseteq {approvals[b].item.company}
            ELSE approvals[b].item.company = items[j].company
        BY <4>1, <4>2 DEF ReviewInv, CompanyInHand
      <4>4. MadeFor(j)' \subseteq MadeFor(j)
        BY <4>2 DEF MovesOn
      <4> QED BY <1>3, <4>1, <4>2, <4>3, <4>4
    <3> QED BY <3>1, <3>2
  <2> QED BY <2>1 DEF CompanyInHand
<1>13. CompanyOnRow'
  <2>1. ASSUME NEW j \in DOMAIN items' \ unheard'
        PROVE  \/ MadeFor(j)' \subseteq {items'[j].company}
               \/ \E b \in Approvals : approvals'[b].step \in Naming /\ approvals'[b].i = j
    <3>1. CASE j = i
      <4>1. e.step \in Naming => e.i = i
        BY DEF InOrder, Naming
      <4>2. e.step \in Naming \/ MadeFor(i)' \subseteq {f.company}
        BY <2>1, <3>1 DEF InOrder
      <4> QED BY <1>3, <1>6, <3>1, <4>1, <4>2
    <3>2. CASE j # i
      <4>1. j \in DOMAIN items \ unheard /\ MadeFor(j)' \subseteq MadeFor(j)
            /\ items'[j].company = items[j].company
        BY <1>3, <2>1, <3>2 DEF MovesOn
      <4>2. CASE MadeFor(j) \subseteq {items[j].company}
        BY <4>1, <4>2
      <4>3. CASE \E b \in Approvals : approvals[b].step \in Naming /\ approvals[b].i = j
        <5>1. PICK b \in Approvals : approvals[b].step \in Naming /\ approvals[b].i = j
          BY <4>3
        <5>2. b # a
          BY <3>2, <5>1 DEF MovesOn, Naming
        <5>3. approvals'[b].step \in Naming /\ approvals'[b].i = j
          BY <1>4, <5>1, <5>2 DEF Naming
        <5> QED BY <5>3
      <4> QED BY <4>1, <4>2, <4>3 DEF ReviewInv, CompanyOnRow
    <3> QED BY <3>1, <3>2
  <2> QED BY <2>1 DEF CompanyOnRow
<1>14. ApprovedIsMade'
  <2>1. ASSUME NEW j \in DOMAIN items', items'[j].status = "approved", ~items'[j].result,
               j \notin cut_off'
        PROVE  \E b \in Approvals : approvals'[b].step \notin {"idle", "claim"} /\ approvals'[b].i = j
    <3>1. CASE j = i
      <4>1. e.step \notin {"idle", "claim"} /\ e.i = i
        BY <1>3, <2>1, <3>1 DEF InOrder
      <4> QED BY <1>6, <3>1, <4>1
    <3>2. CASE j # i
      <4>1. AtWork(j)
        BY <1>3, <2>1, <3>2 DEF ReviewInv, ApprovedIsMade, MovesOn
      <4>2. PICK b \in Approvals : approvals[b].step \notin {"idle", "claim"} /\ approvals[b].i = j
        BY <4>1 DEF AtWork
      <4>3. b # a
        BY <3>2, <4>2 DEF MovesOn
      <4>4. approvals'[b].step \notin {"idle", "claim"} /\ approvals'[b].i = j
        BY <1>4, <4>2, <4>3
      <4> QED BY <4>4
    <3> QED BY <3>1, <3>2
  <2> QED BY <2>1 DEF ApprovedIsMade, AtWork
<1> QED BY <1>7, <1>8, <1>9, <1>10, <1>11, <1>12, <1>13, <1>14

(* Where no approval holds the company of an item, its row names it.        *)
LEMMA RowKnows ==
  ASSUME ReviewInv, NEW i \in DOMAIN items \ unheard,
         \A b \in Approvals : approvals[b].step \in Naming => approvals[b].i # i
  PROVE  MadeFor(i) \subseteq {items[i].company}
BY DEF ReviewInv, CompanyOnRow

(* The row of an item is replaced.                                          *)
LEMMA RowTyped ==
  ASSUME ReviewTypeOK, NEW i \in DOMAIN items, NEW f \in Items,
         items' = [items EXCEPT ![i] = f]
  PROVE  items' \in Seq(Items) /\ Len(items') = Len(items)
<1>1. items \in [DOMAIN items -> Items] /\ items \in Seq(Items)
  BY ItemsAre DEF ReviewTypeOK
<1>2. items' \in [DOMAIN items -> Items]
  BY <1>1
<1> QED BY <1>1, <1>2, Rewritten

LEMMA OvertakingTyped ==
  ASSUME ReviewTypeOK, Overtaking
  PROVE  job' \in Jobs /\ (job'.step = "store" => job'.overtaken)
<1>1. job \in Jobs
  BY DEF ReviewTypeOK
<1>2. CASE job.step = "store"
  <2>1. job \in [step : {"look", "store"}, version : Nat, recorded : Nat, overtaken : BOOLEAN]
    BY <1>1, <1>2 DEF Jobs, Ready
  <2>2. job' = [job EXCEPT !.overtaken = TRUE]
    BY <1>2 DEF Overtaking
  <2> QED BY <2>1, <2>2 DEF Jobs
<1>3. CASE job.step # "store"
  BY <1>1, <1>3 DEF Overtaking
<1> QED BY <1>2, <1>3

(* No item comes to be decided that was not, or the job hears of it.        *)
LEMMA Undecided ==
  ASSUME ReviewInv, job' = job, DOMAIN items' = DOMAIN items,
         \A j \in DOMAIN items : items'[j].version = items[j].version,
         \A j \in DOMAIN items : Decides(j)' => Decides(j)
  PROVE  NotDecided'
<1>1. ASSUME job'.step = "store", ~job'.overtaken, NEW j \in DOMAIN items', Decides(j)',
             items'[j].version = job'.version
      PROVE  FALSE
  <2>1. Decides(j) /\ items[j].version = job.version /\ j \in DOMAIN items
    BY <1>1
  <2> QED BY <1>1, <2>1 DEF ReviewInv, NotDecided, decided
<1> QED BY <1>1 DEF NotDecided, decided

(* One approval goes on, and the row of its item with it; nothing else.     *)
LEMMA OneMoves ==
  ASSUME ReviewInv, NEW a \in Approvals, NEW i \in DOMAIN items,
         NEW e \in AnyApproval, NEW f \in Items,
         (Working(a) /\ approvals[a].i = i) \/ (~Working(a) /\ Open(i)),
         approvals' = [approvals EXCEPT ![a] = e], items' = [items EXCEPT ![i] = f],
         f.version = items[i].version, f.revision = items[i].revision,
         unheard \subseteq unheard', cut_off \subseteq cut_off',
         record' = record, companies' = companies
  PROVE  MovesOn(a, i, e, f) /\ MadeFor(i)' = MadeFor(i)
<1>1. ReviewTypeOK
  BY DEF ReviewInv
<1>2. approvals \in [Approvals -> AnyApproval]
  BY <1>1, ItemsAre
<1>3. \A b \in Approvals \ {a} : approvals'[b] = approvals[b]
  BY <1>2
<1>4. \A b \in Approvals \ {a} : Working(b) => approvals[b].i # i
  <2>1. CASE Working(a) /\ approvals[a].i = i
    BY <2>1 DEF ReviewInv, InHand
  <2>2. CASE Open(i)
    BY <2>2 DEF ReviewInv, InHand, Open
  <2> QED BY <2>1, <2>2
<1>5. approvals' \in [Approvals -> AnyApproval] /\ approvals'[a] = e
  BY <1>2
<1>6. \A c \in DOMAIN companies' : companies'[c].item \in DOMAIN items
  BY DEF ReviewInv, OfItems
<1>7. \A j : MadeFor(j)' = MadeFor(j)
  BY DEF MadeFor
<1> QED BY <1>3, <1>4, <1>5, <1>6, <1>7 DEF MovesOn, LeftTo, Working

(* Put together: a step of one approval that the invariant survives.        *)
LEMMA StepOfOne ==
  ASSUME ReviewInv, NEW a \in Approvals, NEW i \in DOMAIN items,
         NEW e \in AnyApproval, NEW f \in Items,
         MovesOn(a, i, e, f), InOrder(i, e, f),
         companies' \in Seq(QueuedCompanies), record' \in Nat, mishaps' \in Nat,
         unheard' \subseteq Nat, cut_off' \subseteq Nat, UNCHANGED <<kind, source>>,
         Overtaking \/ (job' = job /\ (Decides(i)' => Decides(i)))
  PROVE  ReviewInv'
<1>1. ReviewTypeOK
  BY DEF ReviewInv
<1>2. items' = [items EXCEPT ![i] = f] /\ f.version = items[i].version
      /\ approvals' \in [Approvals -> AnyApproval]
  BY DEF MovesOn
<1>3. items' \in Seq(Items)
  BY <1>1, <1>2, RowTyped
<1>4. items \in [DOMAIN items -> Items]
  BY <1>1, ItemsAre
<1>5. DOMAIN items' = DOMAIN items
      /\ (\A j \in DOMAIN items \ {i} : items'[j] = items[j]) /\ items'[i] = f
  BY <1>2, <1>4
<1>6. job' \in Jobs /\ NotDecided'
  <2>1. CASE Overtaking
    BY <1>1, <2>1, OvertakingTyped DEF NotDecided
  <2>2. CASE job' = job /\ (Decides(i)' => Decides(i))
    <3>1. \A j \in DOMAIN items \ {i} : Decides(j)' => Decides(j)
      BY <1>5, <2>2 DEF Decides, Open, captured
    <3>2. \A j \in DOMAIN items : Decides(j)' => Decides(j)
      BY <2>2, <3>1
    <3>3. \A j \in DOMAIN items : items'[j].version = items[j].version
      BY <1>2, <1>5
    <3>4. NotDecided'
      BY <1>5, <2>2, <3>2, <3>3, Undecided
    <3> QED BY <1>1, <2>2, <3>4 DEF ReviewTypeOK
  <2> QED BY <2>1, <2>2
<1>7. ReviewTypeOK'
  BY <1>1, <1>2, <1>3, <1>6 DEF ReviewTypeOK, AnyApproval
<1>8. (/\ OfItems /\ InHand /\ AsShown /\ ReadStands /\ FoundNone
       /\ CompanyInHand /\ CompanyOnRow /\ ApprovedIsMade)'
  BY Moves
<1> QED BY <1>6, <1>7, <1>8 DEF ReviewInv

-----------------------------------------------------------------------------
(* The steps of an approval *)

(* The facts of an approval at a step of its own: what it is, and of what.  *)
LEMMA AtStep ==
  ASSUME ReviewInv, NEW a \in Approvals, approvals[a].step \in {"claim"} \cup Unwritten \cup Naming
  PROVE  /\ approvals[a] \in Claims /\ approvals[a].item \in Seen
         /\ approvals[a].i \in DOMAIN items /\ items[approvals[a].i] \in Items
         /\ approvals \in [Approvals -> AnyApproval]
         /\ items = [items EXCEPT ![approvals[a].i] = items[approvals[a].i]]
<1>1. ReviewTypeOK
  BY DEF ReviewInv
<1>2. approvals \in [Approvals -> AnyApproval] /\ items \in [DOMAIN items -> Items]
  BY <1>1, ItemsAre
<1>3. approvals[a] \in Claims
  BY <1>2, Forms
<1>4. approvals[a].step # "idle"
  BY Zenon DEF Unwritten, Naming
<1>5. approvals[a].i \in DOMAIN items
  BY <1>4 DEF ReviewInv, OfItems
<1>6. approvals[a].item \in Seen
  BY <1>3 DEF Claims
<1> QED BY <1>2, <1>3, <1>5, <1>6

LEMMA ApproveStep ==
  ASSUME ReviewInv, NEW a \in Approvals, NEW i \in DOMAIN items, NEW edits \in BOOLEAN,
         approve(a, i, edits)
  PROVE  ReviewInv'
<1> DEFINE e == [step |-> "claim", i |-> i, item |-> Loaded(items[i]), edits |-> edits]
<1>1. ReviewTypeOK
  BY DEF ReviewInv
<1>2. items \in [DOMAIN items -> Items] /\ DOMAIN items \subseteq Nat
  BY <1>1, ItemsAre
<1>3. items[i] \in Items /\ i \in Nat /\ items = [items EXCEPT ![i] = items[i]]
  BY <1>2
<1>4. Loaded(items[i]) \in Seen
  BY <1>3 DEF Loaded, Items, Seen
<1>5. e \in Claims
  BY <1>3, <1>4 DEF Claims
<1>6. /\ e.step = "claim" /\ e.i = i /\ e.item.revision = items[i].revision
      /\ e.item.version = items[i].version
  BY DEF Loaded
<1> HIDE DEF e
<1>7. e \in AnyApproval
  BY <1>5 DEF AnyApproval
<1>8. /\ Open(i) /\ approvals[a] = Ready /\ approvals' = [approvals EXCEPT ![a] = e]
      /\ UNCHANGED <<kind, source, job, items, record, companies, mishaps, cut_off, unheard>>
  BY DEF approve, Put, e
<1>9. ~Working(a)
  BY <1>8 DEF Working, Ready
<1>10. MovesOn(a, i, e, items[i]) /\ MadeFor(i)' = MadeFor(i)
  BY <1>3, <1>7, <1>8, <1>9, OneMoves
<1>11. i \notin unheard => MadeFor(i) \subseteq {items[i].company}
  <2>1. \A b \in Approvals : approvals[b].step \in Naming => approvals[b].i # i
    BY <1>8 DEF ReviewInv, InHand, Working, Naming, Open
  <2> QED BY <2>1, RowKnows
<1>12. items[i].revision \in Nat
  BY <1>3 DEF Items
<1>13. InOrder(i, e, items[i])
  BY <1>6, <1>8, <1>10, <1>11, <1>12 DEF InOrder, Unwritten, Naming, Open
<1>14. Decides(i)' => Decides(i)
  BY <1>8 DEF Decides, Open, captured
<1> QED BY <1>1, <1>3, <1>7, <1>8, <1>10, <1>13, <1>14, StepOfOne DEF ReviewTypeOK

LEMMA ClaimStep ==
  ASSUME ReviewInv, NEW a \in Approvals, crm_review_claim(a)
  PROVE  ReviewInv'
<1> DEFINE at == approvals[a]
<1>0. PICK i : i = at.i
  OBVIOUS
<1> DEFINE f == [items[i] EXCEPT !.status = "approved", !.refusal = FALSE]
           e == [at EXCEPT !.step = "change"]
<1>1. ReviewTypeOK
  BY DEF ReviewInv
<1>2. at.step = "claim"
  BY DEF crm_review_claim
<1>3. /\ at \in Claims /\ at.item \in Seen /\ i \in DOMAIN items /\ items[i] \in Items
      /\ approvals \in [Approvals -> AnyApproval]
  BY <1>0, <1>2, AtStep
<1>4. items \in [DOMAIN items -> Items] /\ DOMAIN items \subseteq Nat
  BY <1>1, ItemsAre
<1>5. CASE claimable(items[i], at.item)
  <2>1. f \in Items /\ f.status = "approved" /\ f.version = items[i].version
        /\ f.revision = items[i].revision /\ f.company = items[i].company
    BY <1>3 DEF Items
  <2>2. e \in Claims /\ e.step = "change" /\ e.i = i /\ e.item = at.item
    <3>1. "change" \in {"claim"} \cup Unwritten \cup Naming
      BY DEF Unwritten
    <3> QED BY <1>0, <1>3, <3>1, Gone
  <2>3. /\ approvals' = [approvals EXCEPT ![a] = e]
        /\ items' = [items EXCEPT ![i] = f]
        /\ Overtaking
        /\ unheard' = unheard \cup (IF items[i].company # at.item.company THEN {i} ELSE {})
        /\ UNCHANGED <<kind, source, record, companies, mishaps, cut_off>>
    BY <1>0, <1>3, <1>4, <1>5 DEF crm_review_claim, Go
  <2>4. Open(i) /\ items[i].revision = at.item.revision
    BY <1>5 DEF claimable, Open
  <2>5. at.item.version = items[i].version
    BY <1>0, <1>2, <2>4 DEF ReviewInv, AsShown
  <2> HIDE DEF e, f
  <2>6. e \in AnyApproval
    BY <2>2 DEF AnyApproval
  <2>7. MovesOn(a, i, e, f) /\ MadeFor(i)' = MadeFor(i)
    <3>1. ~Working(a)
      BY <1>2 DEF Working
    <3>2. /\ unheard \subseteq unheard' /\ cut_off \subseteq cut_off'
          /\ record' = record /\ companies' = companies
          /\ approvals' = [approvals EXCEPT ![a] = e] /\ items' = [items EXCEPT ![i] = f]
      BY <2>3
    <3>3. f \in Items /\ f.version = items[i].version /\ f.revision = items[i].revision
      BY <2>1
    <3>4. i \in DOMAIN items /\ Open(i)
      BY <1>3, <2>4
    <3> HIDE DEF at
    <3> QED BY <2>6, <3>1, <3>2, <3>3, <3>4, OneMoves
  <2>8. i \notin unheard => MadeFor(i) \subseteq {items[i].company}
    <3>1. \A b \in Approvals : approvals[b].step \in Naming => approvals[b].i # i
      BY <2>4 DEF ReviewInv, InHand, Working, Naming, Open
    <3> QED BY <1>3, <3>1, RowKnows
  <2>9. InOrder(i, e, f)
    <3>1. e.step \in Unwritten /\ e.step \notin Naming
      BY <2>2 DEF Unwritten, Naming
    <3>2. i \notin unheard' => i \notin unheard /\ items[i].company = at.item.company
      BY <2>3
    <3> QED BY <2>1, <2>2, <2>3, <2>5, <2>7, <2>8, <3>1, <3>2 DEF InOrder
  <2>10. unheard' \subseteq Nat
    BY <1>1, <1>3, <1>4, <2>3 DEF ReviewTypeOK
  <2> HIDE DEF at
  <2> QED BY <1>1, <1>3, <2>1, <2>3, <2>6, <2>7, <2>9, <2>10, StepOfOne DEF ReviewTypeOK
<1>6. CASE ~claimable(items[i], at.item)
  <2>1. /\ approvals' = [approvals EXCEPT ![a] = Ready]
        /\ UNCHANGED <<kind, source, job, items, record, companies, mishaps, cut_off, unheard>>
    BY <1>0, <1>6 DEF crm_review_claim, Put
  <2>2. /\ approvals' \in [Approvals -> AnyApproval] /\ approvals'[a].step = "idle"
        /\ \A b \in Approvals \ {a} : approvals'[b] = approvals[b]
    BY <1>3, <2>1 DEF AnyApproval, Ready
  <2>3. ReviewTypeOK'
    BY <1>1, <2>1, <2>2 DEF ReviewTypeOK, AnyApproval
  <2>4. OfItems'
    BY <2>1, <2>2 DEF ReviewInv, OfItems
  <2>5. InHand'
    BY <2>1, <2>2 DEF ReviewInv, InHand, Working
  <2>6. AsShown'
    BY <2>1, <2>2 DEF ReviewInv, AsShown, Carrying, Unwritten, Naming
  <2>7. ReadStands' /\ FoundNone'
    BY <2>1, <2>2 DEF ReviewInv, ReadStands, FoundNone
  <2>8. NotDecided'
    BY <2>1 DEF ReviewInv, NotDecided, decided, Decides, Open, captured
  <2>9. CompanyInHand'
    BY <2>1, <2>2 DEF ReviewInv, CompanyInHand, Carrying, Unwritten, Naming, MadeFor
  <2>10. CompanyOnRow'
    <3>1. at.step \notin Naming
      BY <1>2 DEF Naming
    <3>2. \A b \in Approvals : approvals[b].step \in Naming => approvals'[b] = approvals[b]
      BY <2>2, <3>1
    <3>3. \A j : MadeFor(j)' = MadeFor(j)
      BY <2>1 DEF MadeFor
    <3> QED BY <2>1, <3>2, <3>3 DEF ReviewInv, CompanyOnRow
  <2>11. ApprovedIsMade'
    <3>1. \A b \in Approvals : approvals[b].step \notin {"idle", "claim"} => approvals'[b] = approvals[b]
      BY <1>2, <2>2
    <3> QED BY <2>1, <3>1 DEF ReviewInv, ApprovedIsMade, AtWork
  <2> QED BY <2>3, <2>4, <2>5, <2>6, <2>7, <2>8, <2>9, <2>10, <2>11 DEF ReviewInv
<1> QED BY <1>5, <1>6

(* What an approval past its claim knows of its item.                       *)
LEMMA Held ==
  ASSUME ReviewInv, NEW a \in Approvals, Working(a), NEW i, i = approvals[a].i
  PROVE  /\ i \in DOMAIN items /\ i \in Nat /\ items[i] \in Items
         /\ items = [items EXCEPT ![i] = items[i]]
         /\ items[i].status = "approved"
         /\ approvals \in [Approvals -> AnyApproval]
         /\ approvals[a].step \in Unwritten \cup Naming =>
              /\ approvals[a] \in Claims /\ approvals[a].item \in Seen
              /\ items[i].version = approvals[a].item.version
         /\ i \notin unheard =>
              /\ approvals[a].step \in Naming => MadeFor(i) \subseteq {approvals[a].item.company}
              /\ approvals[a].step \in Unwritten => approvals[a].item.company = items[i].company
              /\ approvals[a].step \notin Naming => MadeFor(i) \subseteq {items[i].company}
<1>1. ReviewTypeOK
  BY DEF ReviewInv
<1>2. /\ approvals \in [Approvals -> AnyApproval] /\ items \in [DOMAIN items -> Items]
      /\ DOMAIN items \subseteq Nat
  BY <1>1, ItemsAre
<1>3. approvals[a].step # "idle" /\ approvals[a].step # "claim"
  BY DEF Working
<1>4. i \in DOMAIN items /\ items[i].status = "approved"
  BY <1>3 DEF ReviewInv, OfItems, InHand, Working
<1>5. i \in Nat /\ items[i] \in Items /\ items = [items EXCEPT ![i] = items[i]]
  BY <1>2, <1>4
<1>6. ASSUME approvals[a].step \in Unwritten \cup Naming
      PROVE  /\ approvals[a] \in Claims /\ approvals[a].item \in Seen
             /\ items[i].version = approvals[a].item.version
  <2>1. approvals[a] \in Claims /\ approvals[a].item \in Seen
    BY <1>6, AtStep
  <2>2. items[i].version = approvals[a].item.version
    BY <1>6 DEF ReviewInv, AsShown, Carrying
  <2> QED BY <2>1, <2>2
<1>7. ASSUME i \notin unheard
      PROVE  /\ approvals[a].step \in Naming => MadeFor(i) \subseteq {approvals[a].item.company}
             /\ approvals[a].step \in Unwritten => approvals[a].item.company = items[i].company
             /\ approvals[a].step \notin Naming => MadeFor(i) \subseteq {items[i].company}
  <2>1. approvals[a].step \in Unwritten => approvals[a].step \notin Naming
    BY DEF Unwritten, Naming
  <2>2. Carrying(a) => IF approvals[a].step \in Naming
                       THEN MadeFor(i) \subseteq {approvals[a].item.company}
                       ELSE approvals[a].item.company = items[i].company
    BY <1>7 DEF ReviewInv, CompanyInHand
  <2>3. ASSUME approvals[a].step \notin Naming
        PROVE  MadeFor(i) \subseteq {items[i].company}
    <3>1. \A b \in Approvals : approvals[b].step \in Naming => Working(b)
      BY DEF Working, Naming
    <3>2. \A b \in Approvals : approvals[b].step \in Naming => approvals[b].i # i
      BY <2>3, <3>1 DEF ReviewInv, InHand
    <3> QED BY <1>4, <1>7, <3>2, RowKnows
  <2> QED BY <2>1, <2>2, <2>3 DEF Carrying
<1> QED BY <1>2, <1>4, <1>5, <1>6, <1>7

(* A step of such an approval, and of nothing else.                         *)
LEMMA OwnStep ==
  ASSUME ReviewInv, NEW a \in Approvals, Working(a), NEW i, i = approvals[a].i,
         NEW e \in AnyApproval, NEW f \in Items,
         approvals' = [approvals EXCEPT ![a] = e], items' = [items EXCEPT ![i] = f],
         f.version = items[i].version, f.revision = items[i].revision,
         unheard \subseteq unheard', unheard' \subseteq Nat,
         cut_off \subseteq cut_off', cut_off' \subseteq Nat, mishaps' \in Nat,
         UNCHANGED <<kind, source>>, job' = job, record' = record, companies' = companies,
         MadeFor(i)' = MadeFor(i) => InOrder(i, e, f)
  PROVE  ReviewInv'
<1>1. ReviewTypeOK
  BY DEF ReviewInv
<1>2. i \in DOMAIN items /\ items[i].status = "approved" /\ items \in [DOMAIN items -> Items]
  BY <1>1, Held, ItemsAre
<1>3. Working(a) /\ approvals[a].i = i
  OBVIOUS
<1>4. MovesOn(a, i, e, f) /\ MadeFor(i)' = MadeFor(i)
  BY <1>2, <1>3, OneMoves
<1>5. InOrder(i, e, f)
  BY <1>4
<1>6. Decides(i)
  BY <1>2 DEF Decides, Open
<1>7. companies' \in Seq(QueuedCompanies) /\ record' \in Nat
  BY <1>1, <1>3 DEF ReviewTypeOK
<1> QED BY <1>2, <1>3, <1>4, <1>5, <1>6, <1>7, StepOfOne

LEMMA FieldReadStep ==
  ASSUME ReviewInv, NEW a \in Approvals, field_read(a)
  PROVE  ReviewInv'
<1>0. PICK i : i = approvals[a].i
  OBVIOUS
<1>1. approvals[a].step = "change" /\ Working(a)
      /\ approvals[a].step \in Unwritten /\ approvals[a].step \notin Naming
  BY DEF field_read, Working, Unwritten, Naming
<1>2. PICK step \in {"refused", "write"} :
        /\ approvals' = [approvals EXCEPT ![a].step = step]
        /\ step = "write" => approvals[a].edits \/ record = approvals[a].item.recorded
  BY DEF field_read, Go, stale_fields
<1>3. /\ UNCHANGED <<kind, source>> /\ job' = job /\ record' = record /\ companies' = companies
      /\ items' = items
      /\ mishaps' = mishaps /\ cut_off' = cut_off /\ unheard' = unheard
  BY DEF field_read
<1> DEFINE e == [approvals[a] EXCEPT !.step = step]
<1>4. /\ approvals[a] \in Claims /\ items[i] \in Items /\ items = [items EXCEPT ![i] = items[i]]
      /\ items[i].version = approvals[a].item.version /\ items[i].status = "approved"
      /\ i \in DOMAIN items /\ approvals \in [Approvals -> AnyApproval]
      /\ i \notin unheard => /\ approvals[a].item.company = items[i].company
                             /\ MadeFor(i) \subseteq {items[i].company}
  BY <1>0, <1>1, Held
<1>5. step \in {"claim"} \cup Unwritten \cup Naming /\ step \in Unwritten /\ step \notin Naming
  BY DEF Unwritten, Naming
<1>6. e \in Claims /\ e.step = step /\ e.i = i /\ e.item = approvals[a].item
      /\ e.edits = approvals[a].edits
  BY <1>0, <1>4, <1>5, Gone
<1>7. approvals' = [approvals EXCEPT ![a] = e]
  BY <1>2, <1>4
<1> HIDE DEF e
<1>8. e \in AnyApproval
  BY <1>6 DEF AnyApproval
<1>9. MadeFor(i)' = MadeFor(i) => InOrder(i, e, items[i])
  BY <1>2, <1>3, <1>4, <1>5, <1>6 DEF InOrder
<1>10. mishaps \in Nat /\ cut_off \subseteq Nat /\ unheard \subseteq Nat
  BY DEF ReviewInv, ReviewTypeOK
<1>11. mishaps' \in Nat /\ cut_off' \subseteq Nat /\ unheard' \subseteq Nat
       /\ cut_off \subseteq cut_off' /\ unheard \subseteq unheard'
       /\ items' = [items EXCEPT ![i] = items[i]]
  BY <1>3, <1>4, <1>10
<1>12. PICK f : f = items[i]
  OBVIOUS
<1>13. f \in Items /\ f.version = items[i].version /\ f.revision = items[i].revision
       /\ items' = [items EXCEPT ![i] = f] /\ (MadeFor(i)' = MadeFor(i) => InOrder(i, e, f))
  BY <1>4, <1>9, <1>11, <1>12
<1>14. UNCHANGED <<kind, source>> /\ job' = job /\ record' = record /\ companies' = companies
       /\ Working(a) /\ i = approvals[a].i
  BY <1>0, <1>1, <1>3
<1>15. mishaps' \in Nat /\ cut_off' \subseteq Nat /\ unheard' \subseteq Nat
       /\ cut_off \subseteq cut_off' /\ unheard \subseteq unheard'
  BY <1>11
<1> QED BY <1>7, <1>8, <1>13, <1>14, <1>15, OwnStep

LEMMA PeopleStep ==
  ASSUME ReviewInv, NEW a \in Approvals, new_lead_people(a)
  PROVE  ReviewInv'
<1>0. PICK i, f : i = approvals[a].i /\ f = items[i]
  OBVIOUS
<1>1. approvals[a].step = "people" /\ Working(a)
      /\ approvals[a].step \in Naming
  BY DEF new_lead_people, Working, Naming
<1>2. PICK step \in {"done", "keep"} : approvals' = [approvals EXCEPT ![a].step = step]
  BY DEF new_lead_people, Go
<1>3. /\ UNCHANGED <<kind, source>> /\ job' = job /\ record' = record /\ companies' = companies
      /\ items' = items
      /\ mishaps' = mishaps /\ cut_off' = cut_off /\ unheard' = unheard
  BY DEF new_lead_people
<1> DEFINE e == [approvals[a] EXCEPT !.step = step]
<1>4. /\ approvals[a] \in Claims /\ items[i] \in Items /\ items = [items EXCEPT ![i] = items[i]]
      /\ items[i].version = approvals[a].item.version /\ items[i].status = "approved"
      /\ i \in DOMAIN items /\ approvals \in [Approvals -> AnyApproval]
      /\ i \notin unheard => MadeFor(i) \subseteq {approvals[a].item.company}
  BY <1>0, <1>1, Held
<1>5. step \in {"claim"} \cup Unwritten \cup Naming /\ step \in Naming /\ step \notin Unwritten
  BY DEF Unwritten, Naming
<1>6. e \in Claims /\ e.step = step /\ e.i = i /\ e.item = approvals[a].item
  BY <1>0, <1>4, <1>5, Gone
<1>7. approvals' = [approvals EXCEPT ![a] = e]
  BY <1>2, <1>4
<1> HIDE DEF e
<1>8. e \in AnyApproval
  BY <1>6 DEF AnyApproval
<1>9. MadeFor(i)' = MadeFor(i) => InOrder(i, e, f)
  BY <1>0, <1>2, <1>3, <1>4, <1>5, <1>6 DEF InOrder
<1>10. mishaps' \in Nat /\ cut_off' \subseteq Nat /\ unheard' \subseteq Nat
       /\ cut_off \subseteq cut_off' /\ unheard \subseteq unheard'
  BY <1>3 DEF ReviewInv, ReviewTypeOK
<1>11. f \in Items /\ f.version = items[i].version /\ f.revision = items[i].revision
       /\ items' = [items EXCEPT ![i] = f]
  BY <1>0, <1>3, <1>4
<1>12. UNCHANGED <<kind, source>> /\ job' = job /\ record' = record /\ companies' = companies
       /\ Working(a) /\ i = approvals[a].i
  BY <1>0, <1>1, <1>3
<1> QED BY <1>7, <1>8, <1>9, <1>10, <1>11, <1>12, OwnStep

LEMMA KeepStep ==
  ASSUME ReviewInv, NEW a \in Approvals, new_lead_keep(a)
  PROVE  ReviewInv'
<1> DEFINE at == approvals[a]
<1>0. PICK i : i = at.i
  OBVIOUS
<1>1. at.step = "keep" /\ Working(a) /\ at.step \in Naming
  BY DEF new_lead_keep, Working, Naming
<1>2. /\ approvals' = [approvals EXCEPT ![a].step = "refused"]
      /\ UNCHANGED <<kind, source>> /\ job' = job /\ record' = record /\ companies' = companies
      /\ cut_off' = cut_off
  BY DEF new_lead_keep, Go
<1>3. PICK f :
        \/ /\ f = kept(items[i], at.item.company) /\ items' = [items EXCEPT ![i] = f]
           /\ mishaps' = mishaps /\ unheard' = unheard
        \/ /\ f = items[i] /\ items' = items
           /\ mishaps' = mishaps + 1 /\ unheard' = unheard \cup {i}
  BY <1>0 DEF new_lead_keep, Mishap
<1> DEFINE e == [at EXCEPT !.step = "refused"]
<1>4. /\ at \in Claims /\ at.item \in Seen /\ items[i] \in Items
      /\ items[i].version = at.item.version /\ items[i].status = "approved"
      /\ i \in DOMAIN items /\ approvals \in [Approvals -> AnyApproval]
      /\ items = [items EXCEPT ![i] = items[i]]
      /\ i \notin unheard => MadeFor(i) \subseteq {at.item.company}
  BY <1>0, <1>1, Held
<1>5. e \in Claims /\ e.step = "refused" /\ e.i = i /\ e.item = at.item
  <2>1. "refused" \in {"claim"} \cup Unwritten \cup Naming
    BY DEF Unwritten
  <2> QED BY <1>0, <1>4, <2>1, Gone
<1>6. /\ f \in Items /\ f.status = "approved"
      /\ f.version = items[i].version /\ f.revision = items[i].revision
      /\ f.company = at.item.company \/ i \in unheard'
  BY <1>3, <1>4 DEF kept, Items, Seen
<1>7. approvals' = [approvals EXCEPT ![a] = e] /\ items' = [items EXCEPT ![i] = f]
  BY <1>2, <1>3, <1>4
<1> HIDE DEF e
<1>8. e \in AnyApproval
  BY <1>5 DEF AnyApproval
<1>9. e.step \in Unwritten /\ e.step \notin Naming
  BY <1>5 DEF Unwritten, Naming
<1>10. mishaps' \in Nat /\ cut_off' \subseteq Nat /\ unheard' \subseteq Nat
       /\ cut_off \subseteq cut_off' /\ unheard \subseteq unheard'
  <2>1. i \in Nat
    BY <1>4 DEF ReviewInv, ReviewTypeOK
  <2> QED BY <1>2, <1>3, <2>1 DEF ReviewInv, ReviewTypeOK
<1>11. MadeFor(i)' = MadeFor(i) => InOrder(i, e, f)
  BY <1>4, <1>5, <1>6, <1>9, <1>10 DEF InOrder
<1>12. UNCHANGED <<kind, source>> /\ job' = job /\ record' = record /\ companies' = companies
       /\ Working(a) /\ i = approvals[a].i
  BY <1>0, <1>1, <1>2
<1> QED BY <1>6, <1>7, <1>8, <1>10, <1>11, <1>12, OwnStep

LEMMA DoneStep ==
  ASSUME ReviewInv, NEW a \in Approvals, release_done(a)
  PROVE  ReviewInv'
<1> DEFINE at == approvals[a]
<1>0. PICK i : i = at.i
  OBVIOUS
<1>1. at.step = "done" /\ Working(a) /\ at.step \in Naming
  BY DEF release_done, Working, Naming
<1> DEFINE f == [items[i] EXCEPT !.result = TRUE, !.company = at.item.company]
<1>2. /\ at \in Claims /\ at.item \in Seen /\ items[i] \in Items
      /\ items[i].version = at.item.version /\ items[i].status = "approved"
      /\ i \in DOMAIN items /\ approvals \in [Approvals -> AnyApproval]
      /\ i \notin unheard => MadeFor(i) \subseteq {at.item.company}
  BY <1>0, <1>1, Held
<1>3. items \in [DOMAIN items -> Items]
  BY ItemsAre DEF ReviewInv
<1>4. /\ items' = [items EXCEPT ![i] = f] /\ approvals' = [approvals EXCEPT ![a] = Ready]
      /\ UNCHANGED <<kind, source>> /\ job' = job /\ record' = record /\ companies' = companies
      /\ mishaps' = mishaps /\ cut_off' = cut_off /\ unheard' = unheard
  BY <1>0, <1>2, <1>3 DEF release_done, Put
<1>5. /\ f \in Items /\ f.company = at.item.company /\ f.result
      /\ f.version = items[i].version /\ f.revision = items[i].revision
  BY <1>2 DEF Items, Seen
<1> HIDE DEF f
<1>6. Ready \in AnyApproval /\ Ready.step = "idle"
  BY DEF AnyApproval, Ready
<1>7. MadeFor(i)' = MadeFor(i) => InOrder(i, Ready, f)
  BY <1>2, <1>4, <1>5, <1>6 DEF InOrder, Unwritten, Naming
<1>8. mishaps' \in Nat /\ cut_off' \subseteq Nat /\ unheard' \subseteq Nat
      /\ cut_off \subseteq cut_off' /\ unheard \subseteq unheard'
  BY <1>4 DEF ReviewInv, ReviewTypeOK
<1>9. UNCHANGED <<kind, source>> /\ job' = job /\ record' = record /\ companies' = companies
      /\ Working(a) /\ i = approvals[a].i
  BY <1>0, <1>1, <1>4
<1> QED BY <1>4, <1>5, <1>6, <1>7, <1>8, <1>9, OwnStep

LEMMA LookStep ==
  ASSUME ReviewInv, NEW a \in Approvals, release_look(a)
  PROVE  ReviewInv'
<1>0. PICK i, f : i = approvals[a].i /\ f = items[i]
  OBVIOUS
<1>1. approvals[a].step = "refused" /\ Working(a) /\ approvals[a].step \notin Naming
  BY DEF release_look, Working, Naming
<1> DEFINE e == [step |-> IF superseded(i) THEN "expire" ELSE "reopen",
                 i |-> i, found |-> OthersOpen(i)]
<1>2. /\ UNCHANGED <<kind, source>> /\ job' = job /\ record' = record /\ companies' = companies
      /\ items' = items /\ approvals' = [approvals EXCEPT ![a] = e]
      /\ mishaps' = mishaps /\ cut_off' = cut_off /\ unheard' = unheard
  BY <1>0 DEF release_look, Put
<1>3. /\ i \in Nat /\ items[i] \in Items /\ items = [items EXCEPT ![i] = items[i]]
      /\ items[i].status = "approved"
      /\ i \in DOMAIN items /\ approvals \in [Approvals -> AnyApproval]
      /\ i \notin unheard => MadeFor(i) \subseteq {items[i].company}
  BY <1>0, <1>1, Held
<1>4. OthersOpen(i) \subseteq Nat
  BY ItemsAre DEF ReviewInv, OthersOpen
<1>5. e \in Releases
  BY <1>3, <1>4 DEF Releases
<1>6. /\ e.step \in {"expire", "reopen"} /\ e.i = i
      /\ e.step = "reopen" => e.found = {}
  BY DEF superseded
<1> HIDE DEF e
<1>7. e.step \notin {"idle", "claim", "write"} \cup Unwritten \cup Naming
  BY <1>6 DEF Unwritten, Naming
<1>8. e \in AnyApproval
  BY <1>5 DEF AnyApproval
<1>9. MadeFor(i)' = MadeFor(i) => InOrder(i, e, f)
  BY <1>0, <1>2, <1>3, <1>6, <1>7 DEF InOrder
<1>10. mishaps' \in Nat /\ cut_off' \subseteq Nat /\ unheard' \subseteq Nat
       /\ cut_off \subseteq cut_off' /\ unheard \subseteq unheard'
  BY <1>2 DEF ReviewInv, ReviewTypeOK
<1>11. f \in Items /\ f.version = items[i].version /\ f.revision = items[i].revision
       /\ items' = [items EXCEPT ![i] = f]
  BY <1>0, <1>2, <1>3
<1>12. UNCHANGED <<kind, source>> /\ job' = job /\ record' = record /\ companies' = companies
       /\ Working(a) /\ i = approvals[a].i /\ approvals' = [approvals EXCEPT ![a] = e]
  BY <1>0, <1>1, <1>2
<1> QED BY <1>8, <1>9, <1>10, <1>11, <1>12, OwnStep

LEMMA RefusedStep ==
  ASSUME ReviewInv, NEW a \in Approvals, release_refused(a)
  PROVE  ReviewInv'
<1> DEFINE at == approvals[a]
<1>0. PICK i : i = at.i
  OBVIOUS
<1>1. at.step \in {"expire", "reopen"} /\ Working(a)
      /\ at.step \notin Naming
  BY DEF release_refused, Working, Naming
<1>2. /\ i \in Nat /\ items[i] \in Items /\ items = [items EXCEPT ![i] = items[i]]
      /\ items[i].status = "approved"
      /\ i \in DOMAIN items /\ approvals \in [Approvals -> AnyApproval]
      /\ i \notin unheard => MadeFor(i) \subseteq {items[i].company}
  BY <1>0, <1>1, Held
<1>3. items \in [DOMAIN items -> Items]
  BY ItemsAre DEF ReviewInv
<1>4. /\ UNCHANGED <<kind, source>> /\ job' = job /\ record' = record /\ companies' = companies
      /\ approvals' = [approvals EXCEPT ![a] = Ready]
      /\ mishaps' = mishaps /\ unheard' = unheard
  BY DEF release_refused, Put
<1>5. Ready \in AnyApproval /\ Ready.step = "idle"
  BY DEF AnyApproval, Ready
<1>6. mishaps' \in Nat /\ unheard' \subseteq Nat /\ unheard \subseteq unheard' /\ cut_off \subseteq Nat
  BY <1>4 DEF ReviewInv, ReviewTypeOK
<1>7. CASE at.step = "reopen" /\ OthersOpen(i) # {}
  <2>1. at.found = {}
    BY <1>7 DEF ReviewInv, FoundNone
  <2>2. cut_off' = cut_off \cup {i} /\ items' = items
    BY <1>0, <1>7, <2>1 DEF release_refused
  <2>3. PICK f : f = items[i]
    OBVIOUS
  <2>4. f \in Items /\ f.version = items[i].version /\ f.revision = items[i].revision
        /\ items' = [items EXCEPT ![i] = f]
    BY <1>2, <2>2, <2>3
  <2>5. MadeFor(i)' = MadeFor(i) => InOrder(i, Ready, f)
    BY <1>2, <1>4, <1>5, <2>2, <2>3 DEF InOrder, Unwritten, Naming
  <2>6. cut_off \subseteq cut_off' /\ cut_off' \subseteq Nat
    BY <1>2, <1>6, <2>2
  <2>7. UNCHANGED <<kind, source>> /\ job' = job /\ record' = record /\ companies' = companies
        /\ Working(a) /\ i = approvals[a].i /\ approvals' = [approvals EXCEPT ![a] = Ready]
    BY <1>0, <1>1, <1>4
  <2> QED BY <1>5, <1>6, <2>4, <2>5, <2>6, <2>7, OwnStep
<1>8. CASE ~(at.step = "reopen" /\ OthersOpen(i) # {})
  <2> DEFINE status == IF at.step = "expire" THEN "expired" ELSE "open"
             f == [items[i] EXCEPT !.refusal = TRUE, !.status = status]
  <2>1. items' = [items EXCEPT ![i] = f] /\ cut_off' = cut_off
    BY <1>0, <1>2, <1>3, <1>8 DEF release_refused
  <2>2. status \in {"open", "approved", "dismissed", "expired"} /\ status # "approved"
    OBVIOUS
  <2> HIDE DEF status
  <2>3. /\ f \in Items /\ f.status # "approved" /\ f.company = items[i].company
        /\ f.version = items[i].version /\ f.revision = items[i].revision
    BY <1>2, <2>2 DEF Items
  <2> HIDE DEF f
  <2>4. MadeFor(i)' = MadeFor(i) => InOrder(i, Ready, f)
    BY <1>2, <1>4, <1>5, <2>3 DEF InOrder, Unwritten, Naming
  <2>5. cut_off \subseteq cut_off' /\ cut_off' \subseteq Nat
    BY <1>6, <2>1
  <2>6. UNCHANGED <<kind, source>> /\ job' = job /\ record' = record /\ companies' = companies
        /\ Working(a) /\ i = approvals[a].i /\ approvals' = [approvals EXCEPT ![a] = Ready]
    BY <1>0, <1>1, <1>4
  <2> QED BY <1>5, <1>6, <2>1, <2>3, <2>4, <2>5, <2>6, OwnStep
<1> QED BY <1>7, <1>8

LEMMA KillStep ==
  ASSUME ReviewInv, NEW a \in Approvals, kill(a)
  PROVE  ReviewInv'
<1>0. PICK i, f : i = approvals[a].i /\ f = items[i]
  OBVIOUS
<1>1. Working(a)
  BY DEF kill, Working
<1>2. /\ i \in Nat /\ items[i] \in Items /\ items = [items EXCEPT ![i] = items[i]]
      /\ i \in DOMAIN items /\ approvals \in [Approvals -> AnyApproval]
  BY <1>0, <1>1, Held
<1>3. /\ UNCHANGED <<kind, source>> /\ job' = job /\ record' = record /\ companies' = companies
      /\ items' = items /\ approvals' = [approvals EXCEPT ![a] = Ready]
      /\ mishaps' = mishaps + 1 /\ cut_off' = cut_off \cup {i} /\ unheard' = unheard \cup {i}
  BY <1>0 DEF kill, Put, Mishap
<1>4. Ready \in AnyApproval /\ Ready.step = "idle"
  BY DEF AnyApproval, Ready
<1>5. MadeFor(i)' = MadeFor(i) => InOrder(i, Ready, f)
  BY <1>3, <1>4 DEF InOrder, Unwritten, Naming
<1>6. mishaps \in Nat /\ cut_off \subseteq Nat /\ unheard \subseteq Nat
  BY DEF ReviewInv, ReviewTypeOK
<1>7. mishaps' \in Nat /\ cut_off' \subseteq Nat /\ unheard' \subseteq Nat
      /\ cut_off \subseteq cut_off' /\ unheard \subseteq unheard'
  BY <1>2, <1>3, <1>6
<1>8. f \in Items /\ f.version = items[i].version /\ f.revision = items[i].revision
      /\ items' = [items EXCEPT ![i] = f]
  BY <1>0, <1>2, <1>3
<1>9. UNCHANGED <<kind, source>> /\ job' = job /\ record' = record /\ companies' = companies
      /\ Working(a) /\ i = approvals[a].i /\ approvals' = [approvals EXCEPT ![a] = Ready]
  BY <1>0, <1>1, <1>3
<1> QED BY <1>4, <1>5, <1>7, <1>8, <1>9, OwnStep

(* A write of the field: this approval goes on, and the others are locked   *)
(* out of theirs.                                                           *)
LEMMA FieldWriteStep ==
  ASSUME ReviewInv, NEW a \in Approvals, field_write(a)
  PROVE  ReviewInv'
<1> DEFINE at == approvals[a]
<1>0. PICK i, f : i = at.i /\ f = items[i]
  OBVIOUS
<1>1. at.step \in {"write", "locked out"} /\ Working(a)
      /\ at.step \in Unwritten /\ at.step \notin Naming
  BY DEF field_write, Working, Unwritten, Naming
<1>2. /\ UNCHANGED <<kind, source>> /\ job' = job /\ companies' = companies /\ items' = items
      /\ cut_off' = cut_off /\ unheard' = unheard
  BY DEF field_write
<1>3. /\ at \in Claims /\ at.item \in Seen /\ items[i] \in Items
      /\ items = [items EXCEPT ![i] = items[i]]
      /\ items[i].version = at.item.version /\ items[i].status = "approved"
      /\ i \in DOMAIN items /\ approvals \in [Approvals -> AnyApproval]
      /\ i \notin unheard => /\ at.item.company = items[i].company
                             /\ MadeFor(i) \subseteq {items[i].company}
  BY <1>0, <1>1, Held
<1>4. f \in Items /\ f.version = items[i].version /\ f.revision = items[i].revision
      /\ items' = [items EXCEPT ![i] = f]
  BY <1>0, <1>2, <1>3
<1>5. mishaps \in Nat /\ cut_off \subseteq Nat /\ unheard \subseteq Nat /\ record \in Nat
      /\ companies \in Seq(QueuedCompanies)
  BY DEF ReviewInv, ReviewTypeOK
<1>6. mishaps' \in Nat
  <2>1. mishaps' = mishaps \/ mishaps' = mishaps + 1
    BY Zenon DEF field_write, Answered, Mishap
  <2> QED BY <1>5, <2>1
<1>7. cut_off' \subseteq Nat /\ unheard' \subseteq Nat /\ cut_off \subseteq cut_off'
      /\ unheard \subseteq unheard' /\ companies' \in Seq(QueuedCompanies)
  BY <1>2, <1>5
<1>8. CASE Go(a, "refused") /\ UNCHANGED <<record, mishaps>>
  <2> DEFINE e == [at EXCEPT !.step = "refused"]
  <2>1. e \in Claims /\ e.step = "refused" /\ e.i = i /\ e.item = at.item
    <3>1. "refused" \in {"claim"} \cup Unwritten \cup Naming
      BY DEF Unwritten
    <3> QED BY <1>0, <1>3, <3>1, Gone
  <2>2. approvals' = [approvals EXCEPT ![a] = e]
    BY <1>3, <1>8 DEF Go
  <2> HIDE DEF e
  <2>3. e \in AnyApproval
    BY <2>1 DEF AnyApproval
  <2>4. e.step \in Unwritten /\ e.step \notin Naming
    BY <2>1 DEF Unwritten, Naming
  <2>5. MadeFor(i)' = MadeFor(i) => InOrder(i, e, f)
    BY <1>0, <1>2, <1>3, <2>1, <2>4 DEF InOrder
  <2>6. UNCHANGED <<kind, source>> /\ job' = job /\ record' = record /\ companies' = companies
        /\ Working(a) /\ i = approvals[a].i
    BY <1>0, <1>1, <1>2, <1>8
  <2> QED BY <1>4, <1>6, <1>7, <2>2, <2>3, <2>5, <2>6, OwnStep
<1>9. CASE /\ record' = at.item.version
           /\ \E answer \in BOOLEAN :
                approvals' = [b \in Approvals |->
                  [approvals[b] EXCEPT !.step =
                     IF b # a THEN LockOut(approvals[b].step)
                     ELSE IF answer THEN "done" ELSE "refused"]]
  <2>1. PICK step \in {"done", "refused"} :
          approvals' = [b \in Approvals |->
            [approvals[b] EXCEPT !.step = IF b # a THEN LockOut(approvals[b].step) ELSE step]]
    BY <1>9
  <2> DEFINE e == [at EXCEPT !.step = step]
  <2>2. step \in {"claim"} \cup Unwritten \cup Naming /\ step # "write"
    BY DEF Unwritten, Naming
  <2>3. e \in Claims /\ e.step = step /\ e.i = i /\ e.item = at.item
    BY <1>0, <1>3, <2>2, Gone
  <2>4. approvals'[a] = e
    BY <2>1
  <2>5. ASSUME NEW b \in Approvals \ {a}
        PROVE  LeftTo(b) /\ approvals'[b] \in AnyApproval
    <3>1. approvals'[b] = [approvals[b] EXCEPT !.step = LockOut(approvals[b].step)]
      BY <2>1
    <3>2. approvals[b] \in AnyApproval
      BY <1>3
    <3>3. CASE approvals[b].step = "write"
      <4>1. approvals'[b] = [approvals[b] EXCEPT !.step = "locked out"]
        BY <3>1, <3>3 DEF LockOut
      <4>2. approvals[b] \in Claims
        BY <3>2, <3>3, Forms DEF Unwritten
      <4>3. approvals'[b] \in Claims
        BY <4>1, <4>2, LockedOut
      <4> QED BY <3>3, <4>1, <4>3 DEF LeftTo, AnyApproval
    <3>4. CASE approvals[b].step # "write"
      <4>1. approvals'[b] = [approvals[b] EXCEPT !.step = approvals[b].step]
        BY <3>1, <3>4 DEF LockOut
      <4>2. [approvals[b] EXCEPT !.step = approvals[b].step] = approvals[b]
        BY <3>2 DEF AnyApproval, Ready, Claims, Releases
      <4> QED BY <3>2, <3>4, <4>1, <4>2 DEF LeftTo
    <3> QED BY <3>3, <3>4
  <2> HIDE DEF e
  <2>6. e \in AnyApproval
    BY <2>3 DEF AnyApproval
  <2>7. \A b \in Approvals \ {a} : Working(b) => approvals[b].i # i
    BY <1>0, <1>1 DEF ReviewInv, InHand
  <2>8. approvals' \in [Approvals -> AnyApproval]
    <3>1. \A b \in Approvals : approvals'[b] \in AnyApproval
      BY <2>4, <2>5, <2>6
    <3>2. DOMAIN approvals' = Approvals /\ approvals' = [b \in Approvals |-> approvals'[b]]
      BY <2>1
    <3> QED BY <3>1, <3>2
  <2>9. /\ \A c \in DOMAIN companies' : companies'[c].item \in DOMAIN items
        /\ \A j : MadeFor(j)' = MadeFor(j)
    BY <1>2 DEF ReviewInv, OfItems, MadeFor
  <2>10. MovesOn(a, i, e, f)
    BY <1>0, <1>4, <1>7, <2>4, <2>5, <2>7, <2>8, <2>9 DEF MovesOn
  <2>11. step \in Naming \/ step \in Unwritten
    BY DEF Unwritten, Naming
  <2>12. step \in Naming => step \notin Unwritten
    BY DEF Unwritten, Naming
  <2>13. InOrder(i, e, f)
    BY <1>0, <1>2, <1>3, <2>2, <2>3, <2>9, <2>11, <2>12 DEF InOrder
  <2>14. Decides(i)' => Decides(i)
    BY <1>2 DEF Decides, Open, captured
  <2>15. record' \in Nat
    BY <1>3, <1>9 DEF Seen
  <2>16. UNCHANGED <<kind, source>> /\ job' = job
    BY <1>2
  <2> QED BY <1>3, <1>4, <1>6, <1>7, <2>6, <2>10, <2>13, <2>14, <2>15, <2>16, StepOfOne
<1> QED
  <2>1. \/ Go(a, "refused") /\ UNCHANGED <<record, mishaps>>
        \/ /\ record' = at.item.version
           /\ \E answer \in BOOLEAN :
                approvals' = [b \in Approvals |->
                  [approvals[b] EXCEPT !.step =
                     IF b # a THEN LockOut(approvals[b].step)
                     ELSE IF answer THEN "done" ELSE "refused"]]
    BY Zenon DEF field_write
  <2> QED BY <1>8, <1>9, <2>1

(* A new lead's company: an earlier one, a new one, or none.                *)
LEMMA NewLeadStep ==
  ASSUME ReviewInv, NEW a \in Approvals, new_lead(a)
  PROVE  ReviewInv'
<1> DEFINE at == approvals[a]
<1>0. PICK i, f : i = at.i /\ f = items[i]
  OBVIOUS
<1>1. at.step = "change" /\ Working(a) /\ at.step \in Unwritten /\ at.step \notin Naming
  BY DEF new_lead, Working, Unwritten, Naming
<1>2. /\ UNCHANGED <<kind, source>> /\ job' = job /\ record' = record /\ items' = items
      /\ cut_off' = cut_off
  BY DEF new_lead
<1>3. /\ at \in Claims /\ at.item \in Seen /\ items[i] \in Items
      /\ items = [items EXCEPT ![i] = items[i]] /\ i \in Nat
      /\ items[i].version = at.item.version /\ items[i].status = "approved"
      /\ i \in DOMAIN items /\ approvals \in [Approvals -> AnyApproval]
      /\ i \notin unheard => /\ at.item.company = items[i].company
                             /\ MadeFor(i) \subseteq {items[i].company}
  BY <1>0, <1>1, Held
<1>4. f \in Items /\ f.version = items[i].version /\ f.revision = items[i].revision
      /\ items' = [items EXCEPT ![i] = f]
  BY <1>0, <1>2, <1>3
<1>5. mishaps \in Nat /\ cut_off \subseteq Nat /\ unheard \subseteq Nat /\ record \in Nat
      /\ companies \in Seq(QueuedCompanies) /\ ReviewTypeOK
  BY DEF ReviewInv, ReviewTypeOK
<1>6. mishaps' \in Nat
  BY <1>5 DEF new_lead, Answered, Mishap
<1>7. cut_off' \subseteq Nat /\ cut_off \subseteq cut_off' /\ record' \in Nat
  BY <1>2, <1>5
<1>8. CASE \E step \in {"refused", "people"} :
             /\ Go(a, step) /\ UNCHANGED <<companies, mishaps, unheard>>
             /\ step = "people" => at.item.company # NoCompany
  <2>1. PICK step \in {"refused", "people"} :
          Go(a, step) /\ UNCHANGED <<companies, mishaps, unheard>>
    BY <1>8
  <2> DEFINE e == [at EXCEPT !.step = step]
  <2>2. step \in {"claim"} \cup Unwritten \cup Naming /\ (step \in Naming \/ step \in Unwritten)
        /\ step \notin {"idle", "claim", "write", "reopen"}
    BY DEF Unwritten, Naming
  <2>3. e \in Claims /\ e.step = step /\ e.i = i /\ e.item = at.item
    BY <1>0, <1>3, <2>2, Gone
  <2>4. approvals' = [approvals EXCEPT ![a] = e]
    BY <1>3, <2>1 DEF Go
  <2> HIDE DEF e
  <2>5. e \in AnyApproval
    BY <2>3 DEF AnyApproval
  <2>6. MadeFor(i)' = MadeFor(i) => InOrder(i, e, f)
    BY <1>0, <1>2, <1>3, <2>1, <2>2, <2>3 DEF InOrder
  <2>7. UNCHANGED <<kind, source>> /\ job' = job /\ record' = record /\ companies' = companies
        /\ Working(a) /\ i = approvals[a].i
    BY <1>0, <1>1, <1>2, <2>1
  <2>8. unheard' \subseteq Nat /\ unheard \subseteq unheard'
    BY <1>5, <2>1
  <2> QED BY <1>4, <1>6, <1>7, <2>4, <2>5, <2>6, <2>7, <2>8, OwnStep
<1>9. CASE /\ earlier(at.item) = NoCompany
           /\ companies' = Append(companies, [item |-> i, trashed |-> FALSE])
           /\ \E answer \in BOOLEAN :
                IF answer
                THEN /\ Put(a, [at EXCEPT !.step = "people",
                                          !.item = [at.item EXCEPT !.company = Len(companies) + 1]])
                     /\ UNCHANGED unheard
                ELSE Go(a, "refused") /\ unheard' = unheard \cup {i}
  <2> DEFINE n == Len(companies) + 1
             new == [item |-> i, trashed |-> FALSE]
  <2>1. new \in QueuedCompanies
    BY <1>3 DEF QueuedCompanies
  <2>2. /\ companies' \in Seq(QueuedCompanies)
        /\ DOMAIN companies' = DOMAIN companies \cup {n}
        /\ \A j \in DOMAIN companies : companies'[j] = companies[j]
        /\ companies'[n] = new /\ n \notin DOMAIN companies /\ n \in Nat
    BY <1>5, <1>9, <2>1, Appended
  <2>3. new.item = i
    OBVIOUS
  <2> HIDE DEF n, new
  <2>4. \A c \in DOMAIN companies' : companies'[c].item \in DOMAIN items
    BY <1>3, <2>2, <2>3 DEF ReviewInv, OfItems
  <2>5. \A j \in DOMAIN items \ {i} : MadeFor(j)' \subseteq MadeFor(j)
    BY <2>2, <2>3 DEF MadeFor
  <2>6. MadeFor(i)' \subseteq MadeFor(i) \cup {n}
    BY <2>2 DEF MadeFor
  <2>7. i \notin unheard => MadeFor(i) = {}
    <3>1. ASSUME i \notin unheard, NEW c \in MadeFor(i)
          PROVE  FALSE
      <4>1. c = at.item.company /\ c \in DOMAIN companies /\ ~companies[c].trashed
        BY <1>3, <3>1 DEF MadeFor
      <4>2. c # NoCompany
        BY <1>5, <4>1, ItemsAre DEF NoCompany
      <4> QED BY <1>9, <4>1, <4>2 DEF earlier
    <3> QED BY <3>1
  <2>8. Decides(i)' => Decides(i)
    BY <1>2 DEF Decides, Open, captured
  <2>9. \A b \in Approvals \ {a} : Working(b) => approvals[b].i # i
    BY <1>0, <1>1 DEF ReviewInv, InHand
  <2>10. UNCHANGED <<kind, source>> /\ job' = job
    BY <1>2
  <2>11. ASSUME NEW e \in AnyApproval, approvals' = [approvals EXCEPT ![a] = e],
                unheard \subseteq unheard', InOrder(i, e, f), unheard' \subseteq Nat
         PROVE  ReviewInv'
    <3>1. /\ approvals' \in [Approvals -> AnyApproval] /\ approvals'[a] = e
          /\ \A b \in Approvals \ {a} : approvals'[b] = approvals[b]
      BY <1>3, <2>11
    <3>2. MovesOn(a, i, e, f)
      BY <1>0, <1>2, <1>4, <1>7, <2>4, <2>5, <2>9, <2>11, <3>1 DEF MovesOn, LeftTo
    <3> QED BY <1>3, <1>4, <1>6, <1>7, <2>2, <2>8, <2>10, <2>11, <3>2, StepOfOne
  <2>12. CASE /\ approvals' = [approvals EXCEPT ![a] =
                    [at EXCEPT !.step = "people", !.item = [at.item EXCEPT !.company = n]]]
              /\ unheard' = unheard
    <3> DEFINE s == [at.item EXCEPT !.company = n]
               e == [at EXCEPT !.step = "people", !.item = s]
    <3>0. s \in Seen /\ s.version = at.item.version /\ s.company = n
      BY <1>3, <2>2 DEF Seen
    <3> HIDE DEF s
    <3>1. e \in Claims /\ e.step = "people" /\ e.i = i /\ e.item = s
      <4>1. "people" \in {"claim"} \cup Unwritten \cup Naming
        BY DEF Naming
      <4>2. PICK h : h = [at EXCEPT !.step = "people"]
        OBVIOUS
      <4>3. h \in Claims /\ h.step = "people" /\ h.i = i
        BY <1>0, <1>3, <4>1, <4>2, Gone
      <4>4. e = [h EXCEPT !.item = s]
        BY <1>3, <4>2, SMT DEF Claims
      <4> HIDE DEF e
      <4> QED BY <3>0, <4>3, <4>4, Reloaded
    <3> HIDE DEF e
    <3>5. e \in AnyApproval
      BY <3>1 DEF AnyApproval
    <3>6. e.step \in Naming /\ e.step \notin Unwritten
      BY <3>1 DEF Unwritten, Naming
    <3>7. InOrder(i, e, f)
      BY <1>0, <1>3, <2>6, <2>7, <2>12, <3>0, <3>1, <3>6 DEF InOrder
    <3>8. approvals' = [approvals EXCEPT ![a] = e]
      BY <2>12 DEF e, s
    <3> QED BY <1>5, <2>11, <2>12, <3>5, <3>7, <3>8
  <2>13. CASE Go(a, "refused") /\ unheard' = unheard \cup {i}
    <3> DEFINE e == [at EXCEPT !.step = "refused"]
    <3>1. e \in Claims /\ e.step = "refused" /\ e.i = i /\ e.item = at.item
      <4>1. "refused" \in {"claim"} \cup Unwritten \cup Naming
        BY DEF Unwritten
      <4> QED BY <1>0, <1>3, <4>1, Gone
    <3>2. approvals' = [approvals EXCEPT ![a] = e]
      BY <1>3, <2>13 DEF Go
    <3> HIDE DEF e
    <3>3. e \in AnyApproval
      BY <3>1 DEF AnyApproval
    <3>4. InOrder(i, e, f)
      BY <1>0, <1>3, <2>13, <3>1 DEF InOrder
    <3>5. unheard \subseteq unheard' /\ unheard' \subseteq Nat
      BY <1>3, <1>5, <2>13
    <3> QED BY <2>11, <3>2, <3>3, <3>4, <3>5
  <2> QED BY <1>9, <2>12, <2>13 DEF Put, n
<1> QED
  <2>1. CASE Go(a, "refused") /\ UNCHANGED <<companies, mishaps, unheard>>
    BY <1>8, <2>1
  <2>2. CASE /\ earlier(at.item) # NoCompany /\ Go(a, "people")
             /\ UNCHANGED <<companies, mishaps, unheard>>
    BY <1>8, <2>2 DEF earlier
  <2> QED BY <1>0, <1>9, <2>1, <2>2 DEF new_lead

-----------------------------------------------------------------------------
(* The steps of the job, of people deciding and editing, and of the source *)

(* What those do to a row there was: no approved row changes, and a row     *)
(* that changes its version is revised.                                     *)
RowStands(j) ==
  /\ items'[j].company = items[j].company /\ items'[j].result = items[j].result
  /\ items'[j].status = "approved" <=> items[j].status = "approved"
  /\ items[j].status = "approved" => items'[j].version = items[j].version
  /\ items'[j].revision \in Nat /\ items[j].revision <= items'[j].revision
  /\ items'[j].revision = items[j].revision => items'[j].version = items[j].version

Beside ==
  /\ \A b \in Approvals : LeftTo(b) /\ approvals'[b] \in AnyApproval
  /\ DOMAIN items \subseteq DOMAIN items'
  /\ \A j \in DOMAIN items : RowStands(j) /\ MadeFor(j)' \subseteq MadeFor(j)
  /\ \A j \in DOMAIN items' \ DOMAIN items : items'[j].status = "open" /\ MadeFor(j)' = {}
  /\ \A c \in DOMAIN companies' : companies'[c].item \in DOMAIN items
  /\ unheard' = unheard /\ cut_off' = cut_off

LEMMA StepBeside ==
  ASSUME ReviewInv, Beside
  PROVE  (/\ OfItems /\ InHand /\ AsShown /\ ReadStands /\ FoundNone
          /\ CompanyInHand /\ CompanyOnRow /\ ApprovedIsMade)'
<1> USE DEF Working, Carrying
<1>1. ReviewTypeOK
  BY DEF ReviewInv
<1>2. /\ items \in [DOMAIN items -> Items] /\ approvals \in [Approvals -> AnyApproval]
  BY <1>1, ItemsAre
<1>3. ASSUME NEW b \in Approvals PROVE
        /\ \/ approvals'[b].step = approvals[b].step
           \/ approvals[b].step = "write" /\ approvals'[b].step = "locked out"
        /\ approvals[b].step # "idle" => approvals'[b].i = approvals[b].i
        /\ Carrying(b) \/ approvals[b].step = "claim" =>
             /\ approvals'[b].item = approvals[b].item
             /\ approvals'[b].edits = approvals[b].edits
        /\ approvals[b].step = "reopen" => approvals'[b] = approvals[b]
        /\ approvals'[b].step = "write" => approvals'[b] = approvals[b] /\ record' = record
        /\ approvals[b].step # "idle" => approvals[b].i \in DOMAIN items
        /\ Carrying(b) => approvals[b].step # "idle" /\ Working(b)
  <2>1. CASE approvals'[b] = approvals[b] /\ (approvals[b].step = "write" => record' = record)
    BY <2>1 DEF ReviewInv, OfItems, Unwritten, Naming
  <2>2. CASE approvals[b].step = "write" /\ approvals'[b] = [approvals[b] EXCEPT !.step = "locked out"]
    <3>1. approvals[b] \in Claims
      BY <1>2, <2>2, Forms DEF Unwritten
    <3>2. approvals'[b].step = "locked out" /\ approvals'[b].i = approvals[b].i
          /\ approvals'[b].item = approvals[b].item /\ approvals'[b].edits = approvals[b].edits
      BY <2>2, <3>1, LockedOut
    <3>3. approvals[b].i \in DOMAIN items
      BY <2>2 DEF ReviewInv, OfItems
    <3> QED BY <2>2, <3>2, <3>3
  <2> QED BY <2>1, <2>2 DEF Beside, LeftTo
<1>4. /\ DOMAIN items \subseteq DOMAIN items'
      /\ \A j \in DOMAIN items : RowStands(j) /\ MadeFor(j)' \subseteq MadeFor(j)
      /\ \A j \in DOMAIN items' \ DOMAIN items : items'[j].status = "open" /\ MadeFor(j)' = {}
      /\ unheard' = unheard /\ cut_off' = cut_off
  BY DEF Beside
<1>5. OfItems'
  <2>1. \A c \in DOMAIN companies' : companies'[c].item \in DOMAIN items'
    BY <1>4 DEF Beside
  <2>2. \A b \in Approvals : approvals'[b].step # "idle" => approvals'[b].i \in DOMAIN items'
    BY <1>3, <1>4
  <2> QED BY <2>1, <2>2 DEF OfItems
<1>6. InHand'
  <2>1. ASSUME NEW b \in Approvals, Working(b)'
        PROVE  /\ Working(b) /\ approvals'[b].i = approvals[b].i
               /\ items'[approvals'[b].i].status = "approved"
    <3>1. Working(b) /\ approvals'[b].i = approvals[b].i /\ approvals[b].i \in DOMAIN items
      BY <1>3, <2>1
    <3>2. items[approvals[b].i].status = "approved"
      BY <3>1 DEF ReviewInv, InHand
    <3> QED BY <1>4, <3>1, <3>2 DEF RowStands
  <2>2. ASSUME NEW b \in Approvals, NEW d \in Approvals, Working(b)', Working(d)',
               approvals'[d].i = approvals'[b].i
        PROVE  b = d
    BY <2>1, <2>2 DEF ReviewInv, InHand
  <2> QED BY <2>1, <2>2 DEF InHand
<1>7. AsShown'
  <2>1. ASSUME NEW b \in Approvals, approvals'[b].step \in Unwritten \cup Naming
        PROVE  items'[approvals'[b].i].version = approvals'[b].item.version
    <3>1. Carrying(b) /\ approvals'[b].i = approvals[b].i /\ approvals'[b].item = approvals[b].item
          /\ approvals[b].i \in DOMAIN items /\ Working(b)
      BY <1>3, <2>1 DEF Unwritten, Naming
    <3>2. items[approvals[b].i].version = approvals[b].item.version
          /\ items[approvals[b].i].status = "approved"
      BY <3>1 DEF ReviewInv, AsShown, InHand
    <3> QED BY <1>4, <3>1, <3>2 DEF RowStands
  <2>2. ASSUME NEW b \in Approvals, approvals'[b].step = "claim"
        PROVE  /\ approvals'[b].item.revision <= items'[approvals'[b].i].revision
               /\ approvals'[b].item.revision = items'[approvals'[b].i].revision
                    => approvals'[b].item.version = items'[approvals'[b].i].version
    <3>1. approvals[b].step = "claim"
      BY <1>3, <2>2
    <3>2. approvals'[b].i = approvals[b].i /\ approvals'[b].item = approvals[b].item
          /\ approvals[b].i \in DOMAIN items
      BY <1>3, <3>1
    <3> DEFINE shown == approvals[b].item
               old == items[approvals[b].i]
               new == items'[approvals[b].i]
    <3>3. shown.revision <= old.revision
          /\ (shown.revision = old.revision => shown.version = old.version)
      BY <3>1 DEF ReviewInv, AsShown
    <3>4. old.revision <= new.revision /\ (new.revision = old.revision => new.version = old.version)
      BY <1>4, <3>2 DEF RowStands
    <3>5. shown \in Seen
      BY <3>1, AtStep
    <3>6. old.revision \in Nat /\ shown.revision \in Nat
      BY <1>2, <3>2, <3>5 DEF Items, Seen
    <3>7. new.revision = shown.revision => old.revision = shown.revision
      <4> HIDE DEF shown, old, new
      <4> QED BY <3>3, <3>4, <3>6, SMT
    <3>8. shown.revision <= new.revision
      <4>1. new.revision \in Int
        BY <1>4, <3>2 DEF RowStands
      <4> HIDE DEF shown, old, new
      <4> QED BY <3>3, <3>4, <3>6, <4>1, SMT
    <3> QED BY <3>2, <3>3, <3>4, <3>7, <3>8
  <2> QED BY <2>1, <2>2 DEF AsShown
<1>8. ReadStands' /\ FoundNone'
  <2>1. \A b \in Approvals : approvals'[b].step = "write" =>
          approvals'[b].edits \/ record' = approvals'[b].item.recorded
    BY <1>3 DEF ReviewInv, ReadStands
  <2>2. \A b \in Approvals : approvals'[b].step = "reopen" => approvals'[b].found = {}
    BY <1>3 DEF ReviewInv, FoundNone
  <2> QED BY <2>1, <2>2 DEF ReadStands, FoundNone
<1>9. CompanyInHand'
  <2>1. ASSUME NEW b \in Approvals, approvals'[b].step \in Unwritten \cup Naming,
               approvals'[b].i \notin unheard'
        PROVE  (IF approvals[b].step \in Naming
                THEN MadeFor(approvals[b].i) \subseteq {approvals[b].item.company}
                ELSE approvals[b].item.company = items[approvals[b].i].company)'
    <3> SUFFICES ASSUME NEW j, j = approvals'[b].i
                 PROVE  IF approvals'[b].step \in Naming
                        THEN MadeFor(j)' \subseteq {approvals'[b].item.company}
                        ELSE approvals'[b].item.company = items'[j].company
      BY DEF MadeFor
    <3>1. Carrying(b) /\ j = approvals[b].i /\ approvals'[b].item = approvals[b].item
          /\ j \in DOMAIN items /\ (approvals'[b].step \in Naming <=> approvals[b].step \in Naming)
      BY <1>3, <2>1 DEF Unwritten, Naming
    <3>2. IF approvals[b].step \in Naming
          THEN MadeFor(j) \subseteq {approvals[b].item.company}
          ELSE approvals[b].item.company = items[j].company
      BY <1>4, <2>1, <3>1 DEF ReviewInv, CompanyInHand
    <3> QED BY <1>4, <3>1, <3>2 DEF RowStands
  <2> QED BY <2>1 DEF CompanyInHand
<1>10. CompanyOnRow'
  <2>1. ASSUME NEW j \in DOMAIN items' \ unheard'
        PROVE  \/ MadeFor(j)' \subseteq {items'[j].company}
               \/ \E b \in Approvals : approvals'[b].step \in Naming /\ approvals'[b].i = j
    <3>1. CASE j \notin DOMAIN items
      BY <1>4, <2>1, <3>1
    <3>2. CASE j \in DOMAIN items
      <4>1. MadeFor(j)' \subseteq MadeFor(j) /\ items'[j].company = items[j].company
        BY <1>4, <3>2 DEF RowStands
      <4>2. CASE MadeFor(j) \subseteq {items[j].company}
        BY <4>1, <4>2
      <4>3. CASE \E b \in Approvals : approvals[b].step \in Naming /\ approvals[b].i = j
        <5>1. PICK b \in Approvals : approvals[b].step \in Naming /\ approvals[b].i = j
          BY <4>3
        <5>2. approvals'[b].step \in Naming /\ approvals'[b].i = j
          BY <1>3, <5>1 DEF Naming
        <5> QED BY <5>2
      <4> QED BY <1>4, <2>1, <3>2, <4>2, <4>3 DEF ReviewInv, CompanyOnRow
    <3> QED BY <3>1, <3>2
  <2> QED BY <2>1 DEF CompanyOnRow
<1>11. ApprovedIsMade'
  <2>1. ASSUME NEW j \in DOMAIN items', items'[j].status = "approved", ~items'[j].result,
               j \notin cut_off'
        PROVE  \E b \in Approvals : approvals'[b].step \notin {"idle", "claim"} /\ approvals'[b].i = j
    <3>1. j \in DOMAIN items /\ items[j].status = "approved" /\ ~items[j].result /\ j \notin cut_off
      BY <1>4, <2>1 DEF RowStands
    <3>2. AtWork(j)
      BY <3>1 DEF ReviewInv, ApprovedIsMade
    <3>3. PICK b \in Approvals : approvals[b].step \notin {"idle", "claim"} /\ approvals[b].i = j
      BY <3>2 DEF AtWork
    <3>4. approvals'[b].step \notin {"idle", "claim"} /\ approvals'[b].i = j
      BY <1>3, <3>3
    <3> QED BY <3>4
  <2> QED BY <2>1 DEF ApprovedIsMade, AtWork
<1> QED BY <1>5, <1>6, <1>7, <1>8, <1>9, <1>10, <1>11

(* What a step beside the approvals leaves in each of its usual forms.      *)
LEMMA NothingMoves ==
  ASSUME ReviewInv
  PROVE  /\ (approvals' = approvals /\ record' = record) =>
              \A b \in Approvals : LeftTo(b) /\ approvals'[b] \in AnyApproval
         /\ items' = items => \A j \in DOMAIN items : RowStands(j)
         /\ companies' = companies => \A j : MadeFor(j)' = MadeFor(j)
         /\ \A c \in DOMAIN companies : companies[c].item \in DOMAIN items
         /\ \A j : j \notin DOMAIN items => MadeFor(j) = {}
<1>1. ReviewTypeOK
  BY DEF ReviewInv
<1>2. approvals \in [Approvals -> AnyApproval] /\ items \in [DOMAIN items -> Items]
  BY <1>1, ItemsAre
<1>3. \A c \in DOMAIN companies : companies[c].item \in DOMAIN items
  BY DEF ReviewInv, OfItems
<1>4. (approvals' = approvals /\ record' = record) =>
         \A b \in Approvals : LeftTo(b) /\ approvals'[b] \in AnyApproval
  BY <1>2 DEF LeftTo
<1>5. items' = items => \A j \in DOMAIN items : RowStands(j)
  <2>1. \A j \in DOMAIN items : items[j].revision \in Nat
    BY <1>2 DEF Items
  <2> QED BY <2>1 DEF RowStands
<1>6. companies' = companies => \A j : MadeFor(j)' = MadeFor(j)
  BY DEF MadeFor
<1>7. \A j : j \notin DOMAIN items => MadeFor(j) = {}
  BY <1>3 DEF MadeFor
<1> QED BY <1>3, <1>4, <1>5, <1>6, <1>7

LEMMA JobSteps ==
  ASSUME ReviewInv, build \/ upsert_look \/ new_version
  PROVE  ReviewInv'
<1>1. ReviewTypeOK
  BY DEF ReviewInv
<1>2. /\ UNCHANGED <<kind, mishaps>> /\ approvals' = approvals /\ record' = record
      /\ items' = items /\ companies' = companies /\ cut_off' = cut_off /\ unheard' = unheard
  BY DEF build, upsert_look, new_version
<1>3. Beside
  BY <1>2, NothingMoves DEF Beside
<1>4. \A v : decided(v)' <=> decided(v)
  BY <1>2 DEF decided, Decides, Open, captured
<1>5. job' \in Jobs /\ NotDecided' /\ source' \in Nat
  <2>1. CASE build
    <3>1. job' = [step |-> "look", version |-> source, recorded |-> record, overtaken |-> FALSE]
          /\ source' = source
      BY <2>1 DEF build
    <3> QED BY <1>1, <3>1 DEF Jobs, NotDecided, ReviewTypeOK
  <2>2. CASE upsert_look
    <3>1. job.step = "look" /\ source' = source
          /\ job' = IF decided(job.version) THEN Ready ELSE [job EXCEPT !.step = "store"]
      BY <2>2 DEF upsert_look
    <3>2. job \in [step : {"look", "store"}, version : Nat, recorded : Nat, overtaken : BOOLEAN]
      BY <1>1, <3>1 DEF ReviewTypeOK, Jobs, Ready
    <3>3. CASE decided(job.version)
      BY <1>1, <3>1, <3>3 DEF Jobs, NotDecided, Ready, ReviewTypeOK
    <3>4. CASE ~decided(job.version)
      <4>1. job' = [job EXCEPT !.step = "store"]
        BY <3>1, <3>4
      <4>2. job'.version = job.version /\ job' \in Jobs
        BY <3>2, <4>1 DEF Jobs
      <4>3. ~decided(job.version)'
        <5> SUFFICES ASSUME NEW v, v = job'.version PROVE ~decided(v)'
          BY DEF decided
        <5> QED BY <1>4, <3>4, <4>2
      <4> QED BY <1>1, <3>1, <4>2, <4>3 DEF NotDecided, ReviewTypeOK
    <3> QED BY <3>3, <3>4
  <2>3. CASE new_version
    <3>1. job' = job /\ source' = source + 1
      BY <2>3 DEF new_version
    <3>2. NotDecided'
      BY <1>2, <3>1 DEF ReviewInv, NotDecided, decided, Decides, Open, captured
    <3> QED BY <1>1, <3>1, <3>2 DEF ReviewTypeOK
  <2> QED BY <2>1, <2>2, <2>3
<1>6. ReviewTypeOK'
  BY <1>1, <1>2, <1>5 DEF ReviewTypeOK
<1>7. (/\ OfItems /\ InHand /\ AsShown /\ ReadStands /\ FoundNone
       /\ CompanyInHand /\ CompanyOnRow /\ ApprovedIsMade)'
  BY <1>3, StepBeside
<1> QED BY <1>5, <1>6, <1>7 DEF ReviewInv

LEMMA UpsertStep ==
  ASSUME ReviewInv, crm_review_upsert
  PROVE  ReviewInv'
<1>1. ReviewTypeOK
  BY DEF ReviewInv
<1>2. /\ UNCHANGED <<kind, source, mishaps>> /\ approvals' = approvals /\ record' = record
      /\ companies' = companies /\ cut_off' = cut_off /\ unheard' = unheard
      /\ job.step = "store" /\ job' = Ready
  BY DEF crm_review_upsert
<1>3. items \in [DOMAIN items -> Items] /\ items \in Seq(Items)
  BY <1>1, ItemsAre DEF ReviewTypeOK
<1>4. job \in [step : {"look", "store"}, version : Nat, recorded : Nat, overtaken : BOOLEAN]
  BY <1>1, <1>2 DEF ReviewTypeOK, Jobs, Ready
<1>5. PICK version \in Nat, recorded \in Nat : version = job.version /\ recorded = job.recorded
  BY <1>4
<1>6. CASE \E i \in DOMAIN items : Open(i)
  <2>1. items' = [i \in DOMAIN items |->
          IF Open(i) THEN refreshed(items[i], version, recorded) ELSE items[i]]
    BY <1>5, <1>6 DEF crm_review_upsert
  <2>2. ASSUME NEW j \in DOMAIN items
        PROVE  items'[j] \in Items /\ RowStands(j)
    <3>1. items[j] \in Items
      BY <1>3
    <3>2. CASE ~Open(j)
      <4>1. items'[j] = items[j]
        BY <2>1, <3>2
      <4> QED BY <3>1, <4>1 DEF RowStands, Items
    <3>3. CASE Open(j)
      <4> DEFINE more == IF version # items[j].version \/ recorded # items[j].recorded THEN 1 ELSE 0
      <4>1. more \in {0, 1} /\ (more = 0 => version = items[j].version)
        OBVIOUS
      <4>2. items'[j] = [items[j] EXCEPT !.version = version, !.recorded = recorded,
                                         !.revision = items[j].revision + more]
        BY <2>1, <3>1, <3>3 DEF refreshed, Items
      <4> HIDE DEF more
      <4>3. PICK revision : revision = items[j].revision + more
        OBVIOUS
      <4>4. revision \in Nat /\ items[j].revision <= revision /\ items[j].revision \in Nat
            /\ (revision = items[j].revision => more = 0)
        BY <3>1, <4>1, <4>3 DEF Items
      <4>5. items'[j] = [items[j] EXCEPT !.version = version, !.recorded = recorded,
                                         !.revision = revision]
        BY <4>2, <4>3
      <4>6. /\ items'[j] \in Items
            /\ items'[j].status = items[j].status /\ items'[j].result = items[j].result
            /\ items'[j].company = items[j].company /\ items'[j].revision = revision
            /\ items'[j].version = version
        BY <3>1, <4>4, <4>5 DEF Items
      <4>7. items[j].status # "approved"
        BY <3>3 DEF Open
      <4> QED BY <4>1, <4>4, <4>6, <4>7 DEF RowStands
    <3> QED BY <3>2, <3>3
  <2>3. items' \in [DOMAIN items -> Items]
    BY <2>1, <2>2
  <2>4. items' \in Seq(Items)
    BY <1>3, <2>3, Rewritten
  <2>5. Beside
    BY <1>2, <2>2, <2>3, NothingMoves DEF Beside
  <2> QED
    BY <1>1, <1>2, <2>4, <2>5, StepBeside
    DEF ReviewInv, ReviewTypeOK, NotDecided, Ready, Jobs
<1>7. CASE ~\E i \in DOMAIN items : Open(i)
  <2> DEFINE new == Made(version, recorded)
  <2>1. new \in Items /\ new.status = "open"
    BY DEF Made, Items, NoCompany
  <2>2. items' = Append(items, new)
    BY <1>5, <1>7 DEF crm_review_upsert
  <2> HIDE DEF new
  <2>3. /\ items' \in Seq(Items)
        /\ DOMAIN items' = DOMAIN items \cup {Len(items) + 1}
        /\ \A j \in DOMAIN items : items'[j] = items[j]
        /\ items'[Len(items) + 1] = new
    BY <1>3, <2>1, <2>2, Appended
  <2>4. ASSUME NEW j \in DOMAIN items PROVE RowStands(j)
    <3>1. items'[j] = items[j] /\ items[j] \in Items
      BY <1>3, <2>3
    <3> QED BY <3>1 DEF RowStands, Items
  <2>5. \A j \in DOMAIN items' \ DOMAIN items : items'[j].status = "open" /\ MadeFor(j)' = {}
    <3>1. \A j : MadeFor(j)' = MadeFor(j)
      BY <1>2, NothingMoves
    <3> QED BY <2>1, <2>3, <3>1, NothingMoves
  <2>6. Beside
    BY <1>2, <2>3, <2>4, <2>5, NothingMoves DEF Beside
  <2> QED
    BY <1>1, <1>2, <2>3, <2>6, StepBeside
    DEF ReviewInv, ReviewTypeOK, NotDecided, Ready, Jobs
<1> QED BY <1>6, <1>7

LEMMA DecideStep ==
  ASSUME ReviewInv, NEW i \in DOMAIN items, dismiss(i) \/ expire(i) \/ tombstone(i)
  PROVE  ReviewInv'
<1>1. ReviewTypeOK
  BY DEF ReviewInv
<1>2. items \in [DOMAIN items -> Items]
  BY <1>1, ItemsAre
<1>3. items[i] \in Items
  BY <1>2
<1>4. PICK f \in Items :
        /\ items' = [items EXCEPT ![i] = f]
        /\ items[i].status = "approved" <=> f.status = "approved"
        /\ f.version = items[i].version /\ f.revision = items[i].revision
        /\ f.company = items[i].company /\ f.result = items[i].result
  <2>1. CASE tombstone(i)
    <3> DEFINE f == [items[i] EXCEPT !.refusal = FALSE]
    <3>1. items' = [items EXCEPT ![i] = f]
      BY <1>2, <2>1 DEF tombstone, tombstoned
    <3>2. /\ f \in Items /\ f.status = items[i].status /\ f.version = items[i].version
          /\ f.revision = items[i].revision
          /\ f.company = items[i].company /\ f.result = items[i].result
      BY <1>3 DEF Items
    <3> HIDE DEF f
    <3> QED BY <3>1, <3>2
  <2>2. ASSUME NEW status \in {"dismissed", "expired"}, Decide(i, status)
        PROVE  \E f \in Items :
                 /\ items' = [items EXCEPT ![i] = f]
                 /\ items[i].status = "approved" <=> f.status = "approved"
                 /\ f.version = items[i].version /\ f.revision = items[i].revision
                 /\ f.company = items[i].company /\ f.result = items[i].result
    <3>1. PICK refusal \in BOOLEAN : refusal = (items[i].refusal /\ status = "expired")
      OBVIOUS
    <3> DEFINE f == [items[i] EXCEPT !.status = status, !.refusal = refusal]
    <3>2. items' = [items EXCEPT ![i] = f]
      BY <1>2, <1>3, <2>2, <3>1 DEF Decide
    <3>3. /\ f \in Items /\ f.status = status /\ f.version = items[i].version
          /\ f.revision = items[i].revision
          /\ f.company = items[i].company /\ f.result = items[i].result
      BY <1>3, <2>2 DEF Items
    <3>4. items[i].status = "open"
      BY <2>2 DEF Decide, Open
    <3> HIDE DEF f
    <3> QED BY <3>2, <3>3, <3>4
  <2> QED BY <2>1, <2>2 DEF dismiss, expire
<1>5. /\ UNCHANGED <<kind, source, mishaps>> /\ approvals' = approvals /\ record' = record
      /\ companies' = companies /\ cut_off' = cut_off /\ unheard' = unheard
      /\ Overtaking
  BY DEF dismiss, expire, tombstone, Decide
<1>6. /\ DOMAIN items' = DOMAIN items /\ items'[i] = f
      /\ \A j \in DOMAIN items \ {i} : items'[j] = items[j]
  BY <1>2, <1>4
<1>7. items' \in Seq(Items)
  BY <1>1, <1>4, RowTyped
<1>8. ASSUME NEW j \in DOMAIN items PROVE RowStands(j)
  <2>1. items[j] \in Items
    BY <1>2
  <2>2. CASE j = i
    BY <1>4, <1>6, <2>1, <2>2 DEF RowStands, Items
  <2>3. CASE j # i
    BY <1>6, <2>1, <2>3 DEF RowStands, Items
  <2> QED BY <2>2, <2>3
<1>9. Beside
  BY <1>5, <1>6, <1>8, NothingMoves DEF Beside
<1>10. job' \in Jobs /\ NotDecided'
  BY <1>1, <1>5, OvertakingTyped DEF NotDecided
<1> QED BY <1>1, <1>5, <1>7, <1>9, <1>10, StepBeside DEF ReviewInv, ReviewTypeOK

LEMMA EditStep ==
  ASSUME ReviewInv, edit_by_hand
  PROVE  ReviewInv'
<1>1. ReviewTypeOK
  BY DEF ReviewInv
<1>2. /\ UNCHANGED <<kind, source>> /\ job' = job /\ items' = items
      /\ cut_off' = cut_off /\ unheard' = unheard /\ mishaps' = mishaps + 1
  BY DEF edit_by_hand, Mishap
<1>3. approvals \in [Approvals -> AnyApproval] /\ companies \in [DOMAIN companies -> QueuedCompanies]
      /\ companies \in Seq(QueuedCompanies)
  BY <1>1, ItemsAre DEF ReviewTypeOK
<1>4. NotDecided'
  BY <1>2 DEF ReviewInv, NotDecided, decided, Decides, Open, captured
<1>5. CASE /\ record' \in {0, 1} /\ UNCHANGED companies
           /\ approvals' = [a \in Approvals |->
                [approvals[a] EXCEPT !.step = LockOut(approvals[a].step)]]
  <2>1. ASSUME NEW b \in Approvals
        PROVE  LeftTo(b) /\ approvals'[b] \in AnyApproval
    <3>1. approvals'[b] = [approvals[b] EXCEPT !.step = LockOut(approvals[b].step)]
      BY <1>5
    <3>2. approvals[b] \in AnyApproval
      BY <1>3
    <3>3. CASE approvals[b].step = "write"
      <4>1. approvals'[b] = [approvals[b] EXCEPT !.step = "locked out"]
        BY <3>1, <3>3 DEF LockOut
      <4>2. approvals[b] \in Claims
        BY <3>2, <3>3, Forms DEF Unwritten
      <4>3. approvals'[b] \in Claims
        BY <4>1, <4>2, LockedOut
      <4> QED BY <3>3, <4>1, <4>3 DEF LeftTo, AnyApproval
    <3>4. CASE approvals[b].step # "write"
      <4>1. approvals'[b] = [approvals[b] EXCEPT !.step = approvals[b].step]
        BY <3>1, <3>4 DEF LockOut
      <4>2. [approvals[b] EXCEPT !.step = approvals[b].step] = approvals[b]
        BY <3>2 DEF AnyApproval, Ready, Claims, Releases
      <4> QED BY <3>2, <3>4, <4>1, <4>2 DEF LeftTo
    <3> QED BY <3>3, <3>4
  <2>2. approvals' \in [Approvals -> AnyApproval]
    <3>1. DOMAIN approvals' = Approvals /\ approvals' = [b \in Approvals |-> approvals'[b]]
      BY <1>5
    <3> QED BY <2>1, <3>1
  <2>3. Beside
    BY <1>2, <1>5, <2>1, NothingMoves DEF Beside
  <2>4. record' \in Nat /\ companies' = companies
    BY <1>5
  <2> QED
    BY <1>1, <1>2, <1>4, <2>2, <2>3, <2>4, StepBeside
    DEF ReviewInv, ReviewTypeOK, AnyApproval
<1>6. CASE /\ UNCHANGED <<record, approvals>>
           /\ \E c \in DOMAIN companies : companies' = [companies EXCEPT ![c].trashed = TRUE]
  <2>1. PICK c \in DOMAIN companies : companies' = [companies EXCEPT ![c].trashed = TRUE]
    BY <1>6
  <2>2. companies[c] \in QueuedCompanies /\ [companies[c] EXCEPT !.trashed = TRUE] \in QueuedCompanies
    BY <1>3 DEF QueuedCompanies
  <2>3. companies' \in [DOMAIN companies -> QueuedCompanies]
    BY <1>3, <2>1, <2>2
  <2>4. companies' \in Seq(QueuedCompanies)
    BY <1>3, <2>3, Rewritten
  <2>5. ASSUME NEW d \in DOMAIN companies
        PROVE  companies'[d].item = companies[d].item
               /\ (companies[d].trashed => companies'[d].trashed)
    <3>1. companies[d] \in QueuedCompanies
      BY <1>3
    <3>2. CASE d = c
      <4>1. companies'[d] = [companies[d] EXCEPT !.trashed = TRUE]
        BY <2>1, <3>2
      <4> QED BY <3>1, <4>1 DEF QueuedCompanies
    <3>3. CASE d # c
      BY <2>1, <3>3
    <3> QED BY <3>2, <3>3
  <2>6. \A j : MadeFor(j)' \subseteq MadeFor(j)
    BY <2>3, <2>5 DEF MadeFor
  <2>7. \A d \in DOMAIN companies' : companies'[d].item \in DOMAIN items
    BY <2>3, <2>5 DEF ReviewInv, OfItems
  <2>8. Beside
    BY <1>2, <1>6, <2>6, <2>7, NothingMoves DEF Beside
  <2> QED BY <1>1, <1>2, <1>4, <1>6, <2>4, <2>8, StepBeside DEF ReviewInv, ReviewTypeOK
<1> QED BY <1>5, <1>6 DEF edit_by_hand

-----------------------------------------------------------------------------
(* The theorems *)

LEMMA ReviewInitial == ReviewInit => ReviewInv
<1> SUFFICES ASSUME ReviewInit PROVE ReviewInv
  OBVIOUS
<1>1. PICK version \in 1..MaxVersion :
        /\ kind \in {"field", "lead"} /\ source = version /\ job = Ready /\ items = <<>>
        /\ record = 0 /\ companies = <<>> /\ approvals = [a \in Approvals |-> Ready]
        /\ mishaps = 0 /\ cut_off = {} /\ unheard = {}
  BY DEF ReviewInit, ReviewStart
<1>2. DOMAIN items = {} /\ DOMAIN companies = {} /\ items \in Seq(Items) /\ companies \in Seq(QueuedCompanies)
  BY <1>1
<1>3. version \in Nat
  BY ReviewAssumption
<1>4. \A a \in Approvals : approvals[a].step = "idle"
  BY <1>1 DEF Ready
<1>5. approvals \in [Approvals -> {Ready} \cup Claims \cup Releases]
  BY <1>1
<1>6. ReviewTypeOK
  BY <1>1, <1>2, <1>3, <1>5 DEF ReviewTypeOK, Jobs
<1>7. OfItems /\ InHand /\ AsShown /\ ReadStands /\ FoundNone
  BY <1>2, <1>4
  DEF OfItems, InHand, AsShown, ReadStands, FoundNone, Working, Carrying, Unwritten, Naming
<1>8. NotDecided /\ CompanyInHand /\ CompanyOnRow /\ ApprovedIsMade
  BY <1>1, <1>2, <1>4 DEF NotDecided, CompanyInHand, CompanyOnRow, ApprovedIsMade, Carrying,
     Unwritten, Naming, Ready
<1> QED BY <1>6, <1>7, <1>8 DEF ReviewInv

LEMMA ReviewStep == ReviewInv /\ [ReviewNext]_reviewVars => ReviewInv'
<1> SUFFICES ASSUME ReviewInv, [ReviewNext]_reviewVars PROVE ReviewInv'
  OBVIOUS
<1>1. CASE UNCHANGED reviewVars
  <2>1. /\ UNCHANGED <<kind, source, job, mishaps>> /\ approvals' = approvals /\ record' = record
        /\ items' = items /\ companies' = companies /\ cut_off' = cut_off /\ unheard' = unheard
    BY <1>1 DEF reviewVars
  <2>2. Beside
    BY <2>1, NothingMoves DEF Beside
  <2>3. NotDecided'
    BY <2>1 DEF ReviewInv, NotDecided, decided, Decides, Open, captured
  <2> QED BY <2>1, <2>2, <2>3, StepBeside DEF ReviewInv, ReviewTypeOK
<1>2. CASE build \/ upsert_look \/ new_version
  BY <1>2, JobSteps
<1>3. CASE crm_review_upsert \/ edit_by_hand
  BY <1>3, UpsertStep, EditStep
<1>4. CASE \E i \in DOMAIN items : dismiss(i) \/ expire(i) \/ tombstone(i)
  BY <1>4, DecideStep
<1>5. ASSUME NEW a \in Approvals,
             \/ \E i \in DOMAIN items, edits \in BOOLEAN : approve(a, i, edits)
             \/ crm_review_claim(a) \/ field_read(a) \/ field_write(a)
             \/ new_lead(a) \/ new_lead_people(a) \/ new_lead_keep(a)
             \/ release_done(a) \/ release_look(a) \/ release_refused(a) \/ kill(a)
      PROVE  ReviewInv'
  BY <1>5, ApproveStep, ClaimStep, FieldReadStep, FieldWriteStep, NewLeadStep, PeopleStep,
     KeepStep,
     DoneStep, LookStep, RefusedStep, KillStep
<1> QED BY <1>1, <1>2, <1>3, <1>4, <1>5 DEF ReviewNext

(* An approval that won its claim has its item for itself and as it was     *)
(* shown, a write waits only on the value read, and the company of a lead   *)
(* is known: the inductive invariant.                                       *)
THEOREM ReviewInvariant == ReviewSpec => []ReviewInv
BY ReviewInitial, ReviewStep, PTL DEF ReviewSpec

(* However approvals, refreshes, edits, refusals, kills and failing calls   *)
(* interleave, an approved suggestion is carried out, unless its approval   *)
(* was killed (cut_off), and a lead gets one company, unless its item or    *)
(* another approval may not know of it (unheard): it was made, or was to be *)
(* kept on the item, by a call that failed or was not answered, an approval *)
(* was killed, or one had loaded the item before (review.py).               *)
THEOREM ApprovedOnce == ReviewSpec => []ApprovedIsMadeOnce
<1>1. ASSUME ReviewInv PROVE ApprovedIsMadeOnce
  <2>1. ASSUME NEW i \in DOMAIN items \ unheard
        PROVE  Cardinality(MadeFor(i)) <= 1
    <3>1. PICK company : MadeFor(i) \subseteq {company}
      <4>1. CASE MadeFor(i) \subseteq {items[i].company}
        BY <4>1
      <4>2. CASE \E a \in Approvals : approvals[a].step \in Naming /\ approvals[a].i = i
        BY <1>1, <2>1, <4>2 DEF ReviewInv, CompanyInHand, Carrying
      <4> QED BY <1>1, <2>1, <4>1, <4>2 DEF ReviewInv, CompanyOnRow
    <3>2. IsFiniteSet({company}) /\ Cardinality({company}) = 1
      BY FS_Singleton
    <3>3. IsFiniteSet(MadeFor(i)) /\ Cardinality(MadeFor(i)) <= Cardinality({company})
      BY <3>1, <3>2, FS_Subset
    <3> QED BY <3>2, <3>3
  <2> QED BY <1>1, <2>1 DEF ApprovedIsMadeOnce, OneCompanyPerLead, ReviewInv
<1> QED BY <1>1, ReviewInvariant, PTL

(* Nothing is written in an approval's name but what its person was shown,  *)
(* over the value the suggestion was made from.                             *)
THEOREM WrittenAsShown == ReviewSpec => ChangedAsShown
<1> DEFINE Shown == \A a \in Approvals :
       approvals[a].step = "write" /\ record' # record /\ approvals'[a].step # "locked out" =>
         LET at == approvals[a] IN
         /\ items[at.i].status = "approved" /\ items[at.i].version = at.item.version
         /\ at.edits \/ record = at.item.recorded
<1>1. ASSUME ReviewInv PROVE Shown
  BY <1>1 DEF ReviewInv, InHand, AsShown, ReadStands, Working, Carrying, Unwritten
<1>2. ReviewInv /\ [ReviewNext]_reviewVars => [Shown]_reviewVars
  BY <1>1
<1> QED BY <1>2, ReviewInvariant, PTL DEF ReviewSpec, ChangedAsShown

(* What was decided is not suggested again from the version it was decided  *)
(* for, unless it was decided while the job was storing.                    *)
THEOREM DecidedStays == ReviewSpec => DecidedStaysDecided
<1> DEFINE Stays == Len(items') > Len(items) /\ ~job.overtaken =>
       \A i \in DOMAIN items : Decides(i) => items[i].version # items'[Len(items')].version
<1>1. ASSUME ReviewInv, ReviewNext PROVE Stays
  <2> SUFFICES ASSUME Len(items') > Len(items), ~job.overtaken, NEW i \in DOMAIN items, Decides(i)
               PROVE  items[i].version # items'[Len(items')].version
    OBVIOUS
  <2>1. ReviewTypeOK /\ ReviewTypeOK'
    BY <1>1, ReviewStep DEF ReviewInv
  <2>2. items \in Seq(Items) /\ items \in [DOMAIN items -> Items]
    BY <2>1, ItemsAre DEF ReviewTypeOK
  <2>3. /\ Len(items) \in Nat /\ Len(items') \in Nat
        /\ DOMAIN items = 1..Len(items) /\ DOMAIN items' = 1..Len(items')
    <3>1. items' \in Seq(Items)
      BY <2>1 DEF ReviewTypeOK
    <3> QED BY <2>2, <3>1, LenProperties
  <2>4. DOMAIN items' # DOMAIN items
    <3>1. Len(items') \in DOMAIN items' \ DOMAIN items
      BY <2>3, SMT
    <3> QED BY <3>1
  <2>5. crm_review_upsert
    <3>1. CASE build \/ upsert_look \/ new_version \/ edit_by_hand
      BY <2>4, <3>1 DEF build, upsert_look, new_version, edit_by_hand
    <3>2. ASSUME NEW k \in DOMAIN items, dismiss(k) \/ expire(k) \/ tombstone(k) PROVE FALSE
      BY <2>4, <3>2 DEF dismiss, expire, tombstone, Decide
    <3>3. ASSUME NEW a \in Approvals,
                 \/ \E k \in DOMAIN items, edits \in BOOLEAN : approve(a, k, edits)
                 \/ crm_review_claim(a) \/ field_read(a) \/ field_write(a)
                 \/ new_lead(a) \/ new_lead_people(a)
          PROVE  FALSE
      <4>1. DOMAIN items' = DOMAIN items
        BY <3>3
        DEF approve, crm_review_claim, field_read, field_write, new_lead, new_lead_people
      <4> QED BY <2>4, <4>1
    <3>4. ASSUME NEW a \in Approvals,
                 \/ new_lead_keep(a) \/ release_done(a) \/ release_look(a)
                 \/ release_refused(a) \/ kill(a)
          PROVE  FALSE
      <4>1. DOMAIN items' = DOMAIN items
        BY <3>4 DEF new_lead_keep, release_done, release_look, release_refused, kill
      <4> QED BY <2>4, <4>1
    <3> QED BY <1>1, <3>1, <3>2, <3>3, <3>4 DEF ReviewNext
  <2>6. job.step = "store"
    BY <2>5 DEF crm_review_upsert
  <2>7. items' = Append(items, Made(job.version, job.recorded))
    <3>1. CASE \E k \in DOMAIN items : Open(k)
      BY <2>4, <2>5, <3>1 DEF crm_review_upsert
    <3> QED BY <2>5, <3>1 DEF crm_review_upsert
  <2>8. PICK new : new = Made(job.version, job.recorded)
    OBVIOUS
  <2>9. job \in [step : {"look", "store"}, version : Nat, recorded : Nat, overtaken : BOOLEAN]
    BY <2>1, <2>6 DEF ReviewTypeOK, Jobs, Ready
  <2>10. new \in Items /\ new.version = job.version
    BY <2>8, <2>9 DEF Made, Items, NoCompany
  <2>11. items'[Len(items')] = new
    BY <2>2, <2>7, <2>8, <2>10, Appended
  <2>12. ~decided(job.version)
    BY <1>1, <2>6 DEF ReviewInv, NotDecided
  <2> QED BY <2>10, <2>11, <2>12 DEF decided
<1>2. ReviewInv /\ [ReviewNext]_reviewVars => [Stays]_reviewVars
  BY <1>1
<1> QED BY <1>2, ReviewInvariant, PTL DEF ReviewSpec, DecidedStaysDecided

-----------------------------------------------------------------------------
(* The import of a CSV                                                      *)

IsCall(x) ==
  x = [at |-> x.at, run |-> x.run, new |-> x.new, old |-> x.old, chunk |-> x.chunk,
       moves |-> x.moves, failed |-> x.failed, alone |-> x.alone]
Ahead(call) == call.new \cup call.chunk

(* A call at work has rows ahead of it of different numbers; those of a run *)
(* no other call disturbed are made by nobody yet.                          *)
RowsApart(call) ==
  /\ call.new \cap call.chunk = {}
  /\ \A row \in Ahead(call) : row.n \in Nat
  /\ \A one, other \in Ahead(call) : one.n = other.n => one = other
CallStands(c) ==
  working(c) =>
    /\ IsCall(calls[c]) /\ calls[c].run \in DOMAIN dry_runs /\ RowsApart(calls[c])
    /\ calls[c].run \notin overlapped =>
         /\ \A d \in Calls : working(d) /\ calls[d].run = calls[c].run => d = c
         /\ \A row \in Ahead(calls[c]) : times(<<calls[c].run, row.n>>) = 0

(* What nobody ran yet has made nothing.                                    *)
Untouched(r) == dry_runs[r] = "dry_run" /\ \A c \in Calls : working(c) => calls[c].run # r

CsvInv ==
  /\ DOMAIN sheet.rows = 1 .. Len(sheet.rows)
  /\ dry_runs \in Seq({"dry_run", "applied", "failed"})
  /\ DOMAIN calls = Calls /\ calls = [c \in Calls |-> calls[c]]
  /\ made \in [DOMAIN made -> Nat]
  /\ \A of \in DOMAIN made : of[1] \in DOMAIN dry_runs
  /\ \A c \in Calls : CallStands(c)
  /\ \A r \in DOMAIN dry_runs \ overlapped :
       Untouched(r) => \A of \in DOMAIN made : of[1] # r
  /\ MadeOnce

(* What another's step leaves of a call.                                    *)
SameCall(d) ==
  /\ calls'[d].at = calls[d].at
  /\ working(d) =>
       /\ IsCall(calls[d])' /\ calls'[d].run = calls[d].run
       /\ calls'[d].new = calls[d].new /\ calls'[d].chunk = calls[d].chunk

SameRun(x, y) == IsCall(y) /\ y.at = x.at /\ y.run = x.run
Calling(x, T) ==
  [at : {x.at} \cup T, run : {x.run} \cup T, new : {x.new} \cup T, old : {x.old} \cup T,
   chunk : {x.chunk} \cup T, moves : {x.moves} \cup T, failed : {x.failed} \cup T,
   alone : {x.alone} \cup T]

(* A call's record after each of the ways a step changes it.                *)
LEMMA CallsAre ==
  ASSUME NEW x, NEW T
  PROVE  /\ IsCall(x) => x \in Calling(x, T)
         /\ \A y \in Calling(x, T) : IsCall(y)
BY DEF IsCall, Calling

LEMMA CallDisturbed ==
  ASSUME NEW x, IsCall(x), NEW v, NEW y, y = [x EXCEPT !.alone = v]
  PROVE  SameRun(x, y) /\ y.new = x.new /\ y.chunk = x.chunk
<1>1. x \in Calling(x, {v})
  BY CallsAre
<1>2. y \in Calling(x, {v})
  BY <1>1 DEF Calling
<1>3. y.at = x.at /\ y.run = x.run /\ y.new = x.new /\ y.chunk = x.chunk
  BY <1>1 DEF Calling
<1> QED BY <1>2, <1>3, CallsAre, Zenon DEF SameRun

LEMMA CallSetOut ==
  ASSUME NEW x, IsCall(x), NEW y, y = [x EXCEPT !.at = "new"]
  PROVE  IsCall(y) /\ y.at = "new" /\ y.run = x.run /\ y.new = x.new /\ y.chunk = x.chunk
<1>1. x \in Calling(x, {"new"})
  BY CallsAre
<1>2. y \in Calling(x, {"new"})
  BY <1>1 DEF Calling
<1>3. y.at = "new" /\ y.run = x.run /\ y.new = x.new /\ y.chunk = x.chunk
  BY <1>1 DEF Calling
<1> QED BY <1>2, <1>3, CallsAre, Zenon DEF SameRun

LEMMA CallMoves ==
  ASSUME NEW x, IsCall(x), NEW v, NEW y, y = [x EXCEPT !.moves = v]
  PROVE  SameRun(x, y) /\ y.new = x.new /\ y.chunk = x.chunk
<1>1. x \in Calling(x, {v})
  BY CallsAre
<1>2. y \in Calling(x, {v})
  BY <1>1 DEF Calling
<1>3. y.at = x.at /\ y.run = x.run /\ y.new = x.new /\ y.chunk = x.chunk
  BY <1>1 DEF Calling
<1> QED BY <1>2, <1>3, CallsAre, Zenon DEF SameRun

LEMMA CallWrote ==
  ASSUME NEW x, IsCall(x), NEW v, NEW y, y = [x EXCEPT !.new = v]
  PROVE  SameRun(x, y) /\ y.new = v /\ y.chunk = x.chunk
<1>1. x \in Calling(x, {v})
  BY CallsAre
<1>2. y \in Calling(x, {v})
  BY <1>1 DEF Calling
<1>3. y.at = x.at /\ y.run = x.run /\ y.new = v /\ y.chunk = x.chunk
  BY <1>1 DEF Calling
<1> QED BY <1>2, <1>3, CallsAre, Zenon DEF SameRun

LEMMA CallWroteRow ==
  ASSUME NEW x, IsCall(x), NEW v, NEW y, y = [x EXCEPT !.chunk = v]
  PROVE  SameRun(x, y) /\ y.new = x.new /\ y.chunk = v
<1>1. x \in Calling(x, {v})
  BY CallsAre
<1>2. y \in Calling(x, {v})
  BY <1>1 DEF Calling
<1>3. y.at = x.at /\ y.run = x.run /\ y.new = x.new /\ y.chunk = v
  BY <1>1 DEF Calling
<1> QED BY <1>2, <1>3, CallsAre, Zenon DEF SameRun

LEMMA CallGaveUp ==
  ASSUME NEW x, IsCall(x), NEW v, NEW y, y = [x EXCEPT !.failed = v]
  PROVE  SameRun(x, y) /\ y.new = x.new /\ y.chunk = x.chunk
<1>1. x \in Calling(x, {v})
  BY CallsAre
<1>2. y \in Calling(x, {v})
  BY <1>1 DEF Calling
<1>3. y.at = x.at /\ y.run = x.run /\ y.new = x.new /\ y.chunk = x.chunk
  BY <1>1 DEF Calling
<1> QED BY <1>2, <1>3, CallsAre, Zenon DEF SameRun

LEMMA CallUpdated ==
  ASSUME NEW x, IsCall(x), NEW v, NEW y, y = [x EXCEPT !.old = v]
  PROVE  SameRun(x, y) /\ y.new = x.new /\ y.chunk = x.chunk
<1>1. x \in Calling(x, {v})
  BY CallsAre
<1>2. y \in Calling(x, {v})
  BY <1>1 DEF Calling
<1>3. y.at = x.at /\ y.run = x.run /\ y.new = x.new /\ y.chunk = x.chunk
  BY <1>1 DEF Calling
<1> QED BY <1>2, <1>3, CallsAre, Zenon DEF SameRun

LEMMA OthersSame ==
  ASSUME CsvInv, NEW c, NEW call, Goto(c, call) \/ Wrote(c, call)
  PROVE  /\ DOMAIN calls' = Calls /\ calls' = [d \in Calls |-> calls'[d]]
         /\ \A d \in Calls \ {c} : SameCall(d)
         /\ c \in Calls => calls'[c] = call
<1>1. DOMAIN calls = Calls /\ calls = [d \in Calls |-> calls[d]]
  BY DEF CsvInv
<1>2. ASSUME NEW d \in Calls, working(d)
      PROVE  IsCall(calls[d])
  BY <1>2 DEF CsvInv, CallStands
<1>3. CASE Goto(c, call)
  BY <1>1, <1>2, <1>3 DEF Goto, SameCall
<1>4. CASE Wrote(c, call)
  <2>1. calls' = [d \in Calls |->
          IF d = c THEN call
          ELSE IF working(d) THEN [calls[d] EXCEPT !.alone = FALSE] ELSE calls[d]]
    BY <1>4 DEF Wrote
  <2>2. ASSUME NEW d \in Calls \ {c}
        PROVE  SameCall(d)
    <3>1. CASE working(d)
      <4>1. calls'[d] = [calls[d] EXCEPT !.alone = FALSE]
        BY <2>1, <2>2, <3>1
      <4>2. IsCall(calls[d])
        BY <1>2, <3>1
      <4>3. SameRun(calls[d], calls'[d]) /\ calls'[d].new = calls[d].new /\ calls'[d].chunk = calls[d].chunk
        BY <4>1, <4>2, CallDisturbed
      <4> QED BY <4>3 DEF SameCall, SameRun, IsCall
    <3>2. CASE ~working(d)
      BY <2>1, <2>2, <3>2 DEF SameCall
    <3> QED BY <3>1, <3>2
  <2> QED BY <2>1, <2>2
<1> QED BY <1>3, <1>4

(* A call goes on: some of its rows are written, or given up, and the rest  *)
(* stays ahead of it.                                                       *)
LEMMA CallGoesOn ==
  ASSUME CsvInv, NEW c \in Calls, working(c), NEW call, Goto(c, call) \/ Wrote(c, call),
         IsCall(call), call.at # "rest", call.run = calls[c].run,
         call.new \cap call.chunk = {}, Ahead(call) \subseteq Ahead(calls[c]),
         NEW W \in SUBSET Ahead(calls[c]), W \cap Ahead(call) = {},
         made' = made \/ Count(c, W), UNCHANGED <<sheet, dry_runs, overlapped>>
  PROVE  CsvInv'
<1> DEFINE now == {<<calls[c].run, row.n>> : row \in W}
<1>1. /\ DOMAIN calls' = Calls /\ calls' = [d \in Calls |-> calls'[d]]
      /\ \A d \in Calls \ {c} : SameCall(d)
      /\ calls'[c] = call
  BY OthersSame
<1>2. \A d \in Calls : working(d)' <=> working(d)
  BY <1>1 DEF working, SameCall
<1>3. \A d \in Calls : working(d) => calls'[d].run = calls[d].run
  BY <1>1 DEF SameCall
<1>4. IsCall(calls[c]) /\ calls[c].run \in DOMAIN dry_runs /\ RowsApart(calls[c])
  BY DEF CsvInv, CallStands
<1>5. /\ made' \in [DOMAIN made' -> Nat] /\ DOMAIN made' \subseteq DOMAIN made \cup now
      /\ \A of : times(of)' = times(of) \/ (of \in now /\ times(of)' = times(of) + 1)
  <2>1. made \in [DOMAIN made -> Nat] /\ \A of : times(of) \in Nat
    BY DEF CsvInv, times
  <2>2. CASE made' = made
    BY <2>1, <2>2 DEF times
  <2>3. CASE Count(c, W)
    <3>2. made' = [of \in DOMAIN made \cup now |-> IF of \in now THEN times(of) + 1 ELSE made[of]]
      BY <2>3, Zenon DEF Count
    <3>3. ASSUME NEW of
          PROVE  times(of)' = IF of \in now THEN times(of) + 1 ELSE times(of)
      BY <3>2 DEF times
    <3>4. made' \in [DOMAIN made' -> Nat]
      BY <3>2, <2>1
    <3> HIDE DEF now
    <3> QED BY <3>2, <3>3, <3>4
  <2> QED BY <2>2, <2>3
<1>6. \A of \in now : of[1] = calls[c].run
  OBVIOUS
<1>7. ASSUME NEW row \in Ahead(call)
      PROVE  <<calls[c].run, row.n>> \notin now
  <2> SUFFICES ASSUME NEW other \in W, <<calls[c].run, row.n>> = <<calls[c].run, other.n>>
               PROVE  FALSE
    OBVIOUS
  <2>1. row \in Ahead(calls[c]) /\ other \in Ahead(calls[c]) /\ row.n = other.n
    BY <1>7
  <2>2. row = other
    BY <2>1, <1>4 DEF RowsApart
  <2> QED BY <2>2, <1>7
<1>8. ASSUME NEW d \in Calls, working(d)
      PROVE  CallStands(d)'
  <2>1. CallStands(d)
    BY DEF CsvInv
  <2>2. IsCall(calls'[d]) /\ calls'[d].run = calls[d].run /\ calls'[d].run \in DOMAIN dry_runs'
    BY <2>1, <1>1, <1>8 DEF CallStands, SameCall
  <2>3. RowsApart(calls'[d]) /\ Ahead(calls'[d]) \subseteq Ahead(calls[d])
    <3>1. CASE d = c
      BY <3>1, <1>1, <1>4 DEF RowsApart
    <3>2. CASE d # c
      <4>1. calls'[d].new = calls[d].new /\ calls'[d].chunk = calls[d].chunk
        BY <3>2, <1>1, <1>8 DEF SameCall
      <4> QED BY <4>1, <2>1, <1>8 DEF CallStands, RowsApart, Ahead
    <3> QED BY <3>1, <3>2
  <2>4. ASSUME calls[d].run \notin overlapped
        PROVE  /\ \A e \in Calls : working(e) /\ calls[e].run = calls[d].run => e = d
               /\ \A row \in Ahead(calls[d]) : times(<<calls[d].run, row.n>>) = 0
    BY <2>4, <2>1, <1>8 DEF CallStands
  <2>5. ASSUME calls[d].run \notin overlapped
        PROVE  /\ \A e \in Calls : working(e)' /\ calls'[e].run = calls'[d].run => e = d
               /\ \A row \in Ahead(calls'[d]) : \A of : of = <<calls[d].run, row.n>> => times(of)' = 0
    <3>1. \A e \in Calls : working(e)' /\ calls'[e].run = calls'[d].run => e = d
      BY <2>4, <2>5, <1>2, <1>3, <1>8
    <3>2. ASSUME NEW row \in Ahead(calls'[d]), NEW of, of = <<calls[d].run, row.n>>
          PROVE  times(of)' = 0
      <4>1. times(of) = 0
        BY <3>2, <2>3, <2>4, <2>5
      <4>2. of \notin now
        <5>1. CASE d = c
          BY <5>1, <1>1, <1>7, <3>2
        <5>2. CASE d # c
          <6>1. calls[d].run # calls[c].run
            BY <5>2, <2>4, <2>5
          <6> HIDE DEF now
          <6> QED BY <6>1, <1>6, <3>2
        <5> QED BY <5>1, <5>2
      <4> HIDE DEF now
      <4> QED BY <4>1, <4>2, <1>5
    <3> QED BY <3>1, <3>2
  <2>6. ASSUME calls'[d].run \notin overlapped'
        PROVE  \A row \in Ahead(calls[d])' : times(<<calls[d].run, row.n>>)' = 0
    <3>1. calls[d].run \notin overlapped /\ Ahead(calls[d])' = Ahead(calls'[d])
      BY <2>2, <2>6 DEF Ahead
    <3>2. \A row \in Ahead(calls'[d]) : \A of : of = <<calls'[d].run, row.n>> => times(of)' = 0
      BY <3>1, <2>2, <2>5
    <3> QED BY <3>1, <3>2 DEF times
  <2>7. RowsApart(calls[d])' /\ IsCall(calls[d])'
    BY <2>2, <2>3 DEF RowsApart, Ahead, IsCall
  <2> QED BY <2>2, <2>5, <2>6, <2>7 DEF CallStands
<1>9. \A of \in DOMAIN made' : of[1] \in DOMAIN dry_runs'
  <2> HIDE DEF now
  <2> QED BY <1>4, <1>5, <1>6 DEF CsvInv
<1>10. ASSUME NEW r \in DOMAIN dry_runs' \ overlapped', Untouched(r)'
       PROVE  \A of \in DOMAIN made' : of[1] # r
  <2>1. Untouched(r) /\ calls[c].run # r
    BY <1>10, <1>2, <1>3 DEF Untouched
  <2>2. \A of \in DOMAIN made : of[1] # r
    BY <1>10, <2>1 DEF CsvInv
  <2> HIDE DEF now
  <2> QED BY <2>1, <2>2, <1>5, <1>6
<1>11. MadeOnce'
  <2> SUFFICES ASSUME NEW of \in DOMAIN made', made'[of] > 1, of[1] \notin overlapped
               PROVE  FALSE
    BY DEF MadeOnce
  <2>1. times(of)' = made'[of] /\ times(of) \in Nat
    BY DEF times, CsvInv
  <2>2. times(of) <= 1
    BY DEF times, CsvInv, MadeOnce
  <2>3. of \in now /\ times(of) = 1
    <3> HIDE DEF now
    <3> QED BY <2>1, <2>2, <1>5
  <2>4. PICK row \in W : of = <<calls[c].run, row.n>>
    BY <2>3
  <2>5. times(of) = 0
    BY <2>4 DEF CsvInv, CallStands
  <2> QED BY <2>3, <2>5
<1>12. \A d \in Calls : CallStands(d)'
  BY <1>2, <1>8 DEF CallStands
<1> QED BY <1>1, <1>5, <1>9, <1>10, <1>11, <1>12 DEF CsvInv

LEMMA FirstIs ==
  ASSUME NEW rows, rows # {}, \A row \in rows : row.n \in Nat
  PROVE  first(rows) \in rows
<1> DEFINE ns == {row.n : row \in rows}
<1>1. ns \subseteq Nat /\ ns # {}
  OBVIOUS
<1>2. PICK n \in ns : \A m \in ns : <<m, n>> \notin OpToRel(<, Nat)
  <2>1. IsWellFoundedOn(OpToRel(<, Nat), Nat)
    BY NatLessThanWellFounded
  <2> QED BY <1>1, <2>1, WFMin, Zenon
<1>3. PICK row \in rows : row.n = n
  OBVIOUS
<1>4. ASSUME NEW other \in rows
      PROVE  row.n <= other.n
  <2>1. n \in Nat /\ other.n \in Nat /\ other.n \in ns
    BY <1>1
  <2>2. ~(other.n < n)
    BY <1>2, <2>1 DEF OpToRel
  <2> QED BY <1>3, <2>1, <2>2
<1>5. \E one \in rows : \A other \in rows : one.n <= other.n
  BY <1>4
<1> QED BY <1>5, Zenon DEF first

LEMMA MovesStep ==
  ASSUME CsvInv, NEW c \in Calls, company_moves(c)
  PROVE  CsvInv'
<1>1. PICK v : Goto(c, [calls[c] EXCEPT !.at = "new", !.moves = v])
  BY DEF company_moves
<1> DEFINE call == [calls[c] EXCEPT !.at = "new", !.moves = v]
<1>2. working(c) /\ IsCall(calls[c]) /\ RowsApart(calls[c])
  BY DEF company_moves, At, working, CsvInv, CallStands
<1>3. /\ IsCall(call) /\ call.at = "new" /\ call.run = calls[c].run
      /\ call.new = calls[c].new /\ call.chunk = calls[c].chunk
  <2> DEFINE on == [calls[c] EXCEPT !.at = "new"]
  <2>1. IsCall(on) /\ on.at = "new" /\ on.run = calls[c].run /\ on.new = calls[c].new
          /\ on.chunk = calls[c].chunk
    BY <1>2, CallSetOut
  <2>2. call = [on EXCEPT !.moves = v]
    OBVIOUS
  <2> HIDE DEF on, call
  <2> QED BY <2>1, <2>2, CallMoves DEF SameRun
<1> HIDE DEF call
<1>4. call.new \cap call.chunk = {} /\ Ahead(call) \subseteq Ahead(calls[c])
  BY <1>2, <1>3 DEF RowsApart, Ahead
<1>5. UNCHANGED <<sheet, dry_runs, overlapped, made>> /\ call.at # "rest"
  BY <1>3 DEF company_moves
<1>6. Goto(c, call)
  BY <1>1 DEF call
<1> QED BY <1>2, <1>3, <1>4, <1>5, <1>6, CallGoesOn, {} \in SUBSET Ahead(calls[c])

LEMMA ChunkStep ==
  ASSUME CsvInv, NEW c \in Calls, write_chunk(c)
  PROVE  CsvInv'
<1> DEFINE rows == {row \in calls[c].new : Cardinality(before(row, calls[c].new)) < Chunk}
           rest == calls[c].new \ rows
           written == [calls[c] EXCEPT !.new = rest]
           refused == [calls[c] EXCEPT !.new = rest, !.chunk = rows]
<1>1. /\ \/ Count(c, rows) /\ Wrote(c, written)
         \/ Goto(c, refused) /\ UNCHANGED made
      /\ calls[c].chunk = {} /\ UNCHANGED <<sheet, dry_runs, overlapped>>
  BY DEF write_chunk
<1>2. working(c) /\ IsCall(calls[c]) /\ calls[c].at # "rest"
  BY DEF write_chunk, At, working, CsvInv, CallStands
<1>3. IsCall(written) /\ written.at = calls[c].at /\ written.run = calls[c].run
        /\ written.new = rest /\ written.chunk = calls[c].chunk
  BY <1>2, CallWrote DEF SameRun
<1>4. IsCall(refused) /\ refused.at = calls[c].at /\ refused.run = calls[c].run
        /\ refused.new = rest /\ refused.chunk = rows
  <2>1. refused = [written EXCEPT !.chunk = rows]
    <3> HIDE DEF rest, rows
    <3> QED OBVIOUS
  <2> HIDE DEF written, refused
  <2> QED BY <1>3, <2>1, CallWroteRow DEF SameRun
<1>5. rows \subseteq Ahead(calls[c]) /\ rest \cup rows \subseteq Ahead(calls[c]) /\ rest \cap rows = {}
  BY DEF Ahead
<1> HIDE DEF written, refused
<1>6. CASE Count(c, rows) /\ Wrote(c, written)
  <2>1. /\ written.new \cap written.chunk = {} /\ Ahead(written) \subseteq Ahead(calls[c])
        /\ rows \cap Ahead(written) = {}
    BY <1>1, <1>3, <1>5 DEF Ahead
  <2> HIDE DEF rows, rest
  <2> QED BY <1>1, <1>2, <1>3, <1>5, <1>6, <2>1, CallGoesOn
<1>7. CASE Goto(c, refused) /\ UNCHANGED made
  <2>1. /\ refused.new \cap refused.chunk = {} /\ Ahead(refused) \subseteq Ahead(calls[c])
        /\ {} \cap Ahead(refused) = {} /\ {} \in SUBSET Ahead(calls[c])
    BY <1>4, <1>5 DEF Ahead
  <2> HIDE DEF rows, rest
  <2> QED BY <1>1, <1>2, <1>4, <1>7, <2>1, CallGoesOn
<1> QED BY <1>1, <1>6, <1>7

LEMMA RowStep ==
  ASSUME CsvInv, NEW c \in Calls, write_one(c)
  PROVE  CsvInv'
<1> DEFINE row == first(calls[c].chunk)
           rest == [calls[c] EXCEPT !.chunk = calls[c].chunk \ {row}]
           given_up == [rest EXCEPT !.failed = rest.failed \cup {row.n}]
<1>1. working(c) /\ IsCall(calls[c]) /\ calls[c].at # "rest" /\ RowsApart(calls[c])
  BY DEF write_one, At, working, CsvInv, CallStands
<1>2. IsCall(rest) /\ rest.at = calls[c].at /\ rest.run = calls[c].run
        /\ rest.new = calls[c].new /\ rest.chunk = calls[c].chunk \ {row}
  BY <1>1, CallWroteRow DEF SameRun
<1>3. IsCall(given_up) /\ given_up.at = rest.at /\ given_up.run = rest.run
        /\ given_up.new = rest.new /\ given_up.chunk = rest.chunk
  <2> HIDE DEF rest, row
  <2> QED BY <1>2, CallGaveUp DEF SameRun
<1>4. /\ \/ Count(c, {row}) /\ Wrote(c, rest)
         \/ Goto(c, given_up) /\ UNCHANGED made
      /\ calls[c].chunk # {} /\ UNCHANGED <<sheet, dry_runs, overlapped>>
  BY DEF write_one
<1>8. row \in calls[c].chunk
  BY <1>1, <1>4, FirstIs DEF RowsApart, Ahead
<1> HIDE DEF rest, given_up
<1>5. CASE Count(c, {row}) /\ Wrote(c, rest) /\ row \in calls[c].chunk
  <2>1. /\ rest.new \cap rest.chunk = {} /\ Ahead(rest) \subseteq Ahead(calls[c])
        /\ {row} \cap Ahead(rest) = {} /\ {row} \in SUBSET Ahead(calls[c])
    BY <1>1, <1>2, <1>5 DEF Ahead, RowsApart
  <2> HIDE DEF row
  <2> QED BY <1>1, <1>2, <1>4, <1>5, <2>1, CallGoesOn
<1>6. CASE Goto(c, given_up) /\ UNCHANGED made
  <2>1. /\ given_up.new \cap given_up.chunk = {} /\ Ahead(given_up) \subseteq Ahead(calls[c])
        /\ {} \cap Ahead(given_up) = {} /\ {} \in SUBSET Ahead(calls[c])
    BY <1>1, <1>2, <1>3 DEF Ahead, RowsApart
  <2> HIDE DEF row
  <2> QED BY <1>1, <1>2, <1>3, <1>4, <1>6, <2>1, CallGoesOn
<1> QED BY <1>4, <1>5, <1>6, <1>8, Zenon

LEMMA UpdateStep ==
  ASSUME CsvInv, NEW c \in Calls, update_row(c)
  PROVE  CsvInv'
<1> DEFINE row == first(calls[c].old)
           rest == [calls[c] EXCEPT !.old = calls[c].old \ {row}]
           given_up == [rest EXCEPT !.failed = rest.failed \cup {row.n}]
<1>1. working(c) /\ IsCall(calls[c]) /\ calls[c].at # "rest" /\ RowsApart(calls[c])
  BY DEF update_row, At, working, CsvInv, CallStands
<1>2. SameRun(calls[c], rest) /\ rest.new = calls[c].new /\ rest.chunk = calls[c].chunk
  <2> HIDE DEF row
  <2> QED BY <1>1, CallUpdated
<1>3. SameRun(rest, given_up) /\ given_up.new = rest.new /\ given_up.chunk = rest.chunk
  <2> HIDE DEF rest, row
  <2> QED BY <1>2, CallGaveUp DEF SameRun
<1>4. /\ Wrote(c, rest) \/ Goto(c, given_up)
      /\ UNCHANGED <<sheet, dry_runs, overlapped, made>>
  BY DEF update_row
<1> HIDE DEF rest, given_up
<1>5. \A call \in {rest, given_up} :
        /\ IsCall(call) /\ call.at # "rest" /\ call.run = calls[c].run
        /\ call.new \cap call.chunk = {} /\ Ahead(call) \subseteq Ahead(calls[c])
        /\ {} \cap Ahead(call) = {}
  BY <1>1, <1>2, <1>3 DEF SameRun, Ahead, RowsApart
<1>6. ASSUME NEW call \in {rest, given_up}, Goto(c, call) \/ Wrote(c, call)
      PROVE  CsvInv'
  BY <1>1, <1>4, <1>5, <1>6, CallGoesOn, {} \in SUBSET Ahead(calls[c])
<1> QED BY <1>4, <1>6

(* The rows of a plan bear the numbers of the rows of the file.             *)
LEMMA RowsNumbered ==
  ASSUME NEW importer, NEW fixup, NEW n
  PROVE  plan_row(n, importer, fixup).n = n
<1>1. \E action, match, values, refused :
        plan_row(n, importer, fixup) = Row(action, n, match, values, refused)
  BY Zenon DEF plan_row
<1> QED BY <1>1 DEF Row

LEMMA ApplyStep ==
  ASSUME CsvInv, NEW c \in Calls, NEW r \in DOMAIN dry_runs, NEW fixup \in BOOLEAN,
         csv_apply(c, r, fixup)
  PROVE  CsvInv'
<1> DEFINE plan == plan_csv("importer", fixup)
           rows == {plan[n] : n \in DOMAIN plan}
           new == {row \in rows : row.action = "create"}
           old == {row \in rows : row.action = "update" /\ row.values # <<>>}
           call == [at |-> "moves", run |-> r, new |-> new, old |-> old, chunk |-> {},
                    moves |-> {}, failed |-> {}, alone |-> TRUE]
           joined == \E d \in Calls \ {c} : working(d) /\ calls[d].run = r
<1>1. /\ ~working(c) /\ dry_runs[r] = "dry_run" /\ Goto(c, call)
      /\ overlapped' = overlapped \cup (IF joined THEN {r} ELSE {})
      /\ UNCHANGED <<sheet, dry_runs, made>>
  BY Zenon DEF csv_apply
<1>2. /\ \A row \in rows : row.n \in Nat
      /\ \A one, other \in rows : one.n = other.n => one = other
  <2>1. DOMAIN plan = DOMAIN sheet.rows /\ \A n \in DOMAIN plan : plan[n].n = n
    <3>1. plan = [n \in DOMAIN sheet.rows |-> plan_row(n, "importer", fixup)]
      BY Zenon DEF plan_csv
    <3> HIDE DEF plan
    <3> QED BY <3>1, RowsNumbered
  <2>2. DOMAIN plan \subseteq Nat
    BY <2>1 DEF CsvInv
  <2> HIDE DEF plan
  <2> QED BY <2>1, <2>2
<1>3. IsCall(call) /\ RowsApart(call) /\ call.run = r /\ Ahead(call) = new /\ call.at # "rest"
  <2> HIDE DEF plan, rows
  <2> QED BY <1>2 DEF IsCall, RowsApart, Ahead
<1> HIDE DEF plan, rows, new, old, call
<1>4. /\ DOMAIN calls' = Calls /\ calls' = [d \in Calls |-> calls'[d]]
      /\ \A d \in Calls \ {c} : SameCall(d)
      /\ calls'[c] = call
  BY <1>1, OthersSame
<1>5. \A d \in Calls \ {c} : (working(d)' <=> working(d)) /\ (working(d) => calls'[d].run = calls[d].run)
  BY <1>4 DEF working, SameCall
<1>6. working(c)'
  BY <1>3, <1>4 DEF working
<1>7. ASSUME r \notin overlapped'
      PROVE  /\ \A d \in Calls : working(d)' /\ calls'[d].run = r => d = c
             /\ \A of : of[1] = r => times(of) = 0
  <2>1. r \notin overlapped /\ ~joined
    BY <1>1, <1>7
  <2>2. Untouched(r)
    BY <1>1, <2>1 DEF Untouched
  <2>3. \A of \in DOMAIN made : of[1] # r
    BY <2>1, <2>2 DEF CsvInv
  <2>4. \A d \in Calls : working(d)' /\ calls'[d].run = r => d = c
    BY <2>1, <1>5
  <2> QED BY <2>3, <2>4 DEF times
<1>8. CallStands(c)'
  <2>1. ASSUME r \notin overlapped'
        PROVE  \A row \in Ahead(call) : times(<<r, row.n>>)' = 0
    <3>1. \A row : times(<<r, row.n>>) = 0
      BY <1>7, <2>1
    <3> QED BY <3>1, <1>1 DEF times
  <2>2. IsCall(calls[c])' /\ RowsApart(calls[c])' /\ Ahead(calls[c])' = Ahead(call)
    BY <1>3, <1>4 DEF IsCall, RowsApart, Ahead
  <2>3. calls'[c].run = r /\ r \in DOMAIN dry_runs'
    BY <1>1, <1>3, <1>4
  <2> QED BY <1>7, <2>1, <2>2, <2>3 DEF CallStands, times
<1>9. ASSUME NEW d \in Calls \ {c}
      PROVE  CallStands(d)'
  <2>1. CASE working(d)
    <3>1. CallStands(d) /\ SameCall(d)
      BY <1>4 DEF CsvInv
    <3>2. IsCall(calls[d])' /\ RowsApart(calls[d])' /\ Ahead(calls[d])' = Ahead(calls[d])
            /\ calls'[d].run = calls[d].run
      BY <2>1, <3>1 DEF SameCall, CallStands, IsCall, RowsApart, Ahead
    <3>3. ASSUME calls[d].run \notin overlapped'
          PROVE  /\ \A e \in Calls : working(e)' /\ calls'[e].run = calls[d].run => e = d
                 /\ \A row \in Ahead(calls[d]) : times(<<calls[d].run, row.n>>) = 0
      <4>1. calls[d].run \notin overlapped
        BY <3>3, <1>1
      <4>2. calls[d].run # r
        BY <3>3, <1>1, <2>1
      <4>3. calls'[c].run = r
        BY <1>3, <1>4
      <4> QED BY <4>1, <4>2, <4>3, <3>1, <2>1, <1>5 DEF CallStands
    <3> QED BY <3>1, <3>2, <3>3, <2>1, <1>1 DEF CallStands, times
  <2>2. CASE ~working(d)
    BY <2>2, <1>5 DEF CallStands
  <2> QED BY <2>1, <2>2
<1>10. ASSUME NEW s \in DOMAIN dry_runs' \ overlapped', Untouched(s)'
       PROVE  \A of \in DOMAIN made' : of[1] # s
  <2>1. s # r
    BY <1>10, <1>3, <1>4, <1>6 DEF Untouched
  <2>2. Untouched(s) /\ s \in DOMAIN dry_runs \ overlapped
    BY <1>1, <1>5, <1>10 DEF Untouched
  <2> QED BY <2>2, <1>1 DEF CsvInv
<1>11. MadeOnce'
  BY <1>1 DEF MadeOnce, CsvInv
<1> QED BY <1>1, <1>4, <1>8, <1>9, <1>10, <1>11 DEF CsvInv

(* A call ends: its run has a status that is not run again, or counts as    *)
(* one whose end was not recorded.                                          *)
LEMMA CallEnds ==
  ASSUME CsvInv, NEW c \in Calls, working(c), Goto(c, Resting), UNCHANGED <<sheet, made>>,
         \/ /\ \E status \in {"applied", "failed"} : Recorded(calls[c].run, status)
            /\ UNCHANGED overlapped
         \/ overlapped' = overlapped \cup {calls[c].run} /\ UNCHANGED dry_runs
  PROVE  CsvInv'
<1> DEFINE r == calls[c].run
<1>1. /\ DOMAIN calls' = Calls /\ calls' = [d \in Calls |-> calls'[d]]
      /\ \A d \in Calls \ {c} : SameCall(d)
      /\ calls'[c] = Resting
  BY OthersSame
<1>2. ~working(c)'
  BY <1>1 DEF working, Resting
<1>3. \A d \in Calls \ {c} : (working(d)' <=> working(d)) /\ (working(d) => calls'[d].run = calls[d].run)
  BY <1>1 DEF working, SameCall
<1>4. r \in DOMAIN dry_runs
  BY DEF CsvInv, CallStands
<1>5. /\ DOMAIN dry_runs' = DOMAIN dry_runs /\ overlapped \subseteq overlapped'
      /\ dry_runs' \in Seq({"dry_run", "applied", "failed"})
      /\ \A s \in DOMAIN dry_runs \ {r} : dry_runs'[s] = dry_runs[s]
      /\ r \notin overlapped' => dry_runs'[r] # "dry_run"
  <2>1. dry_runs \in Seq({"dry_run", "applied", "failed"})
    BY DEF CsvInv
  <2>2. CASE \E status \in {"applied", "failed"} : Recorded(r, status) /\ UNCHANGED overlapped
    <3>1. PICK status \in {"applied", "failed"} : dry_runs' = [dry_runs EXCEPT ![r] = status]
      BY <2>2 DEF Recorded
    <3> HIDE DEF r
    <3> QED BY <1>4, <2>1, <2>2, <3>1
  <2>3. CASE overlapped' = overlapped \cup {r} /\ UNCHANGED dry_runs
    BY <2>1, <2>3
  <2> QED BY <2>2, <2>3
<1>6. ASSUME NEW d \in Calls
      PROVE  CallStands(d)'
  <2>1. CASE d # c /\ working(d)
    <3>1. CallStands(d) /\ SameCall(d)
      BY <2>1, <1>1 DEF CsvInv
    <3>2. IsCall(calls[d])' /\ RowsApart(calls[d])' /\ Ahead(calls[d])' = Ahead(calls[d])
            /\ calls'[d].run = calls[d].run
      BY <2>1, <3>1 DEF SameCall, CallStands, IsCall, RowsApart, Ahead
    <3>3. ASSUME calls[d].run \notin overlapped'
          PROVE  /\ \A e \in Calls : working(e)' /\ calls'[e].run = calls[d].run => e = d
                 /\ \A row \in Ahead(calls[d]) : times(<<calls[d].run, row.n>>) = 0
      BY <3>3, <3>1, <2>1, <1>2, <1>3, <1>5 DEF CallStands
    <3> QED BY <3>1, <3>2, <3>3, <2>1, <1>5 DEF CallStands, times
  <2>2. CASE d = c \/ ~working(d)
    BY <2>2, <1>2, <1>3 DEF CallStands
  <2> QED BY <2>1, <2>2
<1>7. ASSUME NEW s \in DOMAIN dry_runs' \ overlapped', Untouched(s)'
      PROVE  \A of \in DOMAIN made' : of[1] # s
  <2>1. s # r /\ dry_runs[s] = "dry_run"
    BY <1>5, <1>7 DEF Untouched
  <2>2. Untouched(s) /\ s \in DOMAIN dry_runs \ overlapped
    BY <2>1, <1>3, <1>5, <1>7 DEF Untouched
  <2> QED BY <2>2 DEF CsvInv
<1>8. MadeOnce'
  BY <1>5 DEF MadeOnce, CsvInv
<1>9. DOMAIN sheet'.rows = 1 .. Len(sheet'.rows) /\ made' \in [DOMAIN made' -> Nat]
        /\ \A of \in DOMAIN made' : of[1] \in DOMAIN dry_runs'
  BY <1>5 DEF CsvInv
<1> QED BY <1>1, <1>5, <1>6, <1>7, <1>8, <1>9 DEF CsvInv

LEMMA DryRunStep ==
  ASSUME CsvInv, csv_dry_run
  PROVE  CsvInv'
<1>1. /\ dry_runs' = Append(dry_runs, "dry_run") /\ dry_runs \in Seq({"dry_run", "applied", "failed"})
      /\ UNCHANGED <<sheet, calls, made, overlapped>>
  BY DEF csv_dry_run, CsvInv
<1> DEFINE last == Len(dry_runs) + 1
<1>2. /\ dry_runs' \in Seq({"dry_run", "applied", "failed"})
      /\ DOMAIN dry_runs' = DOMAIN dry_runs \cup {last} /\ last \notin DOMAIN dry_runs
      /\ \A s \in DOMAIN dry_runs : dry_runs'[s] = dry_runs[s]
  BY <1>1
<1> HIDE DEF last
<1>3. \A d \in Calls : CallStands(d)'
  BY <1>1, <1>2 DEF CsvInv, CallStands, IsCall, RowsApart, Ahead, working, times
<1>4. ASSUME NEW s \in DOMAIN dry_runs' \ overlapped', Untouched(s)'
      PROVE  \A of \in DOMAIN made' : of[1] # s
  <2>1. CASE s = last
    BY <2>1, <1>1, <1>2 DEF CsvInv
  <2>2. CASE s # last
    <3>1. Untouched(s) /\ s \in DOMAIN dry_runs \ overlapped
      BY <2>2, <1>1, <1>2, <1>4 DEF Untouched, working
    <3> QED BY <3>1, <1>1 DEF CsvInv
  <2> QED BY <2>1, <2>2
<1> QED BY <1>1, <1>2, <1>3, <1>4 DEF CsvInv, MadeOnce

(* Others write, and every call at work is disturbed.                       *)
LEMMA OthersStep ==
  ASSUME CsvInv, others_write
  PROVE  CsvInv'
<1>1. Wrote(None, None) /\ UNCHANGED <<sheet, dry_runs, made, overlapped>>
  BY DEF others_write
<1>2. /\ DOMAIN calls' = Calls /\ calls' = [d \in Calls |-> calls'[d]]
      /\ \A d \in Calls : SameCall(d)
  BY <1>1, OthersSame, CsvAssumption
<1>3. \A d \in Calls : (working(d)' <=> working(d)) /\ (working(d) => calls'[d].run = calls[d].run)
  BY <1>2 DEF working, SameCall
<1>4. ASSUME NEW d \in Calls
      PROVE  CallStands(d)'
  <2>1. CASE working(d)
    <3>1. CallStands(d) /\ SameCall(d)
      BY <1>2 DEF CsvInv
    <3>2. IsCall(calls[d])' /\ RowsApart(calls[d])' /\ Ahead(calls[d])' = Ahead(calls[d])
            /\ calls'[d].run = calls[d].run
      BY <2>1, <3>1 DEF SameCall, CallStands, IsCall, RowsApart, Ahead
    <3>3. ASSUME calls[d].run \notin overlapped
          PROVE  /\ \A e \in Calls : working(e)' /\ calls'[e].run = calls[d].run => e = d
                 /\ \A row \in Ahead(calls[d]) : times(<<calls[d].run, row.n>>) = 0
      BY <3>3, <3>1, <2>1, <1>3 DEF CallStands
    <3> QED BY <3>1, <3>2, <3>3, <2>1, <1>1 DEF CallStands, times
  <2>2. CASE ~working(d)
    BY <2>2, <1>3 DEF CallStands
  <2> QED BY <2>1, <2>2
<1>5. \A s \in DOMAIN dry_runs : Untouched(s)' => Untouched(s)
  BY <1>1, <1>3 DEF Untouched
<1> QED BY <1>1, <1>2, <1>4, <1>5 DEF CsvInv, MadeOnce

LEMMA CsvInvHolds == CsvStart /\ DOMAIN sheet.rows = 1 .. Len(sheet.rows) => CsvInv
BY DEF CsvStart, CsvInv, CallStands, working, Resting, MadeOnce

LEMMA CsvInvStays == CsvInv /\ [CsvNext]_csvVars => CsvInv'
<1> SUFFICES ASSUME CsvInv, [CsvNext]_csvVars
             PROVE  CsvInv'
  OBVIOUS
<1>1. ASSUME NEW c \in Calls, csv_applied(c)
      PROVE  CsvInv'
  <2>1. /\ working(c) /\ Recorded(calls[c].run, "applied") /\ Goto(c, Resting)
        /\ UNCHANGED <<sheet, made, overlapped>>
    BY <1>1 DEF csv_applied, At, working
  <2> QED BY <2>1, CallEnds
<1>2. ASSUME NEW c \in Calls, csv_fails(c)
      PROVE  CsvInv'
  <2>1. /\ working(c) /\ Goto(c, Resting) /\ UNCHANGED <<sheet, made>>
        /\ \/ Recorded(calls[c].run, "failed") /\ UNCHANGED overlapped
           \/ overlapped' = overlapped \cup {calls[c].run} /\ UNCHANGED dry_runs
    BY <1>2 DEF csv_fails
  <2> QED BY <2>1, CallEnds
<1>3. CASE UNCHANGED csvVars
  BY <1>3 DEF csvVars, CsvInv, CallStands, IsCall, RowsApart, Ahead, working, times, Untouched,
     MadeOnce
<1> QED BY <1>1, <1>2, <1>3, DryRunStep, OthersStep, ApplyStep, MovesStep, ChunkStep, RowStep,
           UpdateStep DEF CsvNext

THEOREM CsvInvariant == CsvSpec => []CsvInv
<1>1. CsvInv /\ [CsvNext]_csvVars => CsvInv'
  BY CsvInvStays
<1>2. CsvStart /\ DOMAIN sheet.rows = 1 .. Len(sheet.rows) => CsvInv
  BY CsvInvHolds
<1> QED BY <1>1, <1>2, PTL DEF CsvSpec

(* However many calls a dry run has, one after another or after one that    *)
(* failed, it makes of each row of the file one record at most, unless two  *)
(* of them were at work at once or the end of one was never recorded        *)
(* (services/crm/importer.py csv_apply).                                    *)
THEOREM RowsMadeOnce == CsvSpec => []MadeOnce
<1>1. CsvInv => MadeOnce
  BY DEF CsvInv
<1> QED BY <1>1, CsvInvariant, PTL
=============================================================================
