--------------------------------- MODULE Deals ---------------------------------
(***************************************************************************)
(* Deals of the CRM workspace that is tied to TVA projects, the company    *)
(* whose lead stage follows from them, and the projects that follow from   *)
(* them.  A handler reads the deal, its company, its other deals, tasks    *)
(* and project, works out a plan in Python, and gives it to one database   *)
(* transaction, which locks the deal and its company and tests again a     *)
(* part of what was read.  Between the two other requests are served, and  *)
(* a person may edit the company or the project by hand.                   *)
(* A request may be refused or fail at any point before its transaction    *)
(* commits: GiveUp.  The actor is a workspace admin who is a TVA manager,  *)
(* who may do everything here, and fields the stages ask for are given.    *)
(***************************************************************************)
EXTENDS Pipeline, FiniteSets, TLC

CONSTANTS
  Companies, DealIds, Projects,
  Sessions,          \* requests that may be in flight at once
  Targets,           \* bound: the stages a move may ask for
  OnLoss,            \* bound: where the person sends a company after a loss
  HandStages,        \* bound: the lead stages set by hand
  Edits,             \* bound: the probabilities an edit may set
  Stamping,          \* bound: whether callers send the updated_at they saw
  MaxWrites          \* bound: how often a transaction commits

DealRow ==
  [company : Companies, stage : OPEN \cup CLOSED, lost_from : OPEN \cup {None},
   prob : 0 .. 100, task : BOOLEAN, trashed : BOOLEAN]

ProjectRow ==
  [deal : DealIds \cup {None}, tentative : BOOLEAN, archived : BOOLEAN, by_crm : BOOLEAN,
   prob : 0 .. 100, alloc : {"none", "live", "released"}]

(* A null is no row and no stage, and there are finitely many deals. *)
ASSUME DealsAssumption ==
  /\ None \notin Companies \cup DealIds \cup Projects
  /\ None \notin MANUAL_LEAD_STAGES \cup ON_DEALS \cup OPEN \cup CLOSED
  /\ None \notin DealRow \cup ProjectRow /\ IsFiniteSet(DealIds)
  /\ Edits \subseteq 0 .. 100
  /\ Targets \subseteq OPEN \cup CLOSED
  /\ HandStages \subseteq MANUAL_LEAD_STAGES
  /\ Stamping \subseteq BOOLEAN
  /\ OnLoss \subseteq {"nurturing", "disqualified"}

VARIABLES
  company_stage,  \* crm_companies.lead_stage
  deals,          \* crm_opportunities: None, or the row; `task` is TRUE while
                  \* the deal has an open or waiting task
  projects,       \* projects: None, or the row; `alloc` stands for its
                  \* allocations: "none", "live", or "released" by its deal
  plans,          \* the requests between their reads and their transaction
  drifted,        \* history: the projects written past what their deal says
  writes          \* how many transactions have committed, for the bound

dealVars == <<company_stage, deals, projects, plans, drifted, writes>>

Idle == [op |-> "idle"]
Live(d) == deals[d] # None /\ ~deals[d].trashed
LiveDeals == {d \in DealIds : Live(d)}
Closes(stage) == stage \in CLOSED

project_of(d) ==
  IF \E p \in Projects : projects[p] # None /\ projects[p].deal = d
  THEN CHOOSE p \in Projects : projects[p] # None /\ projects[p].deal = d
  ELSE None

Tentative(p) == p # None /\ projects[p].tentative
is_linkable(p, tentative) ==
  /\ projects[p] # None /\ projects[p].deal = None
  /\ ~projects[p].archived /\ projects[p].tentative = tentative

Unlinked(tentative, archived) ==
  [deal |-> None, tentative |-> tentative, archived |-> archived, by_crm |-> FALSE,
   prob |-> 0, alloc |-> "none"]

-----------------------------------------------------------------------------
(* The rules of the pipeline: domain/crm/pipeline.py *)

may_move(row, target) ==
  /\ target # row.stage
  /\ row.stage = "closed_won" => target = "negotiation"
  /\ row.stage = "closed_lost" => target \in OPEN /\ row.lost_from \in {None, target}

Siblings(d, stages) ==
  {x \in LiveDeals \ {d} : deals[x].company = deals[d].company /\ deals[x].stage \in stages}

(* What a company becomes: None if it stays, "refused" if it takes no deal. *)
company_effect_on_open(stage) ==
  CASE stage \notin OPENABLE -> "refused"
    [] stage = "qualified" -> "deal_open"
    [] OTHER -> None

company_effect_on_reopen(stage) ==
  IF stage = "nurturing" THEN "deal_open" ELSE company_effect_on_open(stage)

(* Mutant: a deal that closes among open ones moves the company. *)
company_effect_on_close_each(stage, to, open, won, choice) ==
  IF to = "closed_won" THEN IF stage \in {"partner", "customer"} THEN None ELSE "customer"
  ELSE IF stage \in {"customer", "partner"} THEN None
  ELSE IF won THEN "customer"
  ELSE IF stage = "deal_open" THEN choice
  ELSE None

company_effect_on_close(stage, to, open, won, choice) ==
  IF open > 0 THEN None
  ELSE IF to = "closed_won" THEN IF stage \in {"partner", "customer"} THEN None ELSE "customer"
  ELSE IF stage \in {"customer", "partner"} THEN None
  ELSE IF won THEN "customer"
  ELSE IF stage = "deal_open" THEN choice
  ELSE None

CompanyEffect(d, to, choice) ==
  LET stage == company_stage[deals[d].company] IN
  IF Closes(to)
  THEN company_effect_on_close(stage, to, Cardinality(Siblings(d, OPEN)),
                               Siblings(d, {"closed_won"}) # {}, choice)
  ELSE IF deals[d].stage = "closed_lost" THEN company_effect_on_reopen(stage)
  ELSE None

-----------------------------------------------------------------------------
(* What a move does to the deal's project: services/crm/tva.py `effect`,   *)
(* and the handoff for a move to Closed Won.                               *)

Act(name) == [name |-> name, link |-> None]
Adopting(name, tentative) ==
  {[name |-> name, link |-> p] : p \in {q \in Projects : is_linkable(q, tentative)}}

(* Mutant: a deal that moves on leaves its project's probability behind. *)
effect_unsynced(d, to, prob) ==
  LET p == project_of(d) IN
  IF to = "closed_won"
  THEN {Act("confirm")} \cup (IF p = None THEN Adopting("confirm", TRUE) ELSE {})
  ELSE IF deals[d].stage = "closed_won"
  THEN {IF p = None THEN Act("nothing") ELSE Act("retentative")}
  ELSE IF to = "closed_lost" THEN {IF p = None THEN Act("nothing") ELSE Act("archive_release")}
  ELSE IF deals[d].stage = "closed_lost" /\ p # None THEN {Act("unarchive_unrelease")}
  ELSE IF p = None /\ to \in PROJECT_STAGES THEN {Act("create")} \cup Adopting("link", TRUE)
  ELSE {Act("nothing")}

effect(d, to, prob) ==
  LET p == project_of(d) IN
  IF to = "closed_won"
  THEN {Act("confirm")} \cup (IF p = None THEN Adopting("confirm", TRUE) ELSE {})
  ELSE IF deals[d].stage = "closed_won"
  THEN {IF p = None THEN Act("nothing") ELSE Act("retentative")}
  ELSE IF to = "closed_lost" THEN {IF p = None THEN Act("nothing") ELSE Act("archive_release")}
  ELSE IF deals[d].stage = "closed_lost" /\ p # None THEN {Act("unarchive_unrelease")}
  ELSE IF p = None /\ to \in PROJECT_STAGES THEN {Act("create")} \cup Adopting("link", TRUE)
  ELSE IF Tentative(p) /\ projects[p].prob # prob THEN {Act("sync_probability")}
  ELSE {Act("nothing")}

(* The project rows after the action, in the transaction, for deal d. *)
Released(alloc) == IF alloc = "live" THEN "released" ELSE alloc
Restored(alloc) == IF alloc = "released" THEN "live" ELSE alloc

(* Mutant: whatever archived the project, a reopened deal brings it back. *)
unarchive_any(row, prob) ==
  [row EXCEPT !.archived = FALSE, !.by_crm = FALSE, !.alloc = Restored(@),
              !.prob = IF row.tentative THEN prob ELSE @]

unarchive_unrelease(row, prob) ==
  [row EXCEPT !.archived = @ /\ ~row.by_crm, !.by_crm = FALSE, !.alloc = Restored(@),
              !.prob = IF row.tentative THEN prob ELSE @]

archive_release(row, prob) ==
  [row EXCEPT !.archived = TRUE, !.by_crm = @ \/ ~row.archived, !.alloc = Released(@),
              !.prob = IF row.archived THEN @ ELSE prob]

TvaRow(row, act, d, prob) ==
  CASE act.name \in {"create", "link"} -> [row EXCEPT !.deal = d, !.prob = prob]
    [] act.name = "confirm" -> [row EXCEPT !.deal = d, !.tentative = FALSE, !.prob = prob]
    [] act.name = "sync_probability" -> [row EXCEPT !.prob = IF row.tentative THEN prob ELSE @]
    [] act.name = "archive_release" -> archive_release(row, prob)
    [] act.name = "unarchive_unrelease" -> unarchive_unrelease(row, prob)
    [] act.name = "retentative" -> [row EXCEPT !.tentative = TRUE, !.prob = prob]

(* The row an action writes: the deal's own by now, the one it adopts, or a *)
(* new one; None where it finds nothing to do.                              *)
TvaTarget(act, d) ==
  LET p == project_of(d) IN
  IF act.name = "nothing" THEN None
  ELSE IF act.link # None THEN act.link
  ELSE IF p # None THEN IF act.name = "create" THEN None ELSE p
  ELSE IF act.name \in {"create", "confirm"} THEN CHOOSE q \in Projects : projects[q] = None
  ELSE None

TvaMay(act, d) ==
  /\ act.link # None => project_of(d) = None /\ is_linkable(act.link, TRUE)
  /\ act.name \in {"create", "confirm"} /\ act.link = None /\ project_of(d) = None =>
       \E q \in Projects : projects[q] = None

TvaAfter(act, d, prob) ==
  LET p == TvaTarget(act, d) IN
  IF p = None THEN projects
  ELSE [projects EXCEPT
          ![p] = TvaRow(IF @ = None THEN Unlinked(TRUE, FALSE) ELSE @, act, d, prob)]

-----------------------------------------------------------------------------
(* Requests.  `stale` collects the rows of a plan that were written since   *)
(* they were read, and whose updated_at the transaction will compare.       *)

Begin(s, plan) ==
  /\ plans[s] = Idle
  /\ writes < MaxWrites
  /\ plans' = [plans EXCEPT ![s] = plan]
  /\ UNCHANGED <<company_stage, deals, projects, drifted, writes>>

Commit(s, touched) ==
  /\ plans' = [t \in Sessions |->
       IF t = s \/ plans[t] = Idle THEN Idle
       ELSE [plans[t] EXCEPT !.stale = @ \cup (touched \cap plans[t].compares)]]
  /\ writes' = writes + 1

GiveUp(s) ==
  /\ plans[s] # Idle
  /\ plans' = [plans EXCEPT ![s] = Idle]
  /\ UNCHANGED <<company_stage, deals, projects, drifted, writes>>

(* What a request compares when it commits: the deal if its caller sent the *)
(* updated_at it had seen, the company if the plan changes it.              *)
Compares(rows, stamped, c, change) ==
  (IF stamped THEN rows ELSE {}) \cup (IF change # None THEN {c} ELSE {})

WithChange(c, change) ==
  IF change = None THEN company_stage ELSE [company_stage EXCEPT ![c] = change]
Changed(c, change) == IF change = None THEN {} ELSE {c}

-----------------------------------------------------------------------------
(* A move between stages: deals._plan, deals.move, deals.handoff_confirm    *)

PlanMove(s, d, to, choice, stamped, act) ==
  LET c == deals[d].company
      change == CompanyEffect(d, to, choice) IN
  /\ may_move(deals[d], to)
  /\ act \in effect(d, to, default_probability(to))
  /\ change # "refused"
  /\ Begin(s, [op |-> "move", deal |-> d, from |-> deals[d].stage, to |-> to,
               company |-> c, found |-> company_stage[c], change |-> change, act |-> act,
               open |-> Cardinality(Siblings(d, OPEN)),
               won |-> Siblings(d, {"closed_won"}) # {},
               closing |-> to = "closed_lost" /\ deals[d].task,
               compares |-> Compares({d}, stamped, c, change), stale |-> {}])

(* Mutants: nothing is counted again under the company's lock, or only     *)
(* whether a deal was won.                                                  *)
SiblingsUnchecked(plan) == TRUE
OnlyWonChecked(plan) ==
  Closes(plan.to) => (Siblings(plan.deal, {"closed_won"}) # {}) = plan.won

SiblingsAsPlanned(plan) ==
  Closes(plan.to) =>
    /\ Cardinality(Siblings(plan.deal, OPEN)) = plan.open
    /\ (Siblings(plan.deal, {"closed_won"}) # {}) = plan.won

(* Mutant: only the tasks the plan knew of are looked at. *)
TasksUnchecked(plan) == TRUE

TasksAsPlanned(plan) == plan.to = "closed_lost" /\ deals[plan.deal].task => plan.closing

crm_deal_transition(s) ==
  LET plan == plans[s]
      d == plan.deal
      prob == default_probability(plan.to)
      row == deals[d] IN
  /\ plan.op = "move"
  /\ Live(d) /\ row.stage = plan.from
  /\ plan.stale = {}
  /\ plan.change # None => row.company = plan.company
  /\ SiblingsAsPlanned(plan)
  /\ TasksAsPlanned(plan)
  /\ TvaMay(plan.act, d)
  /\ deals' = [deals EXCEPT ![d] =
       [row EXCEPT !.stage = plan.to, !.prob = prob, !.task = row.task /\ ~plan.closing,
                   !.lost_from = IF plan.to = "closed_lost" THEN plan.from ELSE None]]
  /\ company_stage' = WithChange(plan.company, plan.change)
  /\ projects' = TvaAfter(plan.act, d, prob)
  /\ drifted' = drifted \cup
       (IF plan.act.name = "confirm" \/ plan.act \in effect(d, plan.to, prob)
        THEN {} ELSE {project_of(d)} \ {None})
  /\ Commit(s, {d} \cup Changed(plan.company, plan.change))

-----------------------------------------------------------------------------
(* Creating and editing a deal: deals.create, deals.update                  *)

PlanCreate(s, d, c) ==
  LET change == company_effect_on_open(company_stage[c]) IN
  /\ deals[d] = None
  /\ change # "refused"
  /\ Begin(s, [op |-> "create", deal |-> d, company |-> c, change |-> change,
               compares |-> Compares({}, FALSE, c, change), stale |-> {}])

create(s) ==
  LET plan == plans[s] IN
  /\ plan.op = "create"
  /\ deals[plan.deal] = None
  /\ plan.stale = {}
  /\ deals' = [deals EXCEPT ![plan.deal] =
       [company |-> plan.company, stage |-> "discovery", lost_from |-> None,
        prob |-> default_probability("discovery"), task |-> FALSE, trashed |-> FALSE]]
  /\ company_stage' = WithChange(plan.company, plan.change)
  /\ Commit(s, Changed(plan.company, plan.change))
  /\ UNCHANGED <<projects, drifted>>

PlanMoveTo(s, d, c, stamped) ==
  LET change == IF deals[d].stage \in OPEN THEN company_effect_on_open(company_stage[c])
                ELSE None IN
  /\ c # deals[d].company
  /\ change # "refused"
  /\ Begin(s, [op |-> "set_company", deal |-> d, company |-> c, change |-> change,
               compares |-> Compares({d}, stamped, c, change), stale |-> {}])

set_company(s) ==
  LET plan == plans[s] IN
  /\ plan.op = "set_company"
  /\ plan.stale = {}
  /\ deals' = [deals EXCEPT ![plan.deal].company = plan.company]
  /\ company_stage' = WithChange(plan.company, plan.change)
  /\ Commit(s, {plan.deal} \cup Changed(plan.company, plan.change))
  /\ UNCHANGED <<projects, drifted>>

(* The save that carries a probability takes the transition's way only if   *)
(* the deal had a tentative project when it was looked for.                 *)
PlanProbability(s, d, prob, stamped) ==
  /\ prob # deals[d].prob
  /\ Begin(s, [op |-> "set_probability", deal |-> d, prob |-> prob,
               synced |-> Tentative(project_of(d)),
               compares |-> Compares({d}, stamped, None, None), stale |-> {}])

set_probability(s) ==
  LET plan == plans[s]
      d == plan.deal IN
  /\ plan.op = "set_probability"
  /\ plan.stale = {}
  /\ plan.synced => Live(d)
  /\ deals' = [deals EXCEPT ![d].prob = plan.prob]
  /\ projects' = IF plan.synced THEN TvaAfter(Act("sync_probability"), d, plan.prob)
                 ELSE projects
  /\ drifted' = drifted \cup
       (IF ~plan.synced /\ Tentative(project_of(d)) THEN {project_of(d)} ELSE {})
  /\ Commit(s, {d})
  /\ UNCHANGED company_stage

(* Link TVA project: all of it is tested again in crm_link_project. *)
link_project(d, p) ==
  LET row == deals[d] IN
  /\ writes < MaxWrites
  /\ row.stage \in PROJECT_STAGES \cup {"closed_won"}
  /\ project_of(d) = None
  /\ IF projects[p] = None
     THEN /\ row.stage # "closed_won"
          /\ \A q \in Projects : projects[q] = None => p = CHOOSE x \in Projects : projects[x] = None
          /\ projects' = [projects EXCEPT ![p] =
               [Unlinked(TRUE, FALSE) EXCEPT !.deal = d, !.prob = row.prob]]
     ELSE /\ is_linkable(p, row.stage # "closed_won")
          /\ projects' = [projects EXCEPT ![p].deal = d,
               ![p].prob = IF row.stage = "closed_won" THEN @ ELSE row.prob]
  /\ writes' = writes + 1
  /\ UNCHANGED <<company_stage, deals, plans, drifted>>

-----------------------------------------------------------------------------
(* By hand: a company's lead stage (records.update), the Trash              *)
(* (records.soft_delete, records.restore), a task of the deal, and the      *)
(* Projects page (api/admin.py), which knows deals only by their links.     *)

PlanLeadStage(s, c, stage, stamped) ==
  /\ stage # company_stage[c]
  /\ company_stage[c] \in ON_DEALS =>
       \A d \in LiveDeals : deals[d].company = c => deals[d].stage \notin OPEN
  /\ Begin(s, [op |-> "lead_stage", company |-> c, stage |-> stage,
               compares |-> Compares({c}, stamped, None, None), stale |-> {}])

lead_stage(s) ==
  LET plan == plans[s] IN
  /\ plan.op = "lead_stage"
  /\ plan.stale = {}
  /\ company_stage' = [company_stage EXCEPT ![plan.company] = plan.stage]
  /\ Commit(s, {plan.company})
  /\ UNCHANGED <<deals, projects, drifted>>

PlanTrash(s, d) ==
  /\ project_of(d) = None
  /\ Begin(s, [op |-> "trash", deal |-> d, compares |-> {}, stale |-> {}])

soft_delete(s) ==
  LET d == plans[s].deal IN
  /\ plans[s].op = "trash"
  /\ deals' = [deals EXCEPT ![d].trashed = TRUE]
  /\ drifted' = drifted \cup ({project_of(d)} \ {None})
  /\ Commit(s, {d})
  /\ UNCHANGED <<company_stage, projects>>

restore(s, d) ==
  /\ plans[s] = Idle /\ writes < MaxWrites
  /\ deals[d] # None /\ deals[d].trashed
  /\ deals' = [deals EXCEPT ![d].trashed = FALSE]
  /\ Commit(s, {d})
  /\ UNCHANGED <<company_stage, projects, drifted>>

task_of_deal(d) ==
  /\ writes < MaxWrites
  /\ deals' = [deals EXCEPT ![d].task = ~@]
  /\ writes' = writes + 1
  /\ UNCHANGED <<company_stage, projects, plans, drifted>>

(* Mutant: a linked project is edited like any other. *)
ControlledNever(row, field) == FALSE

Controlled(row, field) ==
  row.deal # None /\ (field \in {"tentative", "prob"} \/ row.tentative)

(* What may be sent of a column; a controlled one may be sent back as it is. *)
Values(row, field) == IF field = "prob" THEN Edits \cup {row.prob} ELSE BOOLEAN
Sendable(row, field, value) == Controlled(row, field) => row[field] = value

PlanProject(s, p, field, value) ==
  /\ projects[p] # None
  /\ Sendable(projects[p], field, value)
  /\ Begin(s, [op |-> "project", project |-> p, field |-> field, value |-> value,
               compares |-> {}, stale |-> {}])

update_project(s) ==
  LET plan == plans[s]
      row == projects[plan.project] IN
  /\ plan.op = "project"
  /\ projects' = [projects EXCEPT ![plan.project][plan.field] = plan.value]
  /\ drifted' = drifted \cup
       (IF Sendable(row, plan.field, plan.value) THEN {} ELSE {plan.project})
  /\ Commit(s, {})
  /\ UNCHANGED <<company_stage, deals>>

PlanAllocation(s, p) ==
  /\ projects[p] # None /\ ~projects[p].archived /\ projects[p].alloc = "none"
  /\ Begin(s, [op |-> "allocate", project |-> p, compares |-> {}, stale |-> {}])

create_allocation(s) ==
  LET p == plans[s].project IN
  /\ plans[s].op = "allocate"
  /\ projects[p].alloc = "none"
  /\ projects' = [projects EXCEPT ![p].alloc = "live"]
  /\ drifted' = drifted \cup (IF projects[p].archived THEN {p} ELSE {})
  /\ Commit(s, {})
  /\ UNCHANGED <<company_stage, deals>>

-----------------------------------------------------------------------------
DealNext ==
  \/ \E s \in Sessions, d \in LiveDeals, stamped \in Stamping :
       \/ \E to \in Targets, choice \in OnLoss :
            \E act \in effect(d, to, default_probability(to)) :
              PlanMove(s, d, to, choice, stamped, act)
       \/ \E c \in Companies : PlanMoveTo(s, d, c, stamped)
       \/ \E prob \in Edits : PlanProbability(s, d, prob, stamped)
       \/ PlanTrash(s, d)
  \/ \E s \in Sessions, d \in DealIds : (\E c \in Companies : PlanCreate(s, d, c)) \/ restore(s, d)
  \/ \E s \in Sessions, c \in Companies, stage \in HandStages, stamped \in Stamping :
       PlanLeadStage(s, c, stage, stamped)
  \/ \E s \in Sessions, p \in {q \in Projects : projects[q] # None} :
       \/ \E field \in {"archived", "tentative", "prob"} :
            \E value \in Values(projects[p], field) : PlanProject(s, p, field, value)
       \/ PlanAllocation(s, p)
  \/ \E d \in LiveDeals : task_of_deal(d) \/ \E p \in Projects : link_project(d, p)
  \/ \E s \in Sessions :
       \/ crm_deal_transition(s) \/ create(s) \/ set_company(s) \/ set_probability(s)
       \/ lead_stage(s) \/ soft_delete(s) \/ update_project(s) \/ create_allocation(s)
       \/ GiveUp(s)

(* A linked project is where its deal has put it. *)
InStep(row, deal) ==
  /\ ~deal.trashed
  /\ deal.stage \in OPEN =>
       row.tentative /\ ~row.by_crm /\ row.prob = deal.prob /\ row.alloc # "released"
  /\ deal.stage = "closed_lost" => row.tentative /\ row.archived /\ row.alloc # "live"
  /\ deal.stage = "closed_won" => ~row.tentative /\ ~row.by_crm /\ row.alloc # "released"

(* Any companies, deals and projects that no request is at work on: each    *)
(* deal links one project at most, which is in step with it, and a project  *)
(* no deal ever linked bears no trace of one.                               *)
DealInit ==
  /\ company_stage \in [Companies -> MANUAL_LEAD_STAGES \cup ON_DEALS]
  /\ deals \in [DealIds -> {None} \cup DealRow]
  /\ projects \in [Projects -> {None} \cup ProjectRow]
  /\ \A p \in Projects : projects[p] # None =>
       IF projects[p].deal = None
       THEN ~projects[p].by_crm /\ projects[p].alloc # "released"
       ELSE /\ deals[projects[p].deal] # None
            /\ InStep(projects[p], deals[projects[p].deal])
            /\ \A q \in Projects : projects[q] # None /\ projects[q].deal = projects[p].deal => q = p
  /\ plans = [s \in Sessions |-> Idle] /\ drifted = {} /\ writes = 0

DealSpec == DealInit /\ [][DealNext]_dealVars

-----------------------------------------------------------------------------
(* Properties *)

Closing(d) ==
  Live(d) /\ deals[d].stage \in OPEN /\ deals'[d].stage \in CLOSED

OpenOn(c) == \E d \in LiveDeals : deals[d].company = c /\ deals[d].stage \in OPEN

(* A deal that closes takes its company out of Qualified and later only if  *)
(* no deal is open on it, however the deals of the company moved since the  *)
(* plan was made (FR-CRM-PIPE-05, -15: the count under the company's lock). *)
ClosingSparesOpenDeals ==
  [][\A d \in DealIds : Closing(d) =>
       LET c == deals[d].company IN
       company_stage[c] \in OPENABLE /\ company_stage'[c] \notin OPENABLE => ~OpenOn(c)']_dealVars

(* A plan carried out on another company, or another lead stage, than it    *)
(* was made for.                                                            *)
Overtaken(d) ==
  \E s \in Sessions :
    LET plan == plans[s] IN
    /\ plan.op = "move" /\ plan.deal = d /\ plans'[s] = Idle
    /\ plan.company # deals[d].company \/ plan.found # company_stage[plan.company]

(* The last open deal to close does not leave its company at Deal open,     *)
(* even if two close at once (FR-CRM-PIPE-05).  The exception: the deal was *)
(* moved to that company, or the company to that stage, after a closing was *)
(* planned that changes no company: then the transaction compares none.     *)
LastCloseMovesCompany ==
  [][\A d \in DealIds : Closing(d) /\ ~OpenOn(deals[d].company)' /\ ~Overtaken(d) =>
       company_stage'[deals[d].company] # "deal_open"]_dealVars

(* Both: closings move the company when the last deal closes, and only then.*)
CompanyFollowsDeals == ClosingSparesOpenDeals /\ LastCloseMovesCompany

(* A lost deal's open tasks are cancelled with it, those opened since its   *)
(* move was planned included (FR-CRM-PIPE-09, automation 9).                *)
LossClosesTasks ==
  [][\A d \in DealIds : Closing(d) /\ deals'[d].stage = "closed_lost" => ~deals'[d].task]_dealVars

(* A project archived by a person is not brought back by a deal             *)
(* (FR-CRM-TVA-14: only what this deal's loss did).                         *)
HandArchiveStands ==
  [][\A p \in Projects :
       /\ projects[p] # None /\ projects[p].archived /\ ~projects[p].by_crm
       /\ ~projects'[p].archived
       => \E s \in Sessions : plans[s].op = "project" /\ plans[s].project = p]_dealVars

(* A project is where its deal says: tentative, at the deal's probability   *)
(* and with its people while the deal is open; archived and without them    *)
(* once it is lost; confirmed once it is won; and never a trashed deal's    *)
(* (FR-CRM-TVA-06, -07, -12, -14, -15, FR-CRM-DEL-03).  The exceptions are  *)
(* the writes that are not tested against the deal again: see `drifted`.    *)
ProjectFollowsDeal ==
  \A p \in Projects \ drifted : projects[p] # None /\ projects[p].deal # None =>
    InStep(projects[p], deals[projects[p].deal])
=============================================================================
