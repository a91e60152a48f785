-------------------------------- MODULE Importer --------------------------------
(***************************************************************************)
(* Importing an export of Twenty into the CRM workspace.  A real run plans *)
(* the whole file against what the workspace holds, then writes the plan   *)
(* object by object in chunks, each chunk one database transaction; here a *)
(* chunk is one row.  The run may be cut short between two chunks, another *)
(* run may write in between, and so may people: a company is merged into   *)
(* another, a record is changed by hand.  The same file may be run again.  *)
(* A record made from the row with Twenty id t has id t: its id is new,    *)
(* and the row and the record find each other by t alone.                  *)
(***************************************************************************)
EXTENDS Pipeline, Sequences, FiniteSets, SequencesExt, TLC

CONSTANTS
  Members,      \* owners a file may name who are members of the workspace
  Importers,    \* the admins who import
  Runs,         \* real runs that may be at work at once
  MaxPlans,     \* bound: how often a real run plans the file
  MaxHand,      \* bound: changes made by hand
  HandChanges  \* bound: which record's which column a person may set to what

OBJECTS == <<"companies", "people", "campaigns", "opportunities", "campaign_members", "tasks">>
PARTNER_TYPES == {"channel_partner"}

VARIABLES
  file,     \* the export: by object, its rows in order
  crm,      \* by object, the records of the workspace by id, Trash included
  run,      \* the real runs: their plan and how much of it is written
  hand,     \* how many changes were made by hand
  planned,  \* how many plans were made
  settled   \* history: the last run wrote its whole plan, and nothing else
            \* was written since that plan was made
importVars == <<file, crm, run, hand, planned, settled>>

-----------------------------------------------------------------------------
(* The rules: domain/crm/importer.py.  P is what one plan is made from: the *)
(* file, the workspace and the importing admin.                             *)

existing(P, obj, tid) == IF tid \in DOMAIN P.crm[obj] THEN P.crm[obj][tid] ELSE None
merged_away(P, tid) ==
  existing(P, "companies", tid) # None /\ P.crm.companies[tid].merged # None

(* Of the good rows, in order, those that share no key with one before them. *)
claimed(good, keys) ==
  LET kept[n \in Nat] ==
        IF n = 0 THEN {}
        ELSE kept[n - 1] \cup
             (IF n \in good /\ \A m \in kept[n - 1] : keys[m] \cap keys[n] = {} THEN {n} ELSE {})
  IN IF good = {} THEN {} ELSE kept[Max(good)]
usable(rows) == {i \in DOMAIN rows : rows[i].id # None /\ rows[i].named}
ids(rows) == [i \in DOMAIN rows |-> {rows[i].id}]
rows_of(P, obj) == claimed(usable(P.file[obj]), ids(P.file[obj]))

written(P, obj) ==
  {t \in {P.file[obj][i].id : i \in rows_of(P, obj)} : obj # "companies" \/ ~merged_away(P, t)}

(* The record a row names, a deal aside: a merged company's survivor, or a  *)
(* row of the file.                                                         *)
ref(P, obj, tid) ==
  IF tid \in DOMAIN P.crm[obj]
  THEN IF merged_away(P, tid) /\ obj = "companies" THEN P.crm[obj][tid].merged ELSE tid
  ELSE IF tid \in written(P, obj) THEN tid ELSE None

owner(P, email, before) ==
  IF email \in Members THEN email ELSE IF before # None THEN None ELSE P.importer

derive_lead_stage(account, stages, own) ==
  IF account \in PARTNER_TYPES THEN "partner"
  ELSE IF stages \cap OPEN # {} THEN "deal_open"
  ELSE IF "closed_won" \in stages THEN "customer"
  ELSE IF stages # {} THEN "nurturing"
  ELSE IF own # None THEN own
  ELSE "new"

(* One row to write: a new record with all its values, or what changed of   *)
(* one already there.                                                       *)
Write(obj, tid, values, before, links) ==
  [obj |-> obj, tid |-> tid, before |-> before, links |-> links,
   values |-> IF before = None THEN values
              ELSE [k \in {k \in DOMAIN values : values[k] # None /\ before[k] # values[k]} |-> values[k]]]
unchanged(w) == w.before # None /\ w.values = <<>> /\ w.links = {}

(* A deal already in the CRM keeps its stage.                               *)
current_stage(P, row) ==
  IF existing(P, "opportunities", row.id) # None THEN P.crm.opportunities[row.id].stage ELSE row.stage
landed(P) ==
  LET rows == P.file.opportunities IN
  claimed({i \in usable(rows) : ref(P, "companies", rows[i].company) # None}, ids(rows))
deals_written(P) == {P.file.opportunities[i].id : i \in landed(P)}
deal_ref(P, tid) == IF tid \in DOMAIN P.crm.opportunities \cup deals_written(P) THEN tid ELSE None
deal_stages(P, tid) ==
  {current_stage(P, P.file.opportunities[i]) :
     i \in {i \in landed(P) : P.file.opportunities[i].company = tid}}
company_deals(P, tid) ==
  {d \in DOMAIN P.crm.opportunities :
     P.crm.opportunities[d].company = tid /\ ~P.crm.opportunities[d].trashed}
(* Mutant: the deals the same file brings are not counted. *)
stages_of_crm(P, tid) == {P.crm.opportunities[d].stage : d \in company_deals(P, tid)}

stages_of(P, tid) ==
  deal_stages(P, tid) \cup {P.crm.opportunities[d].stage : d \in company_deals(P, tid) \ deals_written(P)}

(* A domain, like an e-mail, is not taken from the record that has it.      *)
domain_holder(P, domain) ==
  {c \in DOMAIN P.crm.companies : domain \in P.crm.companies[c].domains}
row_of(P, tid) == CHOOSE i \in DOMAIN P.file.companies :
  P.file.companies[i].id = tid /\ \A j \in 1..(i - 1) : P.file.companies[j].id # tid
new_domain(P, tid) ==
  LET domain == P.file.companies[row_of(P, tid)].domain IN
  IF \/ domain = None
     \/ domain_holder(P, domain) # {}
     \/ \E t \in written(P, "companies") \ {tid} :
          row_of(P, t) < row_of(P, tid) /\ P.file.companies[row_of(P, t)].domain = domain
  THEN {} ELSE {domain}

company_of(P, tid) ==
  LET row == P.file.companies[row_of(P, tid)]
      before == existing(P, "companies", tid)
  IN Write("companies", tid,
       [account |-> row.account, owner |-> owner(P, row.owner, before),
        lead_stage |-> derive_lead_stage(row.account, stages_of(P, tid), row.stage)],
       before, new_domain(P, tid))

(* Companies of the CRM the file's deals land on, which it does not bring.  *)
deal_companies(P) ==
  {Write("companies", t,
     [lead_stage |-> derive_lead_stage(P.crm.companies[t].account, stages_of(P, t), None)],
     P.crm.companies[t], {}) :
     t \in {t \in DOMAIN P.crm.companies \ written(P, "companies") :
              deal_stages(P, t) # {} /\ ~merged_away(P, t)}}

email_holder(P, email) == {p \in DOMAIN P.crm.people : P.crm.people[p].email = email}
keeps_email(P, i) ==
  LET rows == P.file.people  holder == email_holder(P, rows[i].email) IN
  IF holder # {} THEN holder = {rows[i].id}
  ELSE \A j \in rows_of(P, "people") : j < i => rows[j].email # rows[i].email
person_of(P, i) ==
  LET row == P.file.people[i]
      before == existing(P, "people", row.id)
      mine == row.email # None /\ keeps_email(P, i)
  IN Write("people", row.id,
       [email |-> IF mine THEN row.email ELSE None,
        additional_emails |-> IF mine THEN None ELSE row.email,
        company |-> ref(P, "companies", row.company),
        owner |-> IF row.owner = None THEN None ELSE owner(P, row.owner, before)],
       before, {})

(* A deal's source: the campaign it names, or the first member's.           *)
member_source(P, tid) ==
  LET rows == P.file.campaign_members
      from == {i \in DOMAIN rows : rows[i].deal = tid /\ rows[i].campaign # None}
  IN IF from = {} THEN None ELSE rows[CHOOSE i \in from : \A j \in from : i <= j].campaign
source_of(P, row) ==
  ref(P, "campaigns", IF row.campaign # None THEN row.campaign ELSE member_source(P, row.id))
needs_step(P, row) ==
  existing(P, "opportunities", row.id) = None /\ row.stage \in OPEN /\ row.next_step = None
deal_of(P, i) ==
  LET row == P.file.opportunities[i]
      before == existing(P, "opportunities", row.id)
      values == [company |-> ref(P, "companies", row.company), contact |-> ref(P, "people", row.contact),
                 owner |-> owner(P, row.owner, before), source |-> source_of(P, row),
                 next_step |-> IF needs_step(P, row) THEN "review after import" ELSE row.next_step]
  IN Write("opportunities", row.id,
       IF before = None THEN values @@ [stage |-> row.stage] ELSE values, before, {})

(* Every row with a campaign's id is written, a repeated one as well.       *)
campaign_of(P, i) ==
  LET row == P.file.campaigns[i]  before == existing(P, "campaigns", row.id) IN
  Write("campaigns", row.id, [goal |-> row.goal, owner |-> owner(P, row.owner, before)], before, {})
campaign_rows(P) == {i \in DOMAIN P.file.campaigns : P.file.campaigns[i].id \in written(P, "campaigns")}

(* A member names a campaign and somebody; an earlier row for the same pair *)
(* or a member of the CRM's own takes precedence.                           *)
pair(P, row) == <<ref(P, "campaigns", row.campaign), ref(P, "companies", row.company), ref(P, "people", row.person)>>
pair_holders(P, p) ==
  {m \in DOMAIN P.crm.campaign_members :
     LET row == P.crm.campaign_members[m] IN <<row.campaign, row.company, row.person>> = p}
member_fits(P, i) ==
  LET row == P.file.campaign_members[i]  p == pair(P, row) IN
  /\ p[1] # None /\ <<p[2], p[3]>> # <<None, None>>
  /\ \/ row.id \in DOMAIN P.crm.campaign_members
     \/ p[3] \notin DOMAIN P.crm.people \/ ~P.crm.people[p[3]].do_not_contact
  /\ pair_holders(P, p) \subseteq {row.id}
member_rows(P) ==
  LET rows == P.file.campaign_members IN
  claimed({i \in usable(rows) : member_fits(P, i)},
          [i \in DOMAIN rows |-> {<<rows[i].id>>, pair(P, rows[i])}])
member_of(P, i) ==
  LET row == P.file.campaign_members[i]
      before == existing(P, "campaign_members", row.id)
      deal == deal_ref(P, row.deal)
      values == [campaign |-> pair(P, row)[1], company |-> pair(P, row)[2], person |-> pair(P, row)[3], deal |-> deal]
      status == IF deal # None THEN "converted" ELSE IF row.status = "converted" THEN "engaged" ELSE row.status
  IN Write("campaign_members", row.id,
       IF before = None \/ deal # None THEN values @@ [status |-> status] ELSE values, before, {})

(* A task, like a note, is imported with the links that can be made.        *)
target(P, t) == <<t[1], IF t[1] = "opportunities" THEN deal_ref(P, t[2]) ELSE ref(P, t[1], t[2])>>
links_of(P, row) == {target(P, t) : t \in row.targets} \ {<<obj, None>> : obj \in DOMAIN P.crm}
task_of(P, i) ==
  LET row == P.file.tasks[i]  before == existing(P, "tasks", row.id)
      values == [assignee |-> owner(P, row.owner, before)]
  IN Write("tasks", row.id,
       IF before = None THEN values @@ [status |-> row.status] ELSE values, before,
       links_of(P, row) \ (IF before = None THEN {} ELSE before.links))
linked_rows(P) ==
  LET rows == P.file.tasks IN
  claimed({i \in usable(rows) : links_of(P, rows[i]) # {}}, ids(rows))

InOrder(of(_), rows) == LET s == SetToSortSeq(rows, <) IN [k \in DOMAIN s |-> of(s[k])]
company_writes(P) ==
  LET first == SetToSortSeq({row_of(P, t) : t \in written(P, "companies")}, <)
      of(i) == company_of(P, P.file.companies[i].id)
  IN [k \in DOMAIN first |-> of(first[k])] \o SetToSeq(deal_companies(P))
writes_of(P, obj) ==
  LET person(i) == person_of(P, i)  campaign(i) == campaign_of(P, i)  deal(i) == deal_of(P, i)
      member(i) == member_of(P, i)  task(i) == task_of(P, i)
  IN CASE obj = "companies" -> company_writes(P)
       [] obj = "people" -> InOrder(person, rows_of(P, "people"))
       [] obj = "campaigns" -> InOrder(campaign, campaign_rows(P))
       [] obj = "opportunities" -> InOrder(deal, landed(P))
       [] obj = "campaign_members" -> InOrder(member, member_rows(P))
       [] obj = "tasks" -> InOrder(task, linked_rows(P))

(* Everything a real run writes, and why it may not start.                  *)
changed(w) == ~unchanged(w)
plan(P) == SelectSeq(FlattenSeq([n \in DOMAIN OBJECTS |-> writes_of(P, OBJECTS[n])]), changed)
blocking(P, fixup) ==
  \E i \in landed(P) : needs_step(P, P.file.opportunities[i]) /\ ~fixup

-----------------------------------------------------------------------------
(* The workspace: services/crm/importer.py and the transaction it calls.    *)

Blank(obj) ==
  CASE obj = "companies" -> [account |-> None, owner |-> None, lead_stage |-> "new",
                             domains |-> {}, trashed |-> FALSE, merged |-> None]
    [] obj = "people" -> [email |-> None, additional_emails |-> None, company |-> None,
                          owner |-> None, do_not_contact |-> FALSE]
    [] obj = "campaigns" -> [goal |-> None, owner |-> None]
    [] obj = "opportunities" -> [company |-> None, contact |-> None, owner |-> None, source |-> None,
                                 next_step |-> None, stage |-> "discovery", trashed |-> FALSE]
    [] obj = "campaign_members" -> [campaign |-> None, company |-> None, person |-> None,
                                    deal |-> None, status |-> "targeted"]
    [] obj = "tasks" -> [assignee |-> None, status |-> "open", links |-> {}]

(* What a record's updated_at stands for: not its domains and links.        *)
Stamped(obj, row) ==
  CASE obj = "companies" -> [row EXCEPT !.domains = {}]
    [] obj = "tasks" -> [row EXCEPT !.links = {}]
    [] OTHER -> row

(* An update is refused when the record changed since the plan; a new row   *)
(* that is there by now is brought up to date, a deal excepted; a domain,   *)
(* an e-mail and a link are unique in the database.                         *)
fits(w) ==
  LET there == w.tid \in DOMAIN crm[w.obj] IN
  /\ w.before # None /\ w.values # <<>> => there /\ Stamped(w.obj, crm[w.obj][w.tid]) = Stamped(w.obj, w.before)
  /\ w.before = None /\ w.obj = "opportunities" => ~there
  /\ w.obj = "companies" => \A c \in DOMAIN crm.companies : crm.companies[c].domains \cap w.links = {}
  /\ w.obj = "tasks" /\ there => crm.tasks[w.tid].links \cap w.links = {}
  /\ w.obj = "people" /\ "email" \in DOMAIN w.values /\ w.values.email # None =>
       \A p \in DOMAIN crm.people \ {w.tid} : crm.people[p].email # w.values.email

row_after(w) ==
  LET row == w.values @@ (IF w.tid \in DOMAIN crm[w.obj] THEN crm[w.obj][w.tid] ELSE Blank(w.obj)) IN
  CASE w.obj = "companies" -> [row EXCEPT !.domains = @ \cup w.links]
    [] w.obj = "tasks" -> [row EXCEPT !.links = @ \cup w.links]
    [] OTHER -> row

AtRest == [step |-> "idle"]
Writing(r) == run[r].step = "writing"
Disturb(mine) == [r \in Runs |-> IF r # mine /\ Writing(r) THEN [run[r] EXCEPT !.alone = FALSE] ELSE run[r]]
Plan(importer) == [file |-> file, crm |-> crm, importer |-> importer]

(* History: an e-mail the file gives to one person was another's, whom the  *)
(* same plan moves off it.                                                  *)
frees_email(P) ==
  \E i \in rows_of(P, "people") :
    \E h \in email_holder(P, P.file.people[i].email) \ {P.file.people[i].id} :
      \E j \in rows_of(P, "people") :
        P.file.people[j].id = h /\ "email" \in DOMAIN person_of(P, j).values

apply(r, importer, fixup) ==
  /\ ~Writing(r) /\ planned < MaxPlans
  /\ ~blocking(Plan(importer), fixup)
  /\ run' = [run EXCEPT ![r] = [step |-> "writing", queue |-> plan(Plan(importer)),
                                 alone |-> ~frees_email(Plan(importer))]]
  /\ planned' = planned + 1
  /\ UNCHANGED <<file, crm, hand, settled>>

write(r) ==
  /\ Writing(r) /\ run[r].queue # <<>> /\ fits(Head(run[r].queue))
  /\ LET w == Head(run[r].queue) IN
       crm' = [crm EXCEPT ![w.obj] = (w.tid :> row_after(w)) @@ @]
  /\ run' = [Disturb(r) EXCEPT ![r].queue = Tail(@)]
  /\ settled' = FALSE
  /\ UNCHANGED <<file, hand, planned>>

(* A chunk is refused, or the process dies: what was written stays.         *)
failed(r) ==
  /\ Writing(r) /\ run[r].queue # <<>>
  /\ run' = [run EXCEPT ![r] = AtRest]
  /\ UNCHANGED <<file, crm, hand, planned, settled>>

applied(r) ==
  /\ Writing(r) /\ run[r].queue = <<>>
  /\ run' = [run EXCEPT ![r] = AtRest]
  /\ settled' = run[r].alone
  /\ UNCHANGED <<file, crm, hand, planned>>

By_hand(after) ==
  /\ hand < MaxHand /\ hand' = hand + 1
  /\ crm' = after /\ crm' # crm
  /\ run' = Disturb(None) /\ settled' = FALSE
  /\ UNCHANGED <<file, planned>>

(* Its people, deals and domains go to the survivor, which holds open deals *)
(* only at a stage that allows it.                                          *)
merge(keep, gone) ==
  LET Moved(obj) == [x \in DOMAIN crm[obj] |->
        IF crm[obj][x].company = gone THEN [crm[obj][x] EXCEPT !.company = keep] ELSE crm[obj][x]]
      C == crm.companies
      opens == \E d \in DOMAIN crm.opportunities :
        crm.opportunities[d].company \in {keep, gone} /\ ~crm.opportunities[d].trashed /\ crm.opportunities[d].stage \in OPEN
  IN /\ keep # gone
     /\ \A c \in {keep, gone} : ~C[c].trashed /\ C[c].merged = None
     /\ \E stage \in {C[keep].lead_stage, C[gone].lead_stage} :
          /\ opens => stage \in OPENABLE
          /\ By_hand([crm EXCEPT !.people = Moved("people"), !.opportunities = Moved("opportunities"),
               !.companies = [C EXCEPT
                 ![keep].lead_stage = IF opens /\ stage = "qualified" THEN "deal_open" ELSE stage,
                 ![keep].domains = @ \cup C[gone].domains,
                 ![gone].domains = {}, ![gone].merged = keep, ![gone].trashed = TRUE]])

(* What a person may do to a record meanwhile: <<object, id, column, value>>. *)
edit(change) ==
  /\ change[2] \in DOMAIN crm[change[1]]
  /\ By_hand([crm EXCEPT ![change[1]] =
       [@ EXCEPT ![change[2]] = (change[3] :> change[4]) @@ @]])

ImportNext ==
  \/ \E r \in Runs :
       \/ \E importer \in Importers, fixup \in BOOLEAN : apply(r, importer, fixup)
       \/ write(r) \/ failed(r) \/ applied(r)
  \/ \E keep, gone \in DOMAIN crm.companies : merge(keep, gone)
  \/ \E change \in HandChanges : edit(change)

ImportInit ==
  /\ run = [r \in Runs |-> AtRest] /\ hand = 0 /\ planned = 0 /\ settled = FALSE

-----------------------------------------------------------------------------
(* "A second run of the same file finds every row unchanged": once a run is *)
(* over and nobody wrote since its plan, a further plan of the file by any  *)
(* admin writes nothing; and an open deal's company is at Deal open, unless *)
(* the file or its account type makes it a partner.  Two exceptions to the  *)
(* first: a campaign given twice, whose rows are both written, and an       *)
(* e-mail the run itself freed.  Two to the second: companies merged into   *)
(* the company, whose deals in the file are not counted as its own, and     *)
(* deals of companies the run does not touch.                               *)
given_twice == \E i, j \in DOMAIN file.campaigns : i < j /\ file.campaigns[i].id = file.campaigns[j].id
SecondRunIdle ==
  settled /\ ~given_twice => \A importer \in Importers : plan(Plan(importer)) = <<>>
took_in(c) == \E t \in DOMAIN crm.companies : crm.companies[t].merged = c
StagesFollowDeals ==
  settled => \A d \in deals_written(Plan(CHOOSE a \in Importers : TRUE)) :
    LET deal == crm.opportunities[d]  c == crm.companies[deal.company] IN
    deal.stage \in OPEN /\ ~took_in(deal.company) => c.lead_stage \in {"deal_open", "partner"}
ImportSettles == SecondRunIdle /\ StagesFollowDeals
=============================================================================
