------------------------------- MODULE MCDeals -------------------------------
(* Three machines of the CRM that share nothing, checked in one run, one of   *)
(* them at work in each behaviour: deals with their companies and projects    *)
(* (two companies, two deals, room for a second project, two requests at a    *)
(* time); the import of an export of Twenty; and the import of a CSV.         *)
EXTENDS Deals, Importer, CsvImport
CONSTANTS c1, c2, d1, d2, p1, p2, s1, s2

VARIABLE work
vars == <<work, dealVars, importVars, csvVars>>

-----------------------------------------------------------------------------
Start(stage) == [company |-> c1, stage |-> stage, lost_from |-> None,
                 prob |-> default_probability(stage), task |-> FALSE, trashed |-> FALSE]

Linked(tentative, archived, prob) ==
  [Unlinked(tentative, archived) EXCEPT !.deal = d1, !.prob = prob, !.alloc = "live"]

(* Two deals at Proposal, the first with its project; one deal and a project *)
(* nobody linked; or one won deal whose project was archived when it was over.*)
WonDeal ==
  /\ company_stage = [c \in Companies |-> IF c = c1 THEN "customer" ELSE "qualified"]
  /\ deals = [d \in DealIds |-> IF d = d1 THEN Start("closed_won") ELSE None]
  /\ projects = [p \in Projects |-> IF p = p1 THEN Linked(FALSE, TRUE, 100) ELSE None]
OpenDeals ==
  /\ company_stage = [c \in Companies |-> IF c = c1 THEN "deal_open" ELSE "qualified"]
  /\ \E alone \in BOOLEAN :
       /\ deals = [d \in DealIds |-> IF d = d1 \/ ~alone THEN Start("proposal") ELSE None]
       /\ projects = [p \in Projects |->
            IF p # p1 THEN None
            ELSE IF alone THEN Unlinked(TRUE, FALSE) ELSE Linked(TRUE, FALSE, 50)]

-----------------------------------------------------------------------------
(* Exports of Twenty: two companies of one domain, a person whose company is *)
(* not in the file, a deal without a next step; the same records again with  *)
(* a nameless row, two people of one e-mail, a partner and members without a *)
(* person; and once more with an open deal and one that was lost.            *)
co(id, stage, account, domain, own) ==
  [id |-> id, named |-> TRUE, stage |-> stage, account |-> account, owner |-> own, domain |-> domain]
pe(id, email, c) == [id |-> id, named |-> TRUE, email |-> email, company |-> c, owner |-> None]
de(id, c, stage, step, camp) ==
  [id |-> id, named |-> TRUE, company |-> c, contact |-> "p1", owner |-> "gone", stage |-> stage,
   next_step |-> step, campaign |-> camp]
ca(id, goal) == [id |-> id, named |-> TRUE, goal |-> goal, owner |-> None]
me(id, c, p, d, status) ==
  [id |-> id, named |-> TRUE, campaign |-> "k1", company |-> c, person |-> p, deal |-> d, status |-> status]
Export ==
  [companies |-> <<co("c1", "contacted", None, "x.com", "ann"), co("c2", None, None, "x.com", "gone")>>,
   people |-> <<pe("p1", "a@x", "c1"), pe("p2", "b@x", "c9")>>,
   campaigns |-> <<ca("k1", "grow")>>,
   opportunities |-> <<de("d1", "c1", "proposal", None, None)>>,
   campaign_members |-> <<me("m1", "c1", "p1", "d1", "targeted")>>,
   tasks |-> <<[id |-> "t1", named |-> TRUE, owner |-> "ann", status |-> "open",
                targets |-> {<<"companies", "c1">>, <<"people", "p9">>, <<"opportunities", "d1">>}]>>]
Partner ==
  [Export EXCEPT
     !.companies = <<[co("c1", "new", None, None, None) EXCEPT !.named = FALSE],
                     co("c1", "qualified", "channel_partner", "x.com", None)>>,
     !.campaigns = <<ca("k1", "grow"), ca("k1", "hold")>>,
     !.people = <<pe("p1", "a@x", "c1"), pe("p2", "a@x", "c1")>>,
     !.opportunities = <<de("d1", "c1", "closed_won", None, None)>>,
     !.campaign_members = <<me("m1", "c1", None, None, "converted"), me("m2", "c1", None, None, "targeted")>>]
Later ==
  [Partner EXCEPT
     !.campaigns = <<ca("k1", "hold")>>,
     !.opportunities = <<de("d1", "c1", "discovery", "call", None), de("d2", "c2", "closed_lost", None, "k1")>>]
EmptyCrm == [obj \in {OBJECTS[i] : i \in DOMAIN OBJECTS} |-> <<>>]
FilledCrm ==
  [EmptyCrm EXCEPT
     !.companies = ("c1" :> [Blank("companies") EXCEPT !.lead_stage = "qualified", !.domains = {"x.com"}])
                   @@ ("h" :> [Blank("companies") EXCEPT !.lead_stage = "qualified"]),
     !.people = ("p1" :> [Blank("people") EXCEPT !.email = "b@x"])
                @@ ("p2" :> [Blank("people") EXCEPT !.do_not_contact = TRUE, !.email = "c@x"]),
     !.opportunities = ("d1" :> [Blank("opportunities") EXCEPT !.company = "c1", !.stage = "closed_won"])]
MCHand ==
  {<<"opportunities", "d1", "stage", "closed_won">>, <<"companies", "c1", "account", "channel_partner">>,
   <<"companies", "c1", "lead_stage", "disqualified">>, <<"people", "p1", "email", None>>,
   <<"opportunities", "d1", "trashed", TRUE>>}
Exports == file \in {Export, Partner, Later} /\ crm \in {EmptyCrm, FilledCrm}
NoExport == file = Export /\ crm = EmptyCrm

-----------------------------------------------------------------------------
(* CSV files: companies whose rows name a domain held, listed second, in the *)
(* Trash or free, by ID or not; deals new and old on companies that may, and *)
(* may not, have one.                                                        *)
company(domain, more, stage, trashed) ==
  [domain |-> domain, more |-> more, lead_stage |-> stage, owner |-> "ann", trashed |-> trashed]
deal(trashed) == [company |-> 1, stage |-> "discovery", next_step |-> "call", owner |-> "ann", trashed |-> trashed]
company_row(id, domain, more, own, choice) ==
  [id |-> id, domain |-> domain, more |-> more, owner |-> own, choice |-> choice, readable |-> TRUE]
deal_row(id, c, step) ==
  [id |-> id, domain |-> None, more |-> {}, company |-> c, next_step |-> step, owner |-> "bob",
   choice |-> None, readable |-> TRUE]
CompanySheets ==
  /\ stored = [company |-> (1 :> company("x", {"y"}, "qualified", FALSE)) @@ (2 :> company("z", {}, "nurturing", TRUE)),
               opportunity |-> <<>>]
  /\ \E mode \in {"skip", "update", "create"}, choice \in {None, "skip"}, domain \in {"x", "y", "z", "w"},
        more \in {{}, {"v"}}, id \in {None, 1} :
       sheet = [kind |-> "company", mode |-> mode,
                rows |-> <<company_row(id, domain, more, "bob", None), company_row(None, "v", {}, None, choice),
                           company_row(None, "u", {}, None, None)>>]
DealSheets ==
  \E trashed \in BOOLEAN :
    /\ stored = [company |-> (1 :> company("x", {"y"}, IF trashed THEN "qualified" ELSE "deal_open", FALSE))
                             @@ (2 :> company("z", {}, "nurturing", FALSE)),
                 opportunity |-> (1 :> deal(trashed))]
    /\ \E c \in {1, 2, None}, id \in {None, 1}, step \in {"write", None} :
         sheet = [kind |-> "opportunity", mode |-> "update", rows |-> <<deal_row(id, c, step), deal_row(None, 1, "call")>>]
NoSheet ==
  /\ stored = [company |-> <<>>, opportunity |-> <<>>]
  /\ sheet = [kind |-> "company", mode |-> "skip", rows |-> <<>>]

-----------------------------------------------------------------------------
MCInit ==
  /\ plans = [s \in Sessions |-> Idle] /\ drifted = {} /\ writes = 0
  /\ ImportInit /\ CsvStart
  /\ \/ work = "deals" /\ (OpenDeals \/ WonDeal) /\ NoExport /\ NoSheet
     \/ work = "export" /\ WonDeal /\ Exports /\ NoSheet
     \/ work = "csv" /\ WonDeal /\ NoExport /\ (CompanySheets \/ DealSheets)
  /\ DealInit

MCNext ==
  \/ work = "deals" /\ DealNext /\ UNCHANGED <<work, importVars, csvVars>>
  \/ work = "export" /\ ImportNext /\ UNCHANGED <<work, dealVars, csvVars>>
  \/ work = "csv" /\ CsvNext /\ UNCHANGED <<work, dealVars, importVars>>

MCSpec == MCInit /\ [][MCNext]_vars
Symmetry == Permutations(Sessions)
=============================================================================
