------------------------------ MODULE ReviewQueue ------------------------------
(***************************************************************************)
(* The Review Queue of a CRM workspace: what a job suggests from one       *)
(* source (a conversation, a meeting, an enrichment), and people approve,  *)
(* dismiss or leave to expire.  An approval is a claim, the change by the  *)
(* manual path and a release, each its own transaction.  Between any two   *)
(* of them the job may refresh or renew the suggestion, a person may edit  *)
(* the record, a process may be killed, and the database may do a thing    *)
(* whose answer is lost.  The suggestions of the source are of one kind:   *)
(* they set a field of a record ("field"), or they make the company of a   *)
(* new lead found in one conversation, whose domain is webmail ("lead").   *)
(***************************************************************************)
EXTENDS Integers, Sequences, FiniteSets

CONSTANTS
  Approvals,     \* approvals that may be in flight at once
  MaxVersion,    \* bound: the versions of the source
  MaxItems,      \* bound: the items made
  MaxMishaps     \* bound: edits by hand, processes killed, calls that fail and answers lost

ASSUME ReviewAssumption == {MaxVersion, MaxItems, MaxMishaps} \subseteq Nat

VARIABLES
  kind,       \* "field" or "lead"
  source,     \* the version the source is at
  job,        \* the job that makes suggestions
  items,      \* crm_review_items of the source's dedupe key, in creation order
  record,     \* the value of the field
  companies,  \* the companies the lead's approvals made
  approvals,  \* the approvals in flight
  mishaps,    \* how many there were, for the bound
  cut_off,    \* history: items whose approval ended between claim and release
  unheard     \* history: items that may have a company they, or an approval, do not know of

reviewVars == <<kind, source, job, items, record, companies, approvals, mishaps,
                cut_off, unheard>>

Ready == [step |-> "idle"]
NoCompany == 0
Open(i) == items[i].status = "open"
captured == kind = "lead"

(* crm_capture: the workspace's lock, held by a transaction that stores a   *)
(* lead's conversation or gives a lead back.                                *)
capture_lock_held ==
  captured /\ (job.step = "store" \/ \E a \in Approvals : approvals[a].step = "reopen")

-----------------------------------------------------------------------------
(* The job: it builds an item from the source and the record, and stores it *)
(* in one transaction (crm_review_upsert, or crm_capture_group_upsert for a *)
(* lead), whose test for a decided item and insert are two statements.      *)

build ==
  /\ job.step = "idle"
  /\ job' = [step |-> "look", version |-> source, recorded |-> record, overtaken |-> FALSE]
  /\ UNCHANGED <<kind, source, items, record, companies, approvals, mishaps,
                 cut_off, unheard>>

(* A lead that a refused approval expired is no decision. *)
Decides(i) == ~Open(i) /\ ~(captured /\ items[i].status = "expired" /\ items[i].refusal)

(* Mutant: only a dismissal keeps a suggestion from being made again. *)
decided_by_dismissal(version) ==
  \E i \in DOMAIN items : items[i].status = "dismissed" /\ items[i].version = version

decided(version) == \E i \in DOMAIN items : Decides(i) /\ items[i].version = version

upsert_look ==
  /\ job.step = "look"
  /\ ~capture_lock_held
  /\ job' = IF decided(job.version) THEN Ready ELSE [job EXCEPT !.step = "store"]
  /\ UNCHANGED <<kind, source, items, record, companies, approvals, mishaps,
                 cut_off, unheard>>

(* Mutant: a refresh that changes what an item shows keeps its revision. *)
refreshed_silently(item, version, recorded) ==
  [item EXCEPT !.version = version, !.recorded = recorded]

refreshed(item, version, recorded) ==
  [item EXCEPT !.version = version, !.recorded = recorded,
               !.revision = @ + IF version # item.version \/ recorded # item.recorded THEN 1 ELSE 0]

Made(version, recorded) ==
  [status |-> "open", revision |-> 1, version |-> version, recorded |-> recorded,
   refusal |-> FALSE, company |-> NoCompany, result |-> FALSE]

crm_review_upsert ==
  /\ job.step = "store"
  /\ job' = Ready
  /\ IF \E i \in DOMAIN items : Open(i)
     THEN items' = [i \in DOMAIN items |->
            IF Open(i) THEN refreshed(items[i], job.version, job.recorded) ELSE items[i]]
     ELSE Len(items) < MaxItems /\ items' = Append(items, Made(job.version, job.recorded))
  /\ UNCHANGED <<kind, source, record, companies, approvals, mishaps, cut_off, unheard>>

(* What a decision means to a job that has looked and not stored yet. *)
Overtaking == job' = IF job.step = "store" THEN [job EXCEPT !.overtaken = TRUE] ELSE job

-----------------------------------------------------------------------------
(* review.approve.  `item` is the row as the approval loaded it, which its  *)
(* revision ties to what the person was shown; `edits` says that the person *)
(* edited the value.                                                        *)

AtWork(i) ==
  \E a \in Approvals : approvals[a].step \notin {"idle", "claim"} /\ approvals[a].i = i

Put(a, approval) == approvals' = [approvals EXCEPT ![a] = approval]
Go(a, step) == approvals' = [approvals EXCEPT ![a].step = step]

Loaded(item) ==
  [revision |-> item.revision, version |-> item.version, recorded |-> item.recorded,
   company |-> item.company]

approve(a, i, edits) ==
  /\ approvals[a] = Ready
  /\ Open(i)
  /\ captured => ~edits
  /\ Put(a, [step |-> "claim", i |-> i, item |-> Loaded(items[i]), edits |-> edits])
  /\ UNCHANGED <<kind, source, job, items, record, companies, mishaps, cut_off, unheard>>

(* Mutant: the claim wins whatever the item was refreshed to. *)
claimable_any(item, seen) == item.status = "open"

claimable(item, seen) == item.status = "open" /\ item.revision = seen.revision

crm_review_claim(a) ==
  LET at == approvals[a] IN
  /\ at.step = "claim"
  /\ IF claimable(items[at.i], at.item)
     THEN /\ items' = [items EXCEPT ![at.i].status = "approved", ![at.i].refusal = FALSE]
          /\ Go(a, "change")
          /\ Overtaking
          /\ unheard' = unheard \cup (IF items[at.i].company # at.item.company THEN {at.i} ELSE {})
     ELSE Put(a, Ready) /\ UNCHANGED <<items, job, unheard>>
  /\ UNCHANGED <<kind, source, record, companies, mishaps, cut_off>>

(* The change of a field: the record is read, compared with what the        *)
(* suggestion recorded (an edit is made against what the person sees now),  *)
(* and written with the updated_at just read, which another write changes:  *)
(* the approval's step "write" becomes "locked out".                        *)
(* Mutant: nothing is compared. *)
never_stale(recorded, value) == FALSE

stale_fields(recorded, value) == recorded # value
LockOut(step) == IF step = "write" THEN "locked out" ELSE step

field_read(a) ==
  LET at == approvals[a] IN
  /\ at.step = "change" /\ ~captured
  /\ IF ~at.edits /\ stale_fields(at.item.recorded, record)
     THEN Go(a, "refused")
     ELSE Go(a, "write")
  /\ UNCHANGED <<kind, source, job, items, record, companies, mishaps, cut_off, unheard>>

(* The manual path's own refusal, or a write whose answer may be lost. *)
Mishap == mishaps < MaxMishaps /\ mishaps' = mishaps + 1
Answered(answer) == IF answer THEN UNCHANGED mishaps ELSE Mishap

field_write(a) ==
  LET at == approvals[a] IN
  /\ \/ /\ at.step \in {"write", "locked out"}
        /\ Go(a, "refused") /\ UNCHANGED <<record, mishaps>>
     \/ /\ at.step = "write"
        /\ record' = at.item.version
        /\ \E answer \in BOOLEAN :
             /\ Answered(answer)
             /\ approvals' = [b \in Approvals |->
                  [approvals[b] EXCEPT !.step =
                     IF b # a THEN LockOut(@) ELSE IF answer THEN "done" ELSE "refused"]]
  /\ UNCHANGED <<kind, source, job, items, companies, cut_off, unheard>>

(* A new lead: the company an earlier approval of the item made, as the     *)
(* loaded row has it, or a new one.                                         *)
(* Mutant: every approval makes its own company. *)
earlier_never(item) == NoCompany

earlier(item) ==
  IF item.company # NoCompany /\ ~companies[item.company].trashed THEN item.company ELSE NoCompany

new_lead(a) ==
  LET at == approvals[a] IN
  /\ at.step = "change" /\ captured
  /\ \/ Go(a, "refused") /\ UNCHANGED <<companies, mishaps, unheard>>
     \/ /\ earlier(at.item) # NoCompany
        /\ Go(a, "people")
        /\ UNCHANGED <<companies, mishaps, unheard>>
     \/ /\ earlier(at.item) = NoCompany
        /\ companies' = Append(companies, [item |-> at.i, trashed |-> FALSE])
        /\ \E answer \in BOOLEAN :
             /\ Answered(answer)
             /\ IF answer
                THEN /\ Put(a, [at EXCEPT !.step = "people",
                                          !.item = [@ EXCEPT !.company = Len(companies) + 1]])
                     /\ UNCHANGED unheard
                ELSE Go(a, "refused") /\ unheard' = unheard \cup {at.i}
  /\ UNCHANGED <<kind, source, job, items, record, cut_off>>

(* Its stage, its people and its filing: refused, the company is kept on    *)
(* the item before it opens again; if the call that keeps it fails, the     *)
(* item opens again without it (approve's handler of any exception).        *)
new_lead_people(a) ==
  /\ approvals[a].step = "people"
  /\ Go(a, "done") \/ Go(a, "keep")
  /\ UNCHANGED <<kind, source, job, items, record, companies, mishaps, cut_off, unheard>>

(* Mutant: the company is forgotten with the refusal. *)
kept_nowhere(item, company) == item

kept(item, company) == [item EXCEPT !.company = company]

new_lead_keep(a) ==
  LET at == approvals[a] IN
  /\ at.step = "keep"
  /\ \/ /\ items' = [items EXCEPT ![at.i] = kept(@, at.item.company)]
        /\ UNCHANGED <<mishaps, unheard>>
     \/ Mishap /\ unheard' = unheard \cup {at.i} /\ UNCHANGED items
  /\ Go(a, "refused")
  /\ UNCHANGED <<kind, source, job, record, companies, cut_off>>

(* crm_review_release with a result. *)
release_done(a) ==
  LET at == approvals[a] IN
  /\ at.step = "done"
  /\ items' = [items EXCEPT ![at.i].result = TRUE, ![at.i].company = at.item.company]
  /\ Put(a, Ready)
  /\ UNCHANGED <<kind, source, job, record, companies, mishaps, cut_off, unheard>>

(* crm_review_release with a refusal: under a lock on the item, and for a   *)
(* lead the capture lock, a newer open item of the key is looked for, and   *)
(* the item expires or opens again.  Without the capture lock the open item *)
(* may come between the two: the unique index then refuses the reopening.   *)
(* Mutant: 061's, which looks for no newer item. *)
superseded_never(i) == FALSE

OthersOpen(i) == {j \in DOMAIN items \ {i} : Open(j)}
superseded(i) == OthersOpen(i) # {}

release_look(a) ==
  LET at == approvals[a] IN
  /\ at.step = "refused"
  /\ ~capture_lock_held
  /\ Put(a, [step |-> IF superseded(at.i) THEN "expire" ELSE "reopen",
             i |-> at.i, found |-> OthersOpen(at.i)])
  /\ UNCHANGED <<kind, source, job, items, record, companies, mishaps, cut_off, unheard>>

release_refused(a) ==
  LET at == approvals[a] IN
  /\ at.step \in {"expire", "reopen"}
  /\ IF at.step = "reopen" /\ OthersOpen(at.i) # {}
     THEN /\ cut_off' = cut_off \cup (IF OthersOpen(at.i) \subseteq at.found THEN {} ELSE {at.i})
          /\ UNCHANGED items
     ELSE /\ items' = [items EXCEPT ![at.i].refusal = TRUE,
                 ![at.i].status = IF at.step = "expire" THEN "expired" ELSE "open"]
          /\ UNCHANGED cut_off
  /\ Put(a, Ready)
  /\ UNCHANGED <<kind, source, job, record, companies, mishaps, unheard>>

(* The process is killed, a transaction under way being rolled back, or the *)
(* claim's answer is lost, or the release fails.                            *)
kill(a) ==
  /\ approvals[a].step \notin {"idle", "claim"}
  /\ Mishap
  /\ Put(a, Ready)
  /\ cut_off' = cut_off \cup {approvals[a].i}
  /\ unheard' = unheard \cup {approvals[a].i}
  /\ UNCHANGED <<kind, source, job, items, record, companies>>

-----------------------------------------------------------------------------
(* Dismissing (a claim of no revision), expiry after 14 days, tombstones of *)
(* what was decided 90 days ago; the source's next version; edits by hand.  *)

Decide(i, status) ==
  /\ Open(i)
  /\ items' = [items EXCEPT ![i].status = status,
                            ![i].refusal = @ /\ status = "expired"]
  /\ Overtaking
  /\ UNCHANGED <<kind, source, record, companies, approvals, mishaps, cut_off, unheard>>

dismiss(i) == Decide(i, "dismissed")
expire(i) == Decide(i, "expired")

tombstoned(item) == [item EXCEPT !.refusal = FALSE]

tombstone(i) ==
  /\ ~Open(i) /\ ~AtWork(i)
  /\ items' = [items EXCEPT ![i] = tombstoned(@)]
  /\ Overtaking
  /\ UNCHANGED <<kind, source, record, companies, approvals, mishaps, cut_off, unheard>>

new_version ==
  /\ source < MaxVersion
  /\ source' = source + 1
  /\ UNCHANGED <<kind, job, items, record, companies, approvals, mishaps, cut_off, unheard>>

edit_by_hand ==
  /\ Mishap
  /\ \/ /\ ~captured
        /\ record' \in {0, 1}
        /\ approvals' = [a \in Approvals |-> [approvals[a] EXCEPT !.step = LockOut(@)]]
        /\ UNCHANGED companies
     \/ /\ \E c \in DOMAIN companies :
             ~companies[c].trashed /\ companies' = [companies EXCEPT ![c].trashed = TRUE]
        /\ UNCHANGED <<record, approvals>>
  /\ UNCHANGED <<kind, source, job, items, cut_off, unheard>>

ReviewStart(suggested, version) ==
  /\ kind = suggested
  /\ source = version /\ job = Ready /\ items = <<>>
  /\ record = 0 /\ companies = <<>>
  /\ approvals = [a \in Approvals |-> Ready]
  /\ mishaps = 0 /\ cut_off = {} /\ unheard = {}

ReviewInit ==
  \E suggested \in {"field", "lead"}, version \in 1..MaxVersion : ReviewStart(suggested, version)

ReviewNext ==
  \/ build \/ upsert_look \/ crm_review_upsert \/ new_version \/ edit_by_hand
  \/ \E i \in DOMAIN items : dismiss(i) \/ expire(i) \/ tombstone(i)
  \/ \E a \in Approvals :
       \/ \E i \in DOMAIN items, edits \in BOOLEAN : approve(a, i, edits)
       \/ crm_review_claim(a) \/ field_read(a) \/ field_write(a)
       \/ new_lead(a) \/ new_lead_people(a) \/ new_lead_keep(a)
       \/ release_done(a) \/ release_look(a) \/ release_refused(a) \/ kill(a)

ReviewSpec == ReviewInit /\ [][ReviewNext]_reviewVars

-----------------------------------------------------------------------------
(* Properties *)

(* What is written in an approval's name is what the queue says was         *)
(* approved, which the person saw, over the very value the suggestion was   *)
(* made from unless the person edited it (FR-CRMAI-REV-04).                 *)
ChangedAsShown ==
  [][\A a \in Approvals :
       approvals[a].step = "write" /\ record' # record /\ approvals'[a].step # "locked out" =>
         LET at == approvals[a] IN
         /\ items[at.i].status = "approved" /\ items[at.i].version = at.item.version
         /\ at.edits \/ record = at.item.recorded]_reviewVars

(* An approved suggestion is carried out or being carried out, unless its   *)
(* approval was killed, or its refusal met a newer suggestion on the way to *)
(* the queue (FR-CRMAI-REV-06).                                             *)
ApprovedIsMade ==
  \A i \in DOMAIN items :
    items[i].status = "approved" /\ ~items[i].result /\ i \notin cut_off => AtWork(i)

(* A decided suggestion is not made again from the same version of its      *)
(* source, unless it was decided while the job was storing it               *)
(* (FR-CRMAI-REV-08).                                                       *)
DecidedStaysDecided ==
  [][Len(items') > Len(items) /\ ~job.overtaken =>
       \A i \in DOMAIN items : Decides(i) => items[i].version # items'[Len(items')].version]_reviewVars

(* However often a lead's approval is refused and tried again, its item has *)
(* one company, unless the item or an approval may not know of one: an      *)
(* approval was killed, the answer of the company's creation was lost, it   *)
(* could not be kept on the item before that opened again, or it was kept   *)
(* there after another approval had loaded the item.                        *)
MadeFor(i) == {c \in DOMAIN companies : companies[c].item = i /\ ~companies[c].trashed}
OneCompanyPerLead == \A i \in DOMAIN items \ unheard : Cardinality(MadeFor(i)) <= 1

(* Both: an approval is carried out, and once.                              *)
ApprovedIsMadeOnce == ApprovedIsMade /\ OneCompanyPerLead
=============================================================================
