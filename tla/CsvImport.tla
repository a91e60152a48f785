------------------------------- MODULE CsvImport -------------------------------
(***************************************************************************)
(* Importing a CSV of companies or of deals into the CRM: a dry run reads  *)
(* the file and says what each row would do; the real run, a call of       *)
(* csv_apply, needs a dry run that was not yet run, plans the file again,  *)
(* writes the new records in chunks (row by row where a chunk is refused), *)
(* then the changed ones one by one, and records what it did.  Two calls   *)
(* may overlap, a call may fail or its process die anywhere, and people    *)
(* work in the CRM meanwhile.  People are imported as companies are, their *)
(* primary e-mail in the place of the domain.                              *)
(***************************************************************************)
EXTENDS Pipeline, Sequences, FiniteSets, SequencesExt, TLC

CONSTANTS
  Calls,      \* real runs that may be at work at once
  MaxDryRuns, \* bound: dry runs of the file
  Chunk,      \* how many new rows one transaction may hold
  MaxCalls,   \* bound: calls of csv_apply
  MaxMeanwhile \* bound: changes by other people

ASSUME CsvAssumption == None \notin Calls

VARIABLES
  sheet,      \* the file: kind, mode, and its rows
  stored,     \* companies and deals of the workspace, by kind and id
  dry_runs,   \* crm_import_runs.status, in order
  calls,      \* the calls of csv_apply
  made,       \* history: how many records were made of a row in a run, by <<run, row>>
  overlapped, \* history: runs two calls worked on at once, or whose end was
              \* not recorded
  begun,      \* how many calls were begun
  meanwhile,  \* how often others wrote
  outcome     \* history: the last call that ended undisturbed
csvVars == <<sheet, stored, dry_runs, calls, made, overlapped, begun, meanwhile, outcome>>

-----------------------------------------------------------------------------
(* What the file would do: domain/crm/csv_io.py and plan_csv                *)

row_keys(row) == ({row.domain} \ {None}) \cup row.more
record_keys(rec) == ({rec.domain} \ {None}) \cup rec.more
csv_holders(key) == {id \in DOMAIN stored.company : key \in record_keys(stored.company[id])}

(* Mutant: only a repeated ID is told. *)
repeats_id(rows, n) == \E m \in 1..(n - 1) : rows[n].id # None /\ rows[m].id = rows[n].id

repeats(rows, n) ==
  \E m \in 1..(n - 1) :
    \/ rows[n].id # None /\ rows[m].id = rows[n].id
    \/ row_keys(rows[n]) \cap row_keys(rows[m]) # {}

(* The record a row matches: by its ID, else a company by its domain.       *)
csv_match(kind, row) ==
  IF row.id # None THEN {row.id} \cap DOMAIN stored[kind]
  ELSE IF kind = "company" /\ row.domain # None THEN csv_holders(row.domain)
  ELSE {}
live_match(kind, row) == {id \in csv_match(kind, row) : ~stored[kind][id].trashed}

action_for(row, matched) ==
  IF row.choice # None THEN row.choice ELSE IF matched THEN sheet.mode ELSE "create"
action_refused(row, matched) ==
  LET action == action_for(row, matched) IN
  \/ ~matched /\ row.choice = "update"
  \/ matched /\ action = "create" /\ row.id = None

(* The cells that differ from what the record holds.                        *)
csv_changes(kind, row, rec) ==
  [k \in {k \in {"owner"} \cup (IF kind = "company" THEN {"domain"} ELSE {"company", "next_step"}) :
            row[k] # None /\ row[k] # rec[k]}
         \cup (IF kind = "company" /\ row.more \notin {{}, rec.more} THEN {"more"} ELSE {}) |-> row[k]]

(* Opening a deal needs a live company at a stage for it, and a next step.  *)
deal_refused(row, fixup) ==
  \/ row.company \notin DOMAIN stored.company
  \/ stored.company[row.company].trashed
  \/ stored.company[row.company].lead_stage \notin OPENABLE
  \/ row.next_step = None /\ ~fixup
asked_keys(changes) ==
  (IF "domain" \in DOMAIN changes THEN {changes.domain} ELSE {})
    \cup (IF "more" \in DOMAIN changes THEN changes.more ELSE {})
clash(keys, mine) == \E key \in keys : csv_holders(key) \ mine # {}

csv_new(row, importer) ==
  [owner |-> IF row.owner = None THEN importer ELSE row.owner, trashed |-> FALSE] @@
  (IF sheet.kind = "company"
   THEN [domain |-> row.domain, more |-> row.more, lead_stage |-> "new"]
   ELSE [company |-> row.company, stage |-> "discovery",
         next_step |-> IF row.next_step = None THEN "review after import" ELSE row.next_step])

Row(action, n, match, values, refused) ==
  [action |-> action, n |-> n, match |-> match, values |-> values, refused |-> refused]
plan_row(n, importer, fixup) ==
  LET rows == sheet.rows  row == rows[n]  kind == sheet.kind
      live == live_match(kind, row)  matched == live # {}
      action == action_for(row, matched)
      early == \/ ~row.readable \/ repeats(rows, n)
               \/ csv_match(kind, row) # live \/ (row.id # None /\ ~matched)
               \/ action_refused(row, matched)
      changes == csv_changes(kind, row, stored[kind][CHOOSE id \in live : TRUE])
  IN IF action = "skip" THEN Row("skip", n, live, <<>>, FALSE)
     ELSE IF early THEN Row(action, n, live, <<>>, TRUE)
     ELSE IF action = "update"
     THEN Row("update", n, live, changes, clash(asked_keys(changes), live))
     ELSE Row("create", n, live, csv_new(row, importer),
              IF kind = "company" THEN clash(row_keys(row), {}) ELSE deal_refused(row, fixup))
plan_csv(importer, fixup) == [n \in DOMAIN sheet.rows |-> plan_row(n, importer, fixup)]

-----------------------------------------------------------------------------
(* The real run: csv_apply and _write_new                                   *)

Resting == [at |-> "rest"]
working(c) == calls[c].at # "rest"
At(c, step) == calls[c].at = step
Goto(c, call) == calls' = [calls EXCEPT ![c] = call]
(* A write of c is a disturbance to every other call at work.               *)
Wrote(c, call) ==
  calls' = [d \in Calls |-> IF d = c THEN call
                            ELSE IF working(d) THEN [calls[d] EXCEPT !.alone = FALSE] ELSE calls[d]]

csv_dry_run ==
  /\ Len(dry_runs) < MaxDryRuns
  /\ dry_runs' = Append(dry_runs, "dry_run")
  /\ UNCHANGED <<sheet, stored, calls, made, overlapped, begun, meanwhile, outcome>>

csv_apply(c, r, fixup) ==
  LET plan == plan_csv("importer", fixup)
      rows == {plan[n] : n \in DOMAIN plan}
      new == {row \in rows : row.action = "create"}
      old == {row \in rows : row.action = "update" /\ row.values # <<>>}
  IN /\ ~working(c) /\ dry_runs[r] = "dry_run"
     /\ begun < MaxCalls /\ begun' = begun + 1
     /\ \A n \in DOMAIN plan : ~plan[n].refused
     /\ Goto(c, [at |-> "moves", run |-> r, new |-> new, old |-> old, chunk |-> {},
                 moves |-> {}, failed |-> {}, alone |-> TRUE])
     /\ overlapped' = overlapped \cup (IF \E d \in Calls \ {c} : working(d) /\ calls[d].run = r THEN {r} ELSE {})
     /\ UNCHANGED <<sheet, stored, dry_runs, made, meanwhile, outcome>>

(* What a call has yet to write, it writes in the order of the file.        *)
first(rows) == CHOOSE row \in rows : \A other \in rows : row.n <= other.n
before(row, rows) == {other \in rows : other.n < row.n}

(* Which companies the new deals move, read before the first chunk.         *)
company_moves(c) ==
  /\ At(c, "moves")
  /\ Goto(c, [calls[c] EXCEPT !.at = "new",
       !.moves = IF sheet.kind = "company" THEN {} ELSE
         {id \in {row.values.company : row \in calls[c].new} :
            stored.company[id].lead_stage # opens_at(stored.company[id].lead_stage)}])
  /\ UNCHANGED <<sheet, stored, dry_runs, made, overlapped, begun, meanwhile, outcome>>

next_id(rows) == Cardinality(DOMAIN rows) + 1
row_fits(all, row) ==
  sheet.kind = "company" =>
    \A id \in DOMAIN all.company : record_keys(all.company[id]) \cap record_keys(row.values) = {}
with_row(all, row, moves) ==
  LET put == [all EXCEPT ![sheet.kind] = (next_id(@) :> row.values) @@ @] IN
  IF sheet.kind = "opportunity" /\ row.values.company \in moves
  THEN [put EXCEPT !.company[row.values.company].lead_stage = "deal_open"] ELSE put
with_rows(all, rows, moves) ==
  FoldLeft(LAMBDA acc, row : IF acc # None /\ row_fits(acc, row) THEN with_row(acc, row, moves) ELSE None,
           all, SetToSortSeq(rows, LAMBDA one, other : one.n < other.n))
times(of) == IF of \in DOMAIN made THEN made[of] ELSE 0
Count(c, rows) ==
  LET now == {<<calls[c].run, row.n>> : row \in rows} IN
  made' = [of \in DOMAIN made \cup now |-> IF of \in now THEN times(of) + 1 ELSE made[of]]

write_chunk(c) ==
  LET rows == {row \in calls[c].new : Cardinality(before(row, calls[c].new)) < Chunk}
      rest == calls[c].new \ rows
      after == with_rows(stored, rows, calls[c].moves)
  IN /\ At(c, "new") /\ rows # {} /\ calls[c].chunk = {}
     /\ IF after # None
        THEN /\ stored' = after /\ Count(c, rows) /\ Wrote(c, [calls[c] EXCEPT !.new = rest])
        ELSE Goto(c, [calls[c] EXCEPT !.new = rest, !.chunk = rows]) /\ UNCHANGED <<stored, made>>
     /\ UNCHANGED <<sheet, dry_runs, overlapped, begun, meanwhile, outcome>>

(* A chunk refused is written again row by row.                             *)
write_one(c) ==
  LET row == first(calls[c].chunk)  rest == [calls[c] EXCEPT !.chunk = @ \ {row}] IN
  /\ At(c, "new") /\ calls[c].chunk # {}
  /\ IF row_fits(stored, row)
     THEN /\ stored' = with_row(stored, row, calls[c].moves) /\ Count(c, {row}) /\ Wrote(c, rest)
     ELSE Goto(c, [rest EXCEPT !.failed = @ \cup {row.n}]) /\ UNCHANGED <<stored, made>>
  /\ UNCHANGED <<sheet, dry_runs, overlapped, begun, meanwhile, outcome>>

(* A changed record goes through the record's own update, which reads it    *)
(* again: a deal moves only to a company it could be opened on, and a       *)
(* company's domains, old and new, are each listed once.                    *)
update_refused(kind, id, changes) ==
  LET rec == stored[kind][id]  after == changes @@ rec IN
  \/ rec.trashed
  \/ kind = "company" /\ (after.domain \in after.more \/ clash(record_keys(after), {id}))
  \/ /\ kind = "opportunity" /\ "company" \in DOMAIN changes
     /\ \/ stored.company[changes.company].trashed
        \/ rec.stage \in OPEN /\ stored.company[changes.company].lead_stage \notin OPENABLE
updated(kind, id, changes) ==
  LET put == [stored EXCEPT ![kind][id] = changes @@ @] IN
  IF kind = "opportunity" /\ "company" \in DOMAIN changes /\ stored[kind][id].stage \in OPEN
  THEN [put EXCEPT !.company[changes.company].lead_stage = opens_at(@)] ELSE put
update_row(c) ==
  LET row == first(calls[c].old)  id == CHOOSE id \in row.match : TRUE
      rest == [calls[c] EXCEPT !.old = @ \ {row}]
  IN /\ At(c, "new") /\ calls[c].new = {} /\ calls[c].chunk = {} /\ calls[c].old # {}
     /\ IF update_refused(sheet.kind, id, row.values)
        THEN Goto(c, [rest EXCEPT !.failed = @ \cup {row.n}]) /\ UNCHANGED stored
        ELSE stored' = updated(sheet.kind, id, row.values) /\ Wrote(c, rest)
     /\ UNCHANGED <<sheet, dry_runs, made, overlapped, begun, meanwhile, outcome>>

Recorded(r, status) == dry_runs' = [dry_runs EXCEPT ![r] = status]
csv_applied(c) ==
  /\ At(c, "new") /\ calls[c].new = {} /\ calls[c].chunk = {} /\ calls[c].old = {}
  /\ Recorded(calls[c].run, "applied")
  /\ outcome' = IF calls[c].alone THEN [failed |-> calls[c].failed, stored |-> stored] ELSE None
  /\ Goto(c, Resting)
  /\ UNCHANGED <<sheet, stored, made, overlapped, begun, meanwhile>>

(* An error other than a refusal ends the call; recording that may fail as  *)
(* well, and a process that dies records nothing.                           *)
csv_fails(c) ==
  /\ working(c)
  /\ \/ Recorded(calls[c].run, "failed") /\ UNCHANGED overlapped
     \/ overlapped' = overlapped \cup {calls[c].run} /\ UNCHANGED dry_runs
  /\ Goto(c, Resting)
  /\ UNCHANGED <<sheet, stored, made, begun, meanwhile, outcome>>

(* Somebody puts a deal, or a company without deals, into the Trash, takes a *)
(* company out of it, or disqualifies one that no deal holds.               *)
deals_at(id) == {d \in DOMAIN stored.opportunity :
  stored.opportunity[d].company = id /\ ~stored.opportunity[d].trashed}
others_write ==
  /\ meanwhile < MaxMeanwhile /\ meanwhile' = meanwhile + 1
  /\ \/ \E d \in DOMAIN stored.opportunity :
          ~stored.opportunity[d].trashed /\ stored' = [stored EXCEPT !.opportunity[d].trashed = TRUE]
     \/ \E id \in DOMAIN stored.company : deals_at(id) = {} /\
          \/ stored' = [stored EXCEPT !.company[id].trashed = ~@]
          \/ stored.company[id].lead_stage = "qualified" /\
             stored' = [stored EXCEPT !.company[id].lead_stage = "disqualified"]
  /\ Wrote(None, None)
  /\ UNCHANGED <<sheet, dry_runs, made, overlapped, begun, outcome>>

CsvNext ==
  \/ csv_dry_run \/ others_write
  \/ \E c \in Calls :
       \/ \E r \in DOMAIN dry_runs, fixup \in BOOLEAN : csv_apply(c, r, fixup)
       \/ company_moves(c) \/ write_chunk(c) \/ write_one(c) \/ update_row(c)
       \/ csv_applied(c) \/ csv_fails(c)

CsvStart ==
  /\ dry_runs = <<>> /\ calls = [c \in Calls |-> Resting]
  /\ made = <<>> /\ overlapped = {} /\ begun = 0 /\ meanwhile = 0 /\ outcome = None

(* A file is a sequence of rows.                                             *)
CsvSpec ==
  CsvStart /\ DOMAIN sheet.rows = 1 .. Len(sheet.rows) /\ [][CsvNext]_csvVars

-----------------------------------------------------------------------------
(* "A run applied, or failed part-way, is not run again": a dry run makes   *)
(* of each of its rows one record at most, unless two calls of it were at   *)
(* work at once or the end of one was never recorded.                       *)
MadeOnce ==
  \A of \in DOMAIN made : made[of] > 1 => of[1] \in overlapped

(* "Duplicate detection before anything is written; every pipeline rule     *)
(* applies": where nobody else writes, what the dry run passes the database *)
(* takes, and each deal made is on a company that deals put or left there.  *)
(* Two kinds of row are refused all the same: a company's main domain       *)
(* becoming one it already lists, and a deal moved to another company.      *)
may_fail(row) ==
  \/ sheet.kind = "opportunity" /\ row.id # None /\ row.company # None
  \/ sheet.kind = "company" /\ \E id \in DOMAIN stored.company : row.domain \in stored.company[id].more
WrittenAsPlanned ==
  outcome # None =>
    /\ \A n \in outcome.failed : may_fail(sheet.rows[n])
    /\ \A id \in DOMAIN outcome.stored.opportunity :
         LET deal == outcome.stored.opportunity[id] IN
         deal.stage \in OPEN /\ ~deal.trashed => outcome.stored.company[deal.company].lead_stage \in ON_DEALS
CsvSettles == MadeOnce /\ WrittenAsPlanned
=============================================================================
