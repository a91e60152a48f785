------------------------------ MODULE MailboxSync ------------------------------
(***************************************************************************)
(* The copy the CRM keeps of one mailbox's labelled messages: what Gmail   *)
(* holds, the row crm_mailboxes with its cursor, the messages stored, and  *)
(* the page tasks that bring the two together.  The queue crm_sync has one *)
(* worker with one slot, so there is one page task at a time; every call   *)
(* it makes to Gmail or the database is a step.  A mailbox with capture    *)
(* source "labels only".                                                   *)
(***************************************************************************)
EXTENDS Integers, Sequences, FiniteSets, FiniteSetsExt, SequencesExt, TLC

CONSTANTS
  N,                 \* the messages are 1..N, the newest N
  Labels,            \* the labels of Gmail
  LabelLists,        \* the label lists an admin may give the mailbox
  Found,             \* what Gmail may hold when the mailbox is connected
  MaxEvents,         \* bound: changes of labels in Gmail
  MaxRelabels,       \* bound: changes of the mailbox's labels by an admin
  MaxDeaths          \* bound: page tasks that are killed or end in an error

(* A mailbox has a label (schemas/crm.py).                                 *)
ASSUME MailboxAssumption ==
  /\ N \in Nat /\ {MaxEvents, MaxRelabels, MaxDeaths} \subseteq Nat
  /\ LabelLists \subseteq Seq(Labels) \ {<<>>}
  /\ Found \subseteq [1 .. N -> SUBSET Labels]

Messages == 1 .. N
None == -1

VARIABLES
  carries,           \* Gmail: the labels each message carries
  history,           \* Gmail: what changed, oldest first
  forgotten,         \* Gmail: history up to here is too old to be asked for
  mailbox,           \* the row of crm_mailboxes
  stored,            \* the mailbox's rows of crm_email_messages
  page,              \* the page task
  overlooked,        \* history: a reading was given up, or finished, for other
                     \* labels or from a place nobody remembers
  relabels, deaths

gmailVars == <<carries, history, forgotten>>
mailboxVars == <<carries, history, forgotten, mailbox, stored, page, overlooked,
                 relabels, deaths>>

NoCursor == [phase |-> "none"]
NoPage == [step |-> "idle"]
HistoryCursor(at) == [phase |-> "history", at |-> at]

MailboxStart(active) ==
  /\ carries \in Found
  /\ history = << >> /\ forgotten = 0
  /\ \E labels \in LabelLists :
       mailbox = [labels |-> labels, history_id |-> None, token |-> NoCursor,
                  backfilled |-> FALSE, synced |-> FALSE, active |-> active]
  /\ stored = {} /\ page = NoPage
  /\ overlooked = FALSE /\ relabels = 0 /\ deaths = 0

MailboxInit == MailboxStart(TRUE)

-----------------------------------------------------------------------------
(* Gmail *)

Deleted(m) == \E i \in DOMAIN history : history[i].m = m /\ history[i].kind = "deleted"

Recorded(m, kind, label, left) ==
  /\ Len(history) < MaxEvents /\ ~Deleted(m)
  /\ carries' = [carries EXCEPT ![m] = left]
  /\ history' = Append(history, [m |-> m, kind |-> kind, label |-> label, left |-> left])
  /\ UNCHANGED <<forgotten, mailbox, stored, page, overlooked, relabels, deaths>>

gmail_label(m, l) == l \notin carries[m] /\ Recorded(m, "added", l, carries[m] \cup {l})
gmail_unlabel(m, l) == l \in carries[m] /\ Recorded(m, "removed", l, carries[m] \ {l})
gmail_delete(m) == carries[m] # {} /\ Recorded(m, "deleted", "any", {})

gmail_forgets ==
  /\ forgotten < Len(history)
  /\ forgotten' = Len(history)
  /\ UNCHANGED <<carries, history, mailbox, stored, page, overlooked, relabels, deaths>>

-----------------------------------------------------------------------------
(* The admin *)

BackfillPage == page # NoPage /\ page.step \notin {"history", "gone"} /\ page.cursor.phase = "backfill"

update_mailbox(labels) ==
  /\ relabels < MaxRelabels /\ mailbox.active /\ labels # mailbox.labels
  /\ relabels' = relabels + 1
  /\ mailbox' = [mailbox EXCEPT !.labels = labels, !.history_id = None,
                                !.token = NoCursor, !.backfilled = FALSE]
  /\ overlooked' = (overlooked \/ (~mailbox.synced /\ (stored # {} \/ page # NoPage)))
  /\ UNCHANGED <<gmailVars, stored, page, deaths>>

-----------------------------------------------------------------------------
(* One page *)

ours == Range(page.row.labels)
Leaves == UNCHANGED <<gmailVars, overlooked, relabels, deaths>>

(* The row is read once; everything below works on what was read. *)
BeginAt(row) ==
  IF row.backfilled /\ row.history_id # None THEN "history"
  ELSE IF row.token.phase = "backfill" THEN "list" ELSE "profile"

page_begin ==
  /\ page = NoPage /\ mailbox.active
  /\ page' = [step |-> BeginAt(mailbox), row |-> mailbox, cursor |-> mailbox.token,
              ids |-> {}, found |-> {}, removed |-> {}, seen |-> {}, labelled |-> 1,
              more |-> FALSE, last |-> 0]
  /\ UNCHANGED <<mailbox, stored>> /\ Leaves

Step(from, to) == page.step = from /\ page' = [page EXCEPT !.step = to]

(* Mutant: a re-read only adds. *)
ReconcilesNever(row) == FALSE

(* A re-read also removes; a first reading has nothing to remove. *)
Reconciles(row) == row.synced

profile ==
  /\ page.step = "profile"
  /\ page' = [page EXCEPT !.step = "list",
                          !.cursor = [phase |-> "backfill", label |-> 1, at |-> N + 1,
                                      start |-> Len(history),
                                      reconcile |-> Reconciles(page.row)]]
  /\ UNCHANGED <<mailbox, stored>> /\ Leaves

Listed(l, below) == {m \in Messages : m < below /\ l \in carries[m]}

(* One message a page, newest first; a label read to its end is followed by *)
(* the next.                                                                *)
list_messages ==
  LET c == page.cursor
      listed == IF c.label <= Len(page.row.labels)
                THEN Listed(page.row.labels[c.label], c.at) ELSE {}
      onward == IF Cardinality(listed) > 1 THEN [c EXCEPT !.at = Max(listed)]
                ELSE IF c.label <= Len(page.row.labels)
                THEN [c EXCEPT !.label = @ + 1, !.at = N + 1] ELSE c
  IN /\ page.step = "list"
     /\ page' = [page EXCEPT !.step = "fetch", !.cursor = onward,
                             !.ids = IF listed = {} THEN {} ELSE {Max(listed)}]
     /\ UNCHANGED <<mailbox, stored>> /\ Leaves

(* _take: what is stored already is passed over, and what no longer carries *)
(* a label of ours by now.                                                  *)
take_fetch ==
  /\ page.step = "fetch"
  /\ page' = [page EXCEPT !.step = "store",
                          !.found = {m \in page.ids \ stored : carries[m] \cap ours # {}}]
  /\ UNCHANGED <<mailbox, stored>> /\ Leaves

ReadToEnd == page.cursor.label > Len(page.row.labels)

store_emails ==
  /\ page.step = "store"
  /\ stored' = stored \cup page.found
  /\ page' = [page EXCEPT !.step =
       IF page.cursor.phase = "history" THEN "drop"
       ELSE IF ReadToEnd /\ page.cursor.reconcile THEN "relist" ELSE "progress"]
  /\ UNCHANGED mailbox /\ Leaves

(* _reconcile: label by label, and then what is stored and was not seen goes. *)
relist ==
  /\ page.step = "relist"
  /\ page' = [page EXCEPT
       !.seen = @ \cup Listed(page.row.labels[page.labelled], N + 1),
       !.labelled = @ + 1,
       !.step = IF page.labelled = Len(page.row.labels) THEN "unlist" ELSE "relist"]
  /\ UNCHANGED <<mailbox, stored>> /\ Leaves

unlist ==
  /\ Step("unlist", "progress")
  /\ stored' = stored \cap page.seen
  /\ UNCHANGED mailbox /\ Leaves

(* Mutant: from the end of the reading, not from its beginning. *)
ResumeAtEnd(cursor) == Len(history)

(* Where history is taken up once a reading is complete. *)
ResumeAt(cursor) == cursor.start

backfill_progress ==
  /\ page.step = "progress" /\ page.cursor.phase = "backfill"
  /\ mailbox' = IF ReadToEnd
                THEN [mailbox EXCEPT !.history_id = ResumeAt(page.cursor), !.token = NoCursor,
                                     !.backfilled = TRUE, !.synced = TRUE]
                ELSE [mailbox EXCEPT !.token = page.cursor]
  /\ overlooked' = (overlooked \/ mailbox.labels # page.row.labels)
  /\ page' = NoPage
  /\ UNCHANGED <<gmailVars, stored, relabels, deaths>>

(* changed_messages, of a page of one record *)
AddedBy(record) == record.kind = "added" /\ record.label \in ours
RemovedBy(record) ==
  \/ record.kind = "deleted"
  \/ record.kind = "removed" /\ record.label \in ours /\ ours \cap record.left = {}

gmail_history ==
  LET from == IF page.cursor.phase = "history" THEN page.cursor.at ELSE page.row.history_id
      records == {i \in DOMAIN history : i = from + 1}
  IN /\ page.step = "history"
     /\ page' = IF page.row.history_id < forgotten THEN [page EXCEPT !.step = "gone"]
                ELSE [page EXCEPT
                       !.step = "fetch", !.cursor = HistoryCursor(from + Cardinality(records)),
                       !.ids = {history[i].m : i \in {j \in records : AddedBy(history[j])}},
                       !.removed = {history[i].m : i \in {j \in records : RemovedBy(history[j])}},
                       !.more = from + 1 < Len(history), !.last = Len(history)]
     /\ UNCHANGED <<mailbox, stored>> /\ Leaves

(* Mutant: a history too old for Gmail is given up without forgetting it. *)
AfterGoneNothing(row) == row

AfterGone(row) ==
  [row EXCEPT !.history_id = None, !.token = NoCursor, !.backfilled = FALSE]

history_gone ==
  /\ page.step = "gone"
  /\ mailbox' = AfterGone(mailbox)
  /\ page' = NoPage
  /\ UNCHANGED stored /\ Leaves

drop ==
  /\ Step("drop", "progress")
  /\ stored' = stored \ page.removed
  /\ UNCHANGED mailbox /\ Leaves

history_progress ==
  /\ page.step = "progress" /\ page.cursor.phase = "history"
  /\ mailbox' = IF page.more THEN [mailbox EXCEPT !.token = page.cursor]
                ELSE [mailbox EXCEPT !.history_id = page.last, !.token = NoCursor,
                                     !.synced = TRUE]
  /\ page' = NoPage
  /\ UNCHANGED stored /\ Leaves

(* A first reading keeps messages before it has saved where it began. *)
UnsavedStart == ~mailbox.synced /\ mailbox.token = NoCursor /\ stored # {}

(* Killed at its time limit or with the worker, or an error from Gmail or  *)
(* the database: nothing is undone, and the cursor stays where it was.     *)
page_cut_short ==
  /\ page # NoPage /\ deaths < MaxDeaths
  /\ deaths' = deaths + 1
  /\ page' = NoPage
  /\ overlooked' = (overlooked \/ UnsavedStart)
  /\ UNCHANGED <<gmailVars, mailbox, stored, relabels>>

-----------------------------------------------------------------------------
sync_page ==
  \/ page_begin \/ profile \/ list_messages \/ take_fetch \/ store_emails
  \/ relist \/ unlist \/ backfill_progress
  \/ gmail_history \/ history_gone \/ drop \/ history_progress

MailboxNext ==
  \/ \E m \in Messages, l \in Labels : gmail_label(m, l) \/ gmail_unlabel(m, l)
  \/ \E m \in Messages : gmail_delete(m)
  \/ gmail_forgets
  \/ \E labels \in LabelLists : update_mailbox(labels)
  \/ sync_page
  \/ page_cut_short

(* A tick every 15 minutes starts a page, a page that is not the last       *)
(* enqueues the next, and their worker serves nothing longer than a page.   *)
MailboxFairness == WF_mailboxVars(sync_page)

MailboxSpec == MailboxInit /\ [][MailboxNext]_mailboxVars /\ MailboxFairness

-----------------------------------------------------------------------------
(* Correctness *)

ReadUpToNow ==
  /\ mailbox.backfilled /\ mailbox.token = NoCursor
  /\ mailbox.history_id = Len(history)

(* FR-CRM-SYNC-07 to -09: once the cursor has caught up with Gmail, exactly  *)
(* the messages that carry a label of the mailbox are stored, wherever pages *)
(* were cut short, whatever changed while they ran, and however often the    *)
(* history was lost.  Three cases are let out, see the README: an admin      *)
(* changes the labels before a first reading is complete, or under a page    *)
(* that reads afresh, or the first page of all is cut short after it stored. *)
Mirrored ==
  ReadUpToNow /\ ~overlooked
    => stored = {m \in Messages : carries[m] \cap Range(mailbox.labels) # {}}

(* FR-CRM-SYNC-04, -09: the cursor catches up once Gmail is left alone, from *)
(* any place a page was cut short at and with any part of the history gone.  *)
CatchesUp == mailbox.active => <>[]ReadUpToNow
=============================================================================
