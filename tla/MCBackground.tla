------------------------------ MODULE MCBackground ------------------------------
(* Four machines that share nothing, checked in one run, one of them at work  *)
(* in each behaviour: a voice note, a mailbox, the runs of the e-mail sync,   *)
(* and the books behind the money figures (two people, a project that was won *)
(* and one that may be, two months of six days, weeks of three).              *)
EXTENDS VoiceNotes, MailboxSync, EmailRuns, Books, TLC

VARIABLE work
vars == <<work, voiceVars, mailboxVars, runVars, bookVars>>

MCWorkspaces == <<"w1", "w2">>
MCBoxCounts == ("w1" :> {0, 2}) @@ ("w2" :> {0, 1})
MCLabelLists == {<<"l1">>, <<"l1", "l2">>}
MCFound == {[m \in Messages |-> {"l1"}], [m \in Messages |-> {}]}

VoiceOff ==
  /\ note = NoNote /\ audio = FALSE /\ uploading = "over" /\ old = TRUE
  /\ worker = "idle" /\ sweeper = Asleep
  /\ requests = [r \in Requests |-> NoRequest]
  /\ saved = [c \in Candidates |-> 0] /\ written_late = [c \in Candidates |-> 0]
  /\ dropped = {} /\ cut_off = {} /\ faults = 0
MailboxOff ==
  MailboxStart(FALSE) /\ mailbox.labels = <<"l1">> /\ \A m \in Messages : carries[m] = {}

MCRaises == {[ctc |-> 360, hours |-> 16]}

MCHolidays == {[day |-> 4, place |-> "all"], [day |-> 7, place |-> "north"]}
Book(h, revenue) ==
  [today |-> 6,
   people |-> ("ann" :> [active |-> TRUE, joined |-> 0, left |-> 0, place |-> "north", logs_time |-> TRUE]) @@
             ("bob" :> [active |-> TRUE, joined |-> 2, left |-> 10, place |-> "south", logs_time |-> TRUE]),
   periods |-> {[id |-> "c1", user |-> "ann", annual_ctc |-> 240, hours_per_week |-> 16, from |-> 1, to |-> 0],
                [id |-> "c2", user |-> "bob", annual_ctc |-> 120, hours_per_week |-> 8, from |-> 2, to |-> 5]},
   projects |-> ("p1" :> [tentative |-> FALSE, archived |-> FALSE, revenue |-> revenue, category |-> "client", client |-> TRUE, probability |-> -1]) @@
                ("p2" :> [tentative |-> TRUE, archived |-> FALSE, revenue |-> Whole(50), category |-> "internal", client |-> FALSE, probability |-> 50]),
   phases |-> {[project |-> "p1", phase |-> "build", from |-> 2, to |-> 9, budget |-> 40],
               [project |-> "p2", phase |-> "build", from |-> 5, to |-> 9, budget |-> 0],
               [project |-> "p1", phase |-> "spillover", from |-> 10, to |-> 11, budget |-> 0]},
   milestones |-> {},
   allocations |-> {[user |-> "ann", project |-> "p1", from |-> 2, to |-> 11, percent |-> 80, released |-> FALSE],
                    [user |-> "ann", project |-> "p2", from |-> 7, to |-> 11, percent |-> 60, released |-> FALSE]},
   entries |-> {[user |-> "bob", project |-> "p1", day |-> 2, hours |-> 4, phase |-> "build"],
                [user |-> "ann", project |-> "none", day |-> 2, hours |-> 3, phase |-> "none"]},
   holidays |-> h,
   leave |-> {[user |-> "ann", day |-> 8, halves |-> 1, approved |-> FALSE]},
   signed |-> {}]
(* Bob has left, a third project was lost, and one invoice is out. *)
Later(b) == [b EXCEPT !.people["bob"].active = FALSE, !.periods = {[c EXCEPT !.to = 0] : c \in @},
   !.projects["p2"].archived = TRUE,
   !.milestones = {[project |-> "p1", amount |-> 30, due_on |-> 5, invoiced_on |-> 3, paid_on |-> 0]}]
BooksInit ==
  /\ reader = Nothing
  /\ \/ /\ book = Book(MCHolidays, Whole(60))
        /\ \/ changes = MaxChanges /\ request = [r \in CtcRequests |-> [step |-> "idle"]]
           \/ changes = MaxChanges - 1 /\ request = [r \in CtcRequests |-> [step |-> "none"]]
     \/ /\ book = Later(Book(MCHolidays, Whole(60)))
        /\ changes = 0 /\ request = [r \in CtcRequests |-> [step |-> "none"]]

Empty == [Book({}, ZERO) EXCEPT !.people = <<>>, !.projects = <<>>, !.periods = {}, !.phases = {},
                                !.allocations = {}, !.entries = {}, !.leave = {}]
BooksOff == BooksStart(Empty)

MCInit ==
  \/ work = "voice" /\ VoiceInit /\ MailboxOff /\ RunsInit /\ BooksOff
  \/ work = "mailbox" /\ VoiceOff /\ MailboxInit /\ RunsInit /\ BooksOff
  \/ work = "runs" /\ VoiceOff /\ MailboxOff /\ RunsInit /\ BooksOff
  \/ work = "books" /\ VoiceOff /\ MailboxOff /\ RunsInit /\ BooksInit

MCNext ==
  \/ work = "voice" /\ VoiceNext /\ UNCHANGED <<work, mailboxVars, runVars, bookVars>>
  \/ work = "mailbox" /\ MailboxNext /\ UNCHANGED <<work, voiceVars, runVars, bookVars>>
  \/ work = "runs" /\ RunsNext /\ UNCHANGED <<work, voiceVars, mailboxVars, bookVars>>
  \/ work = "books" /\ BooksNext /\ UNCHANGED <<work, voiceVars, mailboxVars, runVars>>

MCSpec == MCInit /\ [][MCNext]_vars /\ VoiceFairness /\ MailboxFairness
=============================================================================
