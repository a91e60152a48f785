---------------------------- MODULE BackgroundProofs ----------------------------
(***************************************************************************)
(* Two of the machines of MCBackground, for constants of any size.         *)
(*                                                                         *)
(* Voice notes: however the requests about a note, the worker and the      *)
(* sweep overlap, and whoever is killed: a candidate is saved once, one    *)
(* that was refused is given back, and no recording is lost sight of.      *)
(*                                                                         *)
(* The books: however CTC requests overlap, are refused or cut off, a new  *)
(* CTC prices the days from its start on and none before it.               *)
(***************************************************************************)
EXTENDS VoiceNotes, Books, TLAPS

(* Voice notes *)

Status == {"none", "uploaded", "transcribing", "transcribed", "failed", "done"}
CandidateSets == {NoCandidates} \cup [Candidates -> [text : BOOLEAN, handled : BOOLEAN]]

NoteRow == [status : Status, path : BOOLEAN, transcript : BOOLEAN, candidates : CandidateSets]

VoiceTypeOK ==
  /\ note \in NoteRow
  /\ audio \in BOOLEAN /\ old \in BOOLEAN
  /\ uploading \in {"insert", "put", "enqueue", "over"}
  /\ worker \in {"idle", "read", "mark", "hear", "heard", "delete", "clear"}
  /\ sweeper \in [step : {"idle", "delete", "update"}, status : Status, path : BOOLEAN,
                  candidates : CandidateSets]
  /\ requests \in [Requests -> {NoRequest} \cup
       [step : {"claim", "save", "release", "finish"}, what : {"confirm", "drop"},
        c : Candidates]]
  /\ saved \in [Candidates -> Nat] /\ written_late \in [Candidates -> Nat]
  /\ dropped \subseteq Candidates /\ cut_off \subseteq Candidates

-----------------------------------------------------------------------------
(* The inductive invariant *)

(* The worker may still write down what it heard. *)
Unheard == uploading # "over" \/ worker \in {"read", "mark", "hear", "heard"}

(* Until then nothing is known of the candidates, and the sweep has read    *)
(* nothing that it would leave as it is.                                    *)
NothingHeard ==
  Unheard =>
    /\ note.candidates = NoCandidates /\ ~note.transcript
    /\ note.status \notin {"transcribed", "done"}
    /\ note.status = "failed" => ~note.path
    /\ sweeper.status \notin {"transcribed", "failed", "done"}
    /\ sweeper.candidates = NoCandidates
    /\ \A r \in Requests : requests[r] = NoRequest
    /\ \A c \in Candidates : saved[c] = 0

(* An upload is over before the sweep sees it. *)
UploadFirst ==
  /\ uploading # "over" => ~old /\ sweeper = Asleep /\ worker = "idle"
  /\ uploading \in {"put", "enqueue"} => note.path
  /\ uploading = "insert" => ~audio
  /\ note.status = "none" => ~note.path /\ ~note.transcript

(* While the note is open every candidate has its words, and a sweep that   *)
(* has read a note that was over does not find it open again.               *)
OpenWithWords ==
  /\ note.status = "transcribed" =>
       note.transcript /\ \A c \in DOMAIN note.candidates : note.candidates[c].text
  /\ sweeper.step # "idle" /\ sweeper.status \notin {"uploaded", "transcribing", "transcribed"} =>
       ~Unheard /\ note.status # "transcribed"

(* A candidate has one owner at most: the note, which may still be claimed, *)
(* or the one request that saves it or gives it back.                       *)
Claimable(c) ==
  c \in DOMAIN note.candidates /\ note.candidates[c].text /\ ~note.candidates[c].handled
Holds(r, c) == requests[r].step \in {"save", "release"} /\ requests[r].c = c

OneOwner ==
  \A c \in Candidates :
    /\ \A r \in Requests : Holds(r, c) =>
         ~Claimable(c) /\ \A q \in Requests : Holds(q, c) => q = r
    /\ Claimable(c) \/ (\E r \in Requests : Holds(r, c)) => saved[c] <= written_late[c]
    /\ saved[c] <= 1 + written_late[c]

(* A candidate that counts as handled without being saved is in the hands of *)
(* a request that will save it or give it back.                              *)
HandledIsHeld ==
  \A c \in DOMAIN note.candidates :
    /\ note.status = "transcribed"
    /\ note.candidates[c].handled /\ saved[c] = 0
    /\ c \notin dropped \cup cut_off
    => \E r \in Requests : Holds(r, c)

(* A recording can be found, and who is about to clear its path has deleted it. *)
RecordingKnown ==
  /\ audio => note.path
  /\ worker = "clear" => ~audio
  /\ sweeper.step = "update" => ~audio
  /\ sweeper.step = "delete" /\ ~sweeper.path => ~audio

VoiceInv ==
  /\ VoiceTypeOK /\ NothingHeard /\ UploadFirst /\ OpenWithWords
  /\ OneOwner /\ HandledIsHeld /\ RecordingKnown

-----------------------------------------------------------------------------
(* What the helpers do to the candidates *)

(* Blanking the words keeps the candidates and what is handled of them.     *)
LEMMA WithoutTextShape ==
  ASSUME NEW cands \in CandidateSets
  PROVE  /\ WithoutText(cands) \in CandidateSets
         /\ DOMAIN WithoutText(cands) = DOMAIN cands
         /\ \A c \in DOMAIN cands : ~WithoutText(cands)[c].text
BY DEF CandidateSets, WithoutText, NoCandidates, NoteRow

(* Marking one candidate changes whether that one is handled, and nothing else. *)
LEMMA MarkedShape ==
  ASSUME VoiceTypeOK, NEW c \in DOMAIN note.candidates, NEW handled \in BOOLEAN
  PROVE  /\ c \in Candidates
         /\ note.candidates \in [Candidates -> [text : BOOLEAN, handled : BOOLEAN]]
         /\ Marked(c, handled) \in NoteRow
         /\ Marked(c, handled).status = note.status
         /\ Marked(c, handled).path = note.path
         /\ Marked(c, handled).transcript = note.transcript
         /\ DOMAIN Marked(c, handled).candidates = DOMAIN note.candidates
         /\ \A x \in DOMAIN note.candidates :
              /\ Marked(c, handled).candidates[x].text = note.candidates[x].text
              /\ Marked(c, handled).candidates[x].handled =
                   IF x = c THEN handled ELSE note.candidates[x].handled
<1>1. note.candidates \in [Candidates -> [text : BOOLEAN, handled : BOOLEAN]] /\ c \in Candidates
  BY DEF VoiceTypeOK, CandidateSets, NoCandidates, NoteRow
<1> DEFINE row == [note.candidates[c] EXCEPT !.handled = handled]
           new == [note.candidates EXCEPT ![c] = row]
<1>2. /\ row \in [text : BOOLEAN, handled : BOOLEAN]
      /\ row.text = note.candidates[c].text /\ row.handled = handled
  BY <1>1
<1>3. /\ new \in [Candidates -> [text : BOOLEAN, handled : BOOLEAN]]
      /\ \A x \in Candidates : new[x] = IF x = c THEN row ELSE note.candidates[x]
  BY <1>1, <1>2
<1>4. Marked(c, handled) = [note EXCEPT !.candidates = new]
  BY DEF Marked, VoiceTypeOK, NoteRow
<1> HIDE DEF new, row
<1> QED BY <1>1, <1>2, <1>3, <1>4 DEF VoiceTypeOK, CandidateSets, NoteRow

(* The note as voice_upload_finish leaves it: untouched, or over and blank. *)
LEMMA FinishShape ==
  ASSUME VoiceTypeOK
  PROVE  \/ voice_upload_finish = note
         \/ /\ note.status = "transcribed"
            /\ voice_upload_finish =
                 [status |-> "done", path |-> note.path, transcript |-> FALSE,
                  candidates |-> WithoutText(note.candidates)]
BY DEF voice_upload_finish, VoiceTypeOK, NoteRow

-----------------------------------------------------------------------------
(* The steps.  The upload, the worker and the sweep touch neither the       *)
(* requests nor what they wrote; and they leave the candidates as they are, *)
(* or without words in a note that is over.                                 *)

LEMMA PeopleUndisturbed ==
  ASSUME VoiceInv, UNCHANGED peopleVars,
         \/ /\ note'.candidates = note.candidates
            /\ note'.status = "transcribed" => note.status = "transcribed"
         \/ /\ note'.status # "transcribed"
            /\ \A c \in DOMAIN note'.candidates : ~note'.candidates[c].text
  PROVE  OneOwner' /\ HandledIsHeld'
BY DEF VoiceInv, OneOwner, HandledIsHeld, Claimable, Holds, peopleVars

LEMMA UploadStep ==
  ASSUME VoiceInv, upload
  PROVE  VoiceInv'
<1>1. /\ UNCHANGED <<old, sweeper, requests, saved, written_late, dropped, cut_off>>
      /\ Unheard /\ ~old /\ sweeper = Asleep /\ worker = "idle"
  BY DEF upload, peopleVars, VoiceInv, UploadFirst, Unheard
<1>2. CASE /\ uploading = "insert" /\ note' = [NoNote EXCEPT !.status = "uploaded", !.path = TRUE]
           /\ uploading' = "put" /\ UNCHANGED <<audio, worker>>
  <2>1. note' = [status |-> "uploaded", path |-> TRUE, transcript |-> FALSE,
                 candidates |-> NoCandidates]
    BY <1>2 DEF NoNote
  <2>2. note' \in NoteRow
    BY <2>1 DEF CandidateSets, Status, NoteRow
  <2>3. VoiceTypeOK'
    BY <1>1, <1>2, <2>2 DEF VoiceInv, VoiceTypeOK, NoteRow
  <2>4. OneOwner' /\ HandledIsHeld'
    BY <1>1, <2>1
    DEF VoiceInv, NothingHeard, OneOwner, HandledIsHeld, Claimable, Holds, NoCandidates
  <2>5. NothingHeard'
    BY <1>1, <2>1 DEF VoiceInv, NothingHeard, Asleep
  <2>6. UploadFirst' /\ OpenWithWords' /\ RecordingKnown'
    BY <1>1, <1>2, <2>1 DEF VoiceInv, UploadFirst, OpenWithWords, RecordingKnown, Asleep
  <2> QED BY <2>3, <2>4, <2>5, <2>6 DEF VoiceInv
<1>3. CASE /\ uploading \in {"put", "enqueue"} /\ UNCHANGED note
           /\ \/ uploading = "put" /\ audio' = TRUE /\ uploading' = "enqueue" /\ UNCHANGED worker
              \/ uploading = "enqueue" /\ worker' = "read" /\ uploading' = "over" /\ UNCHANGED audio
  <2>1. OneOwner' /\ HandledIsHeld'
    BY <1>1, <1>3, PeopleUndisturbed DEF peopleVars
  <2> QED
    BY <1>1, <1>3, <2>1
    DEF VoiceInv, VoiceTypeOK, NothingHeard, UploadFirst, OpenWithWords, RecordingKnown,
        Unheard, Asleep, NoteRow
<1> QED BY <1>2, <1>3 DEF upload

LEMMA UploadEnds ==
  ASSUME VoiceInv, upload_fails \/ grow_old
  PROVE  VoiceInv'
<1>1. VoiceTypeOK'
  BY DEF VoiceInv, VoiceTypeOK, upload_fails, grow_old, peopleVars
<1>2. NothingHeard'
  BY DEF VoiceInv, VoiceTypeOK, NothingHeard, UploadFirst, Unheard, upload_fails, grow_old,
         peopleVars
<1>3. UploadFirst'
  BY DEF VoiceInv, VoiceTypeOK, NothingHeard, UploadFirst, Unheard, upload_fails, grow_old,
         peopleVars
<1>4. OpenWithWords'
  BY DEF VoiceInv, VoiceTypeOK, NothingHeard, UploadFirst, OpenWithWords, Unheard,
         upload_fails, grow_old, peopleVars
<1>5. RecordingKnown'
  BY DEF VoiceInv, VoiceTypeOK, UploadFirst, RecordingKnown, upload_fails, grow_old,
         peopleVars
<1>6. OneOwner' /\ HandledIsHeld'
  BY PeopleUndisturbed DEF VoiceInv, VoiceTypeOK, upload_fails, grow_old, peopleVars
<1> QED BY <1>1, <1>2, <1>3, <1>4, <1>5, <1>6 DEF VoiceInv

LEMMA ReadStep ==
  ASSUME VoiceInv, transcribe_read
  PROVE  VoiceInv'
<1>1. VoiceTypeOK'
  BY DEF VoiceInv, VoiceTypeOK, transcribe_read, Worker, WorkerLeaves, peopleVars, NoteRow
<1>2. NothingHeard'
  BY DEF VoiceInv, VoiceTypeOK, NothingHeard, UploadFirst, Unheard, transcribe_read, Worker,
         WorkerLeaves, peopleVars, NoteRow
<1>3. UploadFirst'
  BY DEF VoiceInv, VoiceTypeOK, NothingHeard, UploadFirst, Unheard, transcribe_read, Worker,
         WorkerLeaves, peopleVars, NoteRow
<1>4. OpenWithWords'
  BY DEF VoiceInv, VoiceTypeOK, NothingHeard, UploadFirst, OpenWithWords, Unheard,
         transcribe_read, Worker, WorkerLeaves, peopleVars, NoteRow
<1>5. RecordingKnown'
  BY DEF VoiceInv, VoiceTypeOK, UploadFirst, RecordingKnown, transcribe_read, Worker,
         WorkerLeaves, peopleVars, NoteRow
<1>6. OneOwner' /\ HandledIsHeld'
  BY PeopleUndisturbed
  DEF VoiceInv, VoiceTypeOK, transcribe_read, Worker, WorkerLeaves, peopleVars, NoteRow
<1> QED BY <1>1, <1>2, <1>3, <1>4, <1>5, <1>6 DEF VoiceInv

LEMMA MarkStep ==
  ASSUME VoiceInv, transcribe_mark
  PROVE  VoiceInv'
<1>1. VoiceTypeOK'
  BY DEF VoiceInv, VoiceTypeOK, transcribe_mark, Status, Worker, WorkerLeaves, peopleVars,
         NoteRow
<1>2. NothingHeard'
  BY DEF VoiceInv, VoiceTypeOK, NothingHeard, UploadFirst, Unheard, transcribe_mark, Status,
         Worker, WorkerLeaves, peopleVars, NoteRow
<1>3. UploadFirst'
  BY DEF VoiceInv, VoiceTypeOK, NothingHeard, UploadFirst, Unheard, transcribe_mark, Status,
         Worker, WorkerLeaves, peopleVars, NoteRow
<1>4. OpenWithWords'
  BY DEF VoiceInv, VoiceTypeOK, NothingHeard, UploadFirst, OpenWithWords, Unheard,
         transcribe_mark, Status, Worker, WorkerLeaves, peopleVars, NoteRow
<1>5. RecordingKnown'
  BY DEF VoiceInv, VoiceTypeOK, UploadFirst, RecordingKnown, transcribe_mark, Status,
         Worker, WorkerLeaves, peopleVars, NoteRow
<1>6. OneOwner' /\ HandledIsHeld'
  BY PeopleUndisturbed
  DEF VoiceInv, VoiceTypeOK, transcribe_mark, Status, Worker, WorkerLeaves, peopleVars,
      NoteRow
<1> QED BY <1>1, <1>2, <1>3, <1>4, <1>5, <1>6 DEF VoiceInv

LEMMA EndStep ==
  ASSUME VoiceInv, transcribe_end
  PROVE  VoiceInv'
<1>1. VoiceTypeOK'
  BY DEF VoiceInv, VoiceTypeOK, transcribe_end, Worker, WorkerLeaves, peopleVars, NoteRow
<1>2. NothingHeard'
  BY DEF VoiceInv, VoiceTypeOK, NothingHeard, UploadFirst, Unheard, transcribe_end, Worker,
         WorkerLeaves, peopleVars, NoteRow
<1>3. UploadFirst'
  BY DEF VoiceInv, VoiceTypeOK, NothingHeard, UploadFirst, Unheard, transcribe_end, Worker,
         WorkerLeaves, peopleVars, NoteRow
<1>4. OpenWithWords'
  BY DEF VoiceInv, VoiceTypeOK, NothingHeard, UploadFirst, OpenWithWords, Unheard,
         transcribe_end, Worker, WorkerLeaves, peopleVars, NoteRow
<1>5. RecordingKnown'
  BY DEF VoiceInv, VoiceTypeOK, UploadFirst, RecordingKnown, transcribe_end, Worker,
         WorkerLeaves, peopleVars, NoteRow
<1>6. OneOwner' /\ HandledIsHeld'
  BY PeopleUndisturbed
  DEF VoiceInv, VoiceTypeOK, transcribe_end, Worker, WorkerLeaves, peopleVars, NoteRow
<1> QED BY <1>1, <1>2, <1>3, <1>4, <1>5, <1>6 DEF VoiceInv

LEMMA DiesStep ==
  ASSUME VoiceInv, transcribe_dies
  PROVE  VoiceInv'
<1>1. VoiceTypeOK'
  BY DEF VoiceInv, VoiceTypeOK, transcribe_dies, Worker, WorkerLeaves, peopleVars, NoteRow
<1>2. NothingHeard'
  BY DEF VoiceInv, VoiceTypeOK, NothingHeard, UploadFirst, Unheard, transcribe_dies, Worker,
         WorkerLeaves, peopleVars, NoteRow
<1>3. UploadFirst'
  BY DEF VoiceInv, VoiceTypeOK, NothingHeard, UploadFirst, Unheard, transcribe_dies, Worker,
         WorkerLeaves, peopleVars, NoteRow
<1>4. OpenWithWords'
  BY DEF VoiceInv, VoiceTypeOK, NothingHeard, UploadFirst, OpenWithWords, Unheard,
         transcribe_dies, Worker, WorkerLeaves, peopleVars, NoteRow
<1>5. RecordingKnown'
  BY DEF VoiceInv, VoiceTypeOK, UploadFirst, RecordingKnown, transcribe_dies, Worker,
         WorkerLeaves, peopleVars, NoteRow
<1>6. OneOwner' /\ HandledIsHeld'
  BY PeopleUndisturbed
  DEF VoiceInv, VoiceTypeOK, transcribe_dies, Worker, WorkerLeaves, peopleVars, NoteRow
<1> QED BY <1>1, <1>2, <1>3, <1>4, <1>5, <1>6 DEF VoiceInv

LEMMA WriteStep ==
  ASSUME VoiceInv, transcribe_write
  PROVE  VoiceInv'
<1>1. /\ UNCHANGED <<audio, uploading, old, sweeper>>
      /\ UNCHANGED <<requests, saved, written_late, dropped, cut_off>>
      /\ Unheard /\ uploading = "over" /\ worker \in {"hear", "heard"}
  BY DEF transcribe_write, Worker, WorkerLeaves, peopleVars, Unheard, VoiceInv, UploadFirst
<1>2. CASE UNCHANGED note /\ worker' = "heard"
  BY <1>1, <1>2
  DEF VoiceInv, VoiceTypeOK, NothingHeard, UploadFirst, OpenWithWords, OneOwner,
      HandledIsHeld, RecordingKnown, Unheard, Claimable, Holds, NoteRow
<1>3. CASE note' = [note EXCEPT !.status = "failed"] /\ worker' = "delete"
  <2>1. /\ note'.candidates = note.candidates /\ note'.status = "failed"
        /\ note'.path = note.path /\ note'.transcript = note.transcript
    BY <1>3 DEF VoiceInv, VoiceTypeOK, NoteRow
  <2>2. VoiceTypeOK'
    BY <1>1, <1>3 DEF VoiceInv, VoiceTypeOK, Status, NoteRow
  <2>3. OneOwner' /\ HandledIsHeld'
    BY <1>1, <2>1, PeopleUndisturbed DEF peopleVars
  <2> QED
    BY <1>1, <1>3, <2>1, <2>2, <2>3
    DEF VoiceInv, NothingHeard, UploadFirst, OpenWithWords, RecordingKnown, Unheard
<1>4. CASE /\ note' = [note EXCEPT !.status = "transcribed", !.transcript = TRUE,
                                 !.candidates = Heard]
           /\ worker' = "delete"
  <2>1. /\ note'.candidates = Heard /\ note'.status = "transcribed"
        /\ note'.path = note.path /\ note'.transcript
    BY <1>4 DEF VoiceInv, VoiceTypeOK, NoteRow
  <2>2. /\ Heard \in CandidateSets /\ DOMAIN Heard = Candidates
        /\ \A c \in Candidates : Heard[c].text /\ ~Heard[c].handled
    BY DEF Heard, CandidateSets, NoteRow
  <2>3. VoiceTypeOK'
    BY <1>1, <1>4, <2>2 DEF VoiceInv, VoiceTypeOK, Status, NoteRow
  <2>4. \A r \in Requests, c \in Candidates : ~Holds(r, c)'
    BY <1>1 DEF VoiceInv, NothingHeard, Holds, NoRequest
  <2>5. OneOwner'
    BY <1>1, <2>4 DEF VoiceInv, VoiceTypeOK, NothingHeard, OneOwner, NoteRow
  <2>6. OpenWithWords'
    BY <1>1, <2>1, <2>2
    DEF VoiceInv, VoiceTypeOK, NothingHeard, OpenWithWords, Status, NoteRow
  <2>7. HandledIsHeld'
    BY <2>1, <2>2 DEF HandledIsHeld
  <2> QED
    BY <1>1, <1>4, <2>1, <2>3, <2>5, <2>6, <2>7
    DEF VoiceInv, NothingHeard, UploadFirst, RecordingKnown, Unheard
<1> QED BY <1>2, <1>3, <1>4 DEF transcribe_write, Worker

LEMMA SweepStep ==
  ASSUME VoiceInv, sweep \/ sweep_dies
  PROVE  VoiceInv'
<1>1. UNCHANGED <<uploading, old, worker, requests, saved, written_late, dropped, cut_off>>
  BY DEF sweep, sweep_dies, SweepLeaves, peopleVars
<1>2. uploading = "over"
  BY DEF VoiceInv, UploadFirst, sweep, sweep_dies, expired_uploads, Asleep
<1>3. CASE /\ sweeper.step = "idle" /\ expired_uploads
           /\ sweeper' = [step |-> "delete", status |-> note.status, path |-> note.path,
                          candidates |-> note.candidates]
           /\ UNCHANGED <<note, audio>>
  <2>1. OneOwner' /\ HandledIsHeld'
    BY <1>1, <1>3, PeopleUndisturbed DEF peopleVars
  <2> QED
    BY <1>1, <1>2, <1>3, <2>1
    DEF VoiceInv, VoiceTypeOK, NothingHeard, UploadFirst, OpenWithWords, RecordingKnown,
        Unheard, expired_uploads, Status, NoteRow
<1>4. CASE /\ sweeper.step = "delete" /\ audio' = (audio /\ ~sweeper.path)
           /\ sweeper' = [sweeper EXCEPT !.step = "update"] /\ UNCHANGED note
  <2>1. OneOwner' /\ HandledIsHeld'
    BY <1>1, <1>4, PeopleUndisturbed DEF peopleVars
  <2> QED
    BY <1>1, <1>2, <1>4, <2>1
    DEF VoiceInv, VoiceTypeOK, NothingHeard, UploadFirst, OpenWithWords, RecordingKnown,
        Unheard, NoteRow
<1>5. CASE /\ sweeper.step = "update" /\ sweeper' = Asleep /\ UNCHANGED audio
           /\ note' = [path |-> FALSE, transcript |-> FALSE,
                       candidates |-> WithoutText(sweeper.candidates),
                       status |-> CASE sweeper.status \in {"uploaded", "transcribing"} -> "failed"
                                    [] sweeper.status = "transcribed" -> "done"
                                    [] OTHER -> note.status]
  <2>1. /\ WithoutText(sweeper.candidates) \in CandidateSets
        /\ \A c \in DOMAIN WithoutText(sweeper.candidates) :
             ~WithoutText(sweeper.candidates)[c].text
    BY WithoutTextShape DEF VoiceInv, VoiceTypeOK, NoteRow
  <2>2. /\ note'.path = FALSE /\ note'.transcript = FALSE
        /\ note'.candidates = WithoutText(sweeper.candidates)
        /\ note'.status \in Status /\ note'.status # "transcribed"
        /\ sweeper.status \in {"uploaded", "transcribing"} => note'.status = "failed"
    BY <1>5 DEF VoiceInv, VoiceTypeOK, OpenWithWords, Status, NoteRow
  <2>3. OneOwner' /\ HandledIsHeld'
    BY <1>1, <2>1, <2>2, PeopleUndisturbed DEF peopleVars
  <2>4. VoiceTypeOK'
    BY <1>1, <1>5, <2>1, <2>2
    DEF VoiceInv, VoiceTypeOK, Asleep, Status, CandidateSets, NoteRow
  <2>5. NothingHeard'
    BY <1>1, <1>5, <2>2
    DEF VoiceInv, VoiceTypeOK, NothingHeard, Unheard, Asleep, Status, WithoutText,
        NoCandidates, NoteRow
  <2> QED
    BY <1>1, <1>2, <1>5, <2>2, <2>3, <2>4, <2>5
    DEF VoiceInv, VoiceTypeOK, UploadFirst, OpenWithWords, RecordingKnown, Asleep, NoteRow
<1>6. CASE sweep_dies
  <2>1. /\ sweeper' = Asleep /\ UNCHANGED <<note, audio>>
    BY <1>6 DEF sweep_dies
  <2>2. OneOwner' /\ HandledIsHeld'
    BY <1>1, <2>1, PeopleUndisturbed DEF peopleVars
  <2> QED
    BY <1>1, <1>2, <2>1, <2>2
    DEF VoiceInv, VoiceTypeOK, NothingHeard, UploadFirst, OpenWithWords, RecordingKnown,
        Unheard, Asleep, Status, CandidateSets, NoteRow
<1> QED BY <1>3, <1>4, <1>5, <1>6 DEF sweep

-----------------------------------------------------------------------------
(* The requests: one of them moves, and the note changes in one candidate.  *)

LEMMA CandidateStep ==
  ASSUME VoiceInv, NEW r \in Requests, NEW c \in Candidates, NEW what \in {"confirm", "drop"},
         _candidate(r, c, what)
  PROVE  VoiceInv'
<1>1. /\ requests[r] = NoRequest
      /\ requests' = [requests EXCEPT ![r] = [step |-> "claim", what |-> what, c |-> c]]
      /\ c \in DOMAIN note.candidates /\ note.candidates[c].text
      /\ UNCHANGED <<note, saved, written_late, dropped, cut_off>>
      /\ UNCHANGED <<audio, uploading, old, worker, sweeper>>
  BY DEF _candidate, RequestLeaves
<1>2. \A q \in Requests, x \in Candidates : Holds(q, x)' <=> Holds(q, x)
  BY <1>1 DEF VoiceInv, VoiceTypeOK, Holds, NoRequest, NoteRow
<1>3. ~Unheard
  BY <1>1 DEF VoiceInv, NothingHeard, NoCandidates
<1>4. VoiceTypeOK'
  BY <1>1 DEF VoiceInv, VoiceTypeOK, NoteRow
<1>5. OneOwner' /\ HandledIsHeld'
  BY <1>1, <1>2, <1>4
  DEF VoiceInv, VoiceTypeOK, CandidateSets, NoCandidates, OneOwner, HandledIsHeld,
      Claimable, NoteRow
<1> QED
  BY <1>1, <1>3, <1>4, <1>5
  DEF VoiceInv, NothingHeard, UploadFirst, OpenWithWords, RecordingKnown, Unheard

(* While a request is about, the worker has written what it heard. *)
LEMMA Heeded ==
  ASSUME VoiceInv, NEW r \in Requests, requests[r] # NoRequest
  PROVE  /\ ~Unheard
         /\ requests[r].step \in {"claim", "save", "release", "finish"}
         /\ requests[r].what \in {"confirm", "drop"} /\ requests[r].c \in Candidates
BY DEF VoiceInv, VoiceTypeOK, NothingHeard, NoteRow

(* A request step that changes at most whether candidates are handled.      *)
LEMMA NoteKept ==
  ASSUME VoiceInv, ~Unheard, RequestLeaves, VoiceTypeOK',
         \/ note' = note
         \/ /\ note'.status = note.status /\ note'.path = note.path
            /\ note'.transcript = note.transcript
            /\ DOMAIN note'.candidates = DOMAIN note.candidates
            /\ \A x \in DOMAIN note.candidates :
                 note'.candidates[x].text = note.candidates[x].text
         \/ note'.status = "done" /\ note'.path = note.path /\ ~note'.transcript
  PROVE  NothingHeard' /\ UploadFirst' /\ OpenWithWords' /\ RecordingKnown'
BY DEF RequestLeaves, VoiceInv, NothingHeard, UploadFirst, OpenWithWords, RecordingKnown,
       Unheard

LEMMA ClaimStep ==
  ASSUME VoiceInv, NEW r \in Requests, _claim(r)
  PROVE  VoiceInv'
<1> DEFINE c == requests[r].c
<1>1. requests[r] # NoRequest /\ requests[r].step = "claim" /\ ~Holds(r, c)
  BY DEF _claim, NoRequest, Holds
<1>2. ~Unheard /\ c \in Candidates
  BY <1>1, Heeded
<1>3. RequestLeaves /\ UNCHANGED <<saved, written_late, cut_off>>
  BY DEF _claim
<1>4. CASE voice_candidate_mark(c, TRUE)
  <2>1. /\ note.status = "transcribed" /\ c \in DOMAIN note.candidates /\ Claimable(c)
    BY <1>4 DEF voice_candidate_mark, Claimable
  <2>2. /\ note' = Marked(c, TRUE)
        /\ \E step \in {"save", "finish"} :
             /\ requests' = [requests EXCEPT ![r].step = step]
             /\ step = "finish" => dropped' = dropped \cup {c}
             /\ step = "save" => dropped' = dropped
    BY <1>4 DEF _claim, Goes
  <2>3. PICK step \in {"save", "finish"} :
             /\ requests' = [requests EXCEPT ![r].step = step]
             /\ step = "finish" => dropped' = dropped \cup {c}
             /\ step = "save" => dropped' = dropped
    BY <2>2
  <2>4. /\ requests'[r].step = step /\ requests'[r].c = c
        /\ \A q \in Requests \ {r} : requests'[q] = requests[q]
        /\ requests' \in [Requests -> {NoRequest} \cup
             [step : {"claim", "save", "release", "finish"}, what : {"confirm", "drop"},
              c : Candidates]]
    BY <1>1, <2>3 DEF VoiceInv, VoiceTypeOK, NoteRow
  <2>5. VoiceTypeOK'
    BY <1>2, <1>3, <2>1, <2>2, <2>3, <2>4, MarkedShape
    DEF VoiceInv, VoiceTypeOK, RequestLeaves, NoteRow
  <2>6. \A q \in Requests, x \in Candidates :
          Holds(q, x)' <=> IF q = r THEN step = "save" /\ x = c ELSE Holds(q, x)
    BY <2>4 DEF Holds
  <2>7. /\ DOMAIN note'.candidates = DOMAIN note.candidates
        /\ \A x \in DOMAIN note.candidates :
             /\ note'.candidates[x].text = note.candidates[x].text
             /\ note'.candidates[x].handled = IF x = c THEN TRUE ELSE note.candidates[x].handled
        /\ note'.status = note.status
        /\ note'.path = note.path /\ note'.transcript = note.transcript
    BY <2>1, <2>2, MarkedShape DEF VoiceInv
  <2>8. \A x \in Candidates : Claimable(x)' <=> Claimable(x) /\ x # c
    BY <2>7 DEF Claimable
  <2>9. OneOwner'
    BY <1>1, <1>2, <1>3, <2>1, <2>6, <2>8 DEF VoiceInv, OneOwner, Holds
  <2>10. HandledIsHeld'
    <3> SUFFICES ASSUME NEW x \in DOMAIN note'.candidates, note'.status = "transcribed",
                        note'.candidates[x].handled, saved'[x] = 0, x \notin dropped' \cup cut_off'
                 PROVE  \E q \in Requests : Holds(q, x)'
      BY DEF HandledIsHeld
    <3>1. x \in Candidates
      BY <2>1, <2>7, MarkedShape DEF VoiceInv
    <3>2. CASE x = c
      BY <2>3, <2>6, <3>1, <3>2
    <3>3. CASE x # c
      <4>1. /\ x \in DOMAIN note.candidates /\ note.candidates[x].handled
            /\ x \notin dropped \cup cut_off
        BY <1>3, <2>3, <2>7, <3>3
      <4>2. PICK q \in Requests : Holds(q, x)
        BY <1>3, <2>1, <4>1 DEF VoiceInv, HandledIsHeld
      <4> QED BY <1>1, <2>6, <3>1, <4>2 DEF Holds
    <3> QED BY <3>2, <3>3
  <2> QED BY <1>2, <1>3, <2>5, <2>7, <2>9, <2>10, NoteKept DEF VoiceInv
<1>5. CASE ~voice_candidate_mark(c, TRUE)
  <2>1. requests' = [requests EXCEPT ![r] = NoRequest] /\ UNCHANGED <<note, dropped>>
    BY <1>5 DEF _claim, Ends
  <2>2. \A q \in Requests, x \in Candidates : Holds(q, x)' <=> Holds(q, x)
    BY <1>1, <2>1 DEF VoiceInv, VoiceTypeOK, Holds, NoRequest, NoteRow
  <2>3. VoiceTypeOK'
    BY <1>3, <2>1 DEF VoiceInv, VoiceTypeOK, RequestLeaves, NoteRow
  <2>4. OneOwner' /\ HandledIsHeld'
    BY <1>3, <2>1, <2>2
    DEF VoiceInv, VoiceTypeOK, CandidateSets, NoCandidates, OneOwner, HandledIsHeld,
        Claimable, NoteRow
  <2> QED BY <1>2, <1>3, <2>1, <2>3, <2>4, NoteKept DEF VoiceInv
<1> QED BY <1>4, <1>5

LEMMA SaveStep ==
  ASSUME VoiceInv, NEW r \in Requests, save(r)
  PROVE  VoiceInv'
<1> DEFINE c == requests[r].c
<1>1. requests[r] # NoRequest /\ Holds(r, c) /\ requests[r].c = c
  BY DEF save, NoRequest, Holds
<1>2. ~Unheard /\ c \in Candidates
  BY <1>1, Heeded
<1>3. RequestLeaves /\ UNCHANGED <<note, dropped, cut_off>>
  BY DEF save
<1>4. PICK step \in {"finish", "release"} :
        /\ requests' = [requests EXCEPT ![r].step = step]
        /\ \/ step = "finish" /\ saved' = [saved EXCEPT ![c] = @ + 1] /\ UNCHANGED written_late
           \/ step = "release" /\ UNCHANGED <<saved, written_late>>
           \/ /\ step = "release" /\ saved' = [saved EXCEPT ![c] = @ + 1]
              /\ written_late' = [written_late EXCEPT ![c] = @ + 1]
  BY DEF save, Goes, AfterRefusal
<1>5. /\ requests'[r].step = step /\ requests'[r].c = c
      /\ \A q \in Requests \ {r} : requests'[q] = requests[q]
      /\ requests' \in [Requests -> {NoRequest} \cup
           [step : {"claim", "save", "release", "finish"}, what : {"confirm", "drop"},
            c : Candidates]]
  BY <1>1, <1>4 DEF VoiceInv, VoiceTypeOK, NoteRow
<1>6. /\ saved' \in [Candidates -> Nat] /\ written_late' \in [Candidates -> Nat]
      /\ \A x \in Candidates \ {c} : saved'[x] = saved[x] /\ written_late'[x] = written_late[x]
      /\ \/ step = "finish" /\ saved'[c] = saved[c] + 1 /\ written_late'[c] = written_late[c]
         \/ step = "release" /\ saved'[c] = saved[c] /\ written_late'[c] = written_late[c]
         \/ step = "release" /\ saved'[c] = saved[c] + 1 /\ written_late'[c] = written_late[c] + 1
  BY <1>2, <1>4 DEF VoiceInv, VoiceTypeOK, NoteRow
<1>7. VoiceTypeOK'
  BY <1>3, <1>5, <1>6 DEF VoiceInv, VoiceTypeOK, RequestLeaves, NoteRow
<1>8. \A q \in Requests, x \in Candidates :
        Holds(q, x)' <=> Holds(q, x) /\ (q = r => step = "release")
  BY <1>1, <1>5 DEF Holds
<1>9. \A x \in Candidates : Claimable(x)' <=> Claimable(x)
  BY <1>3 DEF Claimable
<1>10. saved[c] <= written_late[c] /\ saved[c] \in Nat /\ written_late[c] \in Nat
  BY <1>1, <1>2 DEF VoiceInv, VoiceTypeOK, OneOwner, NoteRow
<1>11. OneOwner'
  <2> SUFFICES ASSUME NEW x \in Candidates
               PROVE  /\ \A q \in Requests : Holds(q, x)' =>
                           ~Claimable(x)' /\ \A p \in Requests : Holds(p, x)' => p = q
                      /\ Claimable(x)' \/ (\E q \in Requests : Holds(q, x)') =>
                           saved'[x] <= written_late'[x]
                      /\ saved'[x] <= 1 + written_late'[x]
    BY DEF OneOwner
  <2>1. CASE x = c
    BY <1>1, <1>5, <1>6, <1>8, <1>9, <1>10, <2>1 DEF VoiceInv, OneOwner
  <2>2. CASE x # c
    BY <1>6, <1>8, <1>9, <2>2 DEF VoiceInv, OneOwner, Holds
  <2> QED BY <2>1, <2>2
<1>12. HandledIsHeld'
  <2> SUFFICES ASSUME NEW x \in DOMAIN note.candidates, note.status = "transcribed",
                      note.candidates[x].handled, saved'[x] = 0, x \notin dropped \cup cut_off
               PROVE  \E q \in Requests : Holds(q, x)'
    BY <1>3 DEF HandledIsHeld
  <2>1. x \in Candidates
    BY DEF VoiceInv, VoiceTypeOK, CandidateSets, NoCandidates, NoteRow
  <2>2. saved[x] = 0 /\ (x = c => step = "release")
    BY <1>6, <1>10, <2>1
  <2>3. PICK q \in Requests : Holds(q, x)
    BY <2>2 DEF VoiceInv, HandledIsHeld
  <2> QED BY <1>1, <1>8, <2>1, <2>2, <2>3 DEF Holds
<1> QED BY <1>2, <1>3, <1>7, <1>11, <1>12, NoteKept DEF VoiceInv

LEMMA ReleaseStep ==
  ASSUME VoiceInv, NEW r \in Requests, release(r)
  PROVE  VoiceInv'
<1> DEFINE c == requests[r].c
<1>1. requests[r] # NoRequest /\ Holds(r, c) /\ requests[r].c = c
  BY DEF release, NoRequest, Holds
<1>2. ~Unheard /\ c \in Candidates
  BY <1>1, Heeded
<1>3. RequestLeaves /\ UNCHANGED <<saved, written_late, dropped, cut_off>>
  BY DEF release
<1>4. requests' = [requests EXCEPT ![r] = NoRequest]
  BY DEF release, Ends
<1>5. \A q \in Requests, x \in Candidates : Holds(q, x)' <=> Holds(q, x) /\ q # r
  BY <1>4 DEF VoiceInv, VoiceTypeOK, Holds, NoRequest, NoteRow
<1>6. \A q \in Requests : Holds(q, c) => q = r
  BY <1>1, <1>2 DEF VoiceInv, OneOwner
<1>7. CASE voice_candidate_mark(c, FALSE)
  <2>1. c \in DOMAIN note.candidates /\ note' = Marked(c, FALSE)
    BY <1>7 DEF release, voice_candidate_mark
  <2>2. /\ DOMAIN note'.candidates = DOMAIN note.candidates
        /\ \A x \in DOMAIN note.candidates :
             /\ note'.candidates[x].text = note.candidates[x].text
             /\ note'.candidates[x].handled = IF x = c THEN FALSE ELSE note.candidates[x].handled
        /\ note'.status = note.status
        /\ note'.path = note.path /\ note'.transcript = note.transcript
    BY <2>1, MarkedShape DEF VoiceInv
  <2>3. VoiceTypeOK'
    BY <1>3, <1>4, <2>1, MarkedShape DEF VoiceInv, VoiceTypeOK, RequestLeaves, NoteRow
  <2>4. \A x \in Candidates : Claimable(x)' => Claimable(x) \/ x = c
    BY <2>2 DEF Claimable
  <2>5. OneOwner'
    BY <1>1, <1>2, <1>3, <1>5, <1>6, <2>4 DEF VoiceInv, OneOwner
  <2>6. HandledIsHeld'
    <3> SUFFICES ASSUME NEW x \in DOMAIN note.candidates, note.status = "transcribed", x # c,
                        note.candidates[x].handled, saved[x] = 0, x \notin dropped \cup cut_off
                 PROVE  \E q \in Requests : Holds(q, x)'
      BY <1>3, <2>2 DEF HandledIsHeld
    <3>1. x \in Candidates
      BY DEF VoiceInv, VoiceTypeOK, CandidateSets, NoCandidates, NoteRow
    <3>2. PICK q \in Requests : Holds(q, x)
      BY DEF VoiceInv, HandledIsHeld
    <3> QED BY <1>1, <1>5, <3>1, <3>2 DEF Holds
  <2> QED BY <1>2, <1>3, <2>2, <2>3, <2>5, <2>6, NoteKept DEF VoiceInv
<1>8. CASE ~voice_candidate_mark(c, FALSE)
  <2>1. UNCHANGED note
    BY <1>8 DEF release
  <2>2. VoiceTypeOK'
    BY <1>3, <1>4, <2>1 DEF VoiceInv, VoiceTypeOK, RequestLeaves, NoteRow
  <2>3. OneOwner'
    BY <1>3, <1>5, <2>1 DEF VoiceInv, OneOwner, Claimable
  <2>4. HandledIsHeld'
    <3> SUFFICES ASSUME NEW x \in DOMAIN note.candidates, note.status = "transcribed",
                        note.candidates[x].handled, saved[x] = 0, x \notin dropped \cup cut_off
                 PROVE  \E q \in Requests : Holds(q, x)'
      BY <1>3, <2>1 DEF HandledIsHeld
    <3>1. x \in Candidates
      BY DEF VoiceInv, VoiceTypeOK, CandidateSets, NoCandidates, NoteRow
    <3>2. x # c
      BY <1>8 DEF VoiceInv, OpenWithWords, voice_candidate_mark
    <3>3. PICK q \in Requests : Holds(q, x)
      BY DEF VoiceInv, HandledIsHeld
    <3> QED BY <1>1, <1>5, <3>1, <3>2, <3>3 DEF Holds
  <2> QED BY <1>2, <1>3, <2>1, <2>2, <2>3, <2>4, NoteKept DEF VoiceInv
<1> QED BY <1>7, <1>8

LEMMA FinishStep ==
  ASSUME VoiceInv, NEW r \in Requests, _finish(r)
  PROVE  VoiceInv'
<1>1. requests[r] # NoRequest /\ \A x \in Candidates : ~Holds(r, x)
  BY DEF _finish, NoRequest, Holds
<1>2. ~Unheard
  BY <1>1, Heeded
<1>3. /\ RequestLeaves /\ UNCHANGED <<saved, written_late, dropped, cut_off>>
      /\ note' = voice_upload_finish /\ requests' = [requests EXCEPT ![r] = NoRequest]
  BY DEF _finish, Ends
<1>4. \A q \in Requests, x \in Candidates : Holds(q, x)' <=> Holds(q, x)
  BY <1>1, <1>3 DEF VoiceInv, VoiceTypeOK, Holds, NoRequest, NoteRow
<1>5. CASE note' = note
  <2>1. VoiceTypeOK'
    BY <1>3, <1>5 DEF VoiceInv, VoiceTypeOK, RequestLeaves, NoteRow
  <2>2. OneOwner'
    BY <1>3, <1>4, <1>5 DEF VoiceInv, OneOwner, Claimable
  <2>3. HandledIsHeld'
    BY <1>3, <1>4, <1>5
    DEF VoiceInv, VoiceTypeOK, CandidateSets, NoCandidates, HandledIsHeld, NoteRow
  <2> QED BY <1>2, <1>3, <1>5, <2>1, <2>2, <2>3, NoteKept DEF VoiceInv
<1>6. CASE note' = [status |-> "done", path |-> note.path, transcript |-> FALSE,
                    candidates |-> WithoutText(note.candidates)]
  <2>1. /\ WithoutText(note.candidates) \in CandidateSets
        /\ \A x \in DOMAIN WithoutText(note.candidates) : ~WithoutText(note.candidates)[x].text
    BY WithoutTextShape DEF VoiceInv, VoiceTypeOK, NoteRow
  <2>2. note' \in NoteRow
    BY <1>6, <2>1 DEF VoiceInv, VoiceTypeOK, Status, NoteRow
  <2>3. VoiceTypeOK'
    BY <1>3, <2>2 DEF VoiceInv, VoiceTypeOK, RequestLeaves, NoteRow
  <2>4. \A x \in Candidates : ~Claimable(x)'
    BY <1>6, <2>1 DEF Claimable
  <2>5. OneOwner'
    BY <1>3, <1>4, <2>4 DEF VoiceInv, OneOwner
  <2>6. HandledIsHeld'
    BY <1>6 DEF HandledIsHeld
  <2> QED BY <1>2, <1>3, <1>6, <2>3, <2>5, <2>6, NoteKept DEF VoiceInv
<1> QED BY <1>3, <1>5, <1>6, FinishShape DEF VoiceInv

LEMMA RequestDies ==
  ASSUME VoiceInv, NEW r \in Requests, request_dies(r)
  PROVE  VoiceInv'
<1> DEFINE c == requests[r].c
<1>1. requests[r] # NoRequest
  BY DEF request_dies
<1>2. ~Unheard /\ c \in Candidates
  BY <1>1, Heeded
<1>3. /\ RequestLeaves /\ UNCHANGED <<note, saved, written_late, dropped>>
      /\ cut_off' = cut_off \cup {c} /\ requests' = [requests EXCEPT ![r] = NoRequest]
  BY DEF request_dies, Ends
<1>4. \A q \in Requests, x \in Candidates : Holds(q, x)' <=> Holds(q, x) /\ q # r
  BY <1>3 DEF VoiceInv, VoiceTypeOK, Holds, NoRequest, NoteRow
<1>5. VoiceTypeOK'
  BY <1>2, <1>3 DEF VoiceInv, VoiceTypeOK, RequestLeaves, NoteRow
<1>6. OneOwner'
  BY <1>3, <1>4 DEF VoiceInv, OneOwner, Claimable
<1>7. HandledIsHeld'
  <2> SUFFICES ASSUME NEW x \in DOMAIN note.candidates, note.status = "transcribed",
                      note.candidates[x].handled, saved[x] = 0,
                      x \notin dropped \cup cut_off, x # c
               PROVE  \E q \in Requests : Holds(q, x)'
    BY <1>3 DEF HandledIsHeld
  <2>1. x \in Candidates
    BY DEF VoiceInv, VoiceTypeOK, CandidateSets, NoCandidates, NoteRow
  <2>2. PICK q \in Requests : Holds(q, x)
    BY DEF VoiceInv, HandledIsHeld
  <2> QED BY <1>4, <2>1, <2>2 DEF Holds
<1> QED BY <1>2, <1>3, <1>5, <1>6, <1>7, NoteKept DEF VoiceInv

-----------------------------------------------------------------------------
LEMMA VoiceInit_Inv == VoiceInit => VoiceInv
<1> SUFFICES ASSUME VoiceInit PROVE VoiceInv
  OBVIOUS
<1>1. VoiceTypeOK
  BY DEF VoiceInit, VoiceTypeOK, NoNote, Asleep, CandidateSets, Status, NoteRow
<1>2. NothingHeard /\ UploadFirst /\ OpenWithWords /\ RecordingKnown
  BY DEF VoiceInit, NothingHeard, UploadFirst, OpenWithWords, RecordingKnown, NoNote, Asleep
<1>3. OneOwner /\ HandledIsHeld
  BY DEF VoiceInit, OneOwner, HandledIsHeld, Claimable, Holds, NoNote, NoCandidates,
         NoRequest
<1> QED BY <1>1, <1>2, <1>3 DEF VoiceInv

LEMMA VoiceNext_Inv == VoiceInv /\ [VoiceNext]_voiceVars => VoiceInv'
<1> SUFFICES ASSUME VoiceInv, [VoiceNext]_voiceVars PROVE VoiceInv'
  OBVIOUS
<1>1. CASE UNCHANGED voiceVars
  BY <1>1
  DEF voiceVars, VoiceInv, VoiceTypeOK, NothingHeard, UploadFirst, OpenWithWords, OneOwner,
      HandledIsHeld, RecordingKnown, Unheard, Claimable, Holds, NoteRow
<1>2. CASE \E r \in Requests : Requested(r)
  BY <1>2, CandidateStep, ClaimStep, SaveStep, ReleaseStep, FinishStep, RequestDies
  DEF Requested
<1>3. CASE VoiceNext /\ ~\E r \in Requests : Requested(r)
  BY <1>3, UploadStep, UploadEnds, ReadStep, MarkStep, WriteStep, EndStep, DiesStep,
     SweepStep
  DEF VoiceNext
<1> QED BY <1>1, <1>2, <1>3

(* In every state of a voice note, whatever is cut off: a candidate's text  *)
(* is there while it can be read, a request that writes for a candidate is  *)
(* the only one, and the row is written before the recording is stored.     *)
THEOREM VoiceInvariant == VoiceSpec => []VoiceInv
BY VoiceInit_Inv, VoiceNext_Inv, PTL DEF VoiceSpec

(* However requests, worker and sweep overlap, a candidate is saved once,   *)
(* but for saves that wrote and then failed, and one that counts as handled *)
(* has been saved, dropped or cut off, or is in the hands of a request      *)
(* (services/tasks/voice.py, confirm and drop; migration 054).              *)
THEOREM CandidatesSavedOnce == VoiceSpec => []SavedOnceOrGivenBack
<1>1. VoiceInv => SavedOnceOrGivenBack
  <2> SUFFICES ASSUME VoiceInv PROVE SavedOnceOrGivenBack
    OBVIOUS
  <2>1. SavedOnce
    BY DEF VoiceInv, OneOwner, SavedOnce
  <2>2. GivenBack
    BY DEF VoiceInv, HandledIsHeld, Holds, GivenBack, NoRequest
  <2> QED BY <2>1, <2>2 DEF SavedOnceOrGivenBack
<1> QED BY <1>1, VoiceInvariant, PTL

(* A recording is never in the bucket without a row that names it, wherever *)
(* the upload, the worker or the sweep is killed (tasks.voice_sweep).       *)
THEOREM RecordingsFound == VoiceSpec => []AudioFound
<1>1. VoiceInv => AudioFound
  BY DEF VoiceInv, RecordingKnown, AudioFound
<1> QED BY <1>1, VoiceInvariant, PTL

-----------------------------------------------------------------------------
(* CTC periods *)

(* A period as the table keeps it. *)
PeriodRow(c) ==
  /\ c = [id |-> c.id, user |-> c.user, annual_ctc |-> c.annual_ctc,
          hours_per_week |-> c.hours_per_week, from |-> c.from, to |-> c.to]
  /\ c.from \in Nat \ {0} /\ c.to \in Nat

(* A person's periods lie apart, and an id names one period. *)
PeriodsApart(periods) ==
  /\ no_overlap(periods)
  /\ \A c, e \in periods : c.id = e.id => c = e

Held(periods) == \A c \in periods : PeriodRow(c)

Asking(r) == request[r].step \in {"closing", "refused", "over"}

(* A request notes the one period it closed.                                  *)
RequestRow(q) ==
  /\ q = [step |-> q.step, new |-> q.new, close |-> q.close, closed |-> q.closed]
  /\ \A x, y \in q.closed : x = y

(* A request that was made has its period; only one that is over may have     *)
(* written it.                                                                *)
Made(r) ==
  /\ request[r].step \in {"idle", "none", "closing", "refused", "over"}
  /\ Asking(r) =>
       /\ RequestRow(request[r])
       /\ PeriodRow(request[r].new) /\ request[r].new.id = r
  /\ request[r].step # "over" => \A c \in book.periods : c.id # r

(* The day a period ends was set by a request that starts on the day after.   *)
EndSet(c) ==
  c.to = 0 \/ \E r \in CtcRequests : /\ Asking(r)
                                     /\ request[r].new.user = c.user
                                     /\ request[r].new.from = c.to + 1

Named(r) == request[r].close \cup request[r].closed

(* What a request closes or has closed is the person's, and was open when it  *)
(* was listed.                                                                *)
ClosesOwn(r) ==
  request[r].step \in {"closing", "refused"} =>
    \A id \in Named(r) :
      /\ id \in CtcRequests => request[id].step = "over"
      /\ \A c \in book.periods :
           c.id = id => c.user = request[r].new.user /\ c.from < request[r].new.from /\ EndSet(c)

BooksInv ==
  /\ {"periods", "holidays"} \subseteq DOMAIN book
  /\ Held(book.periods)
  /\ PeriodsApart(book.periods)
  /\ DOMAIN request = CtcRequests
  /\ \A r \in CtcRequests : Made(r) /\ ClosesOwn(r)

(* What the books must be to begin with: the table's rows, with ids that no   *)
(* request takes for its own.                                                 *)
BookStands(b) ==
  /\ {"periods", "holidays"} \subseteq DOMAIN b
  /\ Held(b.periods)
  /\ PeriodsApart(b.periods)
  /\ \A c \in b.periods : c.id \notin CtcRequests

-----------------------------------------------------------------------------
(* The writes *)

Ended(P, id, to) == {IF c.id = id THEN [c EXCEPT !.to = to] ELSE c : c \in P}

LEMMA EndedHeld ==
  ASSUME NEW P, Held(P), NEW id, NEW to \in Nat
  PROVE  Held(Ended(P, id, to))
<1> SUFFICES ASSUME NEW c \in P
             PROVE  PeriodRow(IF c.id = id THEN [c EXCEPT !.to = to] ELSE c)
  BY DEF Held, Ended
<1> QED BY DEF Held, PeriodRow

(* What an update changes of a row.                                           *)
LEMMA EndedRow ==
  ASSUME NEW P, Held(P), NEW id, NEW to, NEW e \in Ended(P, id, to)
  PROVE  \E c \in P : /\ e.id = c.id /\ e.user = c.user /\ e.from = c.from
                      /\ e.annual_ctc = c.annual_ctc
                      /\ e.to = IF c.id = id THEN to ELSE c.to
                      /\ e = IF c.id = id THEN [c EXCEPT !.to = to] ELSE c
<1> PICK c \in P : e = IF c.id = id THEN [c EXCEPT !.to = to] ELSE c BY DEF Ended
<1> PeriodRow(c) BY DEF Held
<1> QED BY DEF PeriodRow

LEMMA EndedApart ==
  ASSUME NEW P, Held(P), PeriodsApart(P), NEW id, NEW to, no_overlap(Ended(P, id, to))
  PROVE  PeriodsApart(Ended(P, id, to))
<1> SUFFICES ASSUME NEW c \in Ended(P, id, to), NEW e \in Ended(P, id, to), c.id = e.id
             PROVE  c = e
  BY DEF PeriodsApart
<1>1. PICK x \in P : /\ c.id = x.id
                     /\ c = IF x.id = id THEN [x EXCEPT !.to = to] ELSE x
  BY EndedRow
<1>2. PICK y \in P : /\ e.id = y.id
                     /\ e = IF y.id = id THEN [y EXCEPT !.to = to] ELSE y
  BY EndedRow
<1>3. x = y BY <1>1, <1>2 DEF PeriodsApart
<1> QED BY <1>1, <1>2, <1>3

-----------------------------------------------------------------------------
(* What a day costs *)

Covers(c, u, d) == c.user = u /\ c.from <= d /\ (c.to = 0 \/ d <= c.to)

LEMMA OneCovers ==
  ASSUME NEW P, Held(P), PeriodsApart(P), NEW u, NEW d \in Int,
         NEW c \in P, NEW e \in P, Covers(c, u, d), Covers(e, u, d)
  PROVE  c = e
<1> PeriodRow(c) /\ PeriodRow(e) BY DEF Held
<1> overlapping(c, e) BY DEF overlapping, Covers, PeriodRow
<1> QED BY DEF PeriodsApart, no_overlap

(* Two books price a day alike when the holidays are the same and the periods *)
(* that cover the day, if any, have the same CTC.                             *)
LEMMA PricedAlike ==
  ASSUME NEW a, NEW b, NEW u, NEW d, a.holidays = b.holidays,
         \A c \in period_on(a, u, d) : \A e \in period_on(b, u, d) :
            c.annual_ctc = e.annual_ctc,
         period_on(a, u, d) = {} <=> period_on(b, u, d) = {}
  PROVE  daily(a, u, d) = daily(b, u, d)
<1>1. month_working_days(a, d) = month_working_days(b, d)
  BY DEF month_working_days, holidays_between
<1>2. CASE period_on(a, u, d) = {} BY <1>2 DEF daily
<1>3. CASE period_on(a, u, d) # {}
  <2>1. (CHOOSE c \in period_on(a, u, d) : TRUE) \in period_on(a, u, d) BY <1>3
  <2>2. (CHOOSE c \in period_on(b, u, d) : TRUE) \in period_on(b, u, d) BY <1>3
  <2>3. (CHOOSE c \in period_on(a, u, d) : TRUE).annual_ctc
          = (CHOOSE c \in period_on(b, u, d) : TRUE).annual_ctc
    BY <2>1, <2>2
  <2> QED BY <1>1, <1>3, <2>3 DEF daily
<1> QED BY <1>2, <1>3

-----------------------------------------------------------------------------
(* Steps that leave the periods and the holidays alone *)

Elsewhere ==
  /\ book'.periods = book.periods /\ book'.holidays = book.holidays
  /\ DOMAIN book' = DOMAIN book

LEMMA ChangedElsewhere ==
  ASSUME {"periods", "holidays"} \subseteq DOMAIN book, NEW f \in STRING \ {"periods", "holidays"},
         NEW x, book' = [book EXCEPT ![f] = x]
  PROVE  Elsewhere
BY DEF Elsewhere

OtherStep ==
  \/ update_user \/ save_day \/ allocate \/ update_allocation \/ remove_allocation
  \/ set_phase \/ add_milestone \/ remove_milestone \/ update_milestone
  \/ change_project \/ write \/ next_day

LEMMA OthersElsewhere ==
  ASSUME {"periods", "holidays"} \subseteq DOMAIN book, OtherStep
  PROVE  Elsewhere /\ UNCHANGED request
<1>1. CASE update_user
  <2>1. PICK u \in People(book) : Change([book EXCEPT !.people[u].active = ~@])
    BY <1>1 DEF update_user
  <2> QED BY <2>1 DEF Change, Elsewhere
<1>2. CASE save_day BY <1>2 DEF save_day, Change, Elsewhere
<1>3. CASE allocate BY <1>3 DEF allocate, Change, Elsewhere
<1>4. CASE update_allocation BY <1>4 DEF update_allocation, Change, Elsewhere
<1>5. CASE remove_allocation BY <1>5 DEF remove_allocation, Change, Elsewhere
<1>6. CASE set_phase BY <1>6 DEF set_phase, Change, Elsewhere
<1>7. CASE add_milestone BY <1>7 DEF add_milestone, Change, Elsewhere
<1>8. CASE remove_milestone BY <1>8 DEF remove_milestone, Change, Elsewhere
<1>9. CASE update_milestone BY <1>9 DEF update_milestone, Read, Elsewhere
<1>10. CASE change_project BY <1>10 DEF change_project, Read, Elsewhere
<1>11. CASE write BY <1>11 DEF write, Elsewhere
<1>12. CASE next_day BY <1>12 DEF next_day, Elsewhere
<1> QED BY <1>1, <1>2, <1>3, <1>4, <1>5, <1>6, <1>7, <1>8, <1>9, <1>10, <1>11, <1>12
  DEF OtherStep

-----------------------------------------------------------------------------
(* The steps that write periods *)

Written(P) == /\ book' = with_periods(P)
              /\ DOMAIN book' = DOMAIN book
              /\ book'.periods = P /\ book'.holidays = book.holidays

LEMMA WithPeriods ==
  ASSUME BooksInv, NEW P, book' = with_periods(P)
  PROVE  Written(P)
BY DEF BooksInv, with_periods, Written

(* A request's row follows what a step makes of it.                           *)
Becomes(r, q) == request' = [request EXCEPT ![r] = q]

(* What the other requests are keeps being true of them when a step ends no   *)
(* row but one, and makes no request forget what it asked for.                *)
Remembers ==
  \A r \in CtcRequests :
    Asking(r) => Asking(r)' /\ request'[r].new = request[r].new

LEMMA EndsStaySet ==
  ASSUME Remembers, NEW c, NEW e, EndSet(c), e.user = c.user, e.to = c.to
  PROVE  EndSet(e)'
BY DEF Remembers, EndSet, Asking

(* What is written of the periods at most ends rows, and ends them as some    *)
(* request asked.                                                             *)
FromRow(e) ==
  \E c \in book.periods : /\ e.id = c.id /\ e.user = c.user /\ e.from = c.from
                          /\ e.to = c.to \/ EndSet(e)'

Inserted(e) ==
  /\ e.id \in CtcRequests
  /\ request[e.id].step # "over" /\ request'[e.id].step = "over"

Follows(P) == \A e \in P : FromRow(e) \/ Inserted(e)

LEMMA SamePeriods == BooksInv => /\ Held(book.periods) /\ PeriodsApart(book.periods)
                                 /\ Follows(book.periods)
BY DEF BooksInv, Follows, FromRow

LEMMA OwnStays ==
  ASSUME BooksInv, Remembers, NEW P, Follows(P), book'.periods = P, NEW q \in CtcRequests,
         request'[q].step \in {"closing", "refused"} =>
           /\ request[q].step \in {"closing", "refused"}
           /\ Named(q)' \subseteq Named(q),
         \A p \in CtcRequests : request[p].step = "over" => request'[p].step = "over"
  PROVE  ClosesOwn(q)'
<1> SUFFICES ASSUME request'[q].step \in {"closing", "refused"}, NEW id \in Named(q)'
             PROVE  /\ id \in CtcRequests => request'[id].step = "over"
                    /\ \A e \in book'.periods :
                         e.id = id => /\ e.user = request'[q].new.user
                                      /\ e.from < request'[q].new.from
                                      /\ EndSet(e)'
  BY DEF ClosesOwn
<1>1. ClosesOwn(q) /\ id \in Named(q) /\ request[q].step \in {"closing", "refused"}
  BY DEF BooksInv
<1>2. request'[q].new = request[q].new BY <1>1 DEF Remembers, Asking
<1>3. ASSUME NEW e \in book'.periods, e.id = id
      PROVE  /\ e.user = request'[q].new.user /\ e.from < request'[q].new.from
             /\ EndSet(e)'
  <2>1. PICK c \in book.periods : /\ e.id = c.id /\ e.user = c.user /\ e.from = c.from
                                  /\ e.to = c.to \/ EndSet(e)'
    <3>1. ~Inserted(e) BY <1>1, <1>3 DEF ClosesOwn, Inserted
    <3>2. FromRow(e) BY <3>1 DEF Follows
    <3> QED BY <3>2 DEF FromRow
  <2>2. c.user = request[q].new.user /\ c.from < request[q].new.from /\ EndSet(c)
    BY <1>1, <1>3, <2>1 DEF ClosesOwn
  <2>3. EndSet(e)' BY <2>1, <2>2, EndsStaySet
  <2> QED BY <1>2, <2>1, <2>2, <2>3
<1> QED BY <1>1, <1>3 DEF ClosesOwn

LEMMA MadeStays ==
  ASSUME BooksInv, Remembers, NEW q \in CtcRequests,
         \/ request'[q].step = request[q].step
         \/ request'[q].step = "over" /\ Asking(q)
         \/ request'[q].step = "refused" /\ request[q].step = "closing",
         request'[q].step \in {"closing", "refused", "over"} =>
           RequestRow(request'[q]),
         \A e \in book'.periods : e.id = q /\ request'[q].step # "over"
            => \E c \in book.periods : c.id = q
  PROVE  Made(q)'
<1>1. Made(q) BY DEF BooksInv
<1> QED BY <1>1 DEF Made, Asking, Remembers

(* A step that rewrites rows, for one request that goes on or is over.        *)
LEMMA RewriteKeeps ==
  ASSUME BooksInv, NEW r \in CtcRequests, Asking(r), NEW P, Held(P), PeriodsApart(P),
         book' = with_periods(P), Follows(P),
         Remembers, DOMAIN request' = CtcRequests,
         \A q \in CtcRequests \ {r} : request'[q] = request[q],
         \/ request'[r].step = "over"
         \/ request[r].step = "closing" /\ request'[r].step \in {"closing", "refused"}
            /\ Named(r)' \subseteq Named(r),
         request[r].step = "over" => request'[r].step = "over",
         RequestRow(request'[r])
  PROVE  BooksInv'
<1>1. Written(P) BY WithPeriods
<1>2. ASSUME NEW q \in CtcRequests PROVE Made(q)' /\ ClosesOwn(q)'
  <2>1. \/ request'[q].step = request[q].step
        \/ request'[q].step = "over" /\ Asking(q)
        \/ request'[q].step = "refused" /\ request[q].step = "closing"
    <3>1. CASE q = r
      <4>1. Asking(q) BY <3>1
      <4> QED BY <3>1, <4>1
    <3>2. CASE q # r BY <3>2
    <3> QED BY <3>1, <3>2
  <2>8. request'[q].step \in {"closing", "refused"} =>
          request[q].step \in {"closing", "refused"} /\ Named(q)' \subseteq Named(q)
    <3>1. CASE q = r BY <3>1 DEF Named
    <3>2. CASE q # r
      <4>1. request'[q] = request[q] BY <3>2
      <4>2. Named(q)' = Named(q) BY <4>1 DEF Named
      <4> QED BY <4>1, <4>2
    <3> QED BY <3>1, <3>2
  <2>2. \A e \in book'.periods : e.id = q /\ request'[q].step # "over"
            => \E c \in book.periods : c.id = q
    <3> SUFFICES ASSUME NEW e \in book'.periods, e.id = q, request'[q].step # "over"
                 PROVE  \E c \in book.periods : c.id = q
      OBVIOUS
    <3>1. ~Inserted(e) BY DEF Inserted
    <3>2. FromRow(e) BY <1>1, <3>1 DEF Follows, Written
    <3> QED BY <3>2 DEF FromRow
  <2>7. request'[q].step \in {"closing", "refused", "over"} =>
           RequestRow(request'[q])
    <3>1. CASE q = r BY <3>1
    <3>2. CASE q # r BY <3>2 DEF Asking, BooksInv, Made
    <3> QED BY <3>1, <3>2
  <2>3. Made(q)' BY <2>1, <2>2, <2>7, MadeStays
  <2>4. \A p \in CtcRequests : request[p].step = "over" => request'[p].step = "over"
    OBVIOUS
  <2>5. book'.periods = P BY <1>1 DEF Written
  <2>6. ClosesOwn(q)' BY <2>8, <2>4, <2>5, OwnStays
  <2> QED BY <2>3, <2>6
<1>3. Held(book'.periods) /\ PeriodsApart(book'.periods) BY <1>1 DEF Written
<1>4. {"periods", "holidays"} \subseteq DOMAIN book' BY <1>1 DEF Written, BooksInv
<1> QED BY <1>2, <1>3, <1>4 DEF BooksInv, Held, PeriodsApart, no_overlap

-----------------------------------------------------------------------------
(* One lemma for each step of a request *)

LEMMA AddKeeps ==
  ASSUME BooksInv, CtcAssumption, NEW r \in CtcRequests, add_ctc(r)
  PROVE  BooksInv'
<1>1. PICK u \in People(book), from \in CtcStarts, to \in CtcEnds, raise \in Raises :
        LET c == [id |-> r, user |-> u, annual_ctc |-> raise.ctc,
                  hours_per_week |-> raise.hours, from |-> from, to |-> to] IN
        request' = [request EXCEPT ![r] =
          [step |-> "closing", new |-> c, close |-> to_close(c), closed |-> {}]]
  BY DEF add_ctc
<1> DEFINE c == [id |-> r, user |-> u, annual_ctc |-> raise.ctc,
                 hours_per_week |-> raise.hours, from |-> from, to |-> to]
<1>2. PeriodRow(c) /\ c.id = r /\ c.user = u /\ c.from = from
  BY DEF PeriodRow, CtcAssumption
<1>3. PICK n : n = c OBVIOUS
<1> HIDE DEF c
<1>4. /\ request[r].step = "idle" /\ book' = book
      /\ DOMAIN request' = CtcRequests
      /\ request'[r] = [step |-> "closing", new |-> n, close |-> to_close(n), closed |-> {}]
      /\ \A q \in CtcRequests \ {r} : request'[q] = request[q]
  BY <1>1, <1>3 DEF add_ctc, c, BooksInv
<1>5. Remembers BY <1>4 DEF Remembers, Asking
<1>6. ASSUME NEW q \in CtcRequests PROVE Made(q)'
  <2>1. CASE q = r BY <1>2, <1>3, <1>4, <2>1 DEF Made, Asking, RequestRow, BooksInv
  <2>2. CASE q # r
    <3>1. request'[q] = request[q] BY <1>4, <2>2
    <3> QED BY <1>4, <3>1 DEF Made, Asking, BooksInv
  <2> QED BY <2>1, <2>2
<1>7. ClosesOwn(r)'
  <2>1. Named(r)' = to_close(n) BY <1>4 DEF Named
  <2>2. ASSUME NEW id \in to_close(n)
        PROVE  /\ id \in CtcRequests => request'[id].step = "over"
               /\ \A e \in book'.periods :
                    e.id = id => e.user = n.user /\ e.from < n.from /\ EndSet(e)'
    <3>1. PICK x \in book.periods : x.id = id /\ x.user = n.user /\ x.to = 0 /\ x.from < n.from
      BY DEF to_close
    <3>2. ASSUME NEW e \in book.periods, e.id = id PROVE e = x
      BY <3>1, <3>2 DEF BooksInv, PeriodsApart
    <3>3. ASSUME id \in CtcRequests PROVE request'[id].step = "over"
      <4>1. request[id].step = "over" BY <3>1, <3>3 DEF BooksInv, Made
      <4>2. id # r BY <1>4, <4>1
      <4> QED BY <1>4, <3>3, <4>1, <4>2
    <3> QED BY <1>4, <3>1, <3>2, <3>3 DEF EndSet
  <2> QED BY <1>4, <2>1, <2>2 DEF ClosesOwn
<1>8. ASSUME NEW q \in CtcRequests PROVE ClosesOwn(q)'
  <2>1. CASE q = r BY <1>7, <2>1
  <2>2. CASE q # r
    <3>1. request'[q] = request[q] BY <1>4, <2>2
    <3>2. Named(q)' = Named(q) BY <3>1 DEF Named
    <3>3. \A p \in CtcRequests : request[p].step = "over" => request'[p].step = "over"
      BY <1>4
    <3>4. Follows(book.periods) BY SamePeriods
    <3> QED BY <1>4, <1>5, <3>1, <3>2, <3>3, <3>4, OwnStays
  <2> QED BY <2>1, <2>2
<1> QED BY <1>4, <1>6, <1>8 DEF BooksInv, Held, PeriodsApart, no_overlap

LEMMA WithEnd == ASSUME NEW id, NEW to PROVE with_end(id, to) = Ended(book.periods, id, to)
BY DEF with_end, Ended

(* A request's step alone moves on.                                           *)
LEMMA StepOf ==
  ASSUME BooksInv, NEW r \in CtcRequests, Asking(r), NEW t \in {"over", "refused"},
         request[r].step = "closing" \/ t = "over",
         request' = [request EXCEPT ![r].step = t]
  PROVE  /\ DOMAIN request' = CtcRequests
         /\ \A q \in CtcRequests \ {r} : request'[q] = request[q]
         /\ request'[r] = [step |-> t, new |-> request[r].new,
                           close |-> request[r].close, closed |-> request[r].closed]
         /\ Remembers
         /\ Named(r)' = Named(r)
<1>1. RequestRow(request[r])
  BY DEF BooksInv, Made
<1>2. DOMAIN request = CtcRequests BY DEF BooksInv
<1>3. request'[r] = [step |-> t, new |-> request[r].new,
                     close |-> request[r].close, closed |-> request[r].closed]
  BY <1>1, <1>2 DEF RequestRow
<1>4. \A q \in CtcRequests \ {r} : request'[q] = request[q] BY <1>2
<1>5. Remembers BY <1>3, <1>4 DEF Remembers, Asking
<1> QED BY <1>2, <1>3, <1>4, <1>5 DEF Named

LEMMA StepKeeps ==
  ASSUME BooksInv, NEW r \in CtcRequests, Asking(r), book' = book,
         NEW t \in {"over", "refused"}, request[r].step = "closing" \/ t = "over",
         request' = [request EXCEPT ![r].step = t]
  PROVE  BooksInv'
<1>1. ASSUME NEW q \in CtcRequests PROVE Made(q)' /\ ClosesOwn(q)'
  <2>1. Remembers /\ request'[r].step = t
    <3>1. request'[r] = [step |-> t, new |-> request[r].new,
                         close |-> request[r].close, closed |-> request[r].closed]
      BY StepOf
    <3>2. Remembers BY StepOf
    <3> QED BY <3>1, <3>2
  <2>2. q # r => request'[q] = request[q] BY StepOf
  <2>3. Follows(book.periods) BY SamePeriods
  <2>4. ClosesOwn(q)'
    <3>1. CASE q = r /\ t = "over" BY <2>1, <3>1 DEF ClosesOwn
    <3>2. CASE q # r \/ t = "refused"
      <4>1. Named(q)' = Named(q)
        <5>1. CASE q = r BY <5>1, StepOf DEF Named
        <5>2. CASE q # r BY <2>2, <5>2 DEF Named
        <5> QED BY <5>1, <5>2
      <4>2. \A p \in CtcRequests : request[p].step = "over" => request'[p].step = "over"
        BY StepOf
      <4>3. request'[q].step \in {"closing", "refused"} =>
              request[q].step \in {"closing", "refused"}
        BY <2>1, <2>2, <3>2
      <4> QED BY <2>1, <2>3, <4>1, <4>2, <4>3, OwnStays
    <3> QED BY <3>1, <3>2
  <2>5. request'[q].step \in {"closing", "refused", "over"} =>
           RequestRow(request'[q])
    <3>1. CASE q = r
      <4>1. RequestRow(request[r]) BY DEF BooksInv, Made
      <4> QED BY <3>1, <4>1, StepOf DEF RequestRow
    <3>2. CASE q # r BY <2>2, <3>2 DEF Asking, BooksInv, Made
    <3> QED BY <3>1, <3>2
  <2>6. Made(q)'
    <3>1. \/ request'[q].step = request[q].step
          \/ request'[q].step = "over" /\ Asking(q)
          \/ request'[q].step = "refused" /\ request[q].step = "closing"
      <4>1. CASE q = r
        <5>1. Asking(q) BY <4>1
        <5> QED BY <2>1, <4>1, <5>1
      <4>2. CASE q # r BY <2>2, <4>2
      <4> QED BY <4>1, <4>2
    <3>2. \A e \in book'.periods : e.id = q => \E c \in book.periods : c.id = q
      OBVIOUS
    <3> QED BY <2>1, <2>5, <3>1, <3>2, MadeStays
  <2> QED BY <2>4, <2>6
<1>2. DOMAIN request' = CtcRequests BY StepOf
<1> QED BY <1>1, <1>2 DEF BooksInv, Held, PeriodsApart, no_overlap

LEMMA CloseKeeps ==
  ASSUME BooksInv, NEW r \in CtcRequests, close_cost_period(r)
  PROVE  BooksInv'
<1>1. PICK id \in request[r].close :
        LET after == with_end(id, request[r].new.from - 1)
            rest == [request[r] EXCEPT !.close = @ \ {id}, !.closed = {id}] IN
        IF no_overlap(after)
        THEN book' = with_periods(after) /\ request' = [request EXCEPT ![r] = rest]
        ELSE request' = [request EXCEPT ![r].step = "over"] /\ UNCHANGED book
  BY DEF close_cost_period
<1> DEFINE to == request[r].new.from - 1
<1>2. request[r].step = "closing" /\ Asking(r) BY DEF close_cost_period, Asking
<1>3. Made(r) /\ ClosesOwn(r) BY DEF BooksInv
<1>4. to \in Nat BY <1>2, <1>3 DEF Made, PeriodRow
<1>5. CASE no_overlap(with_end(id, to))
  <2>1. PICK P : P = Ended(book.periods, id, to) OBVIOUS
  <2>2. Held(P) /\ PeriodsApart(P)
    BY <1>4, <1>5, <2>1, EndedHeld, EndedApart, WithEnd DEF BooksInv
  <2>3. book' = with_periods(P)
    BY <1>1, <1>5, <2>1, WithEnd
  <2>4. /\ DOMAIN request' = CtcRequests
        /\ request'[r] = [request[r] EXCEPT !.close = @ \ {id}, !.closed = {id}]
        /\ \A q \in CtcRequests \ {r} : request'[q] = request[q]
    BY <1>1, <1>5 DEF BooksInv
  <2>5. request'[r] = [step |-> "closing", new |-> request[r].new,
                       close |-> request[r].close \ {id}, closed |-> {id}]
    BY <1>2, <1>3, <2>4 DEF Made, RequestRow
  <2>6. Named(r)' \subseteq Named(r)
    BY <2>5 DEF Named
  <2>7. Remembers BY <2>4, <2>5 DEF Remembers, Asking
  <2>8. Follows(P)
    <3> SUFFICES ASSUME NEW e \in P
                 PROVE  \E c \in book.periods :
                          /\ e.id = c.id /\ e.user = c.user /\ e.from = c.from
                          /\ e.to = c.to \/ EndSet(e)'
      BY DEF Follows, FromRow
    <3>1. PICK c \in book.periods : /\ e.id = c.id /\ e.user = c.user /\ e.from = c.from
                                    /\ e.to = IF c.id = id THEN to ELSE c.to
      BY <2>1, EndedRow DEF BooksInv
    <3>2. ASSUME c.id = id PROVE EndSet(e)'
      <4>1. c.user = request[r].new.user BY <1>2, <1>3, <3>2 DEF ClosesOwn, Named
      <4>2. request'[r].new.from = e.to + 1 BY <1>2, <1>3, <2>5, <3>1, <3>2 DEF Made, PeriodRow
      <4> QED BY <2>5, <3>1, <4>1, <4>2 DEF EndSet, Asking
    <3> QED BY <3>1, <3>2
  <2>9. RequestRow(request'[r]) BY <2>5 DEF RequestRow
  <2> QED BY <1>2, <2>2, <2>3, <2>4, <2>5, <2>6, <2>7, <2>8, <2>9, RewriteKeeps
<1>6. CASE ~no_overlap(with_end(id, to))
  BY <1>1, <1>2, <1>6, StepKeeps
<1> QED BY <1>5, <1>6

LEMMA InsertKeeps ==
  ASSUME BooksInv, NEW r \in CtcRequests, insert_cost_period(r)
  PROVE  BooksInv'
<1> DEFINE new == request[r].new
<1>1. request[r].step = "closing" /\ Asking(r) BY DEF insert_cost_period, Asking
<1>2. Made(r) BY DEF BooksInv
<1>3. CASE no_overlap(book.periods \cup {new})
  <2>1. PICK P : P = book.periods \cup {new} OBVIOUS
  <2>2. book' = with_periods(P) /\ request' = [request EXCEPT ![r].step = "over"]
    BY <1>3, <2>1 DEF insert_cost_period
  <2>3. Held(P) BY <1>1, <1>2, <2>1 DEF Held, BooksInv, Made
  <2>4. \A c \in book.periods : c.id # new.id BY <1>1, <1>2 DEF Made
  <2>5. PeriodsApart(P) BY <1>3, <2>1, <2>4 DEF PeriodsApart, BooksInv
  <2>6. /\ Remembers /\ DOMAIN request' = CtcRequests
        /\ \A q \in CtcRequests \ {r} : request'[q] = request[q]
        /\ request'[r] = [step |-> "over", new |-> request[r].new,
                          close |-> request[r].close, closed |-> request[r].closed]
    BY <1>1, <2>2, StepOf
  <2>7. RequestRow(request'[r]) BY <1>1, <1>2, <2>6 DEF Made, RequestRow
  <2>8. Follows(P)
    <3>1. new.id = r BY <1>1, <1>2 DEF Made
    <3> QED BY <1>1, <2>1, <2>6, <3>1 DEF Follows, FromRow, Inserted
  <2> QED BY <1>1, <2>2, <2>3, <2>5, <2>6, <2>7, <2>8, RewriteKeeps
<1>4. CASE ~no_overlap(book.periods \cup {new})
  <2>1. book' = book /\ request' = [request EXCEPT ![r].step = "refused"]
    BY <1>4 DEF insert_cost_period
  <2> QED BY <1>1, <2>1, StepKeeps
<1> QED BY <1>3, <1>4

LEMMA ReopenKeeps ==
  ASSUME BooksInv, NEW r \in CtcRequests, reopen_cost_period(r)
  PROVE  BooksInv'
<1> DEFINE after == UNION {with_end(id, 0) : id \in request[r].closed}
<1>1. request[r].step = "refused" /\ Asking(r) BY DEF reopen_cost_period, Asking
<1>2. Made(r) /\ request' = [request EXCEPT ![r].step = "over"]
  BY DEF BooksInv, reopen_cost_period
<1>3. CASE request[r].closed # {} /\ no_overlap(after)
  <2>1. PICK id \in request[r].closed : TRUE BY <1>3
  <2>2. request[r].closed = {id} BY <1>1, <1>2, <2>1 DEF Made, RequestRow
  <2>3. after = with_end(id, 0) BY <2>2
  <2>4. PICK P : P = Ended(book.periods, id, 0) OBVIOUS
  <2>5. after = P BY <2>3, <2>4, WithEnd
  <2>6. book' = with_periods(P) BY <1>3, <2>5 DEF reopen_cost_period
  <2>7. Held(P) /\ PeriodsApart(P)
    <3>1. no_overlap(Ended(book.periods, id, 0)) BY <1>3, <2>4, <2>5
    <3> HIDE DEF after
    <3> QED BY <2>4, <3>1, EndedHeld, EndedApart DEF BooksInv
  <2>8. /\ Remembers /\ DOMAIN request' = CtcRequests
        /\ \A q \in CtcRequests \ {r} : request'[q] = request[q]
        /\ request'[r] = [step |-> "over", new |-> request[r].new,
                          close |-> request[r].close, closed |-> request[r].closed]
    BY <1>1, <1>2, StepOf
  <2>9. RequestRow(request'[r]) BY <1>1, <1>2, <2>8 DEF Made, RequestRow
  <2>10. Follows(P)
    <3> SUFFICES ASSUME NEW e \in P
                 PROVE  \E c \in book.periods :
                          /\ e.id = c.id /\ e.user = c.user /\ e.from = c.from
                          /\ e.to = c.to \/ EndSet(e)'
      BY DEF Follows, FromRow
    <3>1. PICK c \in book.periods : /\ e.id = c.id /\ e.user = c.user /\ e.from = c.from
                                    /\ e.to = IF c.id = id THEN 0 ELSE c.to
      BY <2>4, EndedRow DEF BooksInv
    <3>2. e.to = c.to \/ EndSet(e)' BY <3>1 DEF EndSet
    <3> QED BY <3>1, <3>2
  <2> QED BY <1>1, <2>6, <2>7, <2>8, <2>9, <2>10, RewriteKeeps
<1>4. CASE ~(request[r].closed # {} /\ no_overlap(after))
  <2>1. book' = book BY <1>4 DEF reopen_cost_period
  <2> QED BY <1>1, <1>2, <2>1, StepKeeps
<1> QED BY <1>3, <1>4

LEMMA CutKeeps ==
  ASSUME BooksInv, NEW r \in CtcRequests, cut_short(r)
  PROVE  BooksInv'
<1>1. Asking(r) /\ book' = book /\ request' = [request EXCEPT ![r].step = "over"]
  BY DEF cut_short, Asking
<1> QED BY <1>1, StepKeeps

(* Taking a period away, and everything else, leaves the requests alone.      *)
LEMMA FewerKeeps ==
  ASSUME BooksInv, book'.periods \subseteq book.periods, UNCHANGED request,
         {"periods", "holidays"} \subseteq DOMAIN book'
  PROVE  BooksInv'
<1>1. ASSUME NEW r \in CtcRequests PROVE Made(r)' /\ ClosesOwn(r)'
  <2>1. Made(r) /\ ClosesOwn(r) BY DEF BooksInv
  <2>2. Made(r)' BY <2>1 DEF Made, Asking
  <2>3. ClosesOwn(r)' BY <2>1 DEF ClosesOwn, Named, EndSet, Asking
  <2> QED BY <2>2, <2>3
<1>2. (Held(book.periods) /\ PeriodsApart(book.periods))'
  BY DEF BooksInv, Held, PeriodsApart, no_overlap
<1> QED BY <1>1, <1>2 DEF BooksInv

LEMMA RemoveKeeps ==
  ASSUME BooksInv, remove_ctc
  PROVE  BooksInv'
<1>1. PICK c \in book.periods : book' = with_periods(book.periods \ {c}) BY DEF remove_ctc
<1>2. Written(book.periods \ {c}) BY <1>1, WithPeriods
<1> QED BY <1>2, FewerKeeps DEF Written, remove_ctc, BooksInv

LEMMA BooksStep ==
  ASSUME BooksInv, CtcAssumption, BooksNext
  PROVE  BooksInv'
<1>1. CASE OtherStep
  <2>1. Elsewhere /\ UNCHANGED request BY <1>1, OthersElsewhere DEF BooksInv
  <2> QED BY <2>1, FewerKeeps DEF Elsewhere, BooksInv
<1>2. CASE remove_ctc BY <1>2, RemoveKeeps
<1>3. CASE \E r \in CtcRequests : \/ add_ctc(r) \/ close_cost_period(r) \/ insert_cost_period(r)
                                  \/ reopen_cost_period(r) \/ cut_short(r)
  BY <1>3, AddKeeps, CloseKeeps, InsertKeeps, ReopenKeeps, CutKeeps
<1> QED BY <1>1, <1>2, <1>3 DEF BooksNext, OtherStep

(* The requests that overlap never leave two periods of a person on a day,    *)
(* and every end that stands was set by a request that starts the day after,  *)
(* whatever was refused, cut off or opened again (services/financials.py      *)
(* add_ctc; migration 008's exclusion constraint).                            *)
THEOREM BooksInvariant ==
  ASSUME NEW b, BookStands(b)
  PROVE  BooksSpec(b) => []BooksInv
<1>1. BooksStart(b) => BooksInv
  <2> SUFFICES ASSUME BooksStart(b) PROVE BooksInv OBVIOUS
  <2>1. book = b /\ request = [r \in CtcRequests |-> [step |-> "idle"]] BY DEF BooksStart
  <2>2. ASSUME NEW r \in CtcRequests PROVE Made(r) /\ ClosesOwn(r)
    <3>1. request[r].step = "idle" BY <2>1
    <3> QED BY <2>1, <3>1 DEF Made, ClosesOwn, Asking, BookStands
  <2> QED BY <2>1, <2>2 DEF BooksInv, BookStands
<1>2. BooksInv /\ [BooksNext]_bookVars => BooksInv'
  <2> SUFFICES ASSUME BooksInv, [BooksNext]_bookVars PROVE BooksInv' OBVIOUS
  <2>1. CASE BooksNext BY <2>1, BooksStep, CtcAssumption
  <2>2. CASE UNCHANGED bookVars BY <2>2, FewerKeeps DEF bookVars, BooksInv
  <2> QED BY <2>1, <2>2
<1> QED BY <1>1, <1>2, PTL DEF BooksSpec

-----------------------------------------------------------------------------
(* Which days a step prices anew *)

LEMMA CoveredBy ==
  ASSUME NEW b, NEW u, NEW d
  PROVE  period_on(b, u, d) = {c \in b.periods : Covers(c, u, d)}
BY DEF period_on, Covers

LEMMA SamePrice ==
  ASSUME NEW u, NEW d, book'.periods = book.periods, book'.holidays = book.holidays
  PROVE  daily(book', u, d) = daily(book, u, d)
BY DEF daily, month_working_days, holidays_between, period_on

(* An update prices a day anew only if it moves the end of a period of the    *)
(* person past that day.                                                      *)
LEMMA EndPrices ==
  ASSUME BooksInv, NEW id, NEW to \in Nat, NEW P, P = Ended(book.periods, id, to),
         Held(P), PeriodsApart(P), book' = with_periods(P),
         NEW u, NEW d \in Int, daily(book', u, d) # daily(book, u, d)
  PROVE  \E c \in book.periods :
           /\ c.id = id /\ c.user = u /\ c.from <= d
           /\ \/ (c.to = 0 \/ d <= c.to) /\ ~(to = 0 \/ d <= to)
              \/ ~(c.to = 0 \/ d <= c.to) /\ (to = 0 \/ d <= to)
<1> SUFFICES ASSUME \A c \in book.periods :
                      /\ c.id = id /\ c.user = u /\ c.from <= d
                      => ((c.to = 0 \/ d <= c.to) <=> (to = 0 \/ d <= to))
             PROVE  FALSE
  OBVIOUS
<1>1. Written(P) BY WithPeriods
<1>2. ASSUME NEW c \in book.periods, NEW e \in P,
             e = IF c.id = id THEN [c EXCEPT !.to = to] ELSE c
      PROVE  Covers(c, u, d) <=> Covers(e, u, d)
  <2>1. PeriodRow(c) BY DEF BooksInv, Held
  <2> QED BY <1>2, <2>1 DEF Covers, PeriodRow
<1>3. \A e \in P : \E c \in book.periods : /\ e.annual_ctc = c.annual_ctc
                                           /\ Covers(c, u, d) <=> Covers(e, u, d)
  BY <1>2, EndedRow DEF BooksInv
<1>4. \A c \in book.periods : \E e \in P : Covers(c, u, d) <=> Covers(e, u, d)
  <2> SUFFICES ASSUME NEW c \in book.periods
               PROVE  \E e \in P : Covers(c, u, d) <=> Covers(e, u, d)
    OBVIOUS
  <2>1. PICK e : e = IF c.id = id THEN [c EXCEPT !.to = to] ELSE c OBVIOUS
  <2>2. e \in P BY <2>1 DEF Ended
  <2> QED BY <1>2, <2>1, <2>2
<1>5. period_on(book, u, d) = {} <=> period_on(book', u, d) = {}
  BY <1>1, <1>3, <1>4, CoveredBy DEF Written
<1>6. ASSUME NEW c \in period_on(book, u, d), NEW e \in period_on(book', u, d)
      PROVE  c.annual_ctc = e.annual_ctc
  <2>1. c \in book.periods /\ Covers(c, u, d) BY CoveredBy
  <2>2. e \in P /\ Covers(e, u, d) BY <1>1, CoveredBy DEF Written
  <2>3. PICK x \in book.periods : e.annual_ctc = x.annual_ctc /\ Covers(x, u, d)
    BY <1>3, <2>2
  <2>4. x = c BY <2>1, <2>3, OneCovers DEF BooksInv
  <2> QED BY <2>3, <2>4
<1> QED BY <1>1, <1>5, <1>6, PricedAlike DEF Written

(* A period that is written or taken away prices its own days.                *)
LEMMA RowPrices ==
  ASSUME BooksInv, NEW P, NEW c, Written(P), NEW u, NEW d,
         \/ P = book.periods \cup {c}
         \/ P = book.periods \ {c},
         daily(book', u, d) # daily(book, u, d)
  PROVE  Covers(c, u, d)
<1> SUFFICES ASSUME ~Covers(c, u, d) PROVE FALSE OBVIOUS
<1>1. period_on(book', u, d) = period_on(book, u, d)
  BY CoveredBy DEF Written
<1>2. month_working_days(book', d) = month_working_days(book, d)
  BY DEF month_working_days, holidays_between, Written
<1> QED BY <1>1, <1>2 DEF daily

AsksFrom(u, d) ==
  \E r \in CtcRequests : Asking(r) /\ request[r].new.user = u /\ request[r].new.from <= d

LEMMA EndAskedFor ==
  ASSUME BooksInv, NEW u, NEW d \in Int, NEW c \in book.periods, EndSet(c), c.user = u,
         ~(c.to = 0 \/ d <= c.to)
  PROVE  AsksFrom(u, d)
<1>1. c.to \in Nat BY DEF BooksInv, Held, PeriodRow
<1>2. PICK r \in CtcRequests : /\ Asking(r) /\ request[r].new.user = u
                               /\ request[r].new.from = c.to + 1
  BY DEF EndSet
<1> QED BY <1>1, <1>2 DEF AsksFrom

TakenAway(u, d) ==
  \E c \in book.periods \ book.periods' :
    /\ c.user = u /\ c.from <= d /\ (c.to = 0 \/ d <= c.to)
    /\ \A e \in book.periods' : e.id # c.id

LEMMA PricedAnew ==
  ASSUME BooksInv, CtcAssumption, BooksNext, NEW u, NEW d \in Int,
         daily(book', u, d) # daily(book, u, d)
  PROVE  TakenAway(u, d) \/ AsksFrom(u, d)
<1>1. CASE OtherStep
  BY <1>1, OthersElsewhere, SamePrice DEF Elsewhere, BooksInv
<1>2. CASE remove_ctc
  <2>1. PICK c \in book.periods : book' = with_periods(book.periods \ {c})
    BY <1>2 DEF remove_ctc
  <2>2. Written(book.periods \ {c}) BY <2>1, WithPeriods
  <2>3. Covers(c, u, d) BY <2>2, RowPrices
  <2>4. \A e \in book'.periods : e.id # c.id
    BY <2>2 DEF Written, BooksInv, PeriodsApart
  <2> QED BY <2>2, <2>3, <2>4 DEF TakenAway, Covers, Written
<1>3. ASSUME NEW r \in CtcRequests, add_ctc(r) \/ cut_short(r) PROVE FALSE
  BY <1>3, SamePrice DEF add_ctc, cut_short
<1>4. ASSUME NEW r \in CtcRequests, insert_cost_period(r) PROVE AsksFrom(u, d)
  <2> DEFINE P == book.periods \cup {request[r].new}
  <2>1. book' = with_periods(P) \/ book' = book BY <1>4 DEF insert_cost_period
  <2>2. book' # book BY SamePrice
  <2>3. Written(P) BY <2>1, <2>2, WithPeriods
  <2>4. Covers(request[r].new, u, d) BY <2>3, RowPrices
  <2> QED BY <1>4, <2>4 DEF AsksFrom, Covers, Asking, insert_cost_period
<1>5. ASSUME NEW r \in CtcRequests, close_cost_period(r) PROVE AsksFrom(u, d)
  <2>0. PICK to : to = request[r].new.from - 1 OBVIOUS
  <2>1. PICK id \in request[r].close :
          \/ book' = with_periods(with_end(id, to)) /\ no_overlap(with_end(id, to))
          \/ book' = book
    BY <1>5, <2>0 DEF close_cost_period
  <2>2. request[r].step = "closing" /\ Asking(r) /\ Made(r) /\ ClosesOwn(r)
    BY <1>5 DEF close_cost_period, Asking, BooksInv
  <2>3. to \in Nat BY <2>0, <2>2 DEF Made, PeriodRow
  <2>4. PICK P : P = Ended(book.periods, id, to) OBVIOUS
  <2>5. book' # book BY SamePrice
  <2>6. Held(P) /\ PeriodsApart(P) /\ book' = with_periods(P)
    BY <2>1, <2>3, <2>4, <2>5, EndedHeld, EndedApart, WithEnd DEF BooksInv
  <2>7. PICK c \in book.periods :
          /\ c.id = id /\ c.user = u /\ c.from <= d
          /\ \/ (c.to = 0 \/ d <= c.to) /\ ~(to = 0 \/ d <= to)
             \/ ~(c.to = 0 \/ d <= c.to) /\ (to = 0 \/ d <= to)
    BY <2>3, <2>4, <2>6, EndPrices
  <2>8. c.user = request[r].new.user /\ EndSet(c)
    BY <2>2, <2>7 DEF ClosesOwn, Named
  <2>9. CASE ~(c.to = 0 \/ d <= c.to) BY <2>7, <2>8, <2>9, EndAskedFor
  <2>10. CASE ~(to = 0 \/ d <= to)
    <3>1. request[r].new.from <= d BY <2>0, <2>2, <2>7, <2>10 DEF Made, PeriodRow
    <3> QED BY <2>2, <2>7, <2>8, <3>1 DEF AsksFrom
  <2> QED BY <2>7, <2>9, <2>10
<1>6. ASSUME NEW r \in CtcRequests, reopen_cost_period(r) PROVE AsksFrom(u, d)
  <2> DEFINE after == UNION {with_end(id, 0) : id \in request[r].closed}
  <2>1. book' # book BY SamePrice
  <2>2. request[r].closed # {} /\ no_overlap(after) /\ book' = with_periods(after)
    BY <1>6, <2>1 DEF reopen_cost_period
  <2>3. request[r].step = "refused" /\ Asking(r) /\ Made(r) /\ ClosesOwn(r)
    BY <1>6 DEF reopen_cost_period, Asking, BooksInv
  <2>4. PICK id \in request[r].closed : TRUE BY <2>2
  <2>5. request[r].closed = {id} BY <2>3, <2>4 DEF Made, RequestRow
  <2>6. PICK P : P = Ended(book.periods, id, 0) OBVIOUS
  <2>7. after = P BY <2>5, <2>6, WithEnd
  <2>8. no_overlap(Ended(book.periods, id, 0)) /\ book' = with_periods(P)
    BY <2>2, <2>6, <2>7
  <2> HIDE DEF after
  <2>9. Held(P) /\ PeriodsApart(P)
    BY <2>6, <2>8, EndedHeld, EndedApart DEF BooksInv
  <2>10. PICK c \in book.periods :
           /\ c.id = id /\ c.user = u /\ c.from <= d
           /\ \/ (c.to = 0 \/ d <= c.to) /\ ~(0 = 0 \/ d <= 0)
              \/ ~(c.to = 0 \/ d <= c.to) /\ (0 = 0 \/ d <= 0)
    BY <2>6, <2>8, <2>9, EndPrices
  <2>11. EndSet(c) BY <2>3, <2>10 DEF ClosesOwn, Named
  <2> QED BY <2>10, <2>11, EndAskedFor
<1> QED BY <1>1, <1>2, <1>3, <1>4, <1>5, <1>6 DEF BooksNext, OtherStep

(* A new CTC prices the days from its start on and none before it, however    *)
(* CTC requests overlap, are refused, cut off or open a period again: a day's *)
(* cost changes only by taking its period away or where a request has asked.  *)
THEOREM NewFiguresPriceTheirDays ==
  ASSUME NEW b, BookStands(b)
  PROVE  BooksSpec(b) => PastFiguresStand
<1>1. BooksInv /\ [BooksNext]_bookVars => [PricedAsAsked]_bookVars
  <2> SUFFICES ASSUME BooksInv, BooksNext, NEW u \in People(book), NEW d \in AllSpan,
                      daily(book, u, d) # daily(book, u, d)'
               PROVE  \/ \E c \in book.periods \ book.periods' :
                           /\ c.user = u /\ d \in paid_days(c, AllSpan)
                           /\ \A e \in book.periods' : e.id # c.id
                      \/ \E r \in CtcRequests :
                           /\ request[r].step \in {"closing", "refused", "over"}
                           /\ request[r].new.user = u /\ request[r].new.from <= d
    BY DEF PricedAsAsked
  <2>1. d \in Int BY DEF AllSpan, month_bounds
  <2>2. daily(book', u, d) # daily(book, u, d) OBVIOUS
  <2>3. TakenAway(u, d) \/ AsksFrom(u, d) BY <2>1, <2>2, CtcAssumption, PricedAnew
  <2> QED BY <2>3 DEF TakenAway, AsksFrom, Asking, paid_days
<1>2. BooksSpec(b) => []BooksInv BY BooksInvariant
<1> QED BY <1>1, <1>2, PTL DEF BooksSpec, PastFiguresStand
=============================================================================
