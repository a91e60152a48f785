------------------------------- MODULE VoiceNotes -------------------------------
(***************************************************************************)
(* One voice note of My Tasks, from its upload to its erasure: the audio   *)
(* in the storage bucket, the row voice_uploads, the worker that           *)
(* transcribes, the requests that confirm or drop a candidate, and the     *)
(* sweep that runs every half hour.  Every line that calls the database or *)
(* the bucket is a step; the row is locked only within one statement.      *)
(***************************************************************************)
EXTENDS Integers, FiniteSets, TLC

CONSTANTS
  Candidates,        \* what the transcript is split into
  Requests,          \* confirmations and drops that may be in flight at once
  MaxFaults          \* bound: processes killed and calls that fail

VARIABLES
  note,              \* the row of voice_uploads
  audio,             \* the bucket holds the recording
  uploading,         \* how far the upload has come
  old,               \* the note is older than KEEP, 23 and a half hours
  worker,            \* how far tasks.transcribe_voice has come
  sweeper,           \* how far tasks.voice_sweep has come, and what it read
  requests,          \* the requests, and what they are about to do
  saved,             \* tasks or inbox items written for a candidate
  written_late,      \* history: writes for a candidate that ended in an error
  dropped, cut_off,  \* history: candidates dropped, and those whose request was killed
  faults

voiceVars == <<note, audio, uploading, old, worker, sweeper, requests, saved,
               written_late, dropped, cut_off, faults>>
peopleVars == <<requests, saved, written_late, dropped, cut_off>>

NoRequest == [step |-> "idle"]
NoCandidates == [c \in {} |-> FALSE]
NoNote == [status |-> "none", path |-> FALSE, transcript |-> FALSE, candidates |-> NoCandidates]
Heard == [c \in Candidates |-> [text |-> TRUE, handled |-> FALSE]]
WithoutText(cands) == [c \in DOMAIN cands |-> [cands[c] EXCEPT !.text = FALSE]]
Asleep == [step |-> "idle", status |-> "none", path |-> FALSE, candidates |-> NoCandidates]

VoiceInit ==
  /\ note = NoNote /\ audio = FALSE /\ uploading = "insert" /\ old = FALSE
  /\ worker = "idle" /\ sweeper = Asleep
  /\ requests = [r \in Requests |-> NoRequest]
  /\ saved = [c \in Candidates |-> 0] /\ written_late = [c \in Candidates |-> 0]
  /\ dropped = {} /\ cut_off = {} /\ faults = 0

-----------------------------------------------------------------------------
(* The upload: the row first, then the recording, then the job. *)

upload ==
  /\ \/ /\ uploading = "insert"
        /\ note' = [NoNote EXCEPT !.status = "uploaded", !.path = TRUE]
        /\ uploading' = "put" /\ UNCHANGED <<audio, worker>>
     \/ /\ uploading = "put" /\ audio' = TRUE
        /\ uploading' = "enqueue" /\ UNCHANGED <<note, worker>>
     \/ /\ uploading = "enqueue" /\ worker' = "read"
        /\ uploading' = "over" /\ UNCHANGED <<note, audio>>
  /\ UNCHANGED <<old, sweeper, peopleVars, faults>>

(* The request is cut off, or the job is lost on its way to the broker. *)
upload_fails ==
  /\ uploading \in {"put", "enqueue"} /\ faults < MaxFaults
  /\ faults' = faults + 1
  /\ uploading' = "over"
  /\ UNCHANGED <<note, audio, old, worker, sweeper, peopleVars>>

(* An upload is over, one way or the other, long before KEEP. *)
grow_old ==
  /\ uploading = "over" /\ ~old
  /\ old' = TRUE
  /\ UNCHANGED <<note, audio, uploading, worker, sweeper, peopleVars, faults>>

-----------------------------------------------------------------------------
(* transcribe: the statements in the order they run *)

Worker(from, to) == worker = from /\ worker' = to
WorkerLeaves == UNCHANGED <<uploading, old, sweeper, peopleVars>>

transcribe_read ==
  /\ worker = "read"
  /\ worker' = IF note.status = "uploaded" /\ note.path THEN "mark" ELSE "idle"
  /\ UNCHANGED <<note, audio, faults>> /\ WorkerLeaves

transcribe_mark ==
  /\ Worker("mark", "hear")
  /\ note' = [note EXCEPT !.status = "transcribing"]
  /\ UNCHANGED <<audio, faults>> /\ WorkerLeaves

(* Speech is heard only where there is a recording to fetch. *)
transcribe_write ==
  /\ \/ audio /\ Worker("hear", "heard") /\ UNCHANGED note
     \/ Worker("hear", "delete") /\ note' = [note EXCEPT !.status = "failed"]
     \/ /\ Worker("heard", "delete")
        /\ note' = [note EXCEPT !.status = "transcribed", !.transcript = TRUE,
                                !.candidates = Heard]
  /\ UNCHANGED <<audio, faults>> /\ WorkerLeaves

transcribe_end ==
  /\ \/ Worker("delete", "clear") /\ audio' = FALSE /\ UNCHANGED note
     \/ Worker("clear", "idle") /\ note' = [note EXCEPT !.path = FALSE] /\ UNCHANGED audio
  /\ UNCHANGED faults /\ WorkerLeaves

(* The worker is killed, or a statement of the `finally` fails: the broker *)
(* has its acknowledgement and does not deliver the job again.             *)
transcribe_dies ==
  /\ worker # "idle" /\ faults < MaxFaults
  /\ faults' = faults + 1 /\ worker' = "idle"
  /\ UNCHANGED <<note, audio>> /\ WorkerLeaves

-----------------------------------------------------------------------------
(* sweep: every half hour, from the rows it reads first *)

(* Mutant: only notes that still have audio are read. *)
ExpiredByAudio == old /\ note.path

expired_uploads == old /\ (note.transcript \/ note.path)

SweepLeaves == UNCHANGED <<uploading, old, worker, peopleVars>>

sweep ==
  /\ \/ /\ sweeper.step = "idle" /\ expired_uploads
        /\ sweeper' = [step |-> "delete", status |-> note.status, path |-> note.path,
                       candidates |-> note.candidates]
        /\ UNCHANGED <<note, audio>>
     \/ /\ sweeper.step = "delete"
        /\ audio' = (audio /\ ~sweeper.path)
        /\ sweeper' = [sweeper EXCEPT !.step = "update"]
        /\ UNCHANGED note
     \/ /\ sweeper.step = "update"
        /\ note' = [path |-> FALSE, transcript |-> FALSE,
                    candidates |-> WithoutText(sweeper.candidates),
                    status |-> CASE sweeper.status \in {"uploaded", "transcribing"} -> "failed"
                                 [] sweeper.status = "transcribed" -> "done"
                                 [] OTHER -> note.status]
        /\ sweeper' = Asleep
        /\ UNCHANGED audio
  /\ UNCHANGED faults /\ SweepLeaves

sweep_dies ==
  /\ sweeper.step # "idle" /\ faults < MaxFaults
  /\ faults' = faults + 1 /\ sweeper' = Asleep
  /\ UNCHANGED <<note, audio>> /\ SweepLeaves

-----------------------------------------------------------------------------
(* The two database functions of migration 054, each one statement *)

MarkAlways(c, handled) ==
  /\ note.status = "transcribed" /\ note.transcript
  /\ c \in DOMAIN note.candidates /\ note.candidates[c].text

voice_candidate_mark(c, handled) ==
  /\ note.status = "transcribed" /\ note.transcript
  /\ c \in DOMAIN note.candidates
  /\ note.candidates[c].handled = ~handled /\ note.candidates[c].text

Marked(c, handled) == [note EXCEPT !.candidates[c].handled = handled]

voice_upload_finish ==
  IF note.status = "transcribed" /\ \A c \in DOMAIN note.candidates : note.candidates[c].handled
  THEN [note EXCEPT !.status = "done", !.transcript = FALSE,
                    !.candidates = WithoutText(note.candidates)]
  ELSE note

(* confirm and drop *)

Goes(r, step) == requests' = [requests EXCEPT ![r].step = step]
Ends(r) == requests' = [requests EXCEPT ![r] = NoRequest]
RequestLeaves == UNCHANGED <<audio, uploading, old, worker, sweeper>>

_candidate(r, c, what) ==
  /\ requests[r] = NoRequest
  /\ note.status \notin {"none", "uploaded", "transcribing"}
  /\ c \in DOMAIN note.candidates
  /\ note.candidates[c].text /\ ~note.candidates[c].handled
  /\ requests' = [requests EXCEPT ![r] = [step |-> "claim", what |-> what, c |-> c]]
  /\ UNCHANGED <<note, saved, written_late, dropped, cut_off, faults>> /\ RequestLeaves

_claim(r) ==
  LET c == requests[r].c
      dropping == requests[r].what = "drop"
  IN /\ requests[r].step = "claim"
     /\ \/ /\ voice_candidate_mark(c, TRUE)
           /\ note' = Marked(c, TRUE)
           /\ Goes(r, IF dropping THEN "finish" ELSE "save")
           /\ dropped' = IF dropping THEN dropped \cup {c} ELSE dropped
        \/ /\ ~voice_candidate_mark(c, TRUE)
           /\ Ends(r) /\ UNCHANGED <<note, dropped>>
     /\ UNCHANGED <<saved, written_late, cut_off, faults>> /\ RequestLeaves

(* Mutant: an error is passed on and the claim kept. *)
AfterRefusalNothing(r) == Ends(r)

AfterRefusal(r) == Goes(r, "release")

(* create_task and inbox.add write first and answer later: what fails *)
(* after the write leaves the task behind.                            *)
save(r) ==
  LET c == requests[r].c
  IN /\ requests[r].step = "save"
     /\ \/ /\ saved' = [saved EXCEPT ![c] = @ + 1]
           /\ Goes(r, "finish") /\ UNCHANGED <<written_late, faults>>
        \/ /\ UNCHANGED <<saved, written_late, faults>>
           /\ AfterRefusal(r)
        \/ /\ faults < MaxFaults /\ faults' = faults + 1
           /\ saved' = [saved EXCEPT ![c] = @ + 1]
           /\ written_late' = [written_late EXCEPT ![c] = @ + 1]
           /\ Goes(r, "release")
     /\ UNCHANGED <<note, dropped, cut_off>> /\ RequestLeaves

release(r) ==
  LET c == requests[r].c
  IN /\ requests[r].step = "release"
     /\ note' = IF voice_candidate_mark(c, FALSE) THEN Marked(c, FALSE) ELSE note
     /\ Ends(r)
     /\ UNCHANGED <<saved, written_late, dropped, cut_off, faults>> /\ RequestLeaves

_finish(r) ==
  /\ requests[r].step = "finish"
  /\ note' = voice_upload_finish
  /\ Ends(r)
  /\ UNCHANGED <<saved, written_late, dropped, cut_off, faults>> /\ RequestLeaves

request_dies(r) ==
  /\ requests[r] # NoRequest /\ faults < MaxFaults
  /\ faults' = faults + 1
  /\ cut_off' = cut_off \cup {requests[r].c}
  /\ Ends(r)
  /\ UNCHANGED <<note, saved, written_late, dropped>> /\ RequestLeaves

-----------------------------------------------------------------------------
Requested(r) ==
  \/ \E c \in Candidates, what \in {"confirm", "drop"} : _candidate(r, c, what)
  \/ _claim(r)
  \/ save(r)
  \/ release(r)
  \/ _finish(r)
  \/ request_dies(r)

VoiceNext ==
  \/ upload \/ upload_fails \/ grow_old
  \/ transcribe_read \/ transcribe_mark \/ transcribe_write \/ transcribe_end
  \/ transcribe_dies
  \/ sweep \/ sweep_dies
  \/ \E r \in Requests : Requested(r)

(* An upload ends, time passes, and the beat starts a sweep every half hour; *)
(* nothing else is sure to go on.                                            *)
VoiceFairness == WF_voiceVars(upload) /\ WF_voiceVars(grow_old) /\ WF_voiceVars(sweep)

VoiceSpec == VoiceInit /\ [][VoiceNext]_voiceVars /\ VoiceFairness

-----------------------------------------------------------------------------
(* Correctness *)

(* FR-TASK-VOICE-04: however requests for one candidate overlap, it is saved *)
(* once more only after a save that wrote and then ended in an error.        *)
SavedOnce == \A c \in Candidates : saved[c] <= 1 + written_late[c]

(* FR-TASK-VOICE-04: a save that is refused gives its candidate back: while  *)
(* the note is open, a candidate counts as handled only if it was saved or   *)
(* dropped, is being saved, or its request was killed.                       *)
GivenBack ==
  \A c \in DOMAIN note.candidates :
    /\ note.status = "transcribed"
    /\ note.candidates[c].handled /\ saved[c] = 0
    /\ c \notin dropped \cup cut_off
    => \E r \in Requests : requests[r] # NoRequest /\ requests[r].c = c

(* FR-TASK-VOICE-02: a recording is never left in the bucket without a row  *)
(* that tells the sweep of it, wherever the worker or the sweep is killed.  *)
AudioFound == audio => note.path

(* FR-TASK-VOICE-02, -05: in the end the recording, the transcript and the  *)
(* candidates' words are gone for good, whoever was killed on the way and   *)
(* whatever the worker wrote behind the sweep's back.                       *)
Erased ==
  <>[](~audio /\ ~note.transcript
       /\ \A c \in DOMAIN note.candidates : ~note.candidates[c].text)

(* Both for a candidate: it is saved once, and none goes missing unsaved.   *)
SavedOnceOrGivenBack == SavedOnce /\ GivenBack

(* Both for a recording: it can always be found, and in the end it is gone. *)
RecordingsErased == []AudioFound /\ Erased
=============================================================================
