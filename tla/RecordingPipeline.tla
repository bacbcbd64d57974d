-------------------------- MODULE RecordingPipeline --------------------------
(***************************************************************************)
(* What happens to the recording of one call: Connect stores it under a    *)
(* key of its own, RecordingRelocator renames it after the Response row,   *)
(* TranscribeStarter starts the transcription, and KeywordMatcher          *)
(* classifies the transcript onto the row.  Each is started by an S3       *)
(* event, in its own time and unaware of the cycle's status.               *)
(***************************************************************************)
EXTENDS CycleData

RecAt(e, a, stage) == rec[e][a].stage = stage

Move(e, a, stage) == rec' = [rec EXCEPT ![e][a].stage = stage]

(* An early hang-up leaves a recording as well.                              *)
RecordingStored(e, a) ==
  /\ RecAt(e, a, "none")
  /\ call[e][a] \in {"ending", "coded", "over", "dropped"}
  /\ Move(e, a, "raw")
  /\ UNCHANGED <<cycle, exec, targets, iter, dispatcher, row, call, fin, sent, rules>>

-----------------------------------------------------------------------------

(* The row is found by contactId and the new key takes its callAttempts.     *)
Relocate(e, a) ==
  /\ RecAt(e, a, "raw")
  /\ row[e].contact = a
  /\ rec' = [rec EXCEPT ![e][a].stage = "stored",
                        ![e][a].seq = row[e].callAttempts]
  /\ UNCHANGED <<cycle, exec, targets, iter, dispatcher, row, call, fin, sent, rules>>

(* A later dispatch has replaced the contactId, or none was ever written:    *)
(* the lookup finds nothing and the recording stays where Connect put it.    *)
RelocateMisses(e, a) ==
  /\ RecAt(e, a, "raw")
  /\ row[e].contact # a
  /\ dispatcher[e] = "idle"
  /\ Move(e, a, "lost")
  /\ UNCHANGED <<cycle, exec, targets, iter, dispatcher, row, call, fin, sent, rules>>

-----------------------------------------------------------------------------

(* The job's name is the recording's key: a second job of that name is a     *)
(* ConflictException, taken for success, and yields no transcript.           *)
JobExists(e, s) ==
  \E b \in Attempts : rec[e][b].seq = s /\ rec[e][b].heard # "none"

(* Starts the job and, later, its transcript appears.                        *)
StartTranscribeJob(e, a) ==
  /\ RecAt(e, a, "stored")
  /\ \E h \in Heard :
       rec' = [rec EXCEPT ![e][a] =
                 IF JobExists(e, @.seq)
                 THEN [@ EXCEPT !.stage = "lost"]
                 ELSE [@ EXCEPT !.stage = "transcript", !.heard = h]]
  /\ UNCHANGED <<cycle, exec, targets, iter, dispatcher, row, call, fin, sent, rules>>

TranscribeFails(e, a) ==
  /\ RecAt(e, a, "stored")
  /\ "pipeline" \in Disturbances
  /\ Move(e, a, "lost")
  /\ row' = IF row[e].callResultCode = "RECORDED"
            THEN [row EXCEPT ![e].callResultCode = "TRANSCRIBE_FAILED"]
            ELSE row
  /\ UNCHANGED <<cycle, exec, targets, iter, dispatcher, call, fin, sent, rules>>

-----------------------------------------------------------------------------

(* Classify and write, whatever the row or the cycle says by then.  S3       *)
(* events are delivered at least once.                                       *)
MatchKeywords(e, a) ==
  /\ \/ RecAt(e, a, "transcript")
     \/ RecAt(e, a, "matched") /\ "redelivery" \in Disturbances
  /\ row' = [row EXCEPT ![e].voiceStatus = rec[e][a].heard, ![e].excerpt = a]
  /\ Move(e, a, "matched")
  /\ UNCHANGED <<cycle, exec, targets, iter, dispatcher, call, fin, sent, rules>>

(* Retries exhausted: OTHER, the excerpt untouched.                          *)
RecordOtherFallback(e, a) ==
  /\ RecAt(e, a, "transcript")
  /\ "pipeline" \in Disturbances
  /\ SetVoiceStatus(e, "OTHER")
  /\ Move(e, a, "lost")
  /\ UNCHANGED <<cycle, exec, targets, iter, dispatcher, call, fin, sent, rules>>

PipelineStep(e, a) ==
  \/ RecordingStored(e, a)
  \/ Relocate(e, a) \/ RelocateMisses(e, a)
  \/ StartTranscribeJob(e, a) \/ TranscribeFails(e, a)
  \/ MatchKeywords(e, a) \/ RecordOtherFallback(e, a)

=============================================================================
