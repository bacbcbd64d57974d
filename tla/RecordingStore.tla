--------------------------- MODULE RecordingStore ---------------------------
(***************************************************************************)
(* The recordings of one employee in one cycle, as objects of the          *)
(* recordings bucket and rows of the two metadata tables:                  *)
(* lambdas/connect_dispatcher (what names a recording),                    *)
(* lambdas/recording_relocator (the rename), recording_metadata_writer,    *)
(* transcribe_starter and recording_api.                                   *)
(*                                                                         *)
(* RecordingPipeline follows the same recording to the Response row and    *)
(* takes each Lambda for one step.  Here a rename is a copy and a delete,  *)
(* the GSI lags, every event may be delivered again, and a Lambda may end  *)
(* between two accesses and be invoked anew.  The contact of an attempt is *)
(* the attempt; a recording is known by its contact.                       *)
(***************************************************************************)
EXTENDS Naturals

CONSTANTS
  MaxAttempts,  \* dispatches of the employee
  Deliveries    \* invocations of the relocator for one S3 event

ASSUME MaxAttemptsAssumption == MaxAttempts \in Nat

VARIABLES
  mock,           \* MOCK_MODE: set when the stack is deployed
  attempt,        \* the attempt last dispatched
  dispatcher,     \* the ConnectDispatcher invocation
  contactId,      \* of the Response row; 0: none yet
  callAttempts,   \* of the Response row
  call,           \* per contact: its call
  index,          \* per contact: callAttempts in ContactIdIndex; 0: no entry
  raw,            \* the recordings under connect-raw/
  store,          \* per seq: the recording in recordings/.../{seq}.wav; 0: none
  relocator,      \* per contact and delivery: the RecordingRelocator invocation
  target,         \* the seq that invocation found
  metaEvents,     \* <<seq, recording>>: events RecordingMetadataWriter has to handle
  meta,           \* per seq: the recording its RecordingMeta row describes
  dlq,            \* RecordingMetadataWriterDLQ
  starter,        \* <<seq, state>>: TranscribeStarter invocations
  job,            \* per seq: the recording its transcription is made of
  transcriptMeta  \* the seqs that have a TranscriptMeta row

dispatchVars == <<mock, attempt, dispatcher, contactId, callAttempts, call>>
bucketVars == <<raw, store, relocator, target>>
metaVars == <<metaEvents, meta, dlq>>
starterVars == <<starter, job, transcriptMeta>>
storeVars == <<dispatchVars, index, bucketVars, metaVars, starterVars>>

Contacts == 1..MaxAttempts
Seqs == 1..MaxAttempts

Init ==
  /\ mock \in BOOLEAN
  /\ attempt = 0
  /\ dispatcher = "idle"
  /\ contactId = 0
  /\ callAttempts = 0
  /\ call = [c \in Contacts |-> "none"]
  /\ index = [c \in Contacts |-> 0]
  /\ raw = {}
  /\ store = [s \in Seqs |-> 0]
  /\ relocator = [x \in Contacts \X Deliveries |-> "idle"]
  /\ target = [x \in Contacts \X Deliveries |-> 0]
  /\ metaEvents = {}
  /\ meta = [s \in Seqs |-> 0]
  /\ dlq = {}
  /\ starter = {}
  /\ job = [s \in Seqs |-> 0]
  /\ transcriptMeta = {}

(* An object appears under recordings/: both rules match the prefix.         *)
ObjectCreated(s, c) ==
  /\ store' = [store EXCEPT ![s] = c]
  /\ metaEvents' = metaEvents \cup {<<s, c>>}
  /\ starter' = starter \cup {<<s, "queued">>}

(* An event is delivered at least once: handling it may leave a copy.        *)
Taken(events, e) == {events, events \ {e}}

-----------------------------------------------------------------------------
(* ConnectDispatcher, one invocation at a time.                              *)

Dispatch ==
  /\ dispatcher = "idle"
  /\ attempt < MaxAttempts
  /\ attempt' = attempt + 1
  /\ dispatcher' = "started"
  /\ UNCHANGED <<mock, contactId, callAttempts, call, index, bucketVars, metaVars, starterVars>>

StartOutboundCall ==
  /\ dispatcher = "started" /\ ~mock
  /\ dispatcher' = "placed"
  /\ call' = [call EXCEPT ![attempt] = "live"]
  /\ UNCHANGED <<mock, attempt, contactId, callAttempts, index, bucketVars, metaVars, starterVars>>

(* _dispatch_mock: an employee whose outcome is RECORDED gets a placeholder  *)
(* named by the attempt; BUSY and NO_ANSWER get none.                        *)
PutMockRecording ==
  /\ dispatcher = "started" /\ mock
  /\ dispatcher' = "placed"
  /\ ObjectCreated(attempt, attempt) \/ UNCHANGED <<store, metaEvents, starter>>
  /\ UNCHANGED <<mock, attempt, contactId, callAttempts, call, index, raw, relocator, target,
                 meta, dlq, job, transcriptMeta>>

(* Mutant: no ADD callAttempts after the first call.                         *)
RecordSuccessOnce ==
  /\ dispatcher = "placed"
  /\ dispatcher' = "idle"
  /\ contactId' = attempt
  /\ callAttempts' = IF callAttempts = 0 THEN 1 ELSE callAttempts
  /\ UNCHANGED <<mock, attempt, call, index, bucketVars, metaVars, starterVars>>

RecordSuccess ==
  /\ dispatcher = "placed"
  /\ dispatcher' = "idle"
  /\ contactId' = attempt
  /\ callAttempts' = callAttempts + 1
  /\ UNCHANGED <<mock, attempt, call, index, bucketVars, metaVars, starterVars>>

(* The previous contactId stays; a callResultCode in the row keeps the       *)
(* counter as well.                                                          *)
RecordError ==
  /\ dispatcher = "started" /\ ~mock
  /\ dispatcher' = "idle"
  /\ callAttempts' \in {callAttempts, callAttempts + 1}
  /\ UNCHANGED <<mock, attempt, contactId, call, index, bucketVars, metaVars, starterVars>>

DispatcherFails ==
  /\ dispatcher # "idle"
  /\ dispatcher' = "idle"
  /\ UNCHANGED <<mock, attempt, contactId, callAttempts, call, index, bucketVars, metaVars,
                 starterVars>>

-----------------------------------------------------------------------------

(* Connect stores the recording of a call that is over, in its own time.     *)
RecordingStored(c) ==
  /\ call[c] = "live"
  /\ call' = [call EXCEPT ![c] = "recorded"]
  /\ raw' = raw \cup {c}
  /\ UNCHANGED <<mock, attempt, dispatcher, contactId, callAttempts, index, store, relocator,
                 target, metaVars, starterVars>>

(* The sparse index holds the row under the contactId it has now.            *)
IndexShows == [c \in Contacts |-> IF c = contactId THEN callAttempts ELSE 0]

IndexCatchesUp ==
  /\ index # IndexShows
  /\ index' = IndexShows
  /\ UNCHANGED <<dispatchVars, bucketVars, metaVars, starterVars>>

-----------------------------------------------------------------------------
(* RecordingRelocator.                                                       *)

At(c, d, state) == relocator[<<c, d>>] = state

(* The invocation goes on with the key it found; one that looks up, or is    *)
(* over, has none.                                                           *)
Goto(c, d, state, seq) ==
  /\ relocator' = [relocator EXCEPT ![<<c, d>>] = state]
  /\ target' = [target EXCEPT ![<<c, d>>] = seq]

RelocatorInvoked(c, d) ==
  /\ call[c] = "recorded" /\ At(c, d, "idle")
  /\ Goto(c, d, "lookup", 0)
  /\ UNCHANGED <<dispatchVars, index, raw, store, metaVars, starterVars>>

(* Mutant: recordings are counted from zero.                                 *)
LookupResponseByContactIdZeroBased(c, d) ==
  /\ At(c, d, "lookup") /\ index[c] # 0
  /\ Goto(c, d, "copy", index[c] - 1)
  /\ UNCHANGED <<dispatchVars, index, raw, store, metaVars, starterVars>>

LookupResponseByContactId(c, d) ==
  /\ At(c, d, "lookup") /\ index[c] # 0
  /\ Goto(c, d, "copy", index[c])
  /\ UNCHANGED <<dispatchVars, index, raw, store, metaVars, starterVars>>

(* No row, or throttled, three times in each of three invocations.  There is *)
(* no dead-letter queue: the recording stays where Connect put it.           *)
LookupExhausted(c, d) ==
  /\ At(c, d, "lookup")
  /\ Goto(c, d, "done", 0)
  /\ UNCHANGED <<dispatchVars, index, raw, store, metaVars, starterVars>>

(* Mutant: the original goes before the copy is made.                        *)
CopyObjectLast(c, d) ==
  /\ At(c, d, "copy") /\ c \in raw
  /\ raw' = raw \ {c}
  /\ Goto(c, d, "delete", target[<<c, d>>])
  /\ UNCHANGED <<dispatchVars, index, store, metaVars, starterVars>>

CopyObject(c, d) ==
  /\ At(c, d, "copy") /\ c \in raw
  /\ ObjectCreated(target[<<c, d>>], c)
  /\ Goto(c, d, "delete", target[<<c, d>>])
  /\ UNCHANGED <<dispatchVars, index, raw, meta, dlq, job, transcriptMeta>>

DeleteObject(c, d) ==
  /\ At(c, d, "delete")
  /\ raw' = raw \ {c}
  /\ Goto(c, d, "done", 0)
  /\ UNCHANGED <<dispatchVars, index, store, metaVars, starterVars>>

(* An S3 error (the copy's source is gone, say) or the end of the Lambda:    *)
(* it is invoked anew, or has been often enough.                             *)
RelocatorBreaks(c, d) ==
  /\ relocator[<<c, d>>] \in {"copy", "delete"}
  /\ Goto(c, d, "lookup", 0) \/ Goto(c, d, "done", 0)
  /\ UNCHANGED <<dispatchVars, index, raw, store, metaVars, starterVars>>

-----------------------------------------------------------------------------
(* RecordingMetadataWriter.                                                  *)

(* attribute_not_exists(cycleId): the first writer wins.                     *)
PutMetadata(e) ==
  /\ e \in metaEvents
  /\ meta' = IF meta[e[1]] = 0 THEN [meta EXCEPT ![e[1]] = e[2]] ELSE meta
  /\ metaEvents' \in Taken(metaEvents, e)
  /\ UNCHANGED <<dispatchVars, index, bucketVars, dlq, starterVars>>

(* Mutant: the exhausted handler returns an error instead of raising one.    *)
MetadataExhaustedQuietly(e) ==
  /\ e \in metaEvents
  /\ metaEvents' = metaEvents \ {e}
  /\ UNCHANGED <<dispatchVars, index, bucketVars, meta, dlq, starterVars>>

(* Throttled three times in each of three invocations, or another error: it  *)
(* is raised, and Lambda hands the event to the queue.                       *)
MetadataExhausted(e) ==
  /\ e \in metaEvents
  /\ metaEvents' = metaEvents \ {e}
  /\ dlq' = dlq \cup {e}
  /\ UNCHANGED <<dispatchVars, index, bucketVars, meta, starterVars>>

-----------------------------------------------------------------------------
(* TranscribeStarter.                                                        *)

(* A job of the key's name, or a ConflictException that is taken for one.    *)
StartTranscribeJob(s) ==
  /\ <<s, "queued">> \in starter /\ ~mock
  /\ job' = IF job[s] = 0 THEN [job EXCEPT ![s] = store[s]] ELSE job
  /\ \E rest \in Taken(starter, <<s, "queued">>) : starter' = rest \cup {<<s, "started">>}
  /\ UNCHANGED <<dispatchVars, index, bucketVars, metaVars, transcriptMeta>>

(* _put_mock_transcript, at once and without a condition.                    *)
PutMockTranscript(s) ==
  /\ <<s, "queued">> \in starter /\ mock
  /\ job' = [job EXCEPT ![s] = store[s]]
  /\ \E rest \in Taken(starter, <<s, "queued">>) : starter' = rest \cup {<<s, "started">>}
  /\ UNCHANGED <<dispatchVars, index, bucketVars, metaVars, transcriptMeta>>

(* Mutant: the row is written whatever became of the job.                    *)
StarterGivesUpWithRow(s) ==
  \E state \in {"queued", "started"} :
    /\ <<s, state>> \in starter
    /\ starter' = starter \ {<<s, state>>}
    /\ transcriptMeta' = transcriptMeta \cup {s}
    /\ UNCHANGED <<dispatchVars, index, bucketVars, metaVars, job>>

(* The tries are used up: the handler returns, or is not invoked anew.       *)
StarterGivesUp(s) ==
  \E state \in {"queued", "started"} :
    /\ <<s, state>> \in starter
    /\ starter' = starter \ {<<s, state>>}
    /\ UNCHANGED <<dispatchVars, index, bucketVars, metaVars, job, transcriptMeta>>

RecordTranscriptMeta(s) ==
  /\ <<s, "started">> \in starter
  /\ transcriptMeta' = transcriptMeta \cup {s}
  /\ starter' = starter \ {<<s, "started">>}
  /\ UNCHANGED <<dispatchVars, index, bucketVars, metaVars, job>>

(* The row's write failed: the invocation starts over.                       *)
StarterRetries(s) ==
  /\ <<s, "started">> \in starter
  /\ starter' = (starter \ {<<s, "started">>}) \cup {<<s, "queued">>}
  /\ UNCHANGED <<dispatchVars, index, bucketVars, metaVars, job, transcriptMeta>>

-----------------------------------------------------------------------------

DispatcherStep ==
  \/ Dispatch \/ StartOutboundCall \/ PutMockRecording
  \/ RecordSuccess \/ RecordError \/ DispatcherFails

RelocatorStep(c, d) ==
  \/ RelocatorInvoked(c, d) \/ LookupResponseByContactId(c, d) \/ LookupExhausted(c, d)
  \/ CopyObject(c, d) \/ DeleteObject(c, d) \/ RelocatorBreaks(c, d)

StarterStep(s) ==
  \/ StartTranscribeJob(s) \/ PutMockTranscript(s) \/ StarterGivesUp(s)
  \/ RecordTranscriptMeta(s) \/ StarterRetries(s)

Next ==
  \/ DispatcherStep
  \/ \E c \in Contacts : RecordingStored(c)
  \/ IndexCatchesUp
  \/ \E c \in Contacts, d \in Deliveries : RelocatorStep(c, d)
  \/ \E e \in metaEvents : PutMetadata(e) \/ MetadataExhausted(e)
  \/ \E s \in Seqs : StarterStep(s)

RecordingSpec == Init /\ [][Next]_storeVars

-----------------------------------------------------------------------------
(* RecordingApi only reads.  The keys are what matters.                      *)

(* derive_target_outbound_key, and the form parse_recording_key accepts.     *)
TargetOutboundKey(s) == <<"recordings", s>>

(* The key GET /cycles/{id}/recordings/{employeeId}/{seq} signs.             *)
CycleArtifactKey(s) == <<"cycles", s>>

-----------------------------------------------------------------------------

(* Every variable has its type; recordings are counted from one.             *)
RecordingTypeOK ==
  /\ mock \in BOOLEAN
  /\ attempt \in 0..MaxAttempts
  /\ dispatcher \in {"idle", "started", "placed"}
  /\ contactId \in 0..MaxAttempts
  /\ callAttempts \in 0..MaxAttempts
  /\ call \in [Contacts -> {"none", "live", "recorded"}]
  /\ index \in [Contacts -> 0..MaxAttempts]
  /\ raw \subseteq Contacts
  /\ store \in [Seqs -> 0..MaxAttempts]
  /\ relocator \in [Contacts \X Deliveries ->
                     {"idle", "lookup", "copy", "delete", "done"}]
  /\ target \in [Contacts \X Deliveries -> 0..MaxAttempts]
  /\ metaEvents \subseteq Seqs \X Contacts
  /\ meta \in [Seqs -> 0..MaxAttempts]
  /\ dlq \subseteq Seqs \X Contacts
  /\ starter \subseteq Seqs \X {"queued", "started"}
  /\ job \in [Seqs -> 0..MaxAttempts]
  /\ transcriptMeta \subseteq Seqs
  /\ \A c \in Contacts, d \in Deliveries :
       relocator[<<c, d>>] \in {"copy", "delete"} => target[<<c, d>>] \in Seqs

(* A recording Connect has handed over is in the bucket, under one key or    *)
(* the other, wherever a rename breaks off and however often and by how many *)
(* invocations it is repeated (_copy_and_delete).                            *)
RecordingNeverLost ==
  \A c \in Contacts :
    call[c] = "recorded" => c \in raw \/ \E s \in Seqs : store[s] = c

(* A key never changes hands: neither a lagging index, nor a counter raised  *)
(* for a call that was never placed, nor a late second delivery puts one     *)
(* call's recording over another's (_lookup_response_by_contact_id).         *)
KeyNeverChangesHands ==
  [][\A s \in Seqs : store[s] # 0 => store'[s] = store[s]]_storeVars

(* A recording under its final key is described by a RecordingMeta row, or   *)
(* an event still asks for one, or an operator finds it in the dead-letter   *)
(* queue (Requirements 10.5 and 10.9, _write_metadata_with_retry).           *)
EveryRecordingDescribed ==
  \A s \in Seqs : store[s] # 0 =>
    meta[s] = store[s] \/ <<s, store[s]>> \in metaEvents \cup dlq

(* What is transcribed under a key is the recording stored there, although a *)
(* name that is taken counts as success, and a TranscriptMeta row names a    *)
(* transcription that exists (_start_transcribe_job_with_retry).             *)
TranscriptIsOfTheRecording ==
  \A s \in Seqs : /\ job[s] # 0 => job[s] = store[s]
                  /\ s \in transcriptMeta => job[s] # 0

=============================================================================
