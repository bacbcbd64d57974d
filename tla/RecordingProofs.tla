-------------------------- MODULE RecordingProofs ---------------------------
(***************************************************************************)
(* A seq is given to one contact: whoever has found a seq for a recording, *)
(* or may still find one, in the row or in an index that lags, shares it   *)
(* with no other recording.  Hence no copy is put over another recording,  *)
(* and what was written about an object stays true of it.                  *)
(***************************************************************************)
EXTENDS RecordingStore, TLAPS

(* Every count in the row belongs to an attempt, and an attempt under way    *)
(* has not been counted yet.                                                 *)
Counting ==
  /\ callAttempts <= attempt
  /\ dispatcher # "idle" => callAttempts < attempt
  /\ contactId # 0 => callAttempts # 0

TypeInv == RecordingTypeOK /\ Counting

(* Where it can be read that c's recording is the s-th.                      *)
Given(c, s) ==
  \/ contactId = c /\ callAttempts = s
  \/ index[c] = s
  \/ \E d \in Deliveries : relocator[<<c, d>>] \in {"copy", "delete"} /\ target[<<c, d>>] = s
  \/ store[s] = c

OneOwner ==
  /\ \A c \in Contacts, s \in Seqs : Given(c, s) => s <= callAttempts
  /\ \A s \in Seqs : \A b, c \in Contacts : Given(b, s) /\ Given(c, s) => b = c

(* MOCK_MODE places no calls; the key of a placeholder is the attempt.       *)
Mocked ==
  /\ \A c \in Contacts : call[c] = "none"
  /\ \A c \in Contacts, d \in Deliveries : relocator[<<c, d>>] = "idle"
  /\ \A s \in Seqs : store[s] \in {0, s}

KeysInv == IF mock THEN Mocked ELSE OneOwner

(* The copy is there before the original goes.                               *)
Renamed ==
  /\ \A c \in Contacts, d \in Deliveries :
       relocator[<<c, d>>] = "delete" => store[target[<<c, d>>]] = c
  /\ RecordingNeverLost

(* What is written or queued about a key is about the object it has.         *)
Described ==
  /\ \A s \in Seqs : meta[s] # 0 => meta[s] = store[s]
  /\ \A e \in metaEvents : store[e[1]] = e[2]
  /\ EveryRecordingDescribed

Transcribed ==
  /\ \A s \in Seqs : <<s, "queued">> \in starter => store[s] # 0
  /\ \A s \in Seqs : <<s, "started">> \in starter => job[s] # 0
  /\ TranscriptIsOfTheRecording

RecordingInv == TypeInv /\ KeysInv /\ Renamed /\ Described /\ Transcribed

LEMMA RecordingInvInit == Init => RecordingInv
<1> SUFFICES ASSUME Init PROVE RecordingInv
  OBVIOUS
<1> USE DEF Init, Contacts, Seqs
<1>1. TypeInv
  BY MaxAttemptsAssumption DEF TypeInv, RecordingTypeOK, Counting
<1>2. KeysInv
  <2>1. ASSUME NEW c \in Contacts, NEW s \in Seqs PROVE ~ Given(c, s)
    <3>1. c # 0 /\ s # 0
      BY MaxAttemptsAssumption
    <3>2. contactId # c /\ index[c] # s /\ store[s] # c
      BY <3>1
    <3>3. \A d \in Deliveries : relocator[<<c, d>>] = "idle"
      OBVIOUS
    <3> QED BY <3>2, <3>3 DEF Given
  <2>2. OneOwner
    BY ONLY <2>1 DEF OneOwner
  <2>3. Mocked
    BY MaxAttemptsAssumption DEF Mocked
  <2> QED BY <2>2, <2>3 DEF KeysInv
<1>3. Renamed /\ Described /\ Transcribed
  BY DEF Renamed, Described, Transcribed, RecordingNeverLost, EveryRecordingDescribed,
         TranscriptIsOfTheRecording
<1> QED BY <1>1, <1>2, <1>3 DEF RecordingInv

-----------------------------------------------------------------------------
(* Types.                                                                    *)

LEMMA DispatcherStepType == TypeInv /\ DispatcherStep => TypeInv'
<1> SUFFICES ASSUME TypeInv, DispatcherStep PROVE TypeInv'
  OBVIOUS
<1> USE MaxAttemptsAssumption
    DEF TypeInv, RecordingTypeOK, Counting, bucketVars, metaVars, starterVars
<1>1. CASE Dispatch
  BY <1>1 DEF Dispatch
<1>2. CASE StartOutboundCall
  BY <1>2 DEF StartOutboundCall, Contacts
<1>3. CASE PutMockRecording
  <2>1. attempt \in Seqs /\ attempt \in Contacts
    BY <1>3 DEF PutMockRecording, Seqs, Contacts
  <2>2. /\ store' \in [Seqs -> 0..MaxAttempts]
        /\ metaEvents' \subseteq Seqs \X Contacts
        /\ starter' \subseteq Seqs \X {"queued", "started"}
    BY <1>3, <2>1 DEF PutMockRecording, ObjectCreated
  <2> QED BY <1>3, <2>2 DEF PutMockRecording
<1>4. CASE RecordSuccess
  BY <1>4 DEF RecordSuccess
<1>5. CASE RecordError
  BY <1>5 DEF RecordError
<1>6. CASE DispatcherFails
  BY <1>6 DEF DispatcherFails
<1> QED BY <1>1, <1>2, <1>3, <1>4, <1>5, <1>6 DEF DispatcherStep

LEMMA GotoType ==
  ASSUME RecordingTypeOK, NEW c \in Contacts, NEW d \in Deliveries,
         NEW state \in {"idle", "lookup", "copy", "delete", "done"}, NEW seq \in 0..MaxAttempts,
         state \in {"copy", "delete"} => seq \in Seqs,
         Goto(c, d, state, seq)
  PROVE  /\ relocator' \in [Contacts \X Deliveries ->
                             {"idle", "lookup", "copy", "delete", "done"}]
         /\ target' \in [Contacts \X Deliveries -> 0..MaxAttempts]
         /\ \A b \in Contacts, f \in Deliveries :
              /\ relocator'[<<b, f>>] = IF b = c /\ f = d THEN state ELSE relocator[<<b, f>>]
              /\ target'[<<b, f>>] = IF b = c /\ f = d THEN seq ELSE target[<<b, f>>]
         /\ \A b \in Contacts, f \in Deliveries :
              relocator'[<<b, f>>] \in {"copy", "delete"} => target'[<<b, f>>] \in Seqs
<1> USE DEF Goto, RecordingTypeOK
<1>1. /\ relocator' \in [Contacts \X Deliveries -> {"idle", "lookup", "copy", "delete", "done"}]
      /\ target' \in [Contacts \X Deliveries -> 0..MaxAttempts]
  OBVIOUS
<1>2. \A b \in Contacts, f \in Deliveries :
        /\ relocator'[<<b, f>>] = IF b = c /\ f = d THEN state ELSE relocator[<<b, f>>]
        /\ target'[<<b, f>>] = IF b = c /\ f = d THEN seq ELSE target[<<b, f>>]
  OBVIOUS
<1> QED BY <1>1, <1>2

LEMMA RelocatorStepType ==
  ASSUME TypeInv, NEW c \in Contacts, NEW d \in Deliveries, RelocatorStep(c, d)
  PROVE  TypeInv'
<1> USE DEF TypeInv, Counting, dispatchVars, metaVars, starterVars
<1>1. CASE RelocatorInvoked(c, d)
  <2> USE <1>1 DEF RelocatorInvoked
  <2>1. 0 \in 0..MaxAttempts
    BY MaxAttemptsAssumption
  <2> QED BY <2>1, GotoType DEF RecordingTypeOK
<1>2. CASE LookupResponseByContactId(c, d)
  <2> USE <1>2 DEF LookupResponseByContactId
  <2>1. index[c] \in 0..MaxAttempts /\ index[c] \in Seqs
    BY MaxAttemptsAssumption DEF RecordingTypeOK, Seqs
  <2> QED BY <2>1, GotoType DEF RecordingTypeOK
<1>3. CASE LookupExhausted(c, d)
  <2> USE <1>3 DEF LookupExhausted
  <2>1. 0 \in 0..MaxAttempts
    BY MaxAttemptsAssumption
  <2> QED BY <2>1, GotoType DEF RecordingTypeOK
<1>4. CASE CopyObject(c, d)
  <2> USE <1>4 DEF CopyObject
  <2>1. target[<<c, d>>] \in 0..MaxAttempts /\ target[<<c, d>>] \in Seqs
    BY DEF RecordingTypeOK, At
  <2>2. c \in 0..MaxAttempts /\ <<target[<<c, d>>], c>> \in Seqs \X Contacts
    BY <2>1, MaxAttemptsAssumption DEF Contacts
  <2>3. store' \in [Seqs -> 0..MaxAttempts]
    BY <2>1, <2>2 DEF RecordingTypeOK, ObjectCreated
  <2>4. metaEvents' \subseteq Seqs \X Contacts /\ starter' \subseteq Seqs \X {"queued", "started"}
    BY <2>1, <2>2 DEF RecordingTypeOK, ObjectCreated
  <2> QED BY <2>1, <2>3, <2>4, GotoType DEF RecordingTypeOK
<1>5. CASE DeleteObject(c, d)
  <2> USE <1>5 DEF DeleteObject
  <2>1. 0 \in 0..MaxAttempts
    BY MaxAttemptsAssumption
  <2>2. raw' \subseteq Contacts
    BY DEF RecordingTypeOK
  <2> QED BY <2>1, <2>2, GotoType DEF RecordingTypeOK
<1>6. CASE RelocatorBreaks(c, d)
  <2> USE <1>6 DEF RelocatorBreaks
  <2>1. 0 \in 0..MaxAttempts
    BY MaxAttemptsAssumption
  <2> QED BY <2>1, GotoType DEF RecordingTypeOK
<1> QED BY <1>1, <1>2, <1>3, <1>4, <1>5, <1>6 DEF RelocatorStep

LEMMA BackgroundStepType ==
  ASSUME TypeInv,
         IndexCatchesUp \/ \E c \in Contacts : RecordingStored(c)
  PROVE  TypeInv'
<1> USE MaxAttemptsAssumption
    DEF TypeInv, RecordingTypeOK, Counting, dispatchVars, bucketVars, metaVars, starterVars
<1>1. CASE IndexCatchesUp
  BY <1>1 DEF IndexCatchesUp, IndexShows
<1>2. ASSUME NEW c \in Contacts, RecordingStored(c) PROVE TypeInv'
  BY <1>2 DEF RecordingStored
<1> QED BY <1>1, <1>2

LEMMA MetaStepType ==
  ASSUME TypeInv, NEW e \in metaEvents, PutMetadata(e) \/ MetadataExhausted(e)
  PROVE  TypeInv'
<1> USE DEF TypeInv, Counting, dispatchVars, bucketVars, starterVars
<1>1. e[1] \in Seqs /\ e[2] \in 0..MaxAttempts /\ e \in Seqs \X Contacts
  BY MaxAttemptsAssumption DEF RecordingTypeOK, Contacts
<1>2. CASE PutMetadata(e)
  <2>1. meta' \in [Seqs -> 0..MaxAttempts] /\ metaEvents' \subseteq Seqs \X Contacts
    BY <1>1, <1>2 DEF PutMetadata, Taken, RecordingTypeOK
  <2> QED BY <1>2, <2>1 DEF PutMetadata, RecordingTypeOK
<1>3. CASE MetadataExhausted(e)
  <2>1. metaEvents' \subseteq Seqs \X Contacts /\ dlq' \subseteq Seqs \X Contacts
    BY <1>1, <1>3 DEF MetadataExhausted, RecordingTypeOK
  <2> QED BY <1>3, <2>1 DEF MetadataExhausted, RecordingTypeOK
<1> QED BY <1>2, <1>3

LEMMA StarterStepType ==
  ASSUME TypeInv, NEW s \in Seqs, StarterStep(s)
  PROVE  TypeInv'
<1> USE DEF TypeInv, Counting, dispatchVars, bucketVars, metaVars
<1>1. /\ starter' \subseteq Seqs \X {"queued", "started"}
      /\ job' \in [Seqs -> 0..MaxAttempts]
      /\ transcriptMeta' \subseteq Seqs
      /\ UNCHANGED <<dispatchVars, index, bucketVars, metaVars>>
  BY DEF StarterStep, StartTranscribeJob, PutMockTranscript, StarterGivesUp, RecordTranscriptMeta,
         StarterRetries, Taken, RecordingTypeOK
<1> QED BY <1>1 DEF RecordingTypeOK

LEMMA NextType == TypeInv /\ Next => TypeInv'
BY DispatcherStepType, RelocatorStepType, BackgroundStepType, MetaStepType, StarterStepType
   DEF Next

-----------------------------------------------------------------------------
(* Who has a key keeps it.                                                   *)

LEMMA SameMode == Next => mock' = mock
BY DEF Next, DispatcherStep, Dispatch, StartOutboundCall, PutMockRecording, RecordSuccess,
       RecordError, DispatcherFails, RecordingStored, IndexCatchesUp, RelocatorStep,
       RelocatorInvoked, LookupResponseByContactId, LookupExhausted, CopyObject, DeleteObject,
       RelocatorBreaks, PutMetadata, MetadataExhausted, StarterStep, StartTranscribeJob,
       PutMockTranscript, StarterGivesUp, RecordTranscriptMeta, StarterRetries,
       dispatchVars, bucketVars, metaVars, starterVars

(* Steps that touch neither the bucket nor what finds a key in it.           *)
LEMMA OtherSteps ==
  (\E e \in metaEvents : PutMetadata(e) \/ MetadataExhausted(e)) \/ (\E s \in Seqs : StarterStep(s))
    => UNCHANGED <<dispatchVars, index, bucketVars>>
BY DEF PutMetadata, MetadataExhausted, StarterStep, StartTranscribeJob, PutMockTranscript,
       StarterGivesUp, RecordTranscriptMeta, StarterRetries

(* A key is given with the counter, and to the call that is counted; every   *)
(* other step passes on what was given.                                      *)
LEMMA DispatcherGives ==
  ASSUME TypeInv, ~ mock, DispatcherStep
  PROVE  /\ UNCHANGED <<index, bucketVars>>
         /\ UNCHANGED <<contactId, callAttempts>> \/ callAttempts' = callAttempts + 1
BY DEF DispatcherStep, Dispatch, StartOutboundCall, PutMockRecording, RecordSuccess, RecordError,
       DispatcherFails

LEMMA RelocatorPassesOn ==
  ASSUME TypeInv, NEW b \in Contacts, NEW f \in Deliveries, RelocatorStep(b, f),
         NEW c \in Contacts, NEW s \in Seqs, Given(c, s)'
  PROVE  Given(c, s)
<1>1. UNCHANGED <<contactId, callAttempts, index>>
  BY DEF RelocatorStep, RelocatorInvoked, LookupResponseByContactId, LookupExhausted, CopyObject,
         DeleteObject, RelocatorBreaks, dispatchVars
<1>2. CASE (contactId = c /\ callAttempts = s) \/ index[c] = s
  BY <1>2 DEF Given
<1>3. CASE store'[s] = c
  <2>1. CASE store' = store
    BY <1>3, <2>1 DEF Given
  <2>2. CASE CopyObject(b, f)
    <3>1. store[s] = c \/ (s = target[<<b, f>>] /\ c = b)
      BY <1>3, <2>2 DEF CopyObject, ObjectCreated, TypeInv, RecordingTypeOK
    <3> QED BY <2>2, <3>1 DEF CopyObject, At, Given
  <2> QED BY <2>1, <2>2 DEF RelocatorStep, RelocatorInvoked, LookupResponseByContactId,
          LookupExhausted, DeleteObject, RelocatorBreaks
<1>4. CASE \E d \in Deliveries : relocator'[<<c, d>>] \in {"copy", "delete"} /\ target'[<<c, d>>] = s
  <2>1. PICK d \in Deliveries : relocator'[<<c, d>>] \in {"copy", "delete"} /\ target'[<<c, d>>] = s
    BY <1>4
  <2>2. CASE ~ (c = b /\ d = f)
    <3>1. relocator'[<<c, d>>] = relocator[<<c, d>>] /\ target'[<<c, d>>] = target[<<c, d>>]
      BY <2>2 DEF RelocatorStep, RelocatorInvoked, LookupResponseByContactId, LookupExhausted,
             CopyObject, DeleteObject, RelocatorBreaks, Goto, TypeInv, RecordingTypeOK
    <3> QED BY <2>1, <3>1 DEF Given
  <2>3. CASE c = b /\ d = f
    <3> USE <2>1, <2>3 DEF Goto, TypeInv, RecordingTypeOK
    <3>1. CASE LookupResponseByContactId(b, f)
      BY <3>1 DEF LookupResponseByContactId, Given
    <3>2. CASE CopyObject(b, f)
      BY <3>2 DEF CopyObject, At, Given
    <3>3. CASE RelocatorInvoked(b, f) \/ LookupExhausted(b, f) \/ DeleteObject(b, f)
               \/ RelocatorBreaks(b, f)
      BY <3>3 DEF RelocatorInvoked, LookupExhausted, DeleteObject, RelocatorBreaks
    <3> QED BY <3>1, <3>2, <3>3 DEF RelocatorStep
  <2> QED BY <2>2, <2>3
<1> QED BY <1>1, <1>2, <1>3, <1>4 DEF Given

LEMMA GivenFrom ==
  ASSUME TypeInv, ~ mock, Next, NEW c \in Contacts, NEW s \in Seqs, Given(c, s)'
  PROVE  \/ Given(c, s)
         \/ c = contactId' /\ s = callAttempts' /\ callAttempts' = callAttempts + 1
<1>1. CASE DispatcherStep
  BY <1>1, DispatcherGives DEF Given, bucketVars
<1>2. ASSUME NEW b \in Contacts, RecordingStored(b) PROVE Given(c, s)
  BY <1>2 DEF RecordingStored, Given
<1>3. CASE IndexCatchesUp
  <2>1. index'[c] = s => contactId = c /\ callAttempts = s
    BY <1>3 DEF IndexCatchesUp, IndexShows, Seqs
  <2> QED BY <1>3, <2>1 DEF IndexCatchesUp, Given, dispatchVars, bucketVars
<1>4. ASSUME NEW b \in Contacts, NEW f \in Deliveries, RelocatorStep(b, f) PROVE Given(c, s)
  BY <1>4, RelocatorPassesOn
<1>5. CASE UNCHANGED <<dispatchVars, index, bucketVars>>
  BY <1>5 DEF Given, dispatchVars, bucketVars
<1> QED BY <1>1, <1>2, <1>3, <1>4, <1>5, OtherSteps DEF Next

LEMMA CounterStep ==
  ASSUME TypeInv, Next PROVE callAttempts' \in {callAttempts, callAttempts + 1}
BY OtherSteps DEF Next, DispatcherStep, Dispatch, StartOutboundCall, PutMockRecording,
   RecordSuccess, RecordError, DispatcherFails, RecordingStored, IndexCatchesUp, RelocatorStep,
   RelocatorInvoked, LookupResponseByContactId, LookupExhausted, CopyObject, DeleteObject,
   RelocatorBreaks, dispatchVars

LEMMA OneOwnerStep ==
  ASSUME TypeInv, ~ mock, OneOwner, Next PROVE OneOwner'
<1> USE DEF OneOwner
<1>0. callAttempts \in Nat /\ callAttempts' \in {callAttempts, callAttempts + 1}
  BY CounterStep, MaxAttemptsAssumption DEF TypeInv, RecordingTypeOK
<1>1. ASSUME NEW c \in Contacts, NEW s \in Seqs, Given(c, s)' PROVE s <= callAttempts'
  <2>1. s \in Nat
    BY DEF Seqs
  <2> QED BY <1>0, <1>1, <2>1, GivenFrom
<1>2. ASSUME NEW s \in Seqs, NEW b \in Contacts, NEW c \in Contacts, Given(b, s)', Given(c, s)'
      PROVE  b = c
  <2> DEFINE New(x) == x = contactId' /\ s = callAttempts' /\ callAttempts' = callAttempts + 1
  <2>1. Given(b, s) \/ New(b)
    BY <1>2, GivenFrom
  <2>2. Given(c, s) \/ New(c)
    BY <1>2, GivenFrom
  <2>3. \A x \in Contacts, y \in Contacts : ~ (Given(x, s) /\ New(y))
    BY <1>0
  <2> QED BY <2>1, <2>2, <2>3
<1> QED BY <1>1, <1>2

(* A placeholder has the number of its attempt, and no rename runs.          *)
LEMMA MockedStep ==
  ASSUME TypeInv, mock, Mocked, Next PROVE Mocked'
<1> USE DEF Mocked
<1>1. CASE PutMockRecording
  <2>1. \A s \in Seqs : store'[s] \in {0, s}
    BY <1>1 DEF PutMockRecording, ObjectCreated, TypeInv, RecordingTypeOK
  <2> QED BY <1>1, <2>1 DEF PutMockRecording
<1>2. CASE DispatcherStep /\ ~ PutMockRecording
  BY <1>2 DEF DispatcherStep, Dispatch, StartOutboundCall, RecordSuccess, RecordError,
         DispatcherFails, bucketVars
<1>3. ASSUME NEW c \in Contacts, RecordingStored(c) PROVE Mocked'
  BY <1>3 DEF RecordingStored
<1>4. CASE IndexCatchesUp
  BY <1>4 DEF IndexCatchesUp, dispatchVars, bucketVars
<1>5. ASSUME NEW c \in Contacts, NEW d \in Deliveries, RelocatorStep(c, d) PROVE Mocked'
  BY <1>5 DEF RelocatorStep, RelocatorInvoked, LookupResponseByContactId, LookupExhausted,
         CopyObject, DeleteObject, RelocatorBreaks, At
<1>6. CASE UNCHANGED <<dispatchVars, index, bucketVars>>
  BY <1>6 DEF dispatchVars, bucketVars
<1> QED BY <1>1, <1>2, <1>3, <1>4, <1>5, <1>6, OtherSteps DEF Next

LEMMA KeysStep ==
  ASSUME TypeInv, KeysInv, Next PROVE KeysInv'
BY SameMode, OneOwnerStep, MockedStep DEF KeysInv

(* What may happen to the bucket: a placeholder, a copy, or a delete.        *)
LEMMA BucketSteps ==
  ASSUME Next
  PROVE  \/ PutMockRecording
         \/ \E c \in Contacts, d \in Deliveries : CopyObject(c, d)
         \/ UNCHANGED store
BY OtherSteps DEF Next, DispatcherStep, Dispatch, StartOutboundCall, RecordSuccess, RecordError,
   DispatcherFails, RecordingStored, IndexCatchesUp, RelocatorStep, RelocatorInvoked,
   LookupResponseByContactId, LookupExhausted, DeleteObject, RelocatorBreaks, bucketVars

LEMMA StoreKept ==
  ASSUME TypeInv, KeysInv, Next, NEW s \in Seqs, store[s] # 0
  PROVE  store'[s] = store[s]
<1>1. CASE PutMockRecording
  <2>1. store[s] = s
    BY <1>1 DEF PutMockRecording, KeysInv, Mocked
  <2> QED BY <1>1, <2>1 DEF PutMockRecording, ObjectCreated, TypeInv, RecordingTypeOK
<1>2. ASSUME NEW c \in Contacts, NEW d \in Deliveries, CopyObject(c, d)
      PROVE  store'[s] = store[s]
  <2>1. OneOwner
    BY <1>2 DEF CopyObject, At, KeysInv, Mocked
  <2>2. CASE s = target[<<c, d>>]
    <3>1. store[s] \in Contacts
      BY MaxAttemptsAssumption DEF TypeInv, RecordingTypeOK, Contacts
    <3>2. Given(c, s) /\ Given(store[s], s)
      BY <1>2, <2>2 DEF CopyObject, At, Given
    <3>3. store[s] = c
      BY <2>1, <3>1, <3>2 DEF OneOwner
    <3> QED BY <1>2, <2>2, <3>3 DEF CopyObject, ObjectCreated, TypeInv, RecordingTypeOK
  <2>3. CASE s # target[<<c, d>>]
    BY <1>2, <2>3 DEF CopyObject, ObjectCreated, TypeInv, RecordingTypeOK
  <2> QED BY <2>2, <2>3
<1> QED BY <1>1, <1>2, BucketSteps

-----------------------------------------------------------------------------
(* A recording is in the bucket.                                             *)

LEMMA RenamedStep ==
  ASSUME TypeInv, KeysInv, Renamed, Next
  PROVE  Renamed'
<1> DEFINE Kept(c) == c \in raw \/ \E s \in Seqs : store[s] = c
<1>0. TypeInv'
  BY NextType
<1>1. \A c \in Contacts, s \in Seqs : store[s] = c => store'[s] = c
  <2>1. \A c \in Contacts : c # 0
    BY DEF Contacts
  <2> QED BY <2>1, StoreKept
<1>2. ASSUME NEW b \in Contacts, NEW f \in Deliveries, RelocatorStep(b, f) PROVE Renamed'
  <2>1. ASSUME NEW c \in Contacts, NEW d \in Deliveries, relocator'[<<c, d>>] = "delete"
        PROVE  store'[target'[<<c, d>>]] = c
    <3>1. CASE c = b /\ d = f
      <4>1. CopyObject(b, f) /\ target'[<<c, d>>] = target[<<c, d>>]
        BY <1>2, <2>1, <3>1 DEF RelocatorStep, RelocatorInvoked, LookupResponseByContactId,
           LookupExhausted, CopyObject, DeleteObject, RelocatorBreaks, Goto, TypeInv,
           RecordingTypeOK
      <4> QED BY <3>1, <4>1 DEF CopyObject, At, ObjectCreated, TypeInv, RecordingTypeOK
    <3>2. CASE ~ (c = b /\ d = f)
      <4>1. relocator[<<c, d>>] = "delete" /\ target'[<<c, d>>] = target[<<c, d>>]
        BY <1>2, <2>1, <3>2 DEF RelocatorStep, RelocatorInvoked, LookupResponseByContactId,
           LookupExhausted, CopyObject, DeleteObject, RelocatorBreaks, Goto, TypeInv,
           RecordingTypeOK
      <4>2. target[<<c, d>>] \in Seqs /\ store[target[<<c, d>>]] = c
        BY <4>1 DEF Renamed, TypeInv, RecordingTypeOK
      <4> QED BY <1>1, <4>1, <4>2
    <3> QED BY <3>1, <3>2
  <2>2. ASSUME NEW c \in Contacts, call'[c] = "recorded"
        PROVE  Kept(c)'
    <3>1. call[c] = "recorded"
      BY <1>2, <2>2 DEF RelocatorStep, RelocatorInvoked, LookupResponseByContactId,
         LookupExhausted, CopyObject, DeleteObject, RelocatorBreaks, dispatchVars
    <3>2. Kept(c)
      BY <3>1 DEF Renamed, RecordingNeverLost
    <3>3. CASE \E s \in Seqs : store[s] = c
      BY <1>1, <3>3
    <3>4. CASE c \in raw /\ ~ DeleteObject(b, f)
      BY <1>2, <3>4 DEF RelocatorStep, RelocatorInvoked, LookupResponseByContactId,
         LookupExhausted, CopyObject, RelocatorBreaks
    <3>5. CASE c \in raw /\ DeleteObject(b, f)
      <4>1. CASE c = b
        <5>1. target[<<b, f>>] \in Seqs /\ store[target[<<b, f>>]] = b
          BY <3>5 DEF DeleteObject, At, Renamed, TypeInv, RecordingTypeOK
        <5> QED BY <1>1, <4>1, <5>1
      <4>2. CASE c # b
        BY <3>5, <4>2 DEF DeleteObject
      <4> QED BY <4>1, <4>2
    <3> QED BY <3>2, <3>3, <3>4, <3>5
  <2> QED BY <2>1, <2>2 DEF Renamed, RecordingNeverLost
<1>3. ASSUME UNCHANGED <<relocator, target>>, raw \subseteq raw',
             \A c \in Contacts : call'[c] = "recorded" => (call[c] = "recorded" \/ c \in raw')
      PROVE  Renamed'
  <2>1. \A c \in Contacts, d \in Deliveries :
          relocator'[<<c, d>>] = "delete" => store'[target'[<<c, d>>]] = c
    BY <1>1, <1>3 DEF Renamed, TypeInv, RecordingTypeOK
  <2>2. \A c \in Contacts : call'[c] = "recorded" => Kept(c)'
    BY <1>1, <1>3 DEF Renamed, RecordingNeverLost
  <2> QED BY <2>1, <2>2 DEF Renamed, RecordingNeverLost
<1>4. CASE DispatcherStep
  <2>1. UNCHANGED <<relocator, target, raw>>
    BY <1>4 DEF DispatcherStep, Dispatch, StartOutboundCall, PutMockRecording, RecordSuccess,
       RecordError, DispatcherFails, bucketVars
  <2>2. \A c \in Contacts : call'[c] = "recorded" => call[c] = "recorded"
    BY <1>4 DEF DispatcherStep, Dispatch, StartOutboundCall, PutMockRecording, RecordSuccess,
       RecordError, DispatcherFails, TypeInv, RecordingTypeOK
  <2> QED BY <1>3, <2>1, <2>2
<1>5. ASSUME NEW b \in Contacts, RecordingStored(b) PROVE Renamed'
  BY <1>3, <1>5 DEF RecordingStored, TypeInv, RecordingTypeOK
<1>6. CASE UNCHANGED <<dispatchVars, bucketVars>>
  BY <1>3, <1>6 DEF dispatchVars, bucketVars
<1>7. CASE IndexCatchesUp
  BY <1>6, <1>7 DEF IndexCatchesUp
<1> QED BY <1>2, <1>4, <1>5, <1>6, <1>7, OtherSteps DEF Next

-----------------------------------------------------------------------------
(* What is known of an object is true of it.                                 *)

LEMMA ObjectEvents ==
  ASSUME TypeInv, KeysInv, Next,
         PutMockRecording \/ \E c \in Contacts, d \in Deliveries : CopyObject(c, d)
  PROVE  /\ UNCHANGED <<meta, dlq, job, transcriptMeta>>
         /\ \/ UNCHANGED <<store, metaEvents, starter>>
            \/ \E s \in Seqs, c \in Contacts : ObjectCreated(s, c)
<1>1. ASSUME NEW c \in Contacts, NEW d \in Deliveries, CopyObject(c, d)
      PROVE  target[<<c, d>>] \in Seqs
  BY <1>1 DEF CopyObject, At, TypeInv, RecordingTypeOK
<1>2. ASSUME PutMockRecording PROVE attempt \in Seqs /\ attempt \in Contacts
  BY <1>2, MaxAttemptsAssumption
     DEF PutMockRecording, TypeInv, Counting, RecordingTypeOK, Seqs, Contacts
<1> QED BY <1>1, <1>2 DEF PutMockRecording, CopyObject

LEMMA DescribedStep ==
  ASSUME TypeInv, KeysInv, Described, Next
  PROVE  Described'
<1> USE DEF Described, EveryRecordingDescribed
<1>1. ASSUME UNCHANGED <<store, metaEvents, meta, dlq>> PROVE Described'
  BY <1>1
<1>2. ASSUME NEW s \in Seqs, NEW c \in Contacts, ObjectCreated(s, c),
             UNCHANGED <<meta, dlq>>
      PROVE  Described'
  <2>0. c # 0
    BY DEF Contacts
  <2>1. /\ \A t \in Seqs : store'[t] = IF t = s THEN c ELSE store[t]
        /\ metaEvents' = metaEvents \cup {<<s, c>>}
    BY <1>2 DEF ObjectCreated, TypeInv, RecordingTypeOK
  <2>2. \A t \in Seqs : store[t] # 0 => store'[t] = store[t]
    BY StoreKept
  <2>3. \A t \in Seqs : meta'[t] # 0 => meta'[t] = store'[t]
    BY <1>2, <2>2
  <2>4. ASSUME NEW e \in metaEvents' PROVE store'[e[1]] = e[2]
    <3>1. CASE e = <<s, c>>
      BY <2>1, <3>1
    <3>2. CASE e \in metaEvents
      <4>1. e[1] \in Seqs /\ e[2] # 0
        BY <3>2 DEF TypeInv, RecordingTypeOK, Contacts
      <4> QED BY <2>2, <3>2, <4>1
    <3> QED BY <2>1, <3>1, <3>2
  <2>5. \A t \in Seqs : store'[t] # 0 =>
          meta'[t] = store'[t] \/ <<t, store'[t]>> \in metaEvents' \cup dlq'
    BY <1>2, <2>1
  <2> QED BY <2>3, <2>4, <2>5
<1>3. ASSUME NEW e \in metaEvents, PutMetadata(e) PROVE Described'
  <2>0. /\ e[1] \in Seqs /\ e[2] # 0 /\ e = <<e[1], e[2]>>
        /\ store[e[1]] = e[2] /\ UNCHANGED <<store, dlq>> /\ metaEvents' \subseteq metaEvents
    BY <1>3 DEF PutMetadata, Taken, bucketVars, TypeInv, RecordingTypeOK, Contacts
  <2>1. \A s \in Seqs : meta'[s] = IF s = e[1] /\ meta[s] = 0 THEN e[2] ELSE meta[s]
    BY <1>3, <2>0 DEF PutMetadata, TypeInv, RecordingTypeOK
  <2>2. \A s \in Seqs : meta'[s] # 0 => meta'[s] = store'[s]
    BY <2>0, <2>1
  <2>3. ASSUME NEW s \in Seqs, store'[s] # 0
        PROVE  meta'[s] = store'[s] \/ <<s, store'[s]>> \in metaEvents' \cup dlq'
    <3>1. CASE s = e[1]
      BY <2>0, <2>1, <3>1
    <3>2. CASE s # e[1]
      <4>1. <<s, store[s]>> \in metaEvents => <<s, store[s]>> \in metaEvents'
        BY <1>3, <2>0, <3>2 DEF PutMetadata, Taken
      <4> QED BY <2>0, <2>1, <2>3, <3>2, <4>1
    <3> QED BY <3>1, <3>2
  <2> QED BY <2>0, <2>2, <2>3
<1>4. ASSUME NEW e \in metaEvents, MetadataExhausted(e) PROVE Described'
  BY <1>4 DEF MetadataExhausted, bucketVars
<1>5. CASE PutMockRecording \/ \E c \in Contacts, d \in Deliveries : CopyObject(c, d)
  BY <1>1, <1>2, <1>5, ObjectEvents
<1>6. UNCHANGED <<store, metaEvents, meta, dlq>>
      \/ (\E e \in metaEvents : PutMetadata(e) \/ MetadataExhausted(e))
      \/ PutMockRecording \/ \E c \in Contacts, d \in Deliveries : CopyObject(c, d)
  BY DEF Next, DispatcherStep, Dispatch, StartOutboundCall, RecordSuccess, RecordError,
     DispatcherFails, RecordingStored, IndexCatchesUp, RelocatorStep, RelocatorInvoked,
     LookupResponseByContactId, LookupExhausted, DeleteObject, RelocatorBreaks, StarterStep,
     StartTranscribeJob, PutMockTranscript, StarterGivesUp, RecordTranscriptMeta, StarterRetries,
     dispatchVars, bucketVars, metaVars
<1> QED BY <1>1, <1>3, <1>4, <1>5, <1>6

LEMMA TranscribedStep ==
  ASSUME TypeInv, KeysInv, Transcribed, Next
  PROVE  Transcribed'
<1> USE DEF Transcribed, TranscriptIsOfTheRecording
<1>1. ASSUME UNCHANGED <<store, starter, job, transcriptMeta>> PROVE Transcribed'
  BY <1>1
<1>2. ASSUME NEW s \in Seqs, NEW c \in Contacts, ObjectCreated(s, c),
             UNCHANGED <<job, transcriptMeta>>
      PROVE  Transcribed'
  <2>0. c # 0
    BY DEF Contacts
  <2>1. /\ \A t \in Seqs : store'[t] = IF t = s THEN c ELSE store[t]
        /\ starter' = starter \cup {<<s, "queued">>}
    BY <1>2 DEF ObjectCreated, TypeInv, RecordingTypeOK
  <2>2. \A t \in Seqs : store[t] # 0 => store'[t] = store[t]
    BY StoreKept
  <2> QED BY <1>2, <2>0, <2>1, <2>2
<1>3. ASSUME NEW s \in Seqs, StarterStep(s) PROVE Transcribed'
  <2>0. store' = store
    BY <1>3, OtherSteps DEF bucketVars
  <2>1. CASE StartTranscribeJob(s) \/ PutMockTranscript(s)
    <3>1. /\ store[s] # 0 /\ transcriptMeta' = transcriptMeta
          /\ \A x \in starter' : x \in starter \/ x = <<s, "started">>
      BY <2>1 DEF StartTranscribeJob, PutMockTranscript, Taken
    <3>2. \A t \in Seqs : \/ job'[t] = job[t] /\ (t = s => job[t] # 0)
                          \/ t = s /\ job'[t] = store[t]
      BY <2>1 DEF StartTranscribeJob, PutMockTranscript, TypeInv, RecordingTypeOK
    <3>3. \A t \in Seqs : job'[t] # 0 => job'[t] = store[t]
      BY <3>2
    <3>4. \A t \in Seqs : job[t] # 0 \/ t = s => job'[t] # 0
      BY <3>1, <3>2
    <3> QED BY <2>0, <3>1, <3>3, <3>4
  <2>2. CASE StarterGivesUp(s)
    BY <2>0, <2>2 DEF StarterGivesUp
  <2>3. CASE RecordTranscriptMeta(s)
    BY <2>0, <2>3 DEF RecordTranscriptMeta
  <2>4. CASE StarterRetries(s)
    <3>1. store[s] # 0
      BY <2>4 DEF StarterRetries
    <3> QED BY <2>0, <2>4, <3>1 DEF StarterRetries
  <2> QED BY <1>3, <2>1, <2>2, <2>3, <2>4 DEF StarterStep
<1>4. CASE PutMockRecording \/ \E c \in Contacts, d \in Deliveries : CopyObject(c, d)
  BY <1>1, <1>2, <1>4, ObjectEvents
<1>5. UNCHANGED <<store, starter, job, transcriptMeta>>
      \/ (\E s \in Seqs : StarterStep(s))
      \/ PutMockRecording \/ \E c \in Contacts, d \in Deliveries : CopyObject(c, d)
  BY DEF Next, DispatcherStep, Dispatch, StartOutboundCall, RecordSuccess, RecordError,
     DispatcherFails, RecordingStored, IndexCatchesUp, RelocatorStep, RelocatorInvoked,
     LookupResponseByContactId, LookupExhausted, DeleteObject, RelocatorBreaks,
     PutMetadata, MetadataExhausted, dispatchVars, bucketVars, starterVars
<1> QED BY <1>1, <1>3, <1>4, <1>5

-----------------------------------------------------------------------------

LEMMA RecordingInvStep == RecordingInv /\ [Next]_storeVars => RecordingInv'
<1>1. ASSUME RecordingInv, Next PROVE RecordingInv'
  BY <1>1, NextType, KeysStep, RenamedStep, DescribedStep, TranscribedStep DEF RecordingInv
<1>2. ASSUME RecordingInv, UNCHANGED storeVars PROVE RecordingInv'
  <2> USE <1>2 DEF RecordingInv, storeVars, dispatchVars, bucketVars, metaVars, starterVars
  <2>1. TypeInv'
    BY DEF TypeInv, RecordingTypeOK, Counting
  <2>2. KeysInv'
    BY DEF KeysInv, OneOwner, Mocked, Given
  <2>3. Renamed' /\ Described' /\ Transcribed'
    BY DEF Renamed, RecordingNeverLost, Described, EveryRecordingDescribed, Transcribed,
           TranscriptIsOfTheRecording
  <2> QED BY <2>1, <2>2, <2>3
<1> QED BY <1>1, <1>2

LEMMA RecordingInvHolds == RecordingSpec => []RecordingInv
BY RecordingInvInit, RecordingInvStep, PTL DEF RecordingSpec

(* Every variable has its type, and recordings are counted from one, however *)
(* many attempts and deliveries there are (RecordingRelocator).              *)
THEOREM RecordingTypeCorrect == RecordingSpec => []RecordingTypeOK
<1>1. RecordingInv => RecordingTypeOK
  BY DEF RecordingInv, TypeInv
<1> QED BY <1>1, RecordingInvHolds, PTL

(* No rename loses a recording, whatever breaks off and is repeated          *)
(* (_copy_and_delete).                                                       *)
THEOREM RecordingsNeverLost == RecordingSpec => []RecordingNeverLost
<1>1. RecordingInv => RecordingNeverLost
  BY DEF RecordingInv, Renamed
<1> QED BY <1>1, RecordingInvHolds, PTL

(* No recording is put over another, although the index the relocator reads  *)
(* lags and the counter is raised for failed dispatches too                  *)
(* (_lookup_response_by_contact_id).                                         *)
THEOREM KeysNeverChangeHands == RecordingSpec => KeyNeverChangesHands
<1>1. RecordingInv /\ [Next]_storeVars
        => [\A s \in Seqs : store[s] # 0 => store'[s] = store[s]]_storeVars
  BY StoreKept DEF RecordingInv
<1> QED BY <1>1, RecordingInvHolds, PTL DEF RecordingSpec, KeyNeverChangesHands

(* A recording under its final key is described, or is on its way to be, or  *)
(* is in the dead-letter queue (_write_metadata_with_retry).                 *)
THEOREM RecordingsDescribed == RecordingSpec => []EveryRecordingDescribed
<1>1. RecordingInv => EveryRecordingDescribed
  BY DEF RecordingInv, Described
<1> QED BY <1>1, RecordingInvHolds, PTL

(* A job whose name is taken transcribes the same recording, and a row names *)
(* a job that exists (_start_transcribe_job_with_retry).                     *)
THEOREM TranscriptsOfTheRecording == RecordingSpec => []TranscriptIsOfTheRecording
<1>1. RecordingInv => TranscriptIsOfTheRecording
  BY DEF RecordingInv, Transcribed
<1> QED BY <1>1, RecordingInvHolds, PTL

=============================================================================
