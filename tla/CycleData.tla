----------------------------- MODULE CycleData -----------------------------
(***************************************************************************)
(* The state one safety-confirmation cycle is made of, shared by the       *)
(* modules of the components that read and write it:                       *)
(*                                                                         *)
(*   CycleStateMachine   the Step Functions execution                      *)
(*   CallHandling        ConnectDispatcher, Outbound flow, CallEndHandler  *)
(*   RecordingPipeline   Relocator, TranscribeStarter, KeywordMatcher      *)
(*   CycleFinalizer      MAP_COMPLETED, TIMER_30MIN, TIMER_60MIN           *)
(*   CycleExecution      their composition                                 *)
(*                                                                         *)
(* A Lambda is one action per access to shared state: everything between   *)
(* two accesses is local, and a Lambda may stop between any two of them.   *)
(***************************************************************************)
EXTENDS VoiceStatus, FiniteSets

CONSTANTS
  Employees,           \* every employee of the master table
  RetryCount,          \* the cycle's retryCount
  MaxConcurrentCalls,  \* MaxConcurrency of CallMap
  Invocations,         \* CycleFinalizer invocations that may happen
  Trigger,             \* the trigger each of them carries
  ArnGiven,            \* the invocations whose event has an executionArn
  TimersConfigured,    \* did an operator create the two EventBridge rules?
  MaxTries,            \* redeliveries after a failed finalizer invocation
  Heard,               \* what a transcript can classify to
  Disturbances         \* what the environment may do in this instance

Triggers == {"MAP_COMPLETED", "TIMER_30MIN", "TIMER_60MIN"}
Classified == Confirmed \cup {"OTHER"}
AllDisturbances ==
  {"empty", "table", "connect", "pipeline", "crash", "redelivery", "inbound"}

ASSUME RetryCountAssumption == RetryCount \in Nat
ASSUME ConcurrencyAssumption == MaxConcurrentCalls \in Nat \ {0}
ASSUME TriesAssumption == MaxTries \in Nat
ASSUME TriggerAssumption ==
  /\ Trigger \in [Invocations -> Triggers]
  /\ ArnGiven \subseteq Invocations
\* The Finalize state has one invocation in flight; its Retry reuses it.
ASSUME OneFinalizeAssumption ==
  \A i, j \in Invocations :
    Trigger[i] = "MAP_COMPLETED" /\ Trigger[j] = "MAP_COMPLETED" => i = j
ASSUME SwitchAssumption ==
  /\ TimersConfigured \in BOOLEAN
  /\ Heard \subseteq Classified
  /\ Disturbances \subseteq AllDisturbances

(* A budget of zero still means one dial: EvaluateRetry runs after Dispatch. *)
MaxDials == IF RetryCount = 0 THEN 1 ELSE RetryCount

(* One attempt beyond the budget is representable, so that exceeding it is  *)
(* a state and not a type error.                                            *)
Attempts == 1..(MaxDials + 1)

VARIABLES
  cycle,       \* the Cycle row: status and slaWarning30min
  exec,        \* the state the execution's outer machine is in
  targets,     \* LoadTargets' result
  iter,        \* per employee: the Map iteration
  dispatcher,  \* per employee: the ConnectDispatcher invocation
  row,         \* per employee: the Response row
  call,        \* per employee and attempt: the outbound call
  rec,         \* per employee and attempt: the recording
  fin,         \* per invocation: the CycleFinalizer's progress
  sent,        \* metrics and notifications sent, counted by name
  rules        \* do the two timer rules exist?

vars == <<cycle, exec, targets, iter, dispatcher, row, call, rec, fin, sent, rules>>

-----------------------------------------------------------------------------

CycleStatus == {"RUNNING", "COMPLETED", "TIMEOUT"}
Cycle == [status : CycleStatus, slaWarning : BOOLEAN]

ExecState ==
  {"LoadTargets", "Map", "Finalize", "Succeeded", "Failed", "Aborted"}

IterState ==
  {"Queued", "Dispatch", "WaitForTranscribe", "EvaluateRetry", "WaitInterval",
   "FinalizeOne", "FinalizeOneError", "Done"}

(* seen is what ReadResponse copied into the iteration's own state.          *)
Iteration == [state : IterState, attempt : Attempts,
              seen : ValidVoiceStatus \cup {"ABSENT"}]

DispatcherState == {"idle", "started", "placed", "exhausted", "release"}

CallResultCode == {"none", "RECORDED", "ERROR", "TRANSCRIBE_FAILED"}

(* "ABSENT": the table has no such item.  contact is the attempt whose       *)
(* contactId the row carries and excerpt the one whose transcript it shows   *)
(* (0: neither).                                                             *)
Response == [voiceStatus : ValidVoiceStatus \cup {"ABSENT"},
             callAttempts : Nat,
             callResultCode : CallResultCode,
             contact : Attempts \cup {0},
             excerpt : Attempts \cup {0},
             sfnError : BOOLEAN]

NoResponse == [voiceStatus |-> "ABSENT", callAttempts |-> 0,
               callResultCode |-> "none", contact |-> 0, excerpt |-> 0,
               sfnError |-> FALSE]

CallState == {"none", "live", "ending", "coded", "over", "dropped"}

(* seq names the recording's and the transcript's S3 key; heard is what its  *)
(* transcript classifies to under the cycle's dictionary snapshot.           *)
Recording ==
  [stage : {"none", "raw", "stored", "lost"}, seq : Nat,
   heard : Classified \cup {"none"}]
    \cup [stage : {"transcript", "matched"}, seq : Nat, heard : Classified]

FinState ==
  {"idle", "get", "stop", "query", "rewrite", "flip", "warn", "metric",
   "notify", "rules", "done"}

(* todo holds the employees still to relabel.                                *)
Finalizer == [pc : FinState, todo : SUBSET Employees, tries : 0..MaxTries]

Sent == {"CycleTimeout", "TimeoutNotice", "SlaWarning30Min", "SlaNotice"}

-----------------------------------------------------------------------------

HasRow(e) == row[e].voiceStatus # "ABSENT"

(* _query_responses: the rows of the cycle, whoever created them.            *)
Rows == [e \in {f \in Employees : HasRow(f)} |-> row[e]]

(* UpdateItem creates the item when it does not exist, so no guard on HasRow. *)
SetVoiceStatus(e, s) == row' = [row EXCEPT ![e].voiceStatus = s]

(* SendTaskSuccess, and the end of the Lambda behind Dispatch: either leaves  *)
(* Dispatch if it still waits for this attempt's token, and is refused (the   *)
(* caller fails, nothing changes) otherwise.                                  *)
ReleaseToken(e, a) ==
  iter' = IF /\ exec = "Map"
             /\ iter[e].state = "Dispatch"
             /\ iter[e].attempt = a
          THEN [iter EXCEPT ![e].state = "WaitForTranscribe"]
          ELSE iter

=============================================================================
