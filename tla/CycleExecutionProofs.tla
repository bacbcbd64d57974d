------------------------ MODULE CycleExecutionProofs ------------------------
(***************************************************************************)
(* Theorems about CycleExecution for every set of employees, retry budget, *)
(* concurrency, set of finalizer invocations and set of disturbances.      *)
(***************************************************************************)
EXTENDS CycleExecution, TLAPS

(* The budget half of the type: TypeOK alone admits one attempt too many.    *)
DialInv ==
  /\ \A e \in Employees :
       /\ iter[e].attempt <= MaxDials
       /\ iter[e].state = "WaitInterval" => iter[e].attempt < RetryCount
  /\ DialBudget

TypeInv == TypeOK /\ DialInv

(* MaxDials is a positive number and every attempt up to it is an attempt.   *)
LEMMA AttemptsFacts ==
  /\ MaxDials \in Nat \ {0}
  /\ 1 \in Attempts
  /\ Attempts \subseteq Nat \ {0}
BY RetryCountAssumption DEF MaxDials, Attempts

(* The shared functions of VoiceStatus return statuses.                      *)
LEMMA StatusFacts ==
  /\ "ABSENT" \notin ValidVoiceStatus
  /\ Classified \subseteq ValidVoiceStatus
  /\ Heard \subseteq Classified
  /\ \A s : DeriveFinalStatus(s) \in TerminalVoiceStatus
  /\ TerminalVoiceStatus \subseteq ValidVoiceStatus \ {"PENDING"}
BY SwitchAssumption
   DEF ValidVoiceStatus, Classified, Confirmed, Retryable, DeriveFinalStatus,
       TerminalVoiceStatus

(* The initial state is well typed and nobody has been called.               *)
LEMMA InitTypeInv == Init => TypeInv
BY AttemptsFacts, SwitchAssumption, TriesAssumption
   DEF Init, TypeInv, TypeOK, DialInv, DialBudget, Cycle, CycleStatus, ExecState,
       Iteration, IterState, DispatcherState, Response, NoResponse, CallResultCode,
       CallState, Recording, Finalizer, FinState, Sent

(* The outer machine's own steps keep the types and the budget.              *)
LEMMA ExecutionStepTypeInv ==
  ASSUME TypeInv, ExecutionStep PROVE TypeInv'
<1> USE DEF TypeInv, TypeOK, DialInv, DialBudget
<1>1. CASE LoadTargets BY <1>1 DEF LoadTargets, ExecState
<1>2. CASE LoadTargetsFails BY <1>2 DEF LoadTargetsFails, ExecState
<1>3. CASE MapCompletes BY <1>3 DEF MapCompletes, ExecState
<1>4. CASE ExecutionSucceeds BY <1>4 DEF ExecutionSucceeds, ExecState
<1> QED BY <1>1, <1>2, <1>3, <1>4 DEF ExecutionStep

(* Moving an iteration to a state other than WaitInterval keeps the types.   *)
LEMMA GotoTypeInv ==
  ASSUME TypeInv, NEW e \in Employees, NEW s \in IterState, Goto(e, s),
         s = "WaitInterval" => iter[e].attempt < RetryCount
  PROVE  /\ iter' \in [Employees -> Iteration]
         /\ \A f \in Employees :
              /\ iter'[f].attempt <= MaxDials
              /\ iter'[f].state = "WaitInterval" => iter'[f].attempt < RetryCount
BY DEF TypeInv, TypeOK, DialInv, Goto, Iteration

(* So does releasing a token.                                                *)
LEMMA ReleaseTypeInv ==
  ASSUME TypeInv, NEW e \in Employees, NEW a \in Attempts, ReleaseToken(e, a)
  PROVE  /\ iter' \in [Employees -> Iteration]
         /\ \A f \in Employees :
              /\ iter'[f].attempt <= MaxDials
              /\ iter'[f].state = "WaitInterval" => iter'[f].attempt < RetryCount
BY DEF TypeInv, TypeOK, DialInv, ReleaseToken, Iteration, IterState

(* Every step of an iteration keeps the types and the budget.                *)
LEMMA IterationStepTypeInv ==
  ASSUME TypeInv, NEW e \in Employees, IterationStep(e) PROVE TypeInv'
<1> USE DEF TypeInv, TypeOK, DialBudget
<1>1. CASE InitAttempt(e)
  <2>1. row' \in [Employees -> Response]
    BY <1>1 DEF InitAttempt, Response, ValidVoiceStatus, Retryable
  <2>2. dispatcher' \in [Employees -> DispatcherState]
    BY <1>1 DEF InitAttempt, DispatcherState
  <2> QED BY <1>1, <2>1, <2>2, GotoTypeInv DEF InitAttempt, IterState, DialInv
<1>2. CASE InitAttemptFails(e)
  BY <1>2, GotoTypeInv DEF InitAttemptFails, IterState, DialInv
<1>3. CASE DispatchTimeout(e)
  BY <1>3, GotoTypeInv DEF DispatchTimeout, IterState, DialInv
<1>4. CASE ReadResponse(e)
  <2>1. row[e].voiceStatus \in ValidVoiceStatus \cup {"ABSENT"} BY DEF Response
  <2> QED BY <1>4, <2>1 DEF ReadResponse, Iteration, IterState, DialInv
<1>5. CASE ReadResponseFails(e)
  BY <1>5, GotoTypeInv DEF ReadResponseFails, IterState, DialInv
<1>6. CASE EvaluateRetry(e)
  BY <1>6, GotoTypeInv DEF EvaluateRetry, ShouldRetry, IterState, DialInv
<1>7. CASE EvaluateRetryFails(e)
  BY <1>7, GotoTypeInv DEF EvaluateRetryFails, IterState, DialInv
<1>8. CASE Redial(e)
  <2>1. /\ iter[e].attempt \in Attempts
        /\ iter[e].attempt < RetryCount
    BY <1>8 DEF Redial, InMap, DialInv, Iteration
  <2>2. /\ iter[e].attempt + 1 \in Attempts
        /\ iter[e].attempt + 1 <= MaxDials
    BY <2>1, RetryCountAssumption DEF Attempts, MaxDials
  <2>3. iter' \in [Employees -> Iteration]
    BY <1>8, <2>2 DEF Redial, Iteration, IterState
  <2>4. dispatcher' \in [Employees -> DispatcherState]
    BY <1>8 DEF Redial, DispatcherState
  <2> QED BY <1>8, <2>2, <2>3, <2>4 DEF Redial, DialInv
<1>9. CASE FinalizeOne(e)
  <2>1. row' \in [Employees -> Response]
    BY <1>9, StatusFacts DEF FinalizeOne, SetVoiceStatus, Response
  <2> QED BY <1>9, <2>1, GotoTypeInv DEF FinalizeOne, IterState, DialInv
<1>10. CASE FinalizeOneError(e)
  <2>1. row' \in [Employees -> Response]
    BY <1>10 DEF FinalizeOneError, Response, ValidVoiceStatus, Retryable
  <2> QED BY <1>10, <2>1, GotoTypeInv DEF FinalizeOneError, IterState, DialInv
<1>11. CASE IterationFails(e) BY <1>11 DEF IterationFails, ExecState, DialInv
<1> QED BY <1>1, <1>2, <1>3, <1>4, <1>5, <1>6, <1>7, <1>8, <1>9, <1>10, <1>11
        DEF IterationStep

(* A contact written with one more attempt leaves a row of the right type.   *)
LEMMA ContactType ==
  ASSUME row \in [Employees -> Response], NEW e \in Employees, NEW a \in Attempts,
         row' = [row EXCEPT ![e].contact = a, ![e].callAttempts = @ + 1]
  PROVE  row' \in [Employees -> Response]
<1> DEFINE r == [row[e] EXCEPT !.contact = a]
           n == r.callAttempts + 1
           q == [r EXCEPT !.callAttempts = n]
<1>1. r \in Response BY DEF Response
<1>2. n \in Nat BY <1>1 DEF Response
<1>3. row' = [row EXCEPT ![e] = q] OBVIOUS
<1> HIDE DEF r, n
<1>4. q \in Response BY <1>1, <1>2 DEF Response
<1> HIDE DEF q
<1> QED BY <1>3, <1>4

(* So does a status written with the excerpt it was heard in.                *)
LEMMA ExcerptType ==
  ASSUME row \in [Employees -> Response], NEW e \in Employees, NEW a \in Attempts,
         NEW s \in ValidVoiceStatus \cup {"ABSENT"},
         row' = [row EXCEPT ![e].voiceStatus = s, ![e].excerpt = a]
  PROVE  row' \in [Employees -> Response]
<1> DEFINE r == [row[e] EXCEPT !.voiceStatus = s]
           q == [r EXCEPT !.excerpt = a]
<1>1. r \in Response BY DEF Response
<1>2. row' = [row EXCEPT ![e] = q] OBVIOUS
<1> HIDE DEF r
<1>3. q \in Response BY <1>1 DEF Response
<1> HIDE DEF q
<1> QED BY <1>2, <1>3

(* Every step of a dispatcher keeps the types and the budget: it dials for   *)
(* the iteration's own attempt.                                              *)
LEMMA DispatcherStepTypeInv ==
  ASSUME TypeInv, NEW e \in Employees, DispatcherStep(e) PROVE TypeInv'
<1> USE DEF TypeInv, TypeOK, DialBudget, DispatcherAt, Advance
<1>0. Attempt(e) \in Attempts /\ Attempt(e) <= MaxDials
  BY DEF Attempt, DialInv, Iteration
<1>1. CASE StartOutboundCall(e)
  <2>1. call' = [call EXCEPT ![e][Attempt(e)] = "live"]
    BY <1>1 DEF StartOutboundCall
  <2>2. call' \in [Employees -> [Attempts -> CallState]]
    BY <1>0, <2>1 DEF CallState
  <2>3. \A f \in Employees, a \in Attempts :
          call'[f][a] # "none" => call[f][a] # "none" \/ a = Attempt(e)
    BY <1>0, <2>1
  <2> QED BY <1>0, <1>1, <2>2, <2>3
          DEF StartOutboundCall, DispatcherState, DialInv
<1>2. CASE DispatchExhausted(e)
  BY <1>2 DEF DispatchExhausted, DispatcherState, DialInv
<1>3. CASE RecordSuccess(e)
  <2>1. row' = [row EXCEPT ![e].contact = Attempt(e), ![e].callAttempts = @ + 1]
    BY <1>3 DEF RecordSuccess
  <2>2. row' \in [Employees -> Response] BY <1>0, <2>1, ContactType
  <2> QED BY <1>3, <2>2 DEF RecordSuccess, DispatcherState, DialInv
<1>4. CASE RecordError(e)
  <2> DEFINE n == row[e].callAttempts + 1
             r == [row[e] EXCEPT !.callResultCode = "ERROR", !.callAttempts = n]
  <2>1. row[e] \in Response OBVIOUS
  <2>2. r \in Response
    <3>1. n \in Nat BY <2>1 DEF Response
    <3> HIDE DEF n
    <3> QED BY <2>1, <3>1 DEF Response, CallResultCode
  <2>3. row' = [row EXCEPT ![e] = r] \/ row' = row BY <1>4 DEF RecordError
  <2> HIDE DEF r
  <2>4. row' \in [Employees -> Response] BY <2>2, <2>3
  <2> QED BY <1>4, <2>4 DEF RecordError, DispatcherState, DialInv
<1>5. CASE SendRetryTaskSuccess(e)
  BY <1>0, <1>5, ReleaseTypeInv DEF SendRetryTaskSuccess, DispatcherState, DialInv
<1>6. CASE DispatcherFails(e)
  BY <1>0, <1>6, ReleaseTypeInv DEF DispatcherFails, DispatcherState, DialInv
<1> QED BY <1>1, <1>2, <1>3, <1>4, <1>5, <1>6 DEF DispatcherStep

(* The end of a call keeps the types and the budget: only a call that was    *)
(* placed moves.                                                             *)
LEMMA CallStepTypeInv ==
  ASSUME TypeInv, NEW e \in Employees, NEW a \in Attempts, CallStep(e, a)
  PROVE  TypeInv'
<1> USE DEF TypeInv, TypeOK, DialBudget
<1>1. ASSUME NEW s \in CallState, call' = [call EXCEPT ![e][a] = s],
             call[e][a] # "none"
      PROVE  call' \in [Employees -> [Attempts -> CallState]] /\ DialBudget'
  <2>1. \A f \in Employees, b \in Attempts :
          call'[f][b] # "none" => call[f][b] # "none"
    BY <1>1
  <2> QED BY <1>1, <2>1 DEF DialInv
<1>2. CASE CallEnds(e, a) BY <1>1, <1>2 DEF CallEnds, CallState, DialInv
<1>3. CASE CallDrops(e, a) BY <1>1, <1>3 DEF CallDrops, CallState, DialInv
<1>4. CASE RecordCallEnd(e, a)
  <2>1. row' \in [Employees -> Response]
    BY <1>4 DEF RecordCallEnd, Response, CallResultCode
  <2> QED BY <1>1, <1>4, <2>1 DEF RecordCallEnd, CallState, DialInv
<1>5. CASE SendTaskSuccess(e, a)
  BY <1>1, <1>5, ReleaseTypeInv DEF SendTaskSuccess, CallState, DialInv
<1>6. CASE CallEndFails(e, a) BY <1>1, <1>6 DEF CallEndFails, CallState, DialInv
<1> QED BY <1>2, <1>3, <1>4, <1>5, <1>6 DEF CallStep

(* Replacing one recording by a recording keeps the type of all of them.     *)
LEMMA RecordingUpdate ==
  ASSUME TypeOK, NEW e \in Employees, NEW a \in Attempts, NEW r \in Recording,
         rec' = [rec EXCEPT ![e] = [@ EXCEPT ![a] = r]]
  PROVE  rec' \in [Employees -> [Attempts -> Recording]]
<1>1. rec[e] \in [Attempts -> Recording] BY DEF TypeOK
<1>2. [rec[e] EXCEPT ![a] = r] \in [Attempts -> Recording] BY <1>1
<1>3. rec \in [Employees -> [Attempts -> Recording]] BY DEF TypeOK
<1> QED BY <1>2, <1>3

(* Moving a recording on without naming what was heard keeps the type.       *)
LEMMA MoveType ==
  ASSUME TypeOK, NEW e \in Employees, NEW a \in Attempts,
         NEW s \in {"none", "raw", "stored", "lost"}, Move(e, a, s)
  PROVE  rec' \in [Employees -> [Attempts -> Recording]]
<1> DEFINE r == [rec[e][a] EXCEPT !.stage = s]
<1>1. rec[e][a] \in Recording BY DEF TypeOK
<1>2. r \in Recording BY <1>1 DEF Recording
<1>3. rec' = [rec EXCEPT ![e] = [@ EXCEPT ![a] = r]] BY DEF Move
<1> HIDE DEF r
<1> QED BY <1>2, <1>3, RecordingUpdate

(* The recording pipeline keeps the types and touches no call.               *)
LEMMA PipelineStepTypeInv ==
  ASSUME TypeInv, NEW e \in Employees, NEW a \in Attempts, PipelineStep(e, a)
  PROVE  TypeInv'
<1> USE DEF TypeInv, DialBudget
<1>0. rec[e][a] \in Recording BY DEF TypeOK
<1>1. CASE RecordingStored(e, a)
  BY <1>1, MoveType DEF RecordingStored, DialInv, TypeOK
<1>2. CASE Relocate(e, a)
  <2> DEFINE r == [rec[e][a] EXCEPT !.stage = "stored", !.seq = row[e].callAttempts]
  <2>1. row[e].callAttempts \in Nat BY DEF Response, TypeOK
  <2>2. r \in Recording BY <1>0, <2>1 DEF Recording
  <2>3. rec' = [rec EXCEPT ![e] = [@ EXCEPT ![a] = r]] BY <1>2 DEF Relocate
  <2> HIDE DEF r
  <2>4. rec' \in [Employees -> [Attempts -> Recording]]
    BY <2>2, <2>3, RecordingUpdate
  <2> QED BY <1>2, <2>4 DEF Relocate, DialInv, TypeOK
<1>3. CASE RelocateMisses(e, a)
  BY <1>3, MoveType DEF RelocateMisses, DialInv, TypeOK
<1>4. CASE StartTranscribeJob(e, a)
  <2>1. PICK h \in Heard :
          rec' = [rec EXCEPT ![e] = [@ EXCEPT ![a] =
                    IF JobExists(e, rec[e][a].seq)
                    THEN [rec[e][a] EXCEPT !.stage = "lost"]
                    ELSE [rec[e][a] EXCEPT !.stage = "transcript", !.heard = h]]]
    BY <1>4 DEF StartTranscribeJob
  <2> DEFINE r == IF JobExists(e, rec[e][a].seq)
                  THEN [rec[e][a] EXCEPT !.stage = "lost"]
                  ELSE [rec[e][a] EXCEPT !.stage = "transcript", !.heard = h]
  <2>2. r \in Recording BY <1>0, StatusFacts DEF Recording
  <2>3. rec' = [rec EXCEPT ![e] = [@ EXCEPT ![a] = r]] BY <2>1
  <2> HIDE DEF r
  <2>4. rec' \in [Employees -> [Attempts -> Recording]]
    BY <2>2, <2>3, RecordingUpdate
  <2> QED BY <1>4, <2>4 DEF StartTranscribeJob, DialInv, TypeOK
<1>5. CASE TranscribeFails(e, a)
  <2>1. row' \in [Employees -> Response]
    BY <1>5 DEF TranscribeFails, Response, CallResultCode, TypeOK
  <2> QED BY <1>5, <2>1, MoveType DEF TranscribeFails, DialInv, TypeOK
<1>6. CASE MatchKeywords(e, a)
  <2> DEFINE r == [rec[e][a] EXCEPT !.stage = "matched"]
  <2>1. rec[e][a].stage \in {"transcript", "matched"}
    BY <1>6 DEF MatchKeywords, RecAt
  <2>2. rec[e][a].heard \in Classified /\ r \in Recording
    BY <1>0, <2>1 DEF Recording
  <2>3. row' \in [Employees -> Response]
    <3>1. rec[e][a].heard \in ValidVoiceStatus \cup {"ABSENT"}
      BY <2>2, StatusFacts
    <3>2. row' = [row EXCEPT ![e].voiceStatus = rec[e][a].heard, ![e].excerpt = a]
      BY <1>6 DEF MatchKeywords
    <3>3. row \in [Employees -> Response]
      BY DEF TypeOK
    <3> QED BY <3>1, <3>2, <3>3, ExcerptType
  <2>4. rec' = [rec EXCEPT ![e] = [@ EXCEPT ![a] = r]] BY <1>6 DEF MatchKeywords, Move
  <2> HIDE DEF r
  <2>5. rec' \in [Employees -> [Attempts -> Recording]]
    BY <2>2, <2>4, RecordingUpdate
  <2> QED BY <1>6, <2>3, <2>5 DEF MatchKeywords, DialInv, TypeOK
<1>7. CASE RecordOtherFallback(e, a)
  <2>1. row' \in [Employees -> Response]
    BY <1>7 DEF RecordOtherFallback, SetVoiceStatus, Response, ValidVoiceStatus,
                Retryable, TypeOK
  <2> QED BY <1>7, <2>1, MoveType DEF RecordOtherFallback, DialInv, TypeOK
<1> QED BY <1>1, <1>2, <1>3, <1>4, <1>5, <1>6, <1>7 DEF PipelineStep

(* Moving an invocation on keeps the type of its record.                     *)
LEMMA ContinueType ==
  ASSUME TypeOK, NEW i \in Invocations, NEW pc \in FinState, Continue(i, pc)
  PROVE  fin' \in [Invocations -> Finalizer]
BY DEF TypeOK, Continue, Finalizer

(* Sending something keeps the counters natural.                             *)
LEMMA SendType ==
  ASSUME TypeOK, NEW n \in Sent, Send(n) PROVE sent' \in [Sent -> Nat]
BY DEF TypeOK, Send

(* Every step of a finalizer invocation keeps the types; calls and           *)
(* iterations it leaves alone.                                               *)
LEMMA FinalizerStepTypeInv ==
  ASSUME TypeInv, NEW i \in Invocations, FinalizerStep(i) PROVE TypeInv'
<1> USE DEF TypeInv, DialBudget
<1>1. CASE FinalizeInvoked(i)
  BY <1>1, ContinueType DEF FinalizeInvoked, FinState, DialInv, TypeOK
<1>2. CASE TimerFires(i)
  BY <1>2, ContinueType DEF TimerFires, FinState, DialInv, TypeOK
<1>3. CASE GetCycle(i)
  BY <1>3, ContinueType DEF GetCycle, FinState, DialInv, TypeOK
<1>4. CASE QueryOnMapCompleted(i)
  BY <1>4, ContinueType DEF QueryOnMapCompleted, FinState, DialInv, TypeOK
<1>5. CASE SetCycleCompleted(i)
  BY <1>5, ContinueType
     DEF SetCycleCompleted, FinState, DialInv, TypeOK, Cycle, CycleStatus
<1>6. CASE QueryOnTimer30(i)
  BY <1>6, ContinueType DEF QueryOnTimer30, FinState, DialInv, TypeOK
<1>7. CASE SetSlaWarningFlag(i)
  BY <1>7, ContinueType
     DEF SetSlaWarningFlag, FinState, DialInv, TypeOK, Cycle, CycleStatus
<1>8. CASE StopSfnExecution(i)
  BY <1>8, ContinueType DEF StopSfnExecution, FinState, DialInv, TypeOK, ExecState
<1>9. CASE QueryOnTimer60(i)
  <2>1. ApplyTimeout(Rows) \in SUBSET Employees BY DEF ApplyTimeout, Rows
  <2>2. fin' \in [Invocations -> Finalizer]
    BY <1>9, <2>1 DEF QueryOnTimer60, Finalizer, FinState, TypeOK
  <2> QED BY <1>9, <2>2 DEF QueryOnTimer60, DialInv, TypeOK
<1>10. CASE ForceResponseUnreachable(i)
  <2>1. PICK e \in fin[i].todo :
          /\ row' = IF row[e].voiceStatus \in TimeoutRewrite
                    THEN [row EXCEPT ![e].voiceStatus = "UNREACHABLE"] ELSE row
          /\ fin' = [fin EXCEPT ![i].todo = @ \ {e}]
    BY <1>10 DEF ForceResponseUnreachable
  <2>2. row' \in [Employees -> Response]
    BY <2>1 DEF Response, ValidVoiceStatus, TypeOK
  <2>3. fin' \in [Invocations -> Finalizer] BY <2>1 DEF Finalizer, TypeOK
  <2> QED BY <1>10, <2>2, <2>3 DEF ForceResponseUnreachable, DialInv, TypeOK
<1>11. CASE SetCycleTimeout(i)
  BY <1>11, ContinueType
     DEF SetCycleTimeout, FinState, DialInv, TypeOK, Cycle, CycleStatus
<1>12. CASE PutCycleMetric(i)
  BY <1>12, ContinueType, SendType DEF PutCycleMetric, FinState, Sent, DialInv, TypeOK
<1>13. CASE PublishOperatorNotification(i)
  BY <1>13, ContinueType, SendType
     DEF PublishOperatorNotification, FinState, Sent, DialInv, TypeOK
<1>14. CASE DeleteTimerRules(i)
  BY <1>14, ContinueType DEF DeleteTimerRules, FinState, DialInv, TypeOK
<1>15. CASE InvocationFails(i)
  <2> DEFINE r == [pc |-> IF Trigger[i] = "MAP_COMPLETED" THEN "idle" ELSE "get",
                   todo |-> {}, tries |-> fin[i].tries + 1]
  <2>1. fin' \in [Invocations -> Finalizer]
    <3>1. fin[i].tries \in 0..MaxTries BY DEF TypeOK, Finalizer
    <3>2. CASE fin[i].tries < MaxTries /\ fin' = [fin EXCEPT ![i] = r]
      <4>1. fin[i].tries + 1 \in 0..MaxTries BY <3>1, <3>2, TriesAssumption
      <4>2. r \in Finalizer BY <4>1 DEF Finalizer, FinState
      <4> HIDE DEF r
      <4> QED BY <3>2, <4>2 DEF TypeOK
    <3>3. CASE Continue(i, "done") BY <3>3, ContinueType DEF FinState
    <3> QED BY <1>15, <3>2, <3>3 DEF InvocationFails
  <2>2. exec' \in ExecState BY <1>15 DEF InvocationFails, ExecState, TypeOK
  <2> QED BY <1>15, <2>1, <2>2 DEF InvocationFails, DialInv, TypeOK
<1> QED BY <1>1, <1>2, <1>3, <1>4, <1>5, <1>6, <1>7, <1>8, <1>9, <1>10, <1>11,
           <1>12, <1>13, <1>14, <1>15
        DEF FinalizerStep, InvocationStep

(* A row for an employee who rang in has the type of a row.                  *)
LEMMA AppendInboundTypeInv ==
  ASSUME TypeInv, NEW e \in Employees, AppendInboundToResponse(e) PROVE TypeInv'
<1>1. row' \in [Employees -> Response]
  BY DEF AppendInboundToResponse, TypeInv, TypeOK, Response, ValidVoiceStatus, Retryable
<1> QED BY <1>1 DEF AppendInboundToResponse, TypeInv, TypeOK, DialInv, DialBudget

(* Types and budget are inductive.                                           *)
LEMMA NextTypeInv == TypeInv /\ [Next]_vars => TypeInv'
<1> SUFFICES ASSUME TypeInv, [Next]_vars PROVE TypeInv' OBVIOUS
<1>1. CASE ExecutionStep BY <1>1, ExecutionStepTypeInv
<1>2. CASE \E e \in Employees :
             IterationStep(e) \/ DispatcherStep(e) \/ AppendInboundToResponse(e)
  BY <1>2, IterationStepTypeInv, DispatcherStepTypeInv, AppendInboundTypeInv
<1>3. CASE \E e \in Employees, a \in Attempts : CallStep(e, a) \/ PipelineStep(e, a)
  BY <1>3, CallStepTypeInv, PipelineStepTypeInv
<1>4. CASE \E i \in Invocations : FinalizerStep(i)
  BY <1>4, FinalizerStepTypeInv
<1>5. CASE UNCHANGED vars
  BY <1>5 DEF vars, TypeInv, TypeOK, DialInv, DialBudget
<1> QED BY <1>1, <1>2, <1>3, <1>4, <1>5 DEF Next

(* Every reachable state is well typed and within the budget.                *)
THEOREM TypeInvariance == Spec => []TypeInv
BY InitTypeInv, NextTypeInv, PTL DEF Spec

(* Every variable always has its type.                                       *)
THEOREM TypeCorrect == Spec => []TypeOK
<1>1. TypeInv => TypeOK BY DEF TypeInv
<1> QED BY <1>1, TypeInvariance, PTL

(* No employee is ever dialled more often than the budget allows, for every  *)
(* Retry_Count and whatever fails, repeats or comes late.                    *)
THEOREM DialBudgetHolds == Spec => []DialBudget
<1>1. TypeInv => DialBudget BY DEF TypeInv, DialInv
<1> QED BY <1>1, TypeInvariance, PTL

-----------------------------------------------------------------------------
(* The keys of the recordings.                                               *)

(* A key is the row's counter as it was while the row showed the recording's *)
(* own contact; the next contact is written with a higher counter.           *)
KeyInv ==
  \A e \in Employees, a \in Attempts :
    Named(e, a) => /\ rec[e][a].seq <= row[e].callAttempts
                   /\ row[e].contact # a => rec[e][a].seq < row[e].callAttempts

KeysInv == KeyInv /\ RecordingKeyUnique

(* What a step does not name it does not number: KeysInv is kept by a step   *)
(* after which every named recording was named before under the same key,    *)
(* and which moves the contact only together with the counter.               *)
LEMMA KeepsKeysInv ==
  ASSUME TypeOK, TypeOK', KeysInv,
         \A e \in Employees, a \in Attempts :
           Named(e, a)' => Named(e, a) /\ rec'[e][a].seq = rec[e][a].seq,
         \A e \in Employees :
           \/ /\ row'[e].contact = row[e].contact
              /\ row'[e].callAttempts >= row[e].callAttempts
           \/ row'[e].callAttempts > row[e].callAttempts
  PROVE  KeysInv'
<1>1. KeyInv'
  <2> SUFFICES ASSUME NEW e \in Employees, NEW a \in Attempts, Named(e, a)'
               PROVE  /\ rec'[e][a].seq <= row'[e].callAttempts
                      /\ row'[e].contact # a => rec'[e][a].seq < row'[e].callAttempts
    BY DEF KeyInv
  <2>1. /\ rec[e][a].seq \in Nat /\ rec'[e][a].seq = rec[e][a].seq
        /\ row[e].callAttempts \in Nat /\ row'[e].callAttempts \in Nat
    BY DEF TypeOK, Recording, Response
  <2>2. /\ rec[e][a].seq <= row[e].callAttempts
        /\ row[e].contact # a => rec[e][a].seq < row[e].callAttempts
    BY DEF KeysInv, KeyInv
  <2> QED BY <2>1, <2>2
<1>2. RecordingKeyUnique'
  BY DEF KeysInv, RecordingKeyUnique
<1> QED BY <1>1, <1>2 DEF KeysInv

(* A recording that stops being named, or goes on under its key, keeps both  *)
(* as long as the row is let alone.                                          *)
LEMMA SameKey ==
  ASSUME TypeOK, NEW e \in Employees, NEW a \in Attempts, NEW r,
         rec' = [rec EXCEPT ![e] = [@ EXCEPT ![a] = r]],
         r.stage \in {"stored", "transcript", "matched"} =>
           Named(e, a) /\ r.seq = rec[e][a].seq
  PROVE  \A f \in Employees, b \in Attempts :
           Named(f, b)' => Named(f, b) /\ rec'[f][b].seq = rec[f][b].seq
<1> SUFFICES ASSUME NEW f \in Employees, NEW b \in Attempts
             PROVE  Named(f, b)' => Named(f, b) /\ rec'[f][b].seq = rec[f][b].seq
  OBVIOUS
<1>1. rec'[f][b] = IF f = e /\ b = a THEN r ELSE rec[f][b]
  BY DEF TypeOK
<1> QED BY <1>1 DEF Named

(* RecordingRelocator's rename is the one step that names a recording, and   *)
(* it does so for the row's own contact: all others have smaller keys.       *)
LEMMA RelocateKeysInv ==
  ASSUME TypeOK, KeysInv, NEW e \in Employees, NEW a \in Attempts, Relocate(e, a)
  PROVE  KeysInv'
<1>1. /\ row' = row /\ row[e].contact = a /\ row[e].callAttempts \in Nat
      /\ \A f \in Employees, b \in Attempts : rec[f][b].seq \in Nat
  BY DEF Relocate, TypeOK, Response, Recording
<1>2. \A f \in Employees, b \in Attempts :
        ~(f = e /\ b = a) => rec'[f][b] = rec[f][b]
  BY DEF Relocate, TypeOK
<1>3. rec'[e][a].seq = row[e].callAttempts
  BY DEF Relocate, TypeOK, Recording
<1>4. \A b \in Attempts : b # a /\ Named(e, b)' => rec'[e][b].seq < rec'[e][a].seq
  BY <1>1, <1>2, <1>3 DEF KeysInv, KeyInv, Named
<1>5. KeyInv'
  BY <1>1, <1>2, <1>3 DEF KeysInv, KeyInv, Named
<1>6. RecordingKeyUnique'
  <2> SUFFICES ASSUME NEW f \in Employees, NEW b \in Attempts, NEW c \in Attempts,
                      b # c, Named(f, b)', Named(f, c)'
               PROVE  rec'[f][b].seq # rec'[f][c].seq
    BY DEF RecordingKeyUnique
  <2>1. CASE f = e /\ (b = a \/ c = a)
    <3>1. rec'[e][a].seq \in Nat /\ \A d \in Attempts : d # a => rec'[e][d].seq \in Nat
      BY <1>1, <1>2, <1>3
    <3> QED BY <1>4, <2>1, <3>1
  <2>2. CASE ~(f = e /\ (b = a \/ c = a))
    <3>1. Named(f, b) /\ Named(f, c) /\ rec'[f][b] = rec[f][b] /\ rec'[f][c] = rec[f][c]
      BY <1>2, <2>2 DEF Named
    <3> QED BY <3>1 DEF KeysInv, RecordingKeyUnique
  <2> QED BY <2>1, <2>2
<1> QED BY <1>5, <1>6 DEF KeysInv

(* The other steps of the pipeline name nothing and leave contact and        *)
(* counter alone.                                                            *)
LEMMA PipelineStepKeysInv ==
  ASSUME TypeInv, TypeInv', KeysInv, NEW e \in Employees, NEW a \in Attempts,
         PipelineStep(e, a)
  PROVE  KeysInv'
<1> USE DEF TypeInv
<1>0. /\ row \in [Employees -> Response] /\ row' \in [Employees -> Response]
      /\ rec[e][a] \in Recording
  BY DEF TypeOK
<1>1. ASSUME NEW s, Move(e, a, s), s \in {"stored", "transcript", "matched"} => Named(e, a)
      PROVE  \A f \in Employees, b \in Attempts :
               Named(f, b)' => Named(f, b) /\ rec'[f][b].seq = rec[f][b].seq
  <2> DEFINE r == [rec[e][a] EXCEPT !.stage = s]
  <2>1. rec' = [rec EXCEPT ![e] = [@ EXCEPT ![a] = r]] BY <1>1 DEF Move
  <2>2. r.stage = s /\ r.seq = rec[e][a].seq BY <1>0 DEF Recording
  <2> HIDE DEF r
  <2> QED BY <1>1, <2>1, <2>2, SameKey
<1>2. ASSUME \/ row' = row
             \/ \E v : row' = [row EXCEPT ![e].callResultCode = v]
             \/ \E v : row' = [row EXCEPT ![e].voiceStatus = v]
             \/ \E v : row' = [row EXCEPT ![e].voiceStatus = v, ![e].excerpt = a]
      PROVE  \A f \in Employees : /\ row'[f].contact = row[f].contact
                                  /\ row'[f].callAttempts >= row[f].callAttempts
  <2>1. \A f \in Employees : row'[f].contact = row[f].contact
                              /\ row'[f].callAttempts = row[f].callAttempts
    <3>1. CASE row' = row BY <3>1
    <3>2. ASSUME NEW s, row' = [row EXCEPT ![e].callResultCode = s]
          PROVE  \A f \in Employees : /\ row'[f].contact = row[f].contact
                                    /\ row'[f].callAttempts = row[f].callAttempts
      BY <1>0, <3>2 DEF Response
    <3>3. ASSUME NEW s, row' = [row EXCEPT ![e].voiceStatus = s] PROVE \A f \in Employees : /\ row'[f].contact = row[f].contact
                                    /\ row'[f].callAttempts = row[f].callAttempts
      BY <1>0, <3>3 DEF Response
    <3>4. ASSUME NEW s, row' = [row EXCEPT ![e].voiceStatus = s, ![e].excerpt = a]
          PROVE  \A f \in Employees : /\ row'[f].contact = row[f].contact
                                    /\ row'[f].callAttempts = row[f].callAttempts
      BY <1>0, <3>4 DEF Response
    <3> QED BY <1>2, <3>1, <3>2, <3>3, <3>4
  <2>2. \A f \in Employees : row[f].callAttempts \in Nat BY <1>0 DEF Response
  <2> QED BY <2>1, <2>2
<1>3. CASE RecordingStored(e, a)
  BY <1>1, <1>2, <1>3, KeepsKeysInv DEF RecordingStored
<1>4. CASE Relocate(e, a) BY <1>4, RelocateKeysInv
<1>5. CASE RelocateMisses(e, a)
  BY <1>1, <1>2, <1>5, KeepsKeysInv DEF RelocateMisses
<1>6. CASE StartTranscribeJob(e, a)
  <2>1. PICK h \in Heard :
          rec' = [rec EXCEPT ![e] = [@ EXCEPT ![a] =
                    IF JobExists(e, rec[e][a].seq)
                    THEN [rec[e][a] EXCEPT !.stage = "lost"]
                    ELSE [rec[e][a] EXCEPT !.stage = "transcript", !.heard = h]]]
    BY <1>6 DEF StartTranscribeJob
  <2> DEFINE r == IF JobExists(e, rec[e][a].seq)
                  THEN [rec[e][a] EXCEPT !.stage = "lost"]
                  ELSE [rec[e][a] EXCEPT !.stage = "transcript", !.heard = h]
  <2>2. rec' = [rec EXCEPT ![e] = [@ EXCEPT ![a] = r]] BY <2>1
  <2>3. r.seq = rec[e][a].seq BY <1>0 DEF Recording
  <2>4. Named(e, a) BY <1>6 DEF StartTranscribeJob, RecAt, Named
  <2> HIDE DEF r
  <2>5. \A f \in Employees, b \in Attempts :
          Named(f, b)' => Named(f, b) /\ rec'[f][b].seq = rec[f][b].seq
    BY <2>2, <2>3, <2>4, SameKey
  <2> QED BY <1>2, <1>6, <2>5, KeepsKeysInv DEF StartTranscribeJob
<1>7. CASE TranscribeFails(e, a)
  BY <1>1, <1>2, <1>7, KeepsKeysInv DEF TranscribeFails
<1>8. CASE MatchKeywords(e, a)
  <2>1. Named(e, a) BY <1>8 DEF MatchKeywords, RecAt, Named
  <2> QED BY <1>1, <1>2, <1>8, <2>1, KeepsKeysInv DEF MatchKeywords
<1>9. CASE RecordOtherFallback(e, a)
  BY <1>1, <1>2, <1>9, KeepsKeysInv DEF RecordOtherFallback, SetVoiceStatus
<1> QED BY <1>3, <1>4, <1>5, <1>6, <1>7, <1>8, <1>9 DEF PipelineStep

(* Outside the pipeline only the dispatcher touches contact or counter, and  *)
(* it raises the counter whenever it writes a contact.                       *)
LEMMA CounterFollowsContact ==
  ASSUME TypeInv, [Next]_vars,
         ~\E e \in Employees, a \in Attempts : PipelineStep(e, a)
  PROVE  /\ rec' = rec
         /\ \A e \in Employees :
              \/ /\ row'[e].contact = row[e].contact
                 /\ row'[e].callAttempts >= row[e].callAttempts
              \/ row'[e].callAttempts > row[e].callAttempts
<1> DEFINE Same == \A e \in Employees :
                     /\ row'[e].contact = row[e].contact
                     /\ row'[e].callAttempts = row[e].callAttempts
<1>0. /\ row \in [Employees -> Response]
      /\ \A e \in Employees : row[e].callAttempts \in Nat
  BY DEF TypeInv, TypeOK, Response
<1>1. CASE ExecutionStep \/ UNCHANGED vars
  BY <1>0, <1>1 DEF ExecutionStep, LoadTargets, LoadTargetsFails, MapCompletes,
                    ExecutionSucceeds, vars
<1>2. ASSUME NEW e \in Employees, IterationStep(e) PROVE rec' = rec /\ Same
  BY <1>0, <1>2
     DEF IterationStep, InitAttempt, InitAttemptFails, DispatchTimeout, ReadResponse,
         ReadResponseFails, EvaluateRetry, EvaluateRetryFails, Redial, FinalizeOne,
         FinalizeOneError, IterationFails, SetVoiceStatus, Response
<1>3. ASSUME NEW e \in Employees, DispatcherStep(e)
      PROVE  rec' = rec /\ \A f \in Employees :
                             \/ /\ row'[f].contact = row[f].contact
                                /\ row'[f].callAttempts >= row[f].callAttempts
                             \/ row'[f].callAttempts > row[f].callAttempts
  <2>1. CASE RecordSuccess(e) BY <1>0, <2>1 DEF RecordSuccess, Response
  <2>2. CASE RecordError(e) BY <1>0, <2>2 DEF RecordError, Response
  <2> QED BY <1>0, <1>3, <2>1, <2>2
          DEF DispatcherStep, StartOutboundCall, DispatchExhausted,
              SendRetryTaskSuccess, DispatcherFails
<1>4. ASSUME NEW e \in Employees, NEW a \in Attempts, CallStep(e, a) PROVE rec' = rec /\ Same
  BY <1>0, <1>4 DEF CallStep, CallEnds, CallDrops, RecordCallEnd, SendTaskSuccess,
                    CallEndFails, Response
<1>5. ASSUME NEW e \in Employees, AppendInboundToResponse(e) PROVE rec' = rec /\ Same
  BY <1>0, <1>5 DEF AppendInboundToResponse, Response
<1>6. ASSUME NEW i \in Invocations, FinalizerStep(i) PROVE rec' = rec /\ Same
  <2>1. CASE ForceResponseUnreachable(i)
    BY <1>0, <2>1 DEF ForceResponseUnreachable, Response
  <2> QED BY <1>6, <2>1
     DEF FinalizerStep, InvocationStep, FinalizeInvoked, TimerFires, GetCycle,
         QueryOnMapCompleted, SetCycleCompleted, QueryOnTimer30, SetSlaWarningFlag,
         StopSfnExecution, QueryOnTimer60, SetCycleTimeout, PutCycleMetric,
         PublishOperatorNotification, DeleteTimerRules, InvocationFails
<1> QED BY <1>0, <1>1, <1>2, <1>3, <1>4, <1>5, <1>6 DEF Next

(* Types, budget and keys are inductive together.                            *)
LEMMA NextKeysInv == TypeInv /\ KeysInv /\ [Next]_vars => KeysInv'
<1> SUFFICES ASSUME TypeInv, KeysInv, [Next]_vars PROVE KeysInv' OBVIOUS
<1>0. TypeInv' BY NextTypeInv
<1>1. CASE \E e \in Employees, a \in Attempts : PipelineStep(e, a)
  BY <1>0, <1>1, PipelineStepKeysInv
<1>2. CASE ~\E e \in Employees, a \in Attempts : PipelineStep(e, a)
  <2>1. /\ rec' = rec
        /\ \A e \in Employees :
             \/ /\ row'[e].contact = row[e].contact
                /\ row'[e].callAttempts >= row[e].callAttempts
             \/ row'[e].callAttempts > row[e].callAttempts
    BY <1>2, CounterFollowsContact
  <2>2. \A e \in Employees, a \in Attempts :
          Named(e, a)' => Named(e, a) /\ rec'[e][a].seq = rec[e][a].seq
    BY <2>1 DEF Named
  <2> QED BY <1>0, <2>1, <2>2, KeepsKeysInv DEF TypeInv
<1> QED BY <1>1, <1>2

(* No two recordings of an employee are ever given the same S3 key, whatever *)
(* dispatch is lost, exhausted, counted without a call or overtaken by the   *)
(* next one (RecordingRelocator reads what _record_success wrote at once).   *)
THEOREM RecordingKeysAreUnique == Spec => []RecordingKeyUnique
<1>1. Init => KeysInv
  BY DEF Init, KeysInv, KeyInv, RecordingKeyUnique, Named
<1>2. KeysInv => RecordingKeyUnique BY DEF KeysInv
<1> QED BY <1>1, <1>2, TypeInvariance, NextKeysInv, PTL DEF Spec

-----------------------------------------------------------------------------
(* An answer that has been read.                                             *)

(* The iteration that has read it is past every state from which a           *)
(* dispatcher is started, and none is running.                               *)
SeenInv ==
  \A e \in Employees : iter[e].seen \in Confirmed =>
    /\ dispatcher[e] = "idle"
    /\ iter[e].state \notin {"Queued", "Dispatch", "WaitInterval"}

LEMMA NextSeenInv ==
  ASSUME TypeInv, SeenInv, [Next]_vars PROVE SeenInv'
<1> USE DEF TypeInv, TypeOK
<1>1. CASE UNCHANGED <<iter, dispatcher>>
  BY <1>1 DEF SeenInv
<1>2. ASSUME NEW e \in Employees, IterationStep(e) PROVE SeenInv'
  <2>1. CASE ReadResponse(e)
    BY <2>1 DEF ReadResponse, SeenInv, Iteration
  <2>2. CASE EvaluateRetry(e)
    <3>1. iter[e].seen \in Confirmed => ~ ShouldRetry(iter[e].seen, iter[e].attempt, RetryCount)
      BY DEF ShouldRetry, Confirmed, Retryable
    <3> QED BY <2>2, <3>1 DEF EvaluateRetry, Goto, InMap, SeenInv, Iteration
  <2>3. CASE InitAttempt(e) \/ Redial(e)
    <3>1. iter[e].seen \notin Confirmed
      BY <2>3 DEF InitAttempt, Redial, InMap, SeenInv
    <3>2. iter'[e].seen = iter[e].seen
      BY <2>3 DEF InitAttempt, Redial, Goto, Iteration
    <3>3. \A f \in Employees : f # e => iter'[f] = iter[f] /\ dispatcher'[f] = dispatcher[f]
      BY <2>3 DEF InitAttempt, Redial, Goto
    <3> QED BY <3>1, <3>2, <3>3 DEF SeenInv
  <2>4. ASSUME NEW s \in {"FinalizeOneError", "WaitForTranscribe", "Done"}, Goto(e, s),
               dispatcher' = dispatcher
        PROVE  SeenInv'
    BY <2>4 DEF Goto, SeenInv, Iteration
  <2>6. CASE \/ InitAttemptFails(e) \/ DispatchTimeout(e) \/ ReadResponseFails(e)
             \/ EvaluateRetryFails(e) \/ FinalizeOne(e) \/ FinalizeOneError(e)
    BY <2>4, <2>6 DEF InitAttemptFails, DispatchTimeout, ReadResponseFails,
                      EvaluateRetryFails, FinalizeOne, FinalizeOneError
  <2>5. CASE IterationFails(e)
    BY <2>5, <1>1 DEF IterationFails
  <2> QED BY <1>2, <2>1, <2>2, <2>3, <2>5, <2>6 DEF IterationStep
<1>3. ASSUME NEW e \in Employees, NEW a \in Attempts, ReleaseToken(e, a)
      PROVE  /\ \A f \in Employees : iter'[f].seen = iter[f].seen
             /\ \A f \in Employees : iter'[f].state \in {iter[f].state, "WaitForTranscribe"}
  BY <1>3 DEF ReleaseToken, Iteration
<1>4. ASSUME NEW e \in Employees, DispatcherStep(e) PROVE SeenInv'
  <2>1. /\ dispatcher[e] # "idle"
        /\ \E s : dispatcher' = [dispatcher EXCEPT ![e] = s]
        /\ iter' = iter \/ ReleaseToken(e, Attempt(e))
    BY <1>4 DEF DispatcherStep, StartOutboundCall, DispatchExhausted, RecordSuccess, RecordError,
                SendRetryTaskSuccess, DispatcherFails, DispatcherAt, Advance
  <2>2. Attempt(e) \in Attempts BY DEF Attempt, Iteration
  <2>3. \A f \in Employees : /\ iter'[f].seen = iter[f].seen
                             /\ iter'[f].state \in {iter[f].state, "WaitForTranscribe"}
    BY <1>3, <2>1, <2>2
  <2>4. \A f \in Employees : f # e => dispatcher'[f] = dispatcher[f]
    BY <2>1
  <2> QED BY <2>1, <2>3, <2>4 DEF SeenInv
<1>5. ASSUME NEW e \in Employees, NEW a \in Attempts, CallStep(e, a) PROVE SeenInv'
  <2>1. dispatcher' = dispatcher /\ (iter' = iter \/ ReleaseToken(e, a))
    BY <1>5 DEF CallStep, CallEnds, CallDrops, RecordCallEnd, SendTaskSuccess, CallEndFails
  <2> QED BY <1>3, <2>1 DEF SeenInv
<1>6. CASE \/ ExecutionStep \/ UNCHANGED vars
           \/ \E e \in Employees, a \in Attempts : PipelineStep(e, a)
           \/ \E e \in Employees : AppendInboundToResponse(e)
           \/ \E i \in Invocations : FinalizerStep(i)
  <2>1. UNCHANGED <<iter, dispatcher>>
    BY <1>6
       DEF ExecutionStep, LoadTargets, LoadTargetsFails, MapCompletes, ExecutionSucceeds, vars,
           PipelineStep, RecordingStored, Relocate, RelocateMisses, StartTranscribeJob,
           TranscribeFails, MatchKeywords, RecordOtherFallback, AppendInboundToResponse,
           FinalizerStep, InvocationStep, FinalizeInvoked, TimerFires, GetCycle,
           QueryOnMapCompleted, SetCycleCompleted, QueryOnTimer30, SetSlaWarningFlag,
           StopSfnExecution, QueryOnTimer60, ForceResponseUnreachable, SetCycleTimeout,
           PutCycleMetric, PublishOperatorNotification, DeleteTimerRules, InvocationFails
  <2> QED BY <1>1, <2>1
<1> QED BY <1>2, <1>4, <1>5, <1>6 DEF Next

(* Nobody is rung again whose answer ReadResponse has seen (Requirement      *)
(* 9.3), whatever dispatcher is late, dies or was retried: the evaluator     *)
(* stops the loop, and no dispatcher outlives the wait that precedes it.     *)
THEOREM ReadAnswersAreTheEnd == Spec => ReadAnswersEndDialing
<1>1. Init => SeenInv
  BY DEF Init, SeenInv, Confirmed
<1>2. ASSUME TypeInv, SeenInv, [Next]_vars
      PROVE  \A e \in Employees, a \in Attempts :
               call[e][a] = "none" /\ call'[e][a] # "none" => iter[e].seen \notin Confirmed
  <2> SUFFICES ASSUME NEW e \in Employees, NEW a \in Attempts,
                      call[e][a] = "none", call'[e][a] # "none"
               PROVE  iter[e].seen \notin Confirmed
    OBVIOUS
  <2>1. StartOutboundCall(e)
    <3>0. call \in [Employees -> [Attempts -> CallState]]
      BY <1>2 DEF TypeInv, TypeOK
    <3>1. ASSUME NEW f \in Employees, DispatcherStep(f) PROVE StartOutboundCall(e)
      <4>1. call' = call \/ StartOutboundCall(f)
        BY <3>1 DEF DispatcherStep, DispatchExhausted, RecordSuccess, RecordError,
                    SendRetryTaskSuccess, DispatcherFails
      <4>2. f # e => ~ StartOutboundCall(f)
        BY <3>0 DEF StartOutboundCall
      <4> QED BY <4>1, <4>2
    <3>2. ASSUME NEW f \in Employees, NEW b \in Attempts, CallStep(f, b) PROVE FALSE
      <4>1. call[f][b] # "none" /\ \E s : call' = [call EXCEPT ![f][b] = s]
        BY <3>2 DEF CallStep, CallEnds, CallDrops, RecordCallEnd, SendTaskSuccess, CallEndFails
      <4>2. f # e \/ b # a BY <4>1
      <4>3. call'[e][a] = call[e][a]
        BY <3>0, <4>1, <4>2
      <4> QED BY <4>3
    <3>3. CASE \/ ExecutionStep \/ UNCHANGED vars
               \/ \E f \in Employees, b \in Attempts : PipelineStep(f, b)
               \/ \E f \in Employees : IterationStep(f) \/ AppendInboundToResponse(f)
               \/ \E i \in Invocations : FinalizerStep(i)
      <4>1. call' = call
        BY <3>3
           DEF ExecutionStep, LoadTargets, LoadTargetsFails, MapCompletes, ExecutionSucceeds,
               vars, IterationStep, InitAttempt, InitAttemptFails, DispatchTimeout,
               ReadResponse, ReadResponseFails, EvaluateRetry, EvaluateRetryFails, Redial,
               FinalizeOne, FinalizeOneError, IterationFails,
               PipelineStep, RecordingStored, Relocate, RelocateMisses, StartTranscribeJob,
               TranscribeFails, MatchKeywords, RecordOtherFallback, AppendInboundToResponse,
               FinalizerStep, InvocationStep, FinalizeInvoked, TimerFires, GetCycle,
               QueryOnMapCompleted, SetCycleCompleted, QueryOnTimer30, SetSlaWarningFlag,
               StopSfnExecution, QueryOnTimer60, ForceResponseUnreachable, SetCycleTimeout,
               PutCycleMetric, PublishOperatorNotification, DeleteTimerRules, InvocationFails
      <4> QED BY <4>1
    <3> QED BY <1>2, <3>1, <3>2, <3>3 DEF Next
  <2> QED BY <1>2, <2>1 DEF StartOutboundCall, DispatcherAt, SeenInv
<1> QED BY <1>1, <1>2, TypeInvariance, NextSeenInv, PTL DEF Spec, ReadAnswersEndDialing

=============================================================================
