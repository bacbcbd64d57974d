------------------------- MODULE CycleOutcomeProofs -------------------------
(***************************************************************************)
(* What a closed cycle says of its targets: COMPLETED is written only when *)
(* every target's iteration is over and has left an outcome, TIMEOUT only  *)
(* when no target who was dialled is PENDING; and no answer is taken back. *)
(***************************************************************************)
EXTENDS CycleLifecycleProofs

Outcome(e) == row[e].voiceStatus \notin {"ABSENT", "PENDING"}

DoneInv == \A e \in Employees : iter[e].state = "Done" => Outcome(e)

(* The Map has ended well: the machine is past it, or has invoked the        *)
(* finalizer (perhaps before it was stopped), or the finalizer is done.      *)
Ended ==
  \/ exec \in {"Finalize", "Succeeded"}
  \/ \E i \in Invocations : Trigger[i] = "MAP_COMPLETED" /\ fin[i].pc # "idle"
  \/ cycle.status = "COMPLETED"

EndedInv ==
  Ended => /\ exec \notin {"LoadTargets", "Map"}
           /\ \A e \in targets : iter[e].state = "Done"

(* A finalizer step leaves the iterations alone, never takes the machine     *)
(* back into the Map, and makes Ended true only where it was.                *)
LEMMA FinalizerStepEnded ==
  ASSUME TypeOK, NEW i \in Invocations, FinalizerStep(i)
  PROVE  /\ UNCHANGED <<targets, iter>>
         /\ exec \notin {"LoadTargets", "Map"} => exec' \notin {"LoadTargets", "Map"}
         /\ Ended' => Ended
<1> USE TriggerAssumption DEF Triggers
<1>1. CASE FinalizeInvoked(i)
  BY <1>1 DEF FinalizeInvoked, Ended
<1>2. ASSUME exec' = exec, cycle' = cycle,
             \A j \in Invocations : fin'[j].pc # "idle" /\ Trigger[j] = "MAP_COMPLETED"
               => fin[j].pc # "idle"
      PROVE  Ended' => Ended
  BY <1>2 DEF Ended
<1>3. CASE TimerFires(i)
  BY <1>2, <1>3, ContinueFacts DEF TimerFires, At
<1>4. ASSUME fin[i].pc # "idle", \A j \in Invocations : j # i => fin'[j].pc = fin[j].pc,
             cycle'.status = "COMPLETED" => cycle.status = "COMPLETED" \/ Trigger[i] = "MAP_COMPLETED",
             exec' \in {"Finalize", "Succeeded"} => exec' = exec
      PROVE  Ended' => Ended
  BY <1>4 DEF Ended
<1>5. CASE GetCycle(i) BY <1>4, <1>5, ContinueFacts DEF GetCycle
<1>6. CASE QueryOnMapCompleted(i) BY <1>4, <1>6, ContinueFacts DEF QueryOnMapCompleted, At
<1>7. CASE SetCycleCompleted(i) BY <1>4, <1>7, ContinueFacts DEF SetCycleCompleted, At
<1>8. CASE QueryOnTimer30(i) BY <1>4, <1>8, ContinueFacts DEF QueryOnTimer30, At
<1>9. CASE SetSlaWarningFlag(i)
  <2>1. cycle'.status = cycle.status BY <1>9 DEF SetSlaWarningFlag, TypeOK, Cycle
  <2> QED BY <1>4, <1>9, <2>1, ContinueFacts DEF SetSlaWarningFlag, At
<1>10. CASE StopSfnExecution(i)
  BY <1>4, <1>10, ContinueFacts DEF StopSfnExecution, At
<1>11. CASE QueryOnTimer60(i)
  BY <1>4, <1>11 DEF QueryOnTimer60, At, TypeOK, Finalizer
<1>12. CASE ForceResponseUnreachable(i)
  BY <1>4, <1>12 DEF ForceResponseUnreachable, At, TypeOK, Finalizer
<1>13. CASE SetCycleTimeout(i)
  <2>1. cycle'.status = "TIMEOUT" \/ cycle' = cycle
    BY <1>13 DEF SetCycleTimeout, TypeOK, Cycle
  <2> QED BY <1>4, <1>13, <2>1, ContinueFacts DEF SetCycleTimeout, At
<1>14. CASE PutCycleMetric(i) BY <1>4, <1>14, ContinueFacts DEF PutCycleMetric
<1>15. CASE PublishOperatorNotification(i)
  BY <1>4, <1>15, ContinueFacts DEF PublishOperatorNotification
<1>16. CASE DeleteTimerRules(i) BY <1>4, <1>16, ContinueFacts DEF DeleteTimerRules
<1>17. CASE InvocationFails(i)
  <2>1. \A j \in Invocations : j # i => fin'[j].pc = fin[j].pc
    BY <1>17 DEF InvocationFails, Continue, TypeOK
  <2> QED BY <1>4, <1>17, <2>1 DEF InvocationFails
<1> QED BY <1>1, <1>3, <1>5, <1>6, <1>7, <1>8, <1>9, <1>10, <1>11, <1>12, <1>13,
           <1>14, <1>15, <1>16, <1>17
        DEF FinalizerStep, InvocationStep

(* Once the Map has ended well no iteration moves any more.                  *)
LEMMA NextEndedInv == TypeInv /\ EndedInv /\ [Next]_vars => EndedInv'
<1> SUFFICES ASSUME TypeInv, EndedInv, [Next]_vars PROVE EndedInv' OBVIOUS
<1>1. CASE \E i \in Invocations : FinalizerStep(i)
  BY <1>1, FinalizerStepEnded DEF TypeInv, EndedInv
<1>2. CASE LoadTargets BY <1>2 DEF LoadTargets, EndedInv, Ended
<1>3. CASE LoadTargetsFails BY <1>3 DEF LoadTargetsFails, EndedInv, Ended
<1>4. CASE MapCompletes BY <1>4 DEF MapCompletes, EndedInv
<1>5. CASE ExecutionSucceeds BY <1>5 DEF ExecutionSucceeds, EndedInv, Ended
<1>6. ASSUME NEW e \in Employees, IterationStep(e) PROVE EndedInv'
  <2>1. /\ exec = "Map" /\ exec' \in {"Map", "Failed"}
        /\ UNCHANGED <<fin, cycle>>
    BY <1>6 DEF IterationStep, InMap, InitAttempt, InitAttemptFails, DispatchTimeout,
                ReadResponse, ReadResponseFails, EvaluateRetry, EvaluateRetryFails,
                Redial, FinalizeOne, FinalizeOneError, IterationFails
  <2> QED BY <2>1 DEF EndedInv, Ended
<1>7. ASSUME NEW e \in Employees, NEW a \in Attempts,
             DispatcherStep(e) \/ CallStep(e, a) \/ PipelineStep(e, a)
               \/ AppendInboundToResponse(e)
      PROVE  EndedInv'
  <2>1. UNCHANGED <<exec, targets, fin, cycle>> /\ (exec # "Map" => iter' = iter)
    <3>1. CASE DispatcherStep(e)
      BY <3>1 DEF DispatcherStep, StartOutboundCall, DispatchExhausted, RecordSuccess,
                  RecordError, SendRetryTaskSuccess, DispatcherFails, ReleaseToken
    <3>2. CASE CallStep(e, a)
      BY <3>2 DEF CallStep, CallEnds, CallDrops, RecordCallEnd, SendTaskSuccess,
                  CallEndFails, ReleaseToken
    <3>3. CASE PipelineStep(e, a)
      BY <3>3 DEF PipelineStep, RecordingStored, Relocate, RelocateMisses,
                  StartTranscribeJob, TranscribeFails, MatchKeywords, RecordOtherFallback
    <3>4. CASE AppendInboundToResponse(e) BY <3>4 DEF AppendInboundToResponse
    <3> QED BY <1>7, <3>1, <3>2, <3>3, <3>4
  <2> QED BY <2>1 DEF EndedInv, Ended
<1>8. CASE UNCHANGED vars BY <1>8 DEF vars, EndedInv, Ended
<1> QED BY <1>1, <1>2, <1>3, <1>4, <1>5, <1>6, <1>7, <1>8, AttemptsFacts
        DEF Next, ExecutionStep

-----------------------------------------------------------------------------

(* How a status moves: a row stays a row, PENDING is only ever a row's first *)
(* status, and a confirmed one is replaced by UNREACHABLE only by the        *)
(* iteration's own last write.                                               *)
StatusMove(e) ==
  /\ HasRow(e) => HasRow(e)'
  /\ row'[e].voiceStatus = "PENDING" => row[e].voiceStatus \in {"PENDING", "ABSENT"}
  /\ row[e].voiceStatus \in Confirmed /\ row'[e].voiceStatus = "UNREACHABLE"
       => iter[e].state = "FinalizeOne" /\ iter'[e].state = "Done"

LEMMA StatusMoves ==
  ASSUME TypeOK, [Next]_vars PROVE \A e \in Employees : StatusMove(e)
<1> USE DEF StatusMove, HasRow
<1>0. /\ row \in [Employees -> Response]
      /\ iter \in [Employees -> Iteration]
      /\ rec \in [Employees -> [Attempts -> Recording]]
  BY DEF TypeOK
<1>1. ASSUME \A e \in Employees : row'[e].voiceStatus = row[e].voiceStatus
      PROVE  \A e \in Employees : StatusMove(e)
  BY <1>1 DEF Confirmed
<1>2. CASE ExecutionStep \/ UNCHANGED vars
  BY <1>1, <1>2 DEF ExecutionStep, LoadTargets, LoadTargetsFails, MapCompletes,
                    ExecutionSucceeds, vars
<1>3. ASSUME NEW e \in Employees, IterationStep(e)
      PROVE  \A f \in Employees : StatusMove(f)
  <2>1. CASE InitAttempt(e) BY <1>0, <2>1 DEF InitAttempt, Response, Confirmed
  <2>2. CASE FinalizeOne(e)
    <3>1. DeriveFinalStatus(iter[e].seen) \notin {"ABSENT", "PENDING"} BY StatusFacts
    <3>2. iter[e].state = "FinalizeOne" /\ iter'[e].state = "Done"
      BY <1>0, <2>2 DEF FinalizeOne, InMap, Goto, Iteration
    <3>3. \A f \in Employees :
            row'[f].voiceStatus = IF f = e THEN DeriveFinalStatus(iter[e].seen)
                                  ELSE row[f].voiceStatus
      BY <1>0, <2>2 DEF FinalizeOne, SetVoiceStatus, Response
    <3> QED BY <3>1, <3>2, <3>3 DEF Confirmed
  <2>3. CASE FinalizeOneError(e)
    BY <1>0, <2>3 DEF FinalizeOneError, Response, Confirmed
  <2> QED BY <1>1, <1>3, <2>1, <2>2, <2>3
          DEF IterationStep, InitAttemptFails, DispatchTimeout, ReadResponse,
              ReadResponseFails, EvaluateRetry, EvaluateRetryFails, Redial, IterationFails
<1>4. ASSUME NEW e \in Employees, DispatcherStep(e)
      PROVE  \A f \in Employees : StatusMove(f)
  <2>1. \A f \in Employees : row'[f].voiceStatus = row[f].voiceStatus
    BY <1>0, <1>4 DEF DispatcherStep, StartOutboundCall, DispatchExhausted, RecordSuccess,
                RecordError, SendRetryTaskSuccess, DispatcherFails, Response
  <2> QED BY <1>1, <2>1
<1>5. ASSUME NEW e \in Employees, NEW a \in Attempts, CallStep(e, a)
      PROVE  \A f \in Employees : StatusMove(f)
  <2>1. \A f \in Employees : row'[f].voiceStatus = row[f].voiceStatus
    BY <1>0, <1>5 DEF CallStep, CallEnds, CallDrops, RecordCallEnd, SendTaskSuccess,
                CallEndFails, Response
  <2> QED BY <1>1, <2>1
<1>6. ASSUME NEW e \in Employees, NEW a \in Attempts, PipelineStep(e, a)
      PROVE  \A f \in Employees : StatusMove(f)
  <2>1. CASE MatchKeywords(e, a)
    <3>1. rec[e][a].heard \in Classified
      BY <1>0, <2>1 DEF MatchKeywords, RecAt, Recording
    <3>2. rec[e][a].heard \notin {"ABSENT", "PENDING", "UNREACHABLE"}
      BY <3>1 DEF Classified, Confirmed
    <3>3. \A f \in Employees :
            row'[f].voiceStatus = IF f = e THEN rec[e][a].heard ELSE row[f].voiceStatus
      BY <1>0, <2>1 DEF MatchKeywords, Response
    <3> QED BY <3>2, <3>3 DEF Confirmed
  <2>2. CASE RecordOtherFallback(e, a)
    BY <1>0, <2>2 DEF RecordOtherFallback, SetVoiceStatus, Response, Confirmed
  <2>3. CASE TranscribeFails(e, a)
    <3>1. \A f \in Employees : row'[f].voiceStatus = row[f].voiceStatus
      BY <1>0, <2>3 DEF TranscribeFails, Response
    <3> QED BY <1>1, <3>1
  <2> QED BY <1>1, <1>6, <2>1, <2>2, <2>3
          DEF PipelineStep, RecordingStored, Relocate, RelocateMisses, StartTranscribeJob
<1>7. ASSUME NEW e \in Employees, AppendInboundToResponse(e)
      PROVE  \A f \in Employees : StatusMove(f)
  BY <1>0, <1>7 DEF AppendInboundToResponse, Response, Confirmed
<1>8. ASSUME NEW i \in Invocations, FinalizerStep(i)
      PROVE  \A f \in Employees : StatusMove(f)
  <2>1. CASE ForceResponseUnreachable(i)
    BY <1>0, <2>1 DEF ForceResponseUnreachable, Response, TimeoutRewrite, Confirmed
  <2> QED BY <1>1, <1>8, <2>1
       DEF FinalizerStep, InvocationStep, FinalizeInvoked, TimerFires, GetCycle,
           QueryOnMapCompleted, SetCycleCompleted, QueryOnTimer30, SetSlaWarningFlag,
           StopSfnExecution, QueryOnTimer60, SetCycleTimeout, PutCycleMetric,
           PublishOperatorNotification, DeleteTimerRules, InvocationFails
<1> QED BY <1>2, <1>3, <1>4, <1>5, <1>6, <1>7, <1>8 DEF Next

(* An answer is never taken back by a timer, an inbound call, a transcript   *)
(* or an error: only the FinalizeOne of the iteration itself can, with the   *)
(* copy it read before (_force_response_unreachable is conditional).         *)
THEOREM TimeoutsKeepAnswers == Spec => TimeoutKeepsAnswers
<1>1. TypeOK /\ [Next]_vars =>
        [\A e \in Employees :
           row[e].voiceStatus \in Confirmed /\ row'[e].voiceStatus = "UNREACHABLE"
             => iter[e].state = "FinalizeOne" /\ iter'[e].state = "Done"]_vars
  BY StatusMoves DEF StatusMove
<1> QED BY <1>1, TypeCorrect, PTL DEF Spec, TimeoutKeepsAnswers

-----------------------------------------------------------------------------
(* What COMPLETED says of the targets.                                       *)

(* Releasing a token makes no iteration Done.                                *)
LEMMA ReleaseNotDone ==
  ASSUME TypeOK, NEW e \in Employees, NEW a, ReleaseToken(e, a)
  PROVE  \A f \in Employees : iter'[f].state = "Done" => iter[f].state = "Done"
BY DEF ReleaseToken, TypeOK, Iteration

(* Nor does moving one anywhere else.                                        *)
LEMMA GotoNotDone ==
  ASSUME TypeOK, NEW e \in Employees, NEW s, s # "Done", Goto(e, s)
  PROVE  \A f \in Employees : iter'[f].state = "Done" => iter[f].state = "Done"
BY DEF Goto, TypeOK, Iteration

(* Every step keeps DoneInv: the writes that end an iteration leave an       *)
(* outcome, and no writer takes one away.                                    *)
LEMMA NextDoneInv == TypeInv /\ DoneInv /\ [Next]_vars => DoneInv'
<1> SUFFICES ASSUME TypeInv, DoneInv, [Next]_vars PROVE DoneInv' OBVIOUS
<1> USE DEF TypeInv
<1>0. row \in [Employees -> Response] /\ iter \in [Employees -> Iteration]
  BY DEF TypeOK
<1>1. ASSUME \A e \in Employees :
               iter'[e].state = "Done" => iter[e].state = "Done" \/ Outcome(e)'
      PROVE  DoneInv'
  <2>1. \A e \in Employees : Outcome(e) => Outcome(e)'
    BY StatusMoves DEF StatusMove, HasRow, Outcome
  <2> QED BY <1>1, <2>1 DEF DoneInv
<1>2. ASSUME NEW e \in Employees, IterationStep(e) PROVE DoneInv'
  <2>1. CASE FinalizeOne(e)
    <3>1. DeriveFinalStatus(iter[e].seen) \notin {"ABSENT", "PENDING"} BY StatusFacts
    <3>2. Outcome(e)'
      BY <1>0, <2>1, <3>1 DEF FinalizeOne, SetVoiceStatus, Outcome, Response
    <3> QED BY <1>0, <1>1, <2>1, <3>2 DEF FinalizeOne, Goto
  <2>2. CASE FinalizeOneError(e)
    <3>1. Outcome(e)' BY <1>0, <2>2 DEF FinalizeOneError, Outcome, Response
    <3> QED BY <1>0, <1>1, <2>2, <3>1 DEF FinalizeOneError, Goto
  <2> QED BY <1>0, <1>1, <1>2, <2>1, <2>2, GotoNotDone
          DEF IterationStep, InitAttempt, InitAttemptFails, DispatchTimeout, ReadResponse,
              ReadResponseFails, EvaluateRetry, EvaluateRetryFails, Redial,
              IterationFails, Iteration
<1>3. ASSUME NEW e \in Employees, DispatcherStep(e) PROVE DoneInv'
  <2>1. iter' = iter \/ ReleaseToken(e, Attempt(e))
    BY <1>3 DEF DispatcherStep, StartOutboundCall, DispatchExhausted, RecordSuccess,
                RecordError, SendRetryTaskSuccess, DispatcherFails
  <2> QED BY <1>1, <2>1, ReleaseNotDone
<1>4. ASSUME NEW e \in Employees, NEW a \in Attempts, CallStep(e, a) PROVE DoneInv'
  <2>1. iter' = iter \/ ReleaseToken(e, a)
    BY <1>4 DEF CallStep, CallEnds, CallDrops, RecordCallEnd, SendTaskSuccess, CallEndFails
  <2> QED BY <1>1, <2>1, ReleaseNotDone
<1>5. ASSUME NEW e \in Employees, NEW a \in Attempts, PipelineStep(e, a) PROVE iter' = iter
  BY <1>5 DEF PipelineStep, RecordingStored, Relocate, RelocateMisses,
              StartTranscribeJob, TranscribeFails, MatchKeywords, RecordOtherFallback
<1>6. ASSUME NEW e \in Employees, AppendInboundToResponse(e) PROVE iter' = iter
  BY <1>6 DEF AppendInboundToResponse
<1>7. ASSUME NEW i \in Invocations, FinalizerStep(i) PROVE iter' = iter
  BY <1>7, FinalizerStepEnded
<1>8. CASE ExecutionStep \/ UNCHANGED vars
  BY <1>1, <1>8 DEF ExecutionStep, LoadTargets, LoadTargetsFails, MapCompletes,
                    ExecutionSucceeds, vars
<1> QED BY <1>1, <1>2, <1>3, <1>4, <1>5, <1>6, <1>7, <1>8 DEF Next

(* A COMPLETED cycle has an outcome for every target, whichever timer fires, *)
(* whichever inbound call comes in and however late a transcript is.         *)
THEOREM CompletedCyclesAreSettled == Spec => []CompletedMeansSettled
<1>1. Init => EndedInv /\ DoneInv
  BY DEF Init, EndedInv, Ended, DoneInv
<1>2. TypeInv /\ EndedInv /\ DoneInv => CompletedMeansSettled
  BY DEF TypeInv, TypeOK, EndedInv, Ended, DoneInv, Outcome, CompletedMeansSettled
<1> QED BY <1>1, <1>2, TypeInvariance, NextEndedInv, NextDoneInv, PTL DEF Spec

-----------------------------------------------------------------------------
(* What TIMEOUT says of the targets.                                         *)

(* The execution takes no step any more.                                     *)
Over == exec \in {"Succeeded", "Failed", "Aborted"}

(* The iteration has been through InitAttempt, or has ended.                 *)
Dialled(e) == iter[e].state \notin {"Queued", "FinalizeOneError"}

DialledInv == \A e \in Employees : Dialled(e) => HasRow(e)

(* From its query on, a sixty-minute invocation has a stopped execution      *)
(* behind it, and so has a cycle that timed out.                             *)
StopInv ==
  /\ \A i \in Invocations :
       Trigger[i] = "TIMER_60MIN" /\ fin[i].pc \in {"query", "rewrite"} => Over
  /\ cycle.status = "TIMEOUT" => Over

(* What is still PENDING is on the list of every invocation that relabels.   *)
SweepInv ==
  /\ \A i \in Invocations : At(i, "TIMER_60MIN", "rewrite") =>
       \A e \in Employees : Dialled(e) /\ row[e].voiceStatus = "PENDING" => e \in fin[i].todo
  /\ cycle.status = "TIMEOUT" =>
       \A e \in Employees : Dialled(e) => row[e].voiceStatus # "PENDING"

(* The event of every sixty-minute invocation names the execution.           *)
TimersNameTheExecution ==
  \A i \in Invocations : Trigger[i] = "TIMER_60MIN" => i \in ArnGiven

(* An iteration begins and ends by leaving a row.                            *)
LEMMA NextDialledInv == TypeInv /\ DialledInv /\ [Next]_vars => DialledInv'
<1> SUFFICES ASSUME TypeInv, DialledInv, [Next]_vars PROVE DialledInv' OBVIOUS
<1> USE DEF TypeInv
<1>0. /\ iter \in [Employees -> Iteration]
      /\ row \in [Employees -> Response]
      /\ \A e \in Employees : HasRow(e) => HasRow(e)'
  BY StatusMoves DEF TypeOK, StatusMove
<1>1. ASSUME \A e \in Employees : Dialled(e)' => Dialled(e) \/ HasRow(e)'
      PROVE  DialledInv'
  BY <1>0, <1>1 DEF DialledInv
<1>2. ASSUME NEW e \in Employees, IterationStep(e) PROVE DialledInv'
  <2>1. CASE InitAttempt(e)
    BY <1>0, <1>1, <2>1 DEF InitAttempt, Goto, HasRow, Dialled, Response, Iteration
  <2>2. CASE FinalizeOneError(e)
    BY <1>0, <1>1, <2>2 DEF FinalizeOneError, Goto, HasRow, Dialled, Response, Iteration
  <2>3. CASE FinalizeOne(e)
    BY <1>0, <1>1, <2>3 DEF FinalizeOne, InMap, Goto, Dialled, Iteration
  <2> QED BY <1>0, <1>1, <1>2, <2>1, <2>2, <2>3
          DEF IterationStep, InitAttemptFails, DispatchTimeout, ReadResponse,
              ReadResponseFails, EvaluateRetry, EvaluateRetryFails, Redial, IterationFails,
              InMap, Goto, Dialled, Iteration
<1>3. ASSUME NEW e \in Employees, NEW a, ReleaseToken(e, a) PROVE DialledInv'
  BY <1>0, <1>1, <1>3 DEF ReleaseToken, Dialled, Iteration
<1>4. CASE iter' = iter BY <1>1, <1>4 DEF Dialled
<1>5. ASSUME NEW e \in Employees, DispatcherStep(e) PROVE DialledInv'
  BY <1>3, <1>4, <1>5 DEF DispatcherStep, StartOutboundCall, DispatchExhausted,
                RecordSuccess, RecordError, SendRetryTaskSuccess, DispatcherFails
<1>6. ASSUME NEW e \in Employees, NEW a \in Attempts, CallStep(e, a) PROVE DialledInv'
  BY <1>3, <1>4, <1>6 DEF CallStep, CallEnds, CallDrops, RecordCallEnd, SendTaskSuccess,
                          CallEndFails
<1>7. ASSUME NEW e \in Employees, NEW a \in Attempts, PipelineStep(e, a) PROVE iter' = iter
  BY <1>7 DEF PipelineStep, RecordingStored, Relocate, RelocateMisses,
              StartTranscribeJob, TranscribeFails, MatchKeywords, RecordOtherFallback
<1>8. ASSUME NEW i \in Invocations, FinalizerStep(i) PROVE iter' = iter
  BY <1>8, FinalizerStepEnded
<1>9. CASE ExecutionStep \/ UNCHANGED vars
  BY <1>4, <1>9 DEF ExecutionStep, LoadTargets, LoadTargetsFails, MapCompletes,
                    ExecutionSucceeds, vars
<1>10. ASSUME NEW e \in Employees, AppendInboundToResponse(e) PROVE iter' = iter
  BY <1>10 DEF AppendInboundToResponse
<1> QED BY <1>2, <1>4, <1>5, <1>6, <1>7, <1>8, <1>9, <1>10 DEF Next

(* Nothing starts an execution again, and a stopped one starts nothing.      *)
LEMMA OverStays ==
  ASSUME TypeOK, Over, [Next]_vars PROVE Over' /\ iter' = iter
<1> USE DEF Over
<1>1. CASE ExecutionStep \/ UNCHANGED vars
  BY <1>1 DEF ExecutionStep, LoadTargets, LoadTargetsFails, MapCompletes,
              ExecutionSucceeds, vars
<1>2. ASSUME NEW e \in Employees, IterationStep(e) PROVE FALSE
  BY <1>2 DEF IterationStep, InMap, InitAttempt, InitAttemptFails, DispatchTimeout,
              ReadResponse, ReadResponseFails, EvaluateRetry, EvaluateRetryFails,
              Redial, FinalizeOne, FinalizeOneError, IterationFails
<1>3. ASSUME NEW e \in Employees, DispatcherStep(e) PROVE exec' = exec /\ iter' = iter
  BY <1>3 DEF DispatcherStep, StartOutboundCall, DispatchExhausted, RecordSuccess,
              RecordError, SendRetryTaskSuccess, DispatcherFails, ReleaseToken
<1>4. ASSUME NEW e \in Employees, NEW a \in Attempts, CallStep(e, a)
      PROVE  exec' = exec /\ iter' = iter
  BY <1>4 DEF CallStep, CallEnds, CallDrops, RecordCallEnd, SendTaskSuccess,
              CallEndFails, ReleaseToken
<1>5. ASSUME NEW e \in Employees, NEW a \in Attempts, PipelineStep(e, a)
      PROVE  exec' = exec /\ iter' = iter
  BY <1>5 DEF PipelineStep, RecordingStored, Relocate, RelocateMisses,
              StartTranscribeJob, TranscribeFails, MatchKeywords, RecordOtherFallback
<1>6. ASSUME NEW e \in Employees, AppendInboundToResponse(e)
      PROVE  exec' = exec /\ iter' = iter
  BY <1>6 DEF AppendInboundToResponse
<1>7. ASSUME NEW i \in Invocations, FinalizerStep(i) PROVE exec' = exec /\ iter' = iter
  BY <1>7
     DEF FinalizerStep, InvocationStep, FinalizeInvoked, TimerFires, GetCycle,
         QueryOnMapCompleted, SetCycleCompleted, QueryOnTimer30, SetSlaWarningFlag,
         StopSfnExecution, QueryOnTimer60, ForceResponseUnreachable, SetCycleTimeout,
         PutCycleMetric, PublishOperatorNotification, DeleteTimerRules, InvocationFails
<1> QED BY <1>1, <1>2, <1>3, <1>4, <1>5, <1>6, <1>7 DEF Next

(* Only StopSfnExecution leads a sixty-minute invocation to its query, and   *)
(* only such an invocation writes TIMEOUT.                                   *)
LEMMA NextStopInv ==
  ASSUME TimersNameTheExecution, TypeOK, StopInv, [Next]_vars PROVE StopInv'
<1>0. Over => Over' BY OverStays
<1>1. ASSUME \A i \in Invocations :
               Trigger[i] = "TIMER_60MIN" /\ fin'[i].pc \in {"query", "rewrite"}
                 => fin[i].pc \in {"query", "rewrite"} \/ Over',
             cycle'.status = "TIMEOUT" =>
               cycle.status = "TIMEOUT" \/ \E i \in Invocations : At(i, "TIMER_60MIN", "rewrite")
      PROVE  StopInv'
  BY <1>0, <1>1 DEF StopInv, At
<1>2. CASE ~\E i \in Invocations : FinalizerStep(i)
  <2>1. UNCHANGED <<cycle, fin>> BY <1>2, OnlyFinalizerWritesCycle DEF vars
  <2> QED BY <1>1, <2>1
<1>3. ASSUME NEW i \in Invocations, FinalizerStep(i) PROVE StopInv'
  <2> USE TriggerAssumption DEF Triggers
  <2>1. ASSUME cycle'.status = "TIMEOUT" => cycle.status = "TIMEOUT",
               \A j \in Invocations : j # i => fin'[j].pc = fin[j].pc,
               Trigger[i] = "TIMER_60MIN" /\ fin'[i].pc \in {"query", "rewrite"} =>
                 fin[i].pc \in {"query", "rewrite"} \/ Over'
        PROVE  StopInv'
    BY <1>1, <2>1
  <2>2. CASE FinalizeInvoked(i) BY <2>1, <2>2, ContinueFacts DEF FinalizeInvoked, At
  <2>3. CASE TimerFires(i) BY <2>1, <2>3, ContinueFacts DEF TimerFires, At
  <2>4. CASE GetCycle(i)
    BY <2>1, <2>4, ContinueFacts DEF GetCycle, TimersNameTheExecution
  <2>5. CASE QueryOnMapCompleted(i) BY <2>1, <2>5, ContinueFacts DEF QueryOnMapCompleted, At
  <2>6. CASE SetCycleCompleted(i)
    <3>1. cycle'.status = "COMPLETED" \/ cycle' = cycle
      BY <2>6 DEF SetCycleCompleted, TypeOK, Cycle
    <3> QED BY <2>1, <2>6, <3>1, ContinueFacts DEF SetCycleCompleted, At
  <2>7. CASE QueryOnTimer30(i) BY <2>1, <2>7, ContinueFacts DEF QueryOnTimer30, At
  <2>8. CASE SetSlaWarningFlag(i)
    <3>1. cycle'.status = cycle.status BY <2>8 DEF SetSlaWarningFlag, TypeOK, Cycle
    <3> QED BY <2>1, <2>8, <3>1, ContinueFacts DEF SetSlaWarningFlag, At
  <2>9. CASE StopSfnExecution(i)
    <3>1. Over' BY <2>9 DEF StopSfnExecution, Over, TypeOK, ExecState
    <3> QED BY <2>1, <2>9, <3>1, ContinueFacts DEF StopSfnExecution
  <2>10. CASE QueryOnTimer60(i)
    BY <2>1, <2>10 DEF QueryOnTimer60, At, TypeOK, Finalizer
  <2>11. CASE ForceResponseUnreachable(i)
    BY <2>1, <2>11 DEF ForceResponseUnreachable, At, TypeOK, Finalizer
  <2>12. CASE SetCycleTimeout(i)
    BY <1>1, <2>12, ContinueFacts DEF SetCycleTimeout, At
  <2>13. CASE PutCycleMetric(i) BY <2>1, <2>13, ContinueFacts DEF PutCycleMetric
  <2>14. CASE PublishOperatorNotification(i)
    BY <2>1, <2>14, ContinueFacts DEF PublishOperatorNotification
  <2>15. CASE DeleteTimerRules(i) BY <2>1, <2>15, ContinueFacts DEF DeleteTimerRules
  <2>16. CASE InvocationFails(i)
    <3>1. /\ \A j \in Invocations : j # i => fin'[j].pc = fin[j].pc
          /\ fin'[i].pc \in {"idle", "get", "done"}
      BY <2>16 DEF InvocationFails, Continue, TypeOK, Finalizer
    <3> QED BY <2>1, <2>16, <3>1 DEF InvocationFails
  <2> QED BY <1>3, <2>2, <2>3, <2>4, <2>5, <2>6, <2>7, <2>8, <2>9, <2>10, <2>11, <2>12,
             <2>13, <2>14, <2>15, <2>16
          DEF FinalizerStep, InvocationStep
<1> QED BY <1>2, <1>3

(* Once the execution is over no dialled target becomes PENDING, and the     *)
(* loop takes one off the list only when it has relabelled it.               *)
LEMMA NextSweepInv ==
  ASSUME TypeInv, DialledInv, StopInv, SweepInv, [Next]_vars PROVE SweepInv'
<1>0. ASSUME Over, NEW e \in Employees, Dialled(e)', row'[e].voiceStatus = "PENDING"
      PROVE  Dialled(e) /\ row[e].voiceStatus = "PENDING"
  <2>1. iter' = iter BY <1>0, OverStays DEF TypeInv
  <2>2. Dialled(e) /\ HasRow(e) BY <1>0, <2>1 DEF Dialled, DialledInv
  <2> QED BY <1>0, <2>2, StatusMoves DEF StatusMove, HasRow, TypeInv
<1>1. ASSUME \A i \in Invocations : At(i, "TIMER_60MIN", "rewrite")' =>
               At(i, "TIMER_60MIN", "rewrite") /\ fin[i].todo \subseteq fin'[i].todo,
             cycle'.status = "TIMEOUT" => cycle.status = "TIMEOUT"
      PROVE  SweepInv'
  BY <1>0, <1>1 DEF SweepInv, StopInv, At
<1>2. CASE ~\E i \in Invocations : FinalizerStep(i)
  <2>1. UNCHANGED <<cycle, fin>> BY <1>2, OnlyFinalizerWritesCycle DEF vars
  <2> QED BY <1>1, <2>1 DEF At
<1>3. ASSUME NEW i \in Invocations, FinalizerStep(i) PROVE SweepInv'
  <2> USE DEF TypeInv
  <2>1. CASE QueryOnTimer60(i)
    <3>1. fin' = [fin EXCEPT ![i].pc = "rewrite", ![i].todo = ApplyTimeout(Rows)]
      BY <2>1 DEF QueryOnTimer60
    <3>2. fin'[i].todo = ApplyTimeout(Rows) /\ \A j \in Invocations : j # i => fin'[j] = fin[j]
      BY <3>1 DEF TypeOK, Finalizer
    <3>3. \A e \in Employees : row[e].voiceStatus = "PENDING" => e \in ApplyTimeout(Rows)
      BY DEF ApplyTimeout, Rows, HasRow, TimeoutRewrite
    <3>4. Over /\ cycle' = cycle /\ row' = row
      BY <2>1 DEF QueryOnTimer60, At, StopInv
    <3> QED BY <1>0, <3>2, <3>3, <3>4 DEF SweepInv, At
  <2>2. CASE ForceResponseUnreachable(i)
    <3>1. PICK e \in fin[i].todo :
            /\ row' = IF row[e].voiceStatus \in TimeoutRewrite
                      THEN [row EXCEPT ![e].voiceStatus = "UNREACHABLE"] ELSE row
            /\ fin' = [fin EXCEPT ![i].todo = @ \ {e}]
      BY <2>2 DEF ForceResponseUnreachable
    <3>2. /\ e \in Employees /\ row \in [Employees -> Response]
      BY <3>1 DEF TypeOK, Finalizer
    <3>3. row'[e].voiceStatus # "PENDING"
      BY <3>1, <3>2 DEF TimeoutRewrite, Response
    <3>4. /\ fin'[i].todo = fin[i].todo \ {e} /\ fin'[i].pc = fin[i].pc
          /\ \A j \in Invocations : j # i => fin'[j] = fin[j]
      BY <3>1 DEF TypeOK, Finalizer
    <3>5. Over /\ cycle' = cycle /\ fin[i].pc = "rewrite"
      BY <2>2 DEF ForceResponseUnreachable, At, StopInv
    <3> QED BY <1>0, <3>3, <3>4, <3>5 DEF SweepInv, At
  <2>3. CASE SetCycleTimeout(i)
    <3>1. Over /\ row' = row /\ fin[i].todo = {} /\ At(i, "TIMER_60MIN", "rewrite")
      BY <2>3 DEF SetCycleTimeout, At, StopInv
    <3>2. \A e \in Employees : Dialled(e)' => row'[e].voiceStatus # "PENDING"
      BY <1>0, <3>1 DEF SweepInv
    <3>3. \A j \in Invocations : fin'[j].todo = fin[j].todo /\ (j # i => fin'[j].pc = fin[j].pc)
                                  /\ fin'[i].pc # "rewrite"
      BY <2>3 DEF SetCycleTimeout, Continue, TypeOK, Finalizer
    <3> QED BY <3>2, <3>3 DEF SweepInv, At
  <2>4. CASE ~(QueryOnTimer60(i) \/ ForceResponseUnreachable(i) \/ SetCycleTimeout(i))
    <3>1. cycle'.status = "TIMEOUT" => cycle.status = "TIMEOUT"
      BY <1>3, <2>4
         DEF FinalizerStep, InvocationStep, FinalizeInvoked, TimerFires, GetCycle,
             QueryOnMapCompleted, SetCycleCompleted, QueryOnTimer30, SetSlaWarningFlag,
             StopSfnExecution, PutCycleMetric, PublishOperatorNotification,
             DeleteTimerRules, InvocationFails, TypeOK, Cycle
    <3>2. ASSUME NEW pc, pc # "rewrite", Continue(i, pc)
          PROVE  \A j \in Invocations : At(j, "TIMER_60MIN", "rewrite")' =>
                   At(j, "TIMER_60MIN", "rewrite") /\ fin[j].todo \subseteq fin'[j].todo
      BY <3>2 DEF Continue, At, TypeOK, Finalizer
    <3>3. CASE InvocationFails(i)
      <4>1. \A j \in Invocations : fin'[j].pc = "rewrite" => fin'[j] = fin[j]
        BY <3>3 DEF InvocationFails, Continue, TypeOK, Finalizer
      <4> QED BY <1>1, <3>1, <4>1 DEF At
    <3>4. CASE ~InvocationFails(i)
      <4>1. \E pc : pc # "rewrite" /\ Continue(i, pc)
        BY <1>3, <2>4, <3>4
           DEF FinalizerStep, InvocationStep, FinalizeInvoked, TimerFires, GetCycle,
               QueryOnMapCompleted, SetCycleCompleted, QueryOnTimer30, SetSlaWarningFlag,
               StopSfnExecution, PutCycleMetric, PublishOperatorNotification,
               DeleteTimerRules
      <4> QED BY <1>1, <3>1, <3>2, <4>1
    <3> QED BY <3>3, <3>4
  <2> QED BY <2>1, <2>2, <2>3, <2>4
<1> QED BY <1>2, <1>3

(* A timed-out cycle shows no dialled target as PENDING, whatever comes in   *)
(* while the rows are relabelled and however often the timer's invocation    *)
(* fails and runs again - as long as the timer's event names the execution,  *)
(* which it must stop first (_handle_timer_60min).                           *)
THEOREM TimeoutsLeaveNoPending ==
  ASSUME TimersNameTheExecution PROVE Spec => []TimeoutLeavesNoPending
<1>1. Init => DialledInv /\ StopInv /\ SweepInv
  BY DEF Init, DialledInv, Dialled, StopInv, SweepInv, At
<1>2. TypeInv /\ DialledInv /\ StopInv /\ SweepInv /\ [Next]_vars
        => DialledInv' /\ StopInv' /\ SweepInv'
  BY NextDialledInv, NextStopInv, NextSweepInv DEF TypeInv
<1>3. TypeInv /\ SweepInv => TimeoutLeavesNoPending
  BY DEF SweepInv, TimeoutLeavesNoPending, Dialled, TypeInv, TypeOK
<1> QED BY <1>1, <1>2, <1>3, TypeInvariance, PTL DEF Spec

=============================================================================
