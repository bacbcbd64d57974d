------------------------ MODULE CycleLifecycleProofs ------------------------
(***************************************************************************)
(* What the finalizer does to the Cycle row: CycleExecution implements     *)
(* CycleLifecycle, and COMPLETED is written over settled cycles only.      *)
(***************************************************************************)
EXTENDS CycleExecutionProofs

(* An invocation between the write of TIMEOUT and its notice.                *)
Announcing(i) ==
  Trigger[i] = "TIMER_60MIN" /\ fin[i].pc \in {"metric", "notify"}

(* At most one invocation ever announces, since only the one that wrote      *)
(* TIMEOUT does; what has been sent is what its pc says.                     *)
AnnounceInv ==
  /\ cycle.status # "TIMEOUT" =>
       /\ sent["CycleTimeout"] = 0 /\ sent["TimeoutNotice"] = 0
       /\ \A i \in Invocations : ~Announcing(i)
  /\ \A i \in Invocations : Announcing(i) =>
       /\ sent["CycleTimeout"] = (IF fin[i].pc = "metric" THEN 0 ELSE 1)
       /\ sent["TimeoutNotice"] = 0
  /\ \A i, j \in Invocations : Announcing(i) /\ Announcing(j) => i = j

(* Only finalizer steps touch the Cycle row, what is sent and the            *)
(* invocations.                                                              *)
LEMMA OnlyFinalizerWritesCycle ==
  ASSUME Next, ~\E i \in Invocations : FinalizerStep(i)
  PROVE  UNCHANGED <<cycle, fin, sent>>
<1>1. CASE ExecutionStep
  BY <1>1 DEF ExecutionStep, LoadTargets, LoadTargetsFails, MapCompletes, ExecutionSucceeds
<1>2. ASSUME NEW e \in Employees, IterationStep(e)
      PROVE  UNCHANGED <<cycle, fin, sent>>
  BY <1>2 DEF IterationStep, InitAttempt, InitAttemptFails, DispatchTimeout, ReadResponse,
              ReadResponseFails, EvaluateRetry, EvaluateRetryFails, Redial, FinalizeOne,
              FinalizeOneError, IterationFails
<1>3. ASSUME NEW e \in Employees, DispatcherStep(e)
      PROVE  UNCHANGED <<cycle, fin, sent>>
  BY <1>3 DEF DispatcherStep, StartOutboundCall, DispatchExhausted, RecordSuccess,
              RecordError, SendRetryTaskSuccess, DispatcherFails
<1>4. ASSUME NEW e \in Employees, NEW a \in Attempts, CallStep(e, a)
      PROVE  UNCHANGED <<cycle, fin, sent>>
  BY <1>4 DEF CallStep, CallEnds, CallDrops, RecordCallEnd, SendTaskSuccess, CallEndFails
<1>5. ASSUME NEW e \in Employees, NEW a \in Attempts, PipelineStep(e, a)
      PROVE  UNCHANGED <<cycle, fin, sent>>
  BY <1>5 DEF PipelineStep, RecordingStored, Relocate, RelocateMisses, StartTranscribeJob,
              TranscribeFails, MatchKeywords, RecordOtherFallback
<1>6. ASSUME NEW e \in Employees, AppendInboundToResponse(e)
      PROVE  UNCHANGED <<cycle, fin, sent>>
  BY <1>6 DEF AppendInboundToResponse
<1> QED BY <1>1, <1>2, <1>3, <1>4, <1>5, <1>6 DEF Next

(* A step that sends nothing, leaves the status alone and lets no invocation *)
(* begin to announce keeps AnnounceInv.                                      *)
LEMMA QuietKeepsAnnounceInv ==
  ASSUME AnnounceInv, cycle'.status = cycle.status,
         sent'["CycleTimeout"] = sent["CycleTimeout"],
         sent'["TimeoutNotice"] = sent["TimeoutNotice"],
         \A j \in Invocations : Announcing(j)' => fin'[j].pc = fin[j].pc
  PROVE  AnnounceInv'
BY DEF AnnounceInv, Announcing

(* The next pc of an invocation, and that of the others.                     *)
LEMMA ContinueFacts ==
  ASSUME TypeOK, NEW i \in Invocations, NEW pc, Continue(i, pc)
  PROVE  /\ fin'[i].pc = pc
         /\ \A j \in Invocations : j # i => fin'[j].pc = fin[j].pc
BY DEF TypeOK, Continue, Finalizer

(* The lifecycle step a finalizer step is: which one, or a stutter.          *)
LEMMA FinalizerStepRefines ==
  ASSUME TypeOK, AnnounceInv, NEW i \in Invocations, FinalizerStep(i)
  PROVE  AnnounceInv' /\ [Lifecycle!LifecycleNext]_(Lifecycle!lifecycleVars)
<1> USE DEF Lifecycle!lifecycleVars, Lifecycle!LifecycleNext
<1>0. /\ cycle = [status |-> cycle.status, slaWarning |-> cycle.slaWarning]
      /\ cycle.status \in CycleStatus
      /\ sent \in [Sent -> Nat]
      /\ Trigger[i] \in Triggers
  BY TriggerAssumption DEF TypeOK, Cycle
<1>1. ASSUME UNCHANGED <<cycle, sent>>,
             fin'[i].pc \notin {"metric", "notify"},
             \A j \in Invocations : j # i => fin'[j].pc = fin[j].pc
      PROVE  AnnounceInv' /\ [Lifecycle!LifecycleNext]_(Lifecycle!lifecycleVars)
  BY <1>1, QuietKeepsAnnounceInv DEF Announcing
<1>2. CASE FinalizeInvoked(i) BY <1>1, <1>2, ContinueFacts DEF FinalizeInvoked
<1>3. CASE TimerFires(i) BY <1>1, <1>3, ContinueFacts DEF TimerFires
<1>4. CASE GetCycle(i) BY <1>1, <1>4, ContinueFacts DEF GetCycle
<1>5. CASE QueryOnMapCompleted(i) BY <1>1, <1>5, ContinueFacts DEF QueryOnMapCompleted
<1>6. CASE QueryOnTimer30(i) BY <1>1, <1>6, ContinueFacts DEF QueryOnTimer30
<1>7. CASE StopSfnExecution(i) BY <1>1, <1>7, ContinueFacts DEF StopSfnExecution
<1>8. CASE DeleteTimerRules(i) BY <1>1, <1>8, ContinueFacts DEF DeleteTimerRules
<1>9. CASE QueryOnTimer60(i)
  BY <1>1, <1>9 DEF QueryOnTimer60, TypeOK, Finalizer
<1>10. CASE ForceResponseUnreachable(i)
  BY <1>1, <1>10 DEF ForceResponseUnreachable, At, TypeOK, Finalizer
<1>11. CASE InvocationFails(i)
  <2>1. CASE Continue(i, "done")
    BY <1>1, <1>11, <2>1, ContinueFacts DEF InvocationFails
  <2>2. CASE ~Continue(i, "done")
    BY <1>1, <1>11, <2>2 DEF InvocationFails, TypeOK, Finalizer
  <2> QED BY <2>1, <2>2
<1>12. CASE SetCycleCompleted(i)
  <2>1. CASE cycle.status = "RUNNING"
    <3>1. /\ cycle' = [cycle EXCEPT !.status = "COMPLETED"]
          /\ Continue(i, "rules")
          /\ UNCHANGED sent
      BY <1>12, <2>1 DEF SetCycleCompleted
    <3>2. cycle'.status = "COMPLETED" /\ cycle'.slaWarning = cycle.slaWarning
      BY <1>0, <3>1
    <3>3. \A j \in Invocations : ~Announcing(j)'
      BY <2>1, <3>1, ContinueFacts DEF AnnounceInv, Announcing
    <3>4. AnnounceInv' BY <2>1, <3>1, <3>2, <3>3 DEF AnnounceInv
    <3>5. Lifecycle!Complete BY <2>1, <3>1, <3>2 DEF Lifecycle!Complete
    <3> QED BY <3>4, <3>5
  <2>2. CASE cycle.status # "RUNNING"
    BY <1>1, <1>12, <2>2, ContinueFacts DEF SetCycleCompleted
  <2> QED BY <2>1, <2>2
<1>13. CASE SetSlaWarningFlag(i)
  <2>1. CASE cycle.status = "RUNNING"
    <3>1. /\ cycle' = [cycle EXCEPT !.slaWarning = TRUE]
          /\ Continue(i, "metric")
          /\ UNCHANGED sent
          /\ Trigger[i] = "TIMER_30MIN"
      BY <1>13, <2>1 DEF SetSlaWarningFlag, At
    <3>2. cycle'.status = cycle.status /\ cycle'.slaWarning = TRUE
      BY <1>0, <3>1
    <3>3. AnnounceInv'
      BY <3>1, <3>2, ContinueFacts, QuietKeepsAnnounceInv DEF Announcing
    <3>4. Lifecycle!Warn BY <2>1, <3>1, <3>2 DEF Lifecycle!Warn
    <3> QED BY <3>3, <3>4
  <2>2. CASE cycle.status # "RUNNING"
    BY <1>1, <1>13, <2>2, ContinueFacts DEF SetSlaWarningFlag
  <2> QED BY <2>1, <2>2
<1>14. CASE SetCycleTimeout(i)
  <2>1. CASE cycle.status = "RUNNING"
    <3>1. /\ cycle' = [cycle EXCEPT !.status = "TIMEOUT"]
          /\ Continue(i, "metric")
          /\ UNCHANGED sent
      BY <1>14, <2>1 DEF SetCycleTimeout
    <3>2. cycle'.status = "TIMEOUT" /\ cycle'.slaWarning = cycle.slaWarning
      BY <1>0, <3>1
    <3>3. \A j \in Invocations : Announcing(j)' => j = i
      BY <2>1, <3>1, ContinueFacts DEF AnnounceInv, Announcing
    <3>4. fin'[i].pc = "metric" BY <3>1, ContinueFacts
    <3>5. sent'["CycleTimeout"] = 0 /\ sent'["TimeoutNotice"] = 0
      BY <2>1, <3>1 DEF AnnounceInv
    <3>6. AnnounceInv' BY <3>2, <3>3, <3>4, <3>5 DEF AnnounceInv
    <3>7. Lifecycle!TimeOut BY <2>1, <3>1, <3>2 DEF Lifecycle!TimeOut
    <3> QED BY <3>6, <3>7
  <2>2. CASE cycle.status # "RUNNING"
    BY <1>1, <1>14, <2>2, ContinueFacts DEF SetCycleTimeout
  <2> QED BY <2>1, <2>2
<1>15. CASE PutCycleMetric(i)
  <2>1. CASE Trigger[i] = "TIMER_60MIN"
    <3>1. /\ fin[i].pc = "metric" /\ Announcing(i)
          /\ sent' = [sent EXCEPT !["CycleTimeout"] = @ + 1]
          /\ Continue(i, "notify")
          /\ UNCHANGED cycle
      BY <1>15, <2>1 DEF PutCycleMetric, Send, Announcing
    <3>2. /\ cycle.status = "TIMEOUT"
          /\ sent["CycleTimeout"] = 0 /\ sent["TimeoutNotice"] = 0
      BY <3>1 DEF AnnounceInv
    <3>3. sent'["CycleTimeout"] = 1 /\ sent'["TimeoutNotice"] = 0
      BY <1>0, <3>1, <3>2 DEF Sent
    <3>4. \A j \in Invocations : Announcing(j)' => j = i
      BY <3>1, ContinueFacts DEF AnnounceInv, Announcing
    <3>5. fin'[i].pc = "notify" BY <3>1, ContinueFacts
    <3>6. AnnounceInv' BY <3>1, <3>2, <3>3, <3>4, <3>5 DEF AnnounceInv
    <3>7. Lifecycle!RaiseMetric BY <3>1, <3>2, <3>3 DEF Lifecycle!RaiseMetric
    <3> QED BY <3>6, <3>7
  <2>2. CASE Trigger[i] # "TIMER_60MIN"
    <3>1. /\ sent' = [sent EXCEPT !["SlaWarning30Min"] = @ + 1]
          /\ Continue(i, "notify")
          /\ UNCHANGED cycle
      BY <1>15, <2>2 DEF PutCycleMetric, Send
    <3>2. UNCHANGED <<sent["CycleTimeout"], sent["TimeoutNotice"]>>
      BY <1>0, <3>1 DEF Sent
    <3>3. AnnounceInv'
      BY <2>2, <3>1, <3>2, ContinueFacts, QuietKeepsAnnounceInv DEF Announcing
    <3> QED BY <3>1, <3>2, <3>3
  <2> QED BY <2>1, <2>2
<1>16. CASE PublishOperatorNotification(i)
  <2>1. CASE Trigger[i] = "TIMER_60MIN"
    <3>1. /\ fin[i].pc = "notify" /\ Announcing(i)
          /\ sent' = [sent EXCEPT !["TimeoutNotice"] = @ + 1]
          /\ Continue(i, "rules")
          /\ UNCHANGED cycle
      BY <1>16, <2>1 DEF PublishOperatorNotification, Send, Announcing
    <3>2. /\ cycle.status = "TIMEOUT"
          /\ sent["CycleTimeout"] = 1 /\ sent["TimeoutNotice"] = 0
      BY <3>1 DEF AnnounceInv
    <3>3. sent'["CycleTimeout"] = 1 /\ sent'["TimeoutNotice"] = 1
      BY <1>0, <3>1, <3>2 DEF Sent
    <3>4. \A j \in Invocations : ~Announcing(j)'
      BY <3>1, ContinueFacts DEF AnnounceInv, Announcing
    <3>5. AnnounceInv' BY <3>1, <3>2, <3>4 DEF AnnounceInv
    <3>6. Lifecycle!Notify BY <3>1, <3>2, <3>3 DEF Lifecycle!Notify
    <3> QED BY <3>5, <3>6
  <2>2. CASE Trigger[i] # "TIMER_60MIN"
    <3>1. /\ sent' = [sent EXCEPT !["SlaNotice"] = @ + 1]
          /\ Continue(i, "done")
          /\ UNCHANGED cycle
      BY <1>16, <2>2 DEF PublishOperatorNotification, Send
    <3>2. UNCHANGED <<sent["CycleTimeout"], sent["TimeoutNotice"]>>
      BY <1>0, <3>1 DEF Sent
    <3>3. AnnounceInv'
      BY <2>2, <3>1, <3>2, ContinueFacts, QuietKeepsAnnounceInv DEF Announcing
    <3> QED BY <3>1, <3>2, <3>3
  <2> QED BY <2>1, <2>2
<1> QED BY <1>2, <1>3, <1>4, <1>5, <1>6, <1>7, <1>8, <1>9, <1>10, <1>11, <1>12,
           <1>13, <1>14, <1>15, <1>16
        DEF FinalizerStep, InvocationStep

(* Every step keeps AnnounceInv and is a lifecycle step or a stutter.        *)
LEMMA NextRefines ==
  TypeInv /\ AnnounceInv /\ [Next]_vars
    => AnnounceInv' /\ [Lifecycle!LifecycleNext]_(Lifecycle!lifecycleVars)
<1> SUFFICES ASSUME TypeInv, AnnounceInv, [Next]_vars
             PROVE  AnnounceInv' /\ [Lifecycle!LifecycleNext]_(Lifecycle!lifecycleVars)
  OBVIOUS
<1>1. CASE \E i \in Invocations : FinalizerStep(i)
  BY <1>1, FinalizerStepRefines DEF TypeInv
<1>2. CASE UNCHANGED <<cycle, fin, sent>>
  BY <1>2 DEF AnnounceInv, Announcing, Lifecycle!lifecycleVars
<1>3. UNCHANGED vars => UNCHANGED <<cycle, fin, sent>> BY DEF vars
<1> QED BY <1>1, <1>2, <1>3, OnlyFinalizerWritesCycle

(* The execution of a cycle implements the lifecycle of its row, its metric  *)
(* and its notice, for any number of concurrent, duplicated, crashed and     *)
(* retried finalizer invocations.                                            *)
THEOREM LifecycleImplemented == Spec => ImplementsLifecycle
<1>1. Init => AnnounceInv /\ Lifecycle!LifecycleInit
  BY DEF Init, AnnounceInv, Announcing, Lifecycle!LifecycleInit, Sent
<1> QED BY <1>1, TypeInvariance, NextRefines, PTL
        DEF Spec, ImplementsLifecycle, Lifecycle!LifecycleSpec

=============================================================================
