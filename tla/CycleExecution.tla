--------------------------- MODULE CycleExecution ---------------------------
(***************************************************************************)
(* One cycle from the StartExecution that follows its creation to the      *)
(* moment nothing can touch it any more: the state machine, the Lambdas it *)
(* calls, the calls, the recording pipeline, the two timers and the        *)
(* inbound calls that reach the cycle's rows.                              *)
(***************************************************************************)
EXTENDS CycleStateMachine, CallHandling, RecordingPipeline, CycleFinalizer

Init ==
  /\ cycle = [status |-> "RUNNING", slaWarning |-> FALSE]
  /\ exec = "LoadTargets"
  /\ targets = {}
  /\ iter = [e \in Employees |-> [state |-> "Queued", attempt |-> 1, seen |-> "ABSENT"]]
  /\ dispatcher = [e \in Employees |-> "idle"]
  /\ row = [e \in Employees |-> NoResponse]
  /\ call = [e \in Employees |-> [a \in Attempts |-> "none"]]
  /\ rec = [e \in Employees |->
              [a \in Attempts |-> [stage |-> "none", seq |-> 0, heard |-> "none"]]]
  /\ fin = [i \in Invocations |-> [pc |-> "idle", todo |-> {}, tries |-> 0]]
  /\ sent = [n \in Sent |-> 0]
  /\ rules = TimersConfigured

(* InboundHandler's finalize: an employee who rang in gets a row if the      *)
(* cycle has none for them, target or not.  The cycle was open when the call *)
(* was identified; it may be closed by now.                                  *)
AppendInboundToResponse(e) ==
  /\ "inbound" \in Disturbances
  /\ ~HasRow(e)
  /\ row' = [row EXCEPT ![e].voiceStatus = "PENDING"]
  /\ UNCHANGED <<cycle, exec, targets, iter, dispatcher, call, rec, fin, sent, rules>>

Next ==
  \/ ExecutionStep
  \/ \E e \in Employees :
       \/ IterationStep(e) \/ DispatcherStep(e) \/ AppendInboundToResponse(e)
       \/ \E a \in Attempts : CallStep(e, a) \/ PipelineStep(e, a)
  \/ \E i \in Invocations : FinalizerStep(i)

Spec == Init /\ [][Next]_vars

(* Step Functions retries and times out its tasks, a started Lambda runs to  *)
(* an end, and an EventBridge rule fires.  Nothing is assumed of callees, of *)
(* Connect, of S3 events or of the recording pipeline.                       *)
Fairness ==
  /\ WF_vars(LoadTargets)
  /\ WF_vars(MapCompletes)
  /\ WF_vars(ExecutionSucceeds)
  /\ \A e \in Employees :
       /\ WF_vars(InitAttempt(e))
       /\ WF_vars(DispatchTimeout(e))
       /\ WF_vars(ReadResponse(e))
       /\ WF_vars(EvaluateRetry(e))
       /\ WF_vars(Redial(e))
       /\ WF_vars(FinalizeOne(e))
       /\ WF_vars(FinalizeOneError(e))
       /\ WF_vars(DispatcherStep(e))
  /\ \A i \in Invocations :
       /\ WF_vars(FinalizeInvoked(i))
       /\ WF_vars(TimerFires(i))
       /\ WF_vars(InvocationStep(i))

FairSpec == Spec /\ Fairness

-----------------------------------------------------------------------------

(* Every variable has its type.                                              *)
TypeOK ==
  /\ cycle \in Cycle
  /\ exec \in ExecState
  /\ targets \subseteq Employees
  /\ iter \in [Employees -> Iteration]
  /\ dispatcher \in [Employees -> DispatcherState]
  /\ row \in [Employees -> Response]
  /\ call \in [Employees -> [Attempts -> CallState]]
  /\ rec \in [Employees -> [Attempts -> Recording]]
  /\ fin \in [Invocations -> Finalizer]
  /\ sent \in [Sent -> Nat]
  /\ rules \in BOOLEAN

(* No employee is dialled more than Retry_Count times (once if it is zero),  *)
(* whatever is lost, repeated or late (Requirement 9.5, should_retry).       *)
DialBudget ==
  \A e \in Employees, a \in Attempts : call[e][a] # "none" => a <= MaxDials

(* An answer that ReadResponse has seen is the end of the calls: no call is  *)
(* placed afterwards, not even by a dispatcher that was invoked before       *)
(* (Requirement 9.3, EvaluateRetry; Dispatch outlives the dispatcher).  Of   *)
(* an answer that comes later the code knows nothing.                        *)
ReadAnswersEndDialing ==
  [][\A e \in Employees, a \in Attempts :
       call[e][a] = "none" /\ call'[e][a] # "none" => iter[e].seen \notin Confirmed]_vars

(* COMPLETED is only ever written over a cycle whose every target has been   *)
(* through its iteration and left an outcome, late transcripts and inbound   *)
(* calls notwithstanding (Requirement 11.4, _handle_map_completed).          *)
CompletedMeansSettled ==
  cycle.status = "COMPLETED" =>
    \A e \in targets : /\ iter[e].state = "Done"
                       /\ row[e].voiceStatus \notin {"ABSENT", "PENDING"}

Named(e, a) == rec[e][a].stage \in {"stored", "transcript", "matched"}

(* Two recordings of one employee never share an S3 key: the second would    *)
(* replace the first and its transcription job be taken for a duplicate      *)
(* (RecordingRelocator names by callAttempts, _record_success counts).       *)
RecordingKeyUnique ==
  \A e \in Employees : \A a, b \in Attempts :
    a # b /\ Named(e, a) /\ Named(e, b) => rec[e][a].seq # rec[e][b].seq

(* A TIMEOUT that stopped the execution leaves no dispatched target PENDING: *)
(* no iteration puts a row behind the back of the query, and no late call,   *)
(* transcript or inbound call puts one back (_handle_timer_60min stops the   *)
(* execution first).                                                         *)
TimeoutLeavesNoPending ==
  cycle.status = "TIMEOUT" =>
    \A e \in targets : iter[e].state \notin {"Queued", "FinalizeOneError"}
                          => row[e].voiceStatus # "PENDING"

(* The sixty-minute path never takes an answer back: the only step that can  *)
(* replace a confirmed status by UNREACHABLE is the iteration's own          *)
(* FinalizeOne (_force_response_unreachable: "must not be clobbered").       *)
TimeoutKeepsAnswers ==
  [][\A e \in Employees :
       row[e].voiceStatus \in Confirmed /\ row'[e].voiceStatus = "UNREACHABLE"
         => iter[e].state = "FinalizeOne" /\ iter'[e].state = "Done"]_vars

-----------------------------------------------------------------------------

(* The execution always comes to an end, whatever call is never answered or  *)
(* whose end is never reported (Dispatch's TimeoutSeconds).                  *)
ExecutionEnds == <>(exec \in {"Succeeded", "Failed", "Aborted"})

(* With the rules in place every cycle closes: completed in time, or timed   *)
(* out (Requirement 14.4).                                                   *)
CycleCloses == <>[](cycle.status # "RUNNING")

(* A timeout reaches the alarm and the operator, and its rules are removed   *)
(* (Requirement 14.5).                                                       *)
TimeoutAnnounced ==
  cycle.status = "TIMEOUT"
    ~> sent["CycleTimeout"] = 1 /\ sent["TimeoutNotice"] = 1 /\ ~rules

(* The cycle's row, metric and notice behave as CycleLifecycle says.         *)
Lifecycle == INSTANCE CycleLifecycle WITH
  status <- cycle.status,
  warned <- cycle.slaWarning,
  timeoutMetric <- sent["CycleTimeout"],
  timeoutNotice <- sent["TimeoutNotice"]

(* CycleExecution implements CycleLifecycle.                                 *)
ImplementsLifecycle == Lifecycle!LifecycleSpec

=============================================================================
