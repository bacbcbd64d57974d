--------------------------- MODULE CycleFinalizer ---------------------------
(***************************************************************************)
(* lambdas/cycle_finalizer/handler.py: the three triggers, one action per  *)
(* access to a table, to Step Functions, to CloudWatch, SNS or             *)
(* EventBridge.  pc names the access an invocation makes next.             *)
(***************************************************************************)
EXTENDS CycleData

At(i, trigger, pc) == Trigger[i] = trigger /\ fin[i].pc = pc

Continue(i, pc) == fin' = [fin EXCEPT ![i].pc = pc]

Send(name) == sent' = [sent EXCEPT ![name] = @ + 1]

-----------------------------------------------------------------------------

(* The Finalize state invokes the Lambda; a timer rule's event does.         *)
FinalizeInvoked(i) ==
  /\ At(i, "MAP_COMPLETED", "idle")
  /\ exec = "Finalize"
  /\ Continue(i, "query")
  /\ UNCHANGED <<cycle, exec, targets, iter, dispatcher, row, call, rec, sent, rules>>

TimerFires(i) ==
  /\ At(i, "TIMER_30MIN", "idle") \/ At(i, "TIMER_60MIN", "idle")
  /\ rules
  /\ Continue(i, "get")
  /\ UNCHANGED <<cycle, exec, targets, iter, dispatcher, row, call, rec, sent, rules>>

(* Mutants: the responses are queried without stopping the execution first;  *)
(* a timer ignores a cycle whose execution has ended.                        *)
GetCycleWithoutStop(i) ==
  /\ fin[i].pc = "get"
  /\ Continue(i, IF cycle.status # "RUNNING" THEN "done" ELSE "query")
  /\ UNCHANGED <<cycle, exec, targets, iter, dispatcher, row, call, rec, sent, rules>>

GetCycleWhileExecuting(i) ==
  /\ fin[i].pc = "get"
  /\ Continue(i, IF cycle.status # "RUNNING" \/ exec \notin {"LoadTargets", "Map", "Finalize"}
                 THEN "done" ELSE "query")
  /\ UNCHANGED <<cycle, exec, targets, iter, dispatcher, row, call, rec, sent, rules>>

(* Both timers do nothing on a cycle that is not RUNNING.                    *)
GetCycle(i) ==
  /\ fin[i].pc = "get"
  /\ Continue(i, IF cycle.status # "RUNNING" THEN "done"
              ELSE IF Trigger[i] = "TIMER_60MIN" /\ i \in ArnGiven THEN "stop"
              ELSE "query")
  /\ UNCHANGED <<cycle, exec, targets, iter, dispatcher, row, call, rec, sent, rules>>

-----------------------------------------------------------------------------

QueryOnMapCompleted(i) ==
  /\ At(i, "MAP_COMPLETED", "query")
  /\ Continue(i, IF IsCycleCompleted(Rows) THEN "flip" ELSE "done")
  /\ UNCHANGED <<cycle, exec, targets, iter, dispatcher, row, call, rec, sent, rules>>

(* Conditional on RUNNING, like every write of the status.                   *)
SetCycleCompleted(i) ==
  /\ At(i, "MAP_COMPLETED", "flip")
  /\ IF cycle.status = "RUNNING"
     THEN /\ cycle' = [cycle EXCEPT !.status = "COMPLETED"]
          /\ Continue(i, "rules")
     ELSE /\ Continue(i, "done")
          /\ UNCHANGED cycle
  /\ UNCHANGED <<exec, targets, iter, dispatcher, row, call, rec, sent, rules>>

-----------------------------------------------------------------------------

QueryOnTimer30(i) ==
  /\ At(i, "TIMER_30MIN", "query")
  /\ Continue(i, IF IsFirstDispatchIncomplete(Rows) THEN "warn" ELSE "done")
  /\ UNCHANGED <<cycle, exec, targets, iter, dispatcher, row, call, rec, sent, rules>>

(* Mutant: no ConditionExpression.                                           *)
SetSlaWarningFlagBlindly(i) ==
  /\ At(i, "TIMER_30MIN", "warn")
  /\ cycle' = [cycle EXCEPT !.slaWarning = TRUE]
  /\ Continue(i, "metric")
  /\ UNCHANGED <<exec, targets, iter, dispatcher, row, call, rec, sent, rules>>

SetSlaWarningFlag(i) ==
  /\ At(i, "TIMER_30MIN", "warn")
  /\ IF cycle.status = "RUNNING"
     THEN /\ cycle' = [cycle EXCEPT !.slaWarning = TRUE]
          /\ Continue(i, "metric")
     ELSE /\ Continue(i, "done")
          /\ UNCHANGED cycle
  /\ UNCHANGED <<exec, targets, iter, dispatcher, row, call, rec, sent, rules>>

-----------------------------------------------------------------------------

(* A finished execution is left alone (ExecutionDoesNotExist is swallowed).  *)
StopSfnExecution(i) ==
  /\ At(i, "TIMER_60MIN", "stop")
  /\ exec' = IF exec \in {"LoadTargets", "Map", "Finalize"} THEN "Aborted" ELSE exec
  /\ Continue(i, "query")
  /\ UNCHANGED <<cycle, targets, iter, dispatcher, row, call, rec, sent, rules>>

QueryOnTimer60(i) ==
  /\ At(i, "TIMER_60MIN", "query")
  /\ fin' = [fin EXCEPT ![i].pc = "rewrite", ![i].todo = ApplyTimeout(Rows)]
  /\ UNCHANGED <<cycle, exec, targets, iter, dispatcher, row, call, rec, sent, rules>>

(* Mutant: no ConditionExpression.                                           *)
ForceResponseUnreachableBlindly(i) ==
  /\ At(i, "TIMER_60MIN", "rewrite")
  /\ \E e \in fin[i].todo :
       /\ SetVoiceStatus(e, "UNREACHABLE")
       /\ fin' = [fin EXCEPT ![i].todo = @ \ {e}]
  /\ UNCHANGED <<cycle, exec, targets, iter, dispatcher, call, rec, sent, rules>>

(* One conditional UpdateItem per employee of the query's result.            *)
ForceResponseUnreachable(i) ==
  /\ At(i, "TIMER_60MIN", "rewrite")
  /\ \E e \in fin[i].todo :
       /\ row' = IF row[e].voiceStatus \in TimeoutRewrite
                 THEN [row EXCEPT ![e].voiceStatus = "UNREACHABLE"] ELSE row
       /\ fin' = [fin EXCEPT ![i].todo = @ \ {e}]
  /\ UNCHANGED <<cycle, exec, targets, iter, dispatcher, call, rec, sent, rules>>

SetCycleTimeout(i) ==
  /\ At(i, "TIMER_60MIN", "rewrite")
  /\ fin[i].todo = {}
  /\ IF cycle.status = "RUNNING"
     THEN /\ cycle' = [cycle EXCEPT !.status = "TIMEOUT"]
          /\ Continue(i, "metric")
     ELSE /\ Continue(i, "done")
          /\ UNCHANGED cycle
  /\ UNCHANGED <<exec, targets, iter, dispatcher, row, call, rec, sent, rules>>

-----------------------------------------------------------------------------

PutCycleMetric(i) ==
  /\ fin[i].pc = "metric"
  /\ Send(IF Trigger[i] = "TIMER_60MIN" THEN "CycleTimeout" ELSE "SlaWarning30Min")
  /\ Continue(i, "notify")
  /\ UNCHANGED <<cycle, exec, targets, iter, dispatcher, row, call, rec, rules>>

(* Mutant: the timeout path returns before it deletes the rules.             *)
PublishOperatorNotificationLast(i) ==
  /\ fin[i].pc = "notify"
  /\ Send(IF Trigger[i] = "TIMER_60MIN" THEN "TimeoutNotice" ELSE "SlaNotice")
  /\ Continue(i, "done")
  /\ UNCHANGED <<cycle, exec, targets, iter, dispatcher, row, call, rec, rules>>

PublishOperatorNotification(i) ==
  /\ fin[i].pc = "notify"
  /\ IF Trigger[i] = "TIMER_60MIN"
     THEN Send("TimeoutNotice") /\ Continue(i, "rules")
     ELSE Send("SlaNotice") /\ Continue(i, "done")
  /\ UNCHANGED <<cycle, exec, targets, iter, dispatcher, row, call, rec, rules>>

DeleteTimerRules(i) ==
  /\ fin[i].pc = "rules"
  /\ rules' = FALSE
  /\ Continue(i, "done")
  /\ UNCHANGED <<cycle, exec, targets, iter, dispatcher, row, call, rec, sent>>

-----------------------------------------------------------------------------

(* The invocation ends in an exception or is cut off.  An asynchronous       *)
(* (timer) invocation is tried again from the start, and then dropped; the   *)
(* Finalize state retries a service error and otherwise fails the execution. *)
InvocationFails(i) ==
  /\ "crash" \in Disturbances
  /\ fin[i].pc \notin {"idle", "done"}
  /\ \/ /\ fin[i].tries < MaxTries
        /\ fin' = [fin EXCEPT
             ![i] = [pc |-> IF Trigger[i] = "MAP_COMPLETED" THEN "idle" ELSE "get",
                     todo |-> {}, tries |-> @.tries + 1]]
        /\ UNCHANGED exec
     \/ /\ Continue(i, "done")
        /\ exec' = IF Trigger[i] = "MAP_COMPLETED" /\ exec = "Finalize"
                   THEN "Failed" ELSE exec
  /\ UNCHANGED <<cycle, targets, iter, dispatcher, row, call, rec, sent, rules>>

InvocationStep(i) ==
  \/ GetCycle(i)
  \/ QueryOnMapCompleted(i) \/ SetCycleCompleted(i)
  \/ QueryOnTimer30(i) \/ SetSlaWarningFlag(i)
  \/ StopSfnExecution(i) \/ QueryOnTimer60(i)
  \/ ForceResponseUnreachable(i) \/ SetCycleTimeout(i)
  \/ PutCycleMetric(i) \/ PublishOperatorNotification(i) \/ DeleteTimerRules(i)

FinalizerStep(i) ==
  FinalizeInvoked(i) \/ TimerFires(i) \/ InvocationStep(i) \/ InvocationFails(i)

=============================================================================
