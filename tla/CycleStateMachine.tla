-------------------------- MODULE CycleStateMachine --------------------------
(***************************************************************************)
(* infrastructure/state-machines/cycle-state-machine.asl.json: LoadTargets, *)
(* the CallMap iterations and the end of the execution.  Pass states are   *)
(* folded into the step that enters them.  A stopped execution takes no    *)
(* step, whatever the Lambdas it started go on to do.                      *)
(***************************************************************************)
EXTENDS CycleData

Goto(e, state) == iter' = [iter EXCEPT ![e].state = state]

InMap(e, state) == exec = "Map" /\ e \in targets /\ iter[e].state = state

-----------------------------------------------------------------------------

(* Which employees are selected is LoadTargets' business; here, some.        *)
LoadTargets ==
  /\ exec = "LoadTargets"
  /\ targets' \in SUBSET Employees \ {{}}
  /\ exec' = "Map"
  /\ UNCHANGED <<cycle, iter, dispatcher, row, call, rec, fin, sent, rules>>

(* NoTargetsError, or any other failure: CycleFailed, with targets empty.    *)
LoadTargetsFails ==
  /\ exec = "LoadTargets"
  /\ "empty" \in Disturbances \/ "table" \in Disturbances
  /\ exec' = "Failed"
  /\ UNCHANGED <<cycle, targets, iter, dispatcher, row, call, rec, fin, sent, rules>>

-----------------------------------------------------------------------------

Active == {e \in targets : iter[e].state \notin {"Queued", "Done"}}

(* A free slot starts an iteration; an existing row is kept as it is.        *)
InitAttempt(e) ==
  /\ InMap(e, "Queued")
  /\ Cardinality(Active) < MaxConcurrentCalls
  /\ row' = IF HasRow(e) THEN row
            ELSE [row EXCEPT ![e].voiceStatus = "PENDING"]
  /\ Goto(e, "Dispatch")
  /\ dispatcher' = [dispatcher EXCEPT ![e] = "started"]
  /\ UNCHANGED <<cycle, exec, targets, call, rec, fin, sent, rules>>

InitAttemptFails(e) ==
  /\ InMap(e, "Queued")
  /\ "table" \in Disturbances
  /\ Cardinality(Active) < MaxConcurrentCalls
  /\ Goto(e, "FinalizeOneError")
  /\ UNCHANGED <<cycle, exec, targets, dispatcher, row, call, rec, fin, sent, rules>>

(* Mutant: a waitForTaskToken task without TimeoutSeconds.                   *)
DispatchWithoutTimeout(e) == FALSE

(* TimeoutSeconds is 90 and the dispatcher's own limit 60, so the dispatcher *)
(* is no longer running.                                                     *)
DispatchTimeout(e) ==
  /\ InMap(e, "Dispatch")
  /\ dispatcher[e] = "idle"
  /\ Goto(e, "WaitForTranscribe")
  /\ UNCHANGED <<cycle, exec, targets, dispatcher, row, call, rec, fin, sent, rules>>

(* The sixty seconds have passed; so have the dispatcher's.                  *)
ReadResponse(e) ==
  /\ InMap(e, "WaitForTranscribe")
  /\ dispatcher[e] = "idle"
  /\ iter' = [iter EXCEPT ![e].state = "EvaluateRetry",
                          ![e].seen = row[e].voiceStatus]
  /\ UNCHANGED <<cycle, exec, targets, dispatcher, row, call, rec, fin, sent, rules>>

ReadResponseFails(e) ==
  /\ InMap(e, "WaitForTranscribe")
  /\ "table" \in Disturbances
  /\ dispatcher[e] = "idle"
  /\ Goto(e, "FinalizeOneError")
  /\ UNCHANGED <<cycle, exec, targets, dispatcher, row, call, rec, fin, sent, rules>>

(* RetryEvaluator decides on the copy ReadResponse took.                     *)
EvaluateRetry(e) ==
  /\ InMap(e, "EvaluateRetry")
  /\ Goto(e, IF ShouldRetry(iter[e].seen, iter[e].attempt, RetryCount)
             THEN "WaitInterval" ELSE "FinalizeOne")
  /\ UNCHANGED <<cycle, exec, targets, dispatcher, row, call, rec, fin, sent, rules>>

EvaluateRetryFails(e) ==
  /\ InMap(e, "EvaluateRetry")
  /\ "crash" \in Disturbances
  /\ Goto(e, "FinalizeOneError")
  /\ UNCHANGED <<cycle, exec, targets, dispatcher, row, call, rec, fin, sent, rules>>

(* The interval is over: IncrementAttempt, then Dispatch again.  The row is  *)
(* not read a second time.                                                   *)
Redial(e) ==
  /\ InMap(e, "WaitInterval")
  /\ iter' = [iter EXCEPT ![e].state = "Dispatch", ![e].attempt = @ + 1]
  /\ dispatcher' = [dispatcher EXCEPT ![e] = "started"]
  /\ UNCHANGED <<cycle, exec, targets, row, call, rec, fin, sent, rules>>

(* finalStatus comes from the same copy, and the write has no condition.     *)
FinalizeOne(e) ==
  /\ InMap(e, "FinalizeOne")
  /\ SetVoiceStatus(e, DeriveFinalStatus(iter[e].seen))
  /\ Goto(e, "Done")
  /\ UNCHANGED <<cycle, exec, targets, dispatcher, call, rec, fin, sent, rules>>

FinalizeOneError(e) ==
  /\ InMap(e, "FinalizeOneError")
  /\ row' = [row EXCEPT ![e].voiceStatus = "OTHER", ![e].sfnError = TRUE]
  /\ Goto(e, "Done")
  /\ UNCHANGED <<cycle, exec, targets, dispatcher, call, rec, fin, sent, rules>>

(* Neither final write has a Catch: its failure fails the whole Map.         *)
IterationFails(e) ==
  /\ InMap(e, "FinalizeOne") \/ InMap(e, "FinalizeOneError")
  /\ "table" \in Disturbances
  /\ exec' = "Failed"
  /\ UNCHANGED <<cycle, targets, iter, dispatcher, row, call, rec, fin, sent, rules>>

-----------------------------------------------------------------------------

(* Mutant: done as soon as nobody is being called.                           *)
MapCompletesWhenIdle ==
  /\ exec = "Map"
  /\ Active = {}
  /\ exec' = "Finalize"
  /\ UNCHANGED <<cycle, targets, iter, dispatcher, row, call, rec, fin, sent, rules>>

MapCompletes ==
  /\ exec = "Map"
  /\ \A e \in targets : iter[e].state = "Done"
  /\ exec' = "Finalize"
  /\ UNCHANGED <<cycle, targets, iter, dispatcher, row, call, rec, fin, sent, rules>>

(* Whatever status CycleFinalizer returned, "incomplete" included.           *)
ExecutionSucceeds ==
  /\ exec = "Finalize"
  /\ \E i \in Invocations : Trigger[i] = "MAP_COMPLETED" /\ fin[i].pc = "done"
  /\ exec' = "Succeeded"
  /\ UNCHANGED <<cycle, targets, iter, dispatcher, row, call, rec, fin, sent, rules>>

IterationStep(e) ==
  \/ InitAttempt(e) \/ InitAttemptFails(e)
  \/ DispatchTimeout(e)
  \/ ReadResponse(e) \/ ReadResponseFails(e)
  \/ EvaluateRetry(e) \/ EvaluateRetryFails(e)
  \/ Redial(e)
  \/ FinalizeOne(e) \/ FinalizeOneError(e) \/ IterationFails(e)

ExecutionStep ==
  LoadTargets \/ LoadTargetsFails \/ MapCompletes \/ ExecutionSucceeds

=============================================================================
