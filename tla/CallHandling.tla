---------------------------- MODULE CallHandling ----------------------------
(***************************************************************************)
(* One outbound call: the ConnectDispatcher Lambda that places it, the     *)
(* Outbound contact flow that runs it, and the CallEndHandler Lambda the   *)
(* flow invokes at its end.  The flow always passes RECORDED, and invokes  *)
(* nothing when the callee does not answer or hangs up early.              *)
(***************************************************************************)
EXTENDS CycleData

(* The attempt of the dispatcher running for e: Dispatch outlives it.        *)
Attempt(e) == iter[e].attempt

DispatcherAt(e, state) == dispatcher[e] = state

Advance(e, state) == dispatcher' = [dispatcher EXCEPT ![e] = state]

-----------------------------------------------------------------------------

StartOutboundCall(e) ==
  /\ DispatcherAt(e, "started")
  /\ Advance(e, "placed")
  /\ call' = [call EXCEPT ![e][Attempt(e)] = "live"]
  /\ UNCHANGED <<cycle, exec, targets, iter, row, rec, fin, sent, rules>>

(* Every retryable try failed.                                               *)
DispatchExhausted(e) ==
  /\ DispatcherAt(e, "started")
  /\ "connect" \in Disturbances
  /\ Advance(e, "exhausted")
  /\ UNCHANGED <<cycle, exec, targets, iter, row, call, rec, fin, sent, rules>>

(* Mutant: no ADD callAttempts.                                              *)
RecordSuccessUncounted(e) ==
  /\ DispatcherAt(e, "placed")
  /\ row' = [row EXCEPT ![e].contact = Attempt(e)]
  /\ Advance(e, "idle")
  /\ UNCHANGED <<cycle, exec, targets, iter, call, rec, fin, sent, rules>>

(* The call is up: contactId, and one more attempt.  The token stays with    *)
(* the call.                                                                 *)
RecordSuccess(e) ==
  /\ DispatcherAt(e, "placed")
  /\ row' = [row EXCEPT ![e].contact = Attempt(e), ![e].callAttempts = @ + 1]
  /\ Advance(e, "idle")
  /\ UNCHANGED <<cycle, exec, targets, iter, call, rec, fin, sent, rules>>

(* attribute_not_exists(callResultCode) guards the counter as well.          *)
RecordError(e) ==
  /\ DispatcherAt(e, "exhausted")
  /\ row' = IF row[e].callResultCode = "none"
            THEN [row EXCEPT ![e].callResultCode = "ERROR",
                             ![e].callAttempts = @ + 1]
            ELSE row
  /\ Advance(e, "release")
  /\ UNCHANGED <<cycle, exec, targets, iter, call, rec, fin, sent, rules>>

SendRetryTaskSuccess(e) ==
  /\ DispatcherAt(e, "release")
  /\ ReleaseToken(e, Attempt(e))
  /\ Advance(e, "idle")
  /\ UNCHANGED <<cycle, exec, targets, row, call, rec, fin, sent, rules>>

(* A non-retryable Connect error is raised; so is anything that goes wrong   *)
(* later.  Dispatch's Catch then releases the iteration.                     *)
DispatcherFails(e) ==
  /\ \/ DispatcherAt(e, "started") /\ "connect" \in Disturbances
     \/ dispatcher[e] # "idle" /\ "crash" \in Disturbances
  /\ ReleaseToken(e, Attempt(e))
  /\ Advance(e, "idle")
  /\ UNCHANGED <<cycle, exec, targets, row, call, rec, fin, sent, rules>>

DispatcherStep(e) ==
  \/ StartOutboundCall(e) \/ DispatchExhausted(e)
  \/ RecordSuccess(e) \/ RecordError(e) \/ SendRetryTaskSuccess(e)
  \/ DispatcherFails(e)

-----------------------------------------------------------------------------

(* The flow reaches its last block and invokes CallEndHandler.  Connect may  *)
(* invoke it a second time.                                                  *)
CallEnds(e, a) ==
  /\ \/ call[e][a] = "live"
     \/ call[e][a] = "over" /\ "redelivery" \in Disturbances
  /\ call' = [call EXCEPT ![e][a] = "ending"]
  /\ UNCHANGED <<cycle, exec, targets, iter, dispatcher, row, rec, fin, sent, rules>>

(* No answer, busy, a failed prompt, an early hang-up.                       *)
CallDrops(e, a) ==
  /\ call[e][a] = "live"
  /\ call' = [call EXCEPT ![e][a] = "dropped"]
  /\ UNCHANGED <<cycle, exec, targets, iter, dispatcher, row, rec, fin, sent, rules>>

RecordCallEnd(e, a) ==
  /\ call[e][a] = "ending"
  /\ row' = IF row[e].callResultCode = "none"
            THEN [row EXCEPT ![e].callResultCode = "RECORDED"] ELSE row
  /\ call' = [call EXCEPT ![e][a] = "coded"]
  /\ UNCHANGED <<cycle, exec, targets, iter, dispatcher, rec, fin, sent, rules>>

SendTaskSuccess(e, a) ==
  /\ call[e][a] = "coded"
  /\ ReleaseToken(e, a)
  /\ call' = [call EXCEPT ![e][a] = "over"]
  /\ UNCHANGED <<cycle, exec, targets, dispatcher, row, rec, fin, sent, rules>>

(* The handler dies; the flow does not invoke it again.                      *)
CallEndFails(e, a) ==
  /\ "crash" \in Disturbances
  /\ call[e][a] \in {"ending", "coded"}
  /\ call' = [call EXCEPT ![e][a] = "over"]
  /\ UNCHANGED <<cycle, exec, targets, iter, dispatcher, row, rec, fin, sent, rules>>

CallStep(e, a) ==
  \/ CallEnds(e, a) \/ CallDrops(e, a)
  \/ RecordCallEnd(e, a) \/ SendTaskSuccess(e, a) \/ CallEndFails(e, a)

=============================================================================
