-------------------------- MODULE MCCycleExecution --------------------------
(***************************************************************************)
(* Instances of CycleExecution for TLC: which finalizer invocations exist, *)
(* and the statements of the documents that the code does not keep.        *)
(***************************************************************************)
EXTENDS CycleExecution, TLC

CONSTANTS map, t30, t60, t60b

(* Finalize's own invocation, and those of the two rules; EventBridge        *)
(* delivers at least once, so a second sixty-minute event may follow.        *)
MapOnly == (map :> "MAP_COMPLETED")
Only30 == (t30 :> "TIMER_30MIN")
Only60 == (t60 :> "TIMER_60MIN")
Map60 == MapOnly @@ Only60
Map60Twice == Map60 @@ (t60b :> "TIMER_60MIN")
All3 == Map60 @@ Only30

Symmetry == Permutations(Employees)

-----------------------------------------------------------------------------
(* Statements of the repository's documents and comments.                   *)

(* "so the cycle's aggregate completion check (is_cycle_completed) treats    *)
(* this row as terminal": a cycle whose iterations all ended in              *)
(* FinalizeOneError is closed when its execution succeeds.                   *)
ErrorRowsCountAsCompleted ==
  exec = "Succeeded" /\ (\A e \in targets : row[e].sfnError)
    => cycle.status # "RUNNING"

(* Requirement 9.5: UNREACHABLE is for those without a valid answer; no step *)
(* of the cycle puts it over one.                                            *)
AnswerNeverBecomesUnreachable ==
  [][\A e \in Employees :
       row[e].voiceStatus \in Confirmed => row'[e].voiceStatus # "UNREACHABLE"]_vars

(* Requirement 9.3, Property 12: once an answer is recorded, no call.        *)
NoCallAfterAnswer ==
  [][\A e \in Employees, a \in Attempts :
       call[e][a] = "none" /\ call'[e][a] = "live"
         => row[e].voiceStatus \notin Confirmed]_vars

(* Property 17: a transcript that arrives after the timeout does not change  *)
(* the Response.                                                             *)
ResponseFixedAfterTimeout ==
  [][cycle.status = "TIMEOUT" =>
       \A e \in Employees :
         row'[e].voiceStatus # row[e].voiceStatus
           => row'[e].voiceStatus \notin Confirmed]_vars

(* Requirement 14.6: the thirty-minute timer lets a cycle pass only when     *)
(* every target's first call has been dispatched.                            *)
NoWarningMeansAllDispatched ==
  [][\A i \in Invocations :
       At(i, "TIMER_30MIN", "query") /\ fin'[i].pc = "done"
         => \A e \in targets : row[e].callAttempts > 0]_vars

(* Requirement 14.4: a timeout settles every target who has not answered.    *)
TimeoutSettlesEveryTarget ==
  cycle.status = "TIMEOUT" => \A e \in targets : HasRow(e)

(* _record_response: a later transcript replaces an earlier one, never the   *)
(* other way round.                                                          *)
LatestTranscriptWins ==
  [][\A e \in Employees : row'[e].excerpt >= row[e].excerpt]_vars

(* ConnectDispatcher's docstring: on exhaustion callAttempts is incremented. *)
ExhaustionIsCounted ==
  [][\A e \in Employees :
       DispatcherAt(e, "exhausted") /\ dispatcher'[e] = "release"
         => row'[e].callAttempts = row[e].callAttempts + 1]_vars

(* CallEndHandler's docstring: it never meets the ERROR that the dispatcher  *)
(* writes, since a call that failed to start has no end.                     *)
CallEndMeetsNoError ==
  [][\A e \in Employees, a \in Attempts :
       call[e][a] = "ending" /\ call'[e][a] = "coded"
         => row[e].callResultCode # "ERROR"]_vars

(* Requirement 4.5: without targets there is no Cycle.                       *)
NoTargetsNoRunningCycle ==
  exec = "Failed" /\ targets = {} => cycle.status # "RUNNING"

=============================================================================
