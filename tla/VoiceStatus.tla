---------------------------- MODULE VoiceStatus ----------------------------
(***************************************************************************)
(* The pure functions every writer of a Response row shares:               *)
(* backend/shared/retry/evaluator.py (retry or finalise) and               *)
(* backend/shared/cycle/finalize.py (completion, timeout, SLA).  They do   *)
(* no I/O in the source and are operators without state here.              *)
(*                                                                         *)
(* A query result is a function from the employees that have a row to      *)
(* their rows: DynamoDB holds at most one row per (cycleId, employeeId).   *)
(***************************************************************************)
EXTENDS Naturals

Confirmed == {"SAFE", "INJURED", "UNAVAILABLE"}

Retryable == {"PENDING", "OTHER"}

ValidVoiceStatus == Confirmed \cup Retryable \cup {"UNREACHABLE"}

(* "No more outbound work": what the completion check accepts. *)
TerminalVoiceStatus == Confirmed \cup {"UNREACHABLE"}

(* What the sixty-minute path relabels. *)
TimeoutRewrite == {"PENDING", "OTHER"}

-----------------------------------------------------------------------------

(* Mutants, used only to show that a property can fail.                     *)
ShouldRetryOffByOne(voiceStatus, attempts, retryCount) ==
  voiceStatus \in Retryable /\ attempts <= retryCount

ShouldRetryWhateverSaid(voiceStatus, attempts, retryCount) ==
  attempts < retryCount

DeriveFinalStatusUnmapped(voiceStatus) ==
  IF voiceStatus \in Confirmed THEN voiceStatus ELSE "NO_ANSWER"

(* attempts counts dispatches already made, so a budget of 0 and a budget   *)
(* of 1 both mean one dispatch.                                             *)
ShouldRetry(voiceStatus, attempts, retryCount) ==
  voiceStatus \in Retryable /\ attempts < retryCount

DeriveFinalStatus(voiceStatus) ==
  IF voiceStatus \in Confirmed THEN voiceStatus ELSE "UNREACHABLE"

-----------------------------------------------------------------------------

IsCycleCompleted(rows) ==
  \A e \in DOMAIN rows : rows[e].voiceStatus \in TerminalVoiceStatus

(* The employees the timeout path must relabel. *)
ApplyTimeout(rows) ==
  {e \in DOMAIN rows : rows[e].voiceStatus \in TimeoutRewrite}

IsFirstDispatchIncomplete(rows) ==
  \E e \in DOMAIN rows : rows[e].callAttempts = 0

=============================================================================
