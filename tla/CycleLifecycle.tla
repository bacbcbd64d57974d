--------------------------- MODULE CycleLifecycle ---------------------------
(***************************************************************************)
(* What the Cycle row and the alarms promise to an administrator who sees  *)
(* nothing else: a cycle is RUNNING, closes once as COMPLETED or TIMEOUT   *)
(* and then stays as it is; a delay warning is raised at most once and     *)
(* only while it runs; the timeout metric and the timeout notice follow a  *)
(* TIMEOUT, once, in that order, and nothing else raises them.             *)
(***************************************************************************)
EXTENDS Naturals

VARIABLES
  status,       \* RUNNING, COMPLETED, TIMEOUT
  warned,       \* slaWarning30min
  timeoutMetric,\* CycleTimeout data points
  timeoutNotice \* timeout notifications

lifecycleVars == <<status, warned, timeoutMetric, timeoutNotice>>

LifecycleInit ==
  /\ status = "RUNNING" /\ warned = FALSE
  /\ timeoutMetric = 0 /\ timeoutNotice = 0

Complete ==
  /\ status = "RUNNING" /\ status' = "COMPLETED"
  /\ UNCHANGED <<warned, timeoutMetric, timeoutNotice>>

TimeOut ==
  /\ status = "RUNNING" /\ status' = "TIMEOUT"
  /\ UNCHANGED <<warned, timeoutMetric, timeoutNotice>>

Warn ==
  /\ status = "RUNNING" /\ warned' = TRUE
  /\ UNCHANGED <<status, timeoutMetric, timeoutNotice>>

RaiseMetric ==
  /\ status = "TIMEOUT" /\ timeoutMetric = 0 /\ timeoutMetric' = 1
  /\ UNCHANGED <<status, warned, timeoutNotice>>

Notify ==
  /\ status = "TIMEOUT" /\ timeoutMetric = 1
  /\ timeoutNotice = 0 /\ timeoutNotice' = 1
  /\ UNCHANGED <<status, warned, timeoutMetric>>

LifecycleNext == Complete \/ TimeOut \/ Warn \/ RaiseMetric \/ Notify

LifecycleSpec == LifecycleInit /\ [][LifecycleNext]_lifecycleVars

=============================================================================
