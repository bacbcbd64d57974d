----------------------------- MODULE CycleStart -----------------------------
(***************************************************************************)
(* Who may open a cycle, and which cycle an inbound call belongs to:       *)
(* POST /cycles of lambdas/cycle_api/handler.py, with                      *)
(* shared/cycle/exclusivity.py, and the identify step of                   *)
(* lambdas/inbound_handler/handler.py, with                                *)
(* shared/inbound/cycle_selection.py.  Both look for cycles in             *)
(* StatusStartedAtIndex, a global secondary index that follows the Cycle   *)
(* table in its own time.                                                  *)
(*                                                                         *)
(* A request creates at most one cycle, under an identifier of its own, so *)
(* the request stands for the cycle.  How a cycle is closed is             *)
(* CycleExecution's subject; here its execution just closes it.            *)
(***************************************************************************)
EXTENDS Naturals, FiniteSets

CONSTANTS
  Requests,    \* POSTs to /cycles
  NoRequest,
  Keys,        \* values of the Idempotency-Key header
  NoKey,       \* no such header
  Callers      \* inbound calls of registered employees

ASSUME RequestsAssumption == IsFiniteSet(Requests) /\ NoRequest \notin Requests

VARIABLES
  cycles,  \* per request: its Cycle row
  index,   \* the copy of it in StatusStartedAtIndex
  exec,    \* per request: its Step Functions execution
  req,     \* per request: the CycleApi invocation
  key,     \* per request: its Idempotency-Key
  caller,  \* per inbound call: the identify invocation
  expired, \* the cycles whose completedAt is out of the reception window
  orderly  \* for the properties: so far no two POSTs have overlapped, and
           \* none has met an index that lags

startVars == <<cycles, index, exec, req, key, caller, expired, orderly>>

CycleStatus == {"RUNNING", "COMPLETED", "TIMEOUT", "START_FAILED"}

(* startedAt orders the rows.                                                *)
CycleRow == [status : CycleStatus \cup {"ABSENT"}, startedAt : Nat,
             completedAt : BOOLEAN]

NoCycle == [status |-> "ABSENT", startedAt |-> 0, completedAt |-> FALSE]

ReqState ==
  {"idle", "dictionary", "guard", "put", "start", "failed", "done"}

Reply == {"none", "200", "201", "400", "409", "500", "broken"}

Flow == {"none", "ACTIVE_CYCLE", "CYCLE_TERMINATED", "NO_CYCLE", "ValueError"}

InFlight(r) == req[r].pc \notin {"idle", "done"}

Known(r) == cycles[r].status # "ABSENT"

-----------------------------------------------------------------------------

Init ==
  /\ cycles = [r \in Requests |-> NoCycle]
  /\ index = [r \in Requests |-> NoCycle]
  /\ exec = [r \in Requests |-> "none"]
  /\ req = [r \in Requests |-> [pc |-> "idle", reply |-> "none", of |-> NoRequest]]
  /\ caller = [c \in Callers |-> [pc |-> "idle", found |-> {}, flow |-> "none",
                                  open |-> FALSE]]
  /\ key = [r \in Requests |-> NoKey]
  /\ expired = {}
  /\ orderly = TRUE

(* A write of the Cycle table; the index will show it.                       *)
Write(r, new) == cycles' = [cycles EXCEPT ![r] = new] /\ index' = index

IndexCatchesUp(r) ==
  /\ index[r] # cycles[r]
  /\ index' = [index EXCEPT ![r] = cycles[r]]
  /\ UNCHANGED <<cycles, exec, req, key, caller, expired, orderly>>

Proceed(r, pc) == req' = [req EXCEPT ![r].pc = pc]

Answer(r, reply, of) ==
  req' = [req EXCEPT ![r] = [pc |-> "done", reply |-> reply, of |-> of]]

-----------------------------------------------------------------------------
(* POST /cycles.                                                             *)

Arrive(r) ==
  /\ req[r].pc = "idle"
  /\ \E k \in Keys \cup {NoKey} : key' = [key EXCEPT ![r] = k]
  /\ orderly' = (orderly /\ \A q \in Requests : ~InFlight(q))
  /\ Proceed(r, "dictionary")
  /\ UNCHANGED <<cycles, index, exec, caller, expired>>

(* The dictionary is someone else's: it may be empty at any time.            *)
IsActiveDictionaryEmpty(r) ==
  /\ req[r].pc = "dictionary"
  /\ Proceed(r, "guard") \/ Answer(r, "400", NoRequest)
  /\ UNCHANGED <<cycles, index, exec, key, caller, expired, orderly>>

Running == {q \in Requests : index[q].status = "RUNNING"}

(* Query with ScanIndexForward=False and Limit=1.                            *)
Newest(S) == CHOOSE q \in S : \A p \in S : index[p].startedAt <= index[q].startedAt

(* Mutant: only a cycle with the request's own key is looked for.            *)
CanStartCycleByKey(r) ==
  /\ req[r].pc = "guard"
  /\ IF \E q \in Running : key[q] = key[r]
     THEN Answer(r, "200", Newest(Running))
     ELSE Proceed(r, "put")
  /\ orderly' = (orderly /\ index = cycles)
  /\ UNCHANGED <<cycles, index, exec, key, caller, expired>>

(* A RUNNING cycle of the same key is the answer to a repeated request; one  *)
(* of another key, or of none, is a conflict.                                *)
CanStartCycle(r) ==
  /\ req[r].pc = "guard"
  /\ IF Running = {} THEN Proceed(r, "put")
     ELSE LET existing == Newest(Running)
          IN  Answer(r, IF key[r] # NoKey /\ key[existing] = key[r]
                        THEN "200" ELSE "409", existing)
  /\ orderly' = (orderly /\ index = cycles)
  /\ UNCHANGED <<cycles, index, exec, key, caller, expired>>

(* PutItem without a condition.                                              *)
PutCycle(r) ==
  /\ req[r].pc = "put"
  /\ Write(r, [status |-> "RUNNING", completedAt |-> FALSE,
               startedAt |-> Cardinality({q \in Requests : Known(q)}) + 1])
  /\ Proceed(r, "start")
  /\ UNCHANGED <<exec, key, caller, expired, orderly>>

StartExecution(r) ==
  /\ req[r].pc = "start"
  /\ exec' = [exec EXCEPT ![r] = "running"]
  /\ Answer(r, "201", r)
  /\ UNCHANGED <<cycles, index, key, caller, expired, orderly>>

StartExecutionFails(r) ==
  /\ req[r].pc = "start"
  /\ Proceed(r, "failed")
  /\ UNCHANGED <<cycles, index, exec, key, caller, expired, orderly>>

(* Mutant: a status nobody else knows.                                       *)
SetStartFailedMisnamed(r) ==
  /\ req[r].pc = "failed"
  /\ Write(r, [cycles[r] EXCEPT !.status = "FAILED"])
  /\ Answer(r, "500", r)
  /\ UNCHANGED <<exec, key, caller, expired, orderly>>

(* The status and nothing else.                                              *)
SetStartFailed(r) ==
  /\ req[r].pc = "failed"
  /\ Write(r, [cycles[r] EXCEPT !.status = "START_FAILED"])
  /\ Answer(r, "500", r)
  /\ UNCHANGED <<exec, key, caller, expired, orderly>>

(* An error that is raised, or the end of the Lambda, between two accesses.  *)
RequestBreaks(r) ==
  /\ InFlight(r)
  /\ Answer(r, "broken", NoRequest)
  /\ UNCHANGED <<cycles, index, exec, key, caller, expired, orderly>>

(* Mutant: completedAt is left to a later write.                             *)
CycleClosesWithoutTime(r) ==
  /\ exec[r] = "running"
  /\ cycles[r].status = "RUNNING"
  /\ exec' = [exec EXCEPT ![r] = "ended"]
  /\ \E s \in {"COMPLETED", "TIMEOUT"} : Write(r, [cycles[r] EXCEPT !.status = s])
  /\ UNCHANGED <<req, key, caller, expired, orderly>>

(* CycleFinalizer's last word; it writes completedAt with the status.        *)
CycleCloses(r) ==
  /\ exec[r] = "running"
  /\ cycles[r].status = "RUNNING"
  /\ exec' = [exec EXCEPT ![r] = "ended"]
  /\ \E s \in {"COMPLETED", "TIMEOUT"} :
       Write(r, [status |-> s, startedAt |-> cycles[r].startedAt, completedAt |-> TRUE])
  /\ UNCHANGED <<req, key, caller, expired, orderly>>

-----------------------------------------------------------------------------
(* identify.                                                                 *)

(* The thirty days are over.  An identification takes no time.               *)
WindowCloses(r) ==
  /\ cycles[r].completedAt /\ index[r] = cycles[r]
  /\ r \notin expired
  /\ \A c \in Callers : caller[c].pc \in {"idle", "done"}
  /\ expired' = expired \cup {r}
  /\ UNCHANGED <<cycles, index, exec, req, key, caller, orderly>>

IdentifyState == CycleStatus \cup {"idle", "decide", "done"}

(* The statuses are queried one after the other, in this order.              *)
NextStatus(pc) ==
  CASE pc = "RUNNING" -> "COMPLETED"
    [] pc = "COMPLETED" -> "TIMEOUT"
    [] pc = "TIMEOUT" -> "START_FAILED"
    [] pc = "START_FAILED" -> "decide"

(* open remembers, for the properties, whether the index showed a RUNNING    *)
(* cycle when the call came in.                                              *)
CallComesIn(c) ==
  /\ caller[c].pc = "idle"
  /\ caller' = [caller EXCEPT ![c].pc = "RUNNING", ![c].open = Running # {}]
  /\ UNCHANGED <<cycles, index, exec, req, key, expired, orderly>>

(* Mutant: one query for the closed cycles first, and RUNNING last.          *)
QueryStatusRunningLast(c) ==
  LET pc == caller[c].pc
      status == CASE pc = "RUNNING" -> "COMPLETED" [] pc = "COMPLETED" -> "TIMEOUT"
                  [] pc = "TIMEOUT" -> "START_FAILED" [] pc = "START_FAILED" -> "RUNNING"
                  [] OTHER -> "none" IN
  /\ pc \in CycleStatus
  /\ caller' = [caller EXCEPT
       ![c].pc = NextStatus(pc),
       ![c].found = @ \cup {<<r, index[r]>> : r \in {q \in Requests : index[q].status = status}}]
  /\ UNCHANGED <<cycles, index, exec, req, key, expired, orderly>>

QueryStatus(c) ==
  LET pc == caller[c].pc IN
  /\ pc \in CycleStatus
  /\ caller' = [caller EXCEPT
       ![c].pc = NextStatus(pc),
       ![c].found = @ \cup {<<r, index[r]>> : r \in {q \in Requests : index[q].status = pc}}]
  /\ UNCHANGED <<cycles, index, exec, req, key, expired, orderly>>

(* _validate_cycle on every row, then the first of: a RUNNING cycle; one     *)
(* COMPLETED within the window; one TIMEOUT or START_FAILED within it.       *)
DecideInboundFlow(found) ==
  LET Some(statuses) == \E f \in found :
        /\ f[2].status \in statuses
        /\ f[2].status = "RUNNING" \/ f[1] \notin expired
  IN IF \E f \in found : f[2].status # "RUNNING" /\ ~f[2].completedAt THEN "ValueError"
     ELSE IF Some({"RUNNING"}) \/ Some({"COMPLETED"}) THEN "ACTIVE_CYCLE"
     ELSE IF Some({"TIMEOUT", "START_FAILED"}) THEN "CYCLE_TERMINATED"
     ELSE "NO_CYCLE"

HandleIdentify(c) ==
  /\ caller[c].pc = "decide"
  /\ caller' = [caller EXCEPT ![c].pc = "done",
                              ![c].flow = DecideInboundFlow(caller[c].found)]
  /\ UNCHANGED <<cycles, index, exec, req, key, expired, orderly>>

-----------------------------------------------------------------------------

RequestStep(r) ==
  \/ Arrive(r) \/ IsActiveDictionaryEmpty(r) \/ CanStartCycle(r) \/ PutCycle(r)
  \/ StartExecution(r) \/ StartExecutionFails(r) \/ SetStartFailed(r)
  \/ RequestBreaks(r)

CallerStep(c) == CallComesIn(c) \/ QueryStatus(c) \/ HandleIdentify(c)

Next ==
  \/ \E r \in Requests :
       RequestStep(r) \/ CycleCloses(r) \/ IndexCatchesUp(r) \/ WindowCloses(r)
  \/ \E c \in Callers : CallerStep(c)

StartSpec == Init /\ [][Next]_startVars

-----------------------------------------------------------------------------

(* Every variable has its type.                                              *)
StartTypeOK ==
  /\ cycles \in [Requests -> CycleRow]
  /\ index \in [Requests -> CycleRow]
  /\ exec \in [Requests -> {"none", "running", "ended"}]
  /\ req \in [Requests -> [pc : ReqState, reply : Reply,
                           of : Requests \cup {NoRequest}]]
  /\ caller \in [Callers -> [pc : IdentifyState, flow : Flow, open : BOOLEAN,
                             found : SUBSET (Requests \X CycleRow)]]
  /\ key \in [Requests -> Keys \cup {NoKey}]
  /\ expired \subseteq Requests
  /\ orderly \in BOOLEAN

(* As long as no two POSTs overlap and none meets a lagging index, at most   *)
(* one cycle is RUNNING (Requirement 4.8, Property 9), whatever fails        *)
(* halfway and however often a request is repeated: what the guard of        *)
(* _create_cycle is good for.                                                *)
AtMostOneRunning ==
  orderly =>
    \A r, q \in Requests :
      cycles[r].status = "RUNNING" /\ cycles[q].status = "RUNNING" => r = q

(* What makes identify raise is a start that failed, and nothing else: no    *)
(* cycle that CycleFinalizer has closed, and none that moves on between the  *)
(* queries or in the index, is met closed without its completedAt            *)
(* (_validate_cycle).                                                        *)
OnlyFailedStartsRaise ==
  \A c \in Callers :
    caller[c].flow = "ValueError" => \E r \in Requests : cycles[r].status = "START_FAILED"

(* A caller who rings while a cycle is open is never told that there is no   *)
(* cycle: the index is read once per status, and a row that moves on         *)
(* meanwhile is met again further down (_query_recent_cycles).               *)
OpenCycleIsFound ==
  \A c \in Callers : caller[c].open => caller[c].flow # "NO_CYCLE"

=============================================================================
