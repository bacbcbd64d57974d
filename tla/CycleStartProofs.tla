-------------------------- MODULE CycleStartProofs --------------------------
(***************************************************************************)
(* The two halves of CycleStart.                                           *)
(*                                                                         *)
(* Starting: two RUNNING cycles need two POSTs that overlap, or one that   *)
(* meets an index that lags; until then the guard of _create_cycle         *)
(* suffices, whatever breaks.                                              *)
(*                                                                         *)
(* Identifying: one status is asked for after the other, while cycles move *)
(* from one to the next.  None is missed that was open when the call came  *)
(* in, because a row only moves to a status asked for later, and the index *)
(* only falls behind rows that still move.                                 *)
(***************************************************************************)
EXTENDS CycleStart, FiniteSetTheorems, WellFoundedInduction, TLAPS

-----------------------------------------------------------------------------
(* Starting.                                                                 *)

(* What the guard relies on: one POST is handled at a time, and the one that *)
(* has passed the guard met no RUNNING cycle - none can appear before its    *)
(* own, which it may give up but not write again.                            *)
Exclusive ==
  /\ \A r, q \in Requests : InFlight(r) /\ InFlight(q) => r = q
  /\ \A r \in Requests :
       req[r].pc = "put" => \A q \in Requests : cycles[q].status # "RUNNING"
  /\ \A r \in Requests :
       req[r].pc \in {"start", "failed"} =>
         \A q \in Requests : cycles[q].status = "RUNNING" => q = r

(* Enough of the types for functional updates to be read back.               *)
Shape ==
  /\ DOMAIN cycles = Requests
  /\ cycles = [r \in Requests |-> cycles[r]]
  /\ req = [r \in Requests |-> req[r]]
  /\ \A r \in Requests :
       /\ cycles[r] = [status |-> cycles[r].status, startedAt |-> cycles[r].startedAt,
                       completedAt |-> cycles[r].completedAt]
       /\ req[r] = [pc |-> req[r].pc, reply |-> req[r].reply, of |-> req[r].of]

OneRunning ==
  \A r, q \in Requests :
    cycles[r].status = "RUNNING" /\ cycles[q].status = "RUNNING" => r = q

Core == Shape /\ Exclusive /\ OneRunning

StartInv == orderly => Core

LEMMA StartInvInit == Init => StartInv
BY DEF Init, StartInv, Core, Shape, Exclusive, OneRunning, InFlight, NoCycle

(* A step that leaves both tables alone and takes r from one point of the    *)
(* handler to another one.                                                   *)
LEMMA HandlerStepKeepsInv ==
  ASSUME Core, NEW r \in Requests, NEW new,
         cycles' = cycles,
         req' = [req EXCEPT ![r] = new],
         new = [pc |-> new.pc, reply |-> new.reply, of |-> new.of],
         \/ InFlight(r)
         \/ \A q \in Requests : ~InFlight(q),
         new.pc = "put" => \A q \in Requests : cycles[q].status # "RUNNING",
         new.pc \in {"start", "failed"} =>
           \A q \in Requests : cycles[q].status = "RUNNING" => q = r
  PROVE  Core'
<1>1. \A q \in Requests : req'[q] = IF q = r THEN new ELSE req[q]
  BY DEF Core, Shape
<1>2. Shape'
  BY <1>1 DEF Core, Shape
<1>3. Exclusive'
  BY <1>1 DEF Core, Exclusive, InFlight
<1> QED BY <1>2, <1>3 DEF Core, OneRunning

(* A step that writes the row of r and takes r to new.                       *)
LEMMA WriteKeepsInv ==
  ASSUME Core, NEW r \in Requests, NEW row, NEW pc,
         Write(r, row),
         row = [status |-> row.status, startedAt |-> row.startedAt,
                completedAt |-> row.completedAt],
         row.status = "RUNNING" =>
           \A q \in Requests : cycles[q].status = "RUNNING" => q = r,
         \A q \in Requests : q # r => req'[q] = req[q],
         req' = [q \in Requests |-> req'[q]],
         req'[r] = [pc |-> req'[r].pc, reply |-> req'[r].reply, of |-> req'[r].of],
         InFlight(r)' => InFlight(r),
         req'[r].pc # "put",
         \/ row.status # "RUNNING"
         \/ req[r].pc = "put" /\ req'[r].pc = "start",
         req'[r].pc \in {"start", "failed"} => req[r].pc \in {"put", "start", "failed"}
  PROVE  Core'
<1>1. \A q \in Requests : cycles'[q] = IF q = r THEN row ELSE cycles[q]
  BY DEF Write, Core, Shape
<1>3. Shape'
  BY <1>1 DEF Write, Core, Shape
<1>4. \A q, p \in Requests : (InFlight(q) /\ InFlight(p))' => q = p
  BY DEF Core, Exclusive, InFlight
<1>5. ASSUME NEW q \in Requests, req'[q].pc = "put"
      PROVE  \A p \in Requests : cycles'[p].status # "RUNNING"
  BY <1>1, <1>5 DEF Core, Exclusive, InFlight
<1>6. ASSUME NEW q \in Requests, req'[q].pc \in {"start", "failed"}
      PROVE  \A p \in Requests : cycles'[p].status = "RUNNING" => p = q
  BY <1>1, <1>6 DEF Core, Exclusive, InFlight
<1>7. OneRunning'
  BY <1>1 DEF Core, OneRunning
<1> QED BY <1>3, <1>4, <1>5, <1>6, <1>7 DEF Core, Exclusive

(* Steps of a history that stays orderly.                                    *)
LEMMA CoreStep ==
  ASSUME orderly', Core, [Next]_startVars
  PROVE  Core'
<1>1. ASSUME NEW r \in Requests, Arrive(r)
      PROVE  Core'
  <2> DEFINE new == [req[r] EXCEPT !.pc = "dictionary"]
  <2>1. new = [pc |-> new.pc, reply |-> new.reply, of |-> new.of] /\ new.pc = "dictionary"
    BY DEF Core, Shape
  <2>2. req' = [req EXCEPT ![r] = new] /\ cycles' = cycles
    BY <1>1 DEF Arrive, Proceed
  <2>3. \A q \in Requests : ~InFlight(q)
    BY <1>1 DEF Arrive
  <2> HIDE DEF new
  <2> QED BY <2>1, <2>2, <2>3, HandlerStepKeepsInv
<1>2. ASSUME NEW r \in Requests, NEW pc, InFlight(r), Proceed(r, pc),
             cycles' = cycles,
             pc = "put" => Running = {} /\ index = cycles,
             pc \in {"start", "failed"} => req[r].pc = "start"
      PROVE  Core'
  <2> DEFINE new == [req[r] EXCEPT !.pc = pc]
  <2>1. new = [pc |-> new.pc, reply |-> new.reply, of |-> new.of] /\ new.pc = pc
    BY DEF Core, Shape
  <2>2. req' = [req EXCEPT ![r] = new]
    BY <1>2 DEF Proceed
  <2>3. pc = "put" => \A q \in Requests : cycles[q].status # "RUNNING"
    BY <1>2 DEF Running
  <2>4. pc \in {"start", "failed"} =>
          \A q \in Requests : cycles[q].status = "RUNNING" => q = r
    BY <1>2 DEF Core, Exclusive
  <2> HIDE DEF new
  <2> QED BY <1>2, <2>1, <2>2, <2>3, <2>4, HandlerStepKeepsInv
<1>3. ASSUME NEW r \in Requests, NEW reply, NEW of, InFlight(r),
             Answer(r, reply, of), cycles' = cycles
      PROVE  Core'
  <2> DEFINE new == [pc |-> "done", reply |-> reply, of |-> of]
  <2>1. new = [pc |-> new.pc, reply |-> new.reply, of |-> new.of] /\ new.pc = "done"
    OBVIOUS
  <2>2. req' = [req EXCEPT ![r] = new]
    BY <1>3 DEF Answer
  <2> HIDE DEF new
  <2> QED BY <1>3, <2>1, <2>2, HandlerStepKeepsInv
<1>4. ASSUME NEW r \in Requests, IsActiveDictionaryEmpty(r)
      PROVE  Core'
  BY <1>2, <1>3, <1>4 DEF IsActiveDictionaryEmpty, InFlight
<1>5. ASSUME NEW r \in Requests, CanStartCycle(r)
      PROVE  Core'
  BY <1>2, <1>3, <1>5 DEF CanStartCycle, InFlight
<1>6. ASSUME NEW r \in Requests, PutCycle(r)
      PROVE  Core'
  <2> DEFINE row == [status |-> "RUNNING", completedAt |-> FALSE,
                     startedAt |-> Cardinality({q \in Requests : Known(q)}) + 1]
  <2>1. Write(r, row) /\ row.status = "RUNNING"
        /\ row = [status |-> row.status, startedAt |-> row.startedAt,
                  completedAt |-> row.completedAt]
    BY <1>6 DEF PutCycle
  <2>2. /\ req[r].pc = "put"
        /\ \A q \in Requests : cycles[q].status # "RUNNING"
    BY <1>6 DEF PutCycle, Core, Exclusive
  <2>3. /\ \A q \in Requests : q # r => req'[q] = req[q]
        /\ req' = [q \in Requests |-> req'[q]]
        /\ req'[r].pc = "start"
        /\ req'[r] = [pc |-> req'[r].pc, reply |-> req'[r].reply, of |-> req'[r].of]
    <3>1. req' = [req EXCEPT ![r].pc = "start"]
      BY <1>6 DEF PutCycle, Proceed
    <3> QED BY <3>1 DEF Core, Shape
  <2> HIDE DEF row
  <2> QED BY <2>1, <2>2, <2>3, WriteKeepsInv DEF InFlight
<1>7. ASSUME NEW r \in Requests, SetStartFailed(r)
      PROVE  Core'
  <2> DEFINE row == [cycles[r] EXCEPT !.status = "START_FAILED"]
  <2>1. Write(r, row) /\ row.status = "START_FAILED"
        /\ row = [status |-> row.status, startedAt |-> row.startedAt,
                  completedAt |-> row.completedAt]
    BY <1>7 DEF SetStartFailed, Core, Shape
  <2>2. /\ \A q \in Requests : q # r => req'[q] = req[q]
        /\ req' = [q \in Requests |-> req'[q]]
        /\ req'[r].pc = "done"
        /\ req'[r] = [pc |-> req'[r].pc, reply |-> req'[r].reply, of |-> req'[r].of]
    BY <1>7 DEF SetStartFailed, Answer, Core, Shape
  <2> HIDE DEF row
  <2> QED BY <2>1, <2>2, WriteKeepsInv DEF InFlight
<1>8. ASSUME NEW r \in Requests, CycleCloses(r)
      PROVE  Core'
  <2>1. PICK s \in {"COMPLETED", "TIMEOUT"} :
          Write(r, [status |-> s, startedAt |-> cycles[r].startedAt, completedAt |-> TRUE])
    BY <1>8 DEF CycleCloses
  <2> DEFINE row == [status |-> s, startedAt |-> cycles[r].startedAt, completedAt |-> TRUE]
  <2>2. /\ row.status # "RUNNING"
        /\ row = [status |-> row.status, startedAt |-> row.startedAt,
                  completedAt |-> row.completedAt]
    OBVIOUS
  <2>3. req' = req /\ cycles[r].status = "RUNNING"
    BY <1>8 DEF CycleCloses
  <2>4. req[r].pc # "put"
    BY <2>3 DEF Core, Exclusive
  <2>5. req'[r] = [pc |-> req'[r].pc, reply |-> req'[r].reply, of |-> req'[r].of]
        /\ req' = [q \in Requests |-> req'[q]]
    BY <2>3 DEF Core, Shape
  <2>6. Write(r, row)
    BY <2>1
  <2> HIDE DEF row
  <2> QED BY <2>2, <2>3, <2>4, <2>5, <2>6, WriteKeepsInv DEF InFlight
<1>9. ASSUME NEW r \in Requests,
             \/ StartExecution(r) \/ StartExecutionFails(r) \/ RequestBreaks(r)
      PROVE  Core'
  BY <1>2, <1>3, <1>9 DEF StartExecution, StartExecutionFails, RequestBreaks, InFlight
<1>11. ASSUME UNCHANGED <<cycles, req>>
       PROVE  Core'
  BY <1>11 DEF Core, Shape, Exclusive, OneRunning, InFlight
<1>10. ASSUME NEW r \in Requests, IndexCatchesUp(r) \/ WindowCloses(r)
       PROVE  Core'
  BY <1>10, <1>11 DEF IndexCatchesUp, WindowCloses
<1>12. ASSUME NEW c \in Callers, CallerStep(c)
       PROVE  Core'
  BY <1>11, <1>12 DEF CallerStep, CallComesIn, QueryStatus, HandleIdentify
<1>13. ASSUME UNCHANGED startVars
       PROVE  Core'
  BY <1>11, <1>13 DEF startVars
<1> QED BY <1>1, <1>4, <1>5, <1>6, <1>7, <1>8, <1>9, <1>10, <1>12, <1>13
        DEF Next, RequestStep

LEMMA StartInvStep == StartInv /\ [Next]_startVars => StartInv'
<1>1. [Next]_startVars => (orderly' => orderly)
  BY DEF Next, RequestStep, CallerStep, startVars, Arrive, IsActiveDictionaryEmpty,
         CanStartCycle, PutCycle, StartExecution, StartExecutionFails, SetStartFailed,
         RequestBreaks, CycleCloses, IndexCatchesUp, WindowCloses, CallComesIn,
         QueryStatus, HandleIdentify
<1> QED BY <1>1, CoreStep DEF StartInv

(* Requirement 4.8 holds as long as clients wait for their answer and meet   *)
(* an index that does not lag, however many requests there are and whatever  *)
(* fails between the guard, the row and the execution (_create_cycle).       *)
THEOREM OneRunningCycle == StartSpec => []AtMostOneRunning
<1>1. StartInv => AtMostOneRunning
  BY DEF StartInv, Core, OneRunning, AtMostOneRunning
<1> QED BY StartInvInit, StartInvStep, <1>1, PTL DEF StartSpec

-----------------------------------------------------------------------------
(* Identifying.                                                              *)

(* startedAt counts the cycles, which are not more than the requests.        *)
Numbered ==
  \A r \in Requests : /\ cycles[r].startedAt <= Cardinality(Requests) + 1
                      /\ index[r].startedAt <= Cardinality(Requests) + 1

TypeInv == StartTypeOK /\ Numbered

Closed == {"COMPLETED", "TIMEOUT", "START_FAILED"}

(* How far its request and its execution are tells what a row says; the      *)
(* index is behind only while the row it shows may still move.               *)
Rows ==
  \A r \in Requests :
    /\ req[r].pc \in {"idle", "dictionary", "guard", "put"} =>
         cycles[r].status = "ABSENT" /\ exec[r] = "none"
    /\ req[r].pc \in {"start", "failed"} => cycles[r].status = "RUNNING" /\ exec[r] = "none"
    /\ cycles[r].completedAt => cycles[r].status \in Closed
    /\ index[r] # cycles[r] =>
         \/ index[r].status = "ABSENT"
         \/ index[r].status = "RUNNING" /\ cycles[r].status \in Closed
    /\ r \in expired => cycles[r].completedAt /\ index[r] = cycles[r]

(* The statuses an identification that stands at pc has still to ask for.    *)
ToQuery(pc) ==
  CASE pc = "RUNNING" -> CycleStatus
    [] pc = "COMPLETED" -> Closed
    [] pc = "TIMEOUT" -> {"TIMEOUT", "START_FAILED"}
    [] pc = "START_FAILED" -> {"START_FAILED"}
    [] OTHER -> {}

Counts(r, status) == status \in CycleStatus /\ (status = "RUNNING" \/ r \notin expired)

(* The identification has met a cycle that counts, or will.                  *)
Met(c) == \E f \in caller[c].found : Counts(f[1], f[2].status)
Ahead(c) ==
  \E r \in Requests : index[r].status \in ToQuery(caller[c].pc) /\ Counts(r, index[r].status)

Search ==
  \A c \in Callers :
    /\ caller[c].pc = "idle" => ~ caller[c].open
    /\ caller[c].pc # "done" => caller[c].flow = "none"
    /\ caller[c].open /\ caller[c].pc # "done" => Met(c) \/ Ahead(c)
    /\ caller[c].open => caller[c].flow # "NO_CYCLE"

SearchInv == TypeInv /\ Rows /\ Search

-----------------------------------------------------------------------------

(* A finite set of cycles has a newest one, so that the query that asks for  *)
(* it answers with one of them.                                              *)
LEMMA NewestIsThere ==
  ASSUME TypeInv, NEW S \in SUBSET Requests, S # {}
  PROVE  Newest(S) \in S
<1> DEFINE bound == Cardinality(Requests) + 1
           left(q) == bound - index[q].startedAt
           T == {left(q) : q \in S}
<1>1. bound \in Nat
  BY RequestsAssumption, FS_CardinalityType
<1>2. \A q \in S : index[q].startedAt \in Nat /\ index[q].startedAt <= bound
  BY DEF TypeInv, StartTypeOK, Numbered, CycleRow
<1> HIDE DEF bound
<1>3. \A q \in S : left(q) \in Nat
  BY <1>1, <1>2
<1> HIDE DEF left
<1>4. T \subseteq Nat /\ T # {}
  BY <1>3
<1>5. PICK m \in T : \A n \in T : <<n, m>> \notin OpToRel(<, Nat)
  <2> HIDE DEF T
  <2> QED BY <1>4, WFMin, NatLessThanWellFounded, Zenon
<1>6. \A n \in T : n \in Nat /\ m \in Nat /\ ~ (n < m)
  <2> HIDE DEF T
  <2>1. \A n \in T : n \in Nat /\ m \in Nat
    BY <1>4
  <2> QED BY <1>5, <2>1, Zenon DEF OpToRel
<1>7. PICK q \in S : m = left(q)
  OBVIOUS
<1>8. \A p \in S : ~ (left(p) < left(q))
  BY <1>6, <1>7
<1>9. \A p \in S : index[p].startedAt <= index[q].startedAt
  BY <1>1, <1>2, <1>8 DEF left
<1> QED BY <1>9 DEF Newest

LEMMA SearchInvInit == Init => SearchInv
<1> SUFFICES ASSUME Init PROVE SearchInv
  OBVIOUS
<1>1. Cardinality(Requests) \in Nat
  BY RequestsAssumption, FS_CardinalityType
<1>2. TypeInv
  <2> USE DEF Init, NoCycle
  <2>1. NoCycle \in CycleRow
    BY DEF CycleRow
  <2>2. cycles \in [Requests -> CycleRow] /\ index \in [Requests -> CycleRow]
    BY <2>1
  <2>3. req \in [Requests -> [pc : ReqState, reply : Reply, of : Requests \cup {NoRequest}]]
    BY DEF ReqState, Reply
  <2>4. caller \in [Callers -> [pc : IdentifyState, flow : Flow, open : BOOLEAN,
                                found : SUBSET (Requests \X CycleRow)]]
    BY DEF IdentifyState, Flow
  <2>5. Numbered
    BY <1>1 DEF Numbered
  <2> QED BY <2>2, <2>3, <2>4, <2>5 DEF TypeInv, StartTypeOK
<1>3. Rows
  BY DEF Init, Rows, NoCycle
<1>4. Search
  BY DEF Init, Search
<1> QED BY <1>2, <1>3, <1>4 DEF SearchInv

-----------------------------------------------------------------------------
(* Types.                                                                    *)

LEMMA ProceedType ==
  ASSUME TypeInv, NEW r \in Requests, NEW pc \in ReqState, Proceed(r, pc)
  PROVE  /\ req' \in [Requests -> [pc : ReqState, reply : Reply, of : Requests \cup {NoRequest}]]
         /\ req'[r].pc = pc
         /\ \A q \in Requests : q # r => req'[q] = req[q]
BY DEF TypeInv, StartTypeOK, Proceed

LEMMA AnswerType ==
  ASSUME TypeInv, NEW r \in Requests, NEW reply \in Reply, NEW of \in Requests \cup {NoRequest},
         Answer(r, reply, of)
  PROVE  /\ req' \in [Requests -> [pc : ReqState, reply : Reply, of : Requests \cup {NoRequest}]]
         /\ req'[r].pc = "done"
         /\ \A q \in Requests : q # r => req'[q] = req[q]
BY DEF TypeInv, StartTypeOK, Answer, ReqState

LEMMA WriteType ==
  ASSUME TypeInv, NEW r \in Requests, NEW row \in CycleRow,
         row.startedAt <= Cardinality(Requests) + 1, Write(r, row)
  PROVE  /\ cycles' \in [Requests -> CycleRow]
         /\ index' = index
         /\ \A q \in Requests : cycles'[q] = IF q = r THEN row ELSE cycles[q]
         /\ Numbered'
<1>1. /\ cycles' \in [Requests -> CycleRow]
      /\ index' = index
      /\ \A q \in Requests : cycles'[q] = IF q = r THEN row ELSE cycles[q]
  BY DEF TypeInv, StartTypeOK, Write
<1> QED BY <1>1 DEF TypeInv, Numbered

(* What the step of a request does to rows and requests, in typed terms.     *)
LEMMA RequestStepType ==
  ASSUME TypeInv, NEW r \in Requests, RequestStep(r)
  PROVE  TypeInv'
<1> USE DEF TypeInv
<1>0. Cardinality(Requests) \in Nat
  BY RequestsAssumption, FS_CardinalityType
<1>1. ASSUME UNCHANGED <<cycles, index, exec, key, caller, expired>>, orderly' \in BOOLEAN,
             \/ \E pc \in ReqState : Proceed(r, pc)
             \/ \E reply \in Reply, of \in Requests \cup {NoRequest} : Answer(r, reply, of)
      PROVE  TypeInv'
  <2>1. req' \in [Requests -> [pc : ReqState, reply : Reply, of : Requests \cup {NoRequest}]]
    BY <1>1, ProceedType, AnswerType
  <2>2. Numbered'
    BY <1>1 DEF Numbered
  <2> QED BY <1>1, <2>1, <2>2 DEF StartTypeOK
<1>2. CASE Arrive(r)
  <2>1. req' \in [Requests -> [pc : ReqState, reply : Reply, of : Requests \cup {NoRequest}]]
    BY <1>2, ProceedType DEF Arrive, ReqState
  <2>2. key' \in [Requests -> Keys \cup {NoKey}] /\ orderly' \in BOOLEAN
    BY <1>2 DEF Arrive, StartTypeOK
  <2>3. Numbered'
    BY <1>2 DEF Arrive, Numbered
  <2> QED BY <1>2, <2>1, <2>2, <2>3 DEF Arrive, StartTypeOK
<1>3. CASE IsActiveDictionaryEmpty(r)
  BY <1>1, <1>3 DEF IsActiveDictionaryEmpty, ReqState, Reply, StartTypeOK
<1>4. CASE CanStartCycle(r)
  <2>1. Running # {} => Newest(Running) \in Requests
    BY NewestIsThere DEF Running
  <2>2. orderly' \in BOOLEAN
    BY <1>4 DEF CanStartCycle, StartTypeOK
  <2> QED BY <1>1, <1>4, <2>1, <2>2 DEF CanStartCycle, ReqState, Reply
<1>5. CASE PutCycle(r)
  <2> DEFINE row == [status |-> "RUNNING", completedAt |-> FALSE,
                     startedAt |-> Cardinality({q \in Requests : Known(q)}) + 1]
  <2>1. row \in CycleRow /\ row.startedAt <= Cardinality(Requests) + 1
    <3>1. /\ Cardinality({q \in Requests : Known(q)}) \in Nat
          /\ Cardinality({q \in Requests : Known(q)}) <= Cardinality(Requests)
      BY RequestsAssumption, FS_Subset, FS_CardinalityType
    <3> QED BY <1>0, <3>1 DEF CycleRow, CycleStatus
  <2>2. Write(r, row) /\ Proceed(r, "start")
    BY <1>5 DEF PutCycle
  <2> HIDE DEF row
  <2>3. cycles' \in [Requests -> CycleRow] /\ index' = index /\ Numbered'
    BY <2>1, <2>2, WriteType
  <2>4. req' \in [Requests -> [pc : ReqState, reply : Reply, of : Requests \cup {NoRequest}]]
    BY <2>2, ProceedType DEF ReqState
  <2> QED BY <1>5, <2>3, <2>4 DEF PutCycle, StartTypeOK
<1>6. CASE StartExecution(r)
  <2>1. req' \in [Requests -> [pc : ReqState, reply : Reply, of : Requests \cup {NoRequest}]]
    BY <1>6, AnswerType DEF StartExecution, Reply
  <2>2. exec' \in [Requests -> {"none", "running", "ended"}]
    BY <1>6 DEF StartExecution, StartTypeOK
  <2>3. Numbered'
    BY <1>6 DEF StartExecution, Numbered
  <2> QED BY <1>6, <2>1, <2>2, <2>3 DEF StartExecution, StartTypeOK
<1>7. CASE StartExecutionFails(r)
  BY <1>1, <1>7 DEF StartExecutionFails, ReqState, StartTypeOK
<1>8. CASE SetStartFailed(r)
  <2> DEFINE row == [cycles[r] EXCEPT !.status = "START_FAILED"]
  <2>1. row \in CycleRow /\ row.startedAt <= Cardinality(Requests) + 1
    BY DEF StartTypeOK, Numbered, CycleRow, CycleStatus
  <2>2. Write(r, row) /\ Answer(r, "500", r)
    BY <1>8 DEF SetStartFailed
  <2> HIDE DEF row
  <2>3. cycles' \in [Requests -> CycleRow] /\ index' = index /\ Numbered'
    BY <2>1, <2>2, WriteType
  <2>4. req' \in [Requests -> [pc : ReqState, reply : Reply, of : Requests \cup {NoRequest}]]
    BY <2>2, AnswerType DEF Reply
  <2> QED BY <1>8, <2>3, <2>4 DEF SetStartFailed, StartTypeOK
<1>9. CASE RequestBreaks(r)
  BY <1>1, <1>9 DEF RequestBreaks, Reply, StartTypeOK
<1> QED BY <1>2, <1>3, <1>4, <1>5, <1>6, <1>7, <1>8, <1>9 DEF RequestStep

LEMMA TableStepType ==
  ASSUME TypeInv, NEW r \in Requests, CycleCloses(r) \/ IndexCatchesUp(r) \/ WindowCloses(r)
  PROVE  TypeInv'
<1> USE DEF TypeInv
<1>1. CASE CycleCloses(r)
  <2>1. PICK s \in {"COMPLETED", "TIMEOUT"} :
          Write(r, [status |-> s, startedAt |-> cycles[r].startedAt, completedAt |-> TRUE])
    BY <1>1 DEF CycleCloses
  <2> DEFINE row == [status |-> s, startedAt |-> cycles[r].startedAt, completedAt |-> TRUE]
  <2>2. row \in CycleRow /\ row.startedAt <= Cardinality(Requests) + 1
    BY DEF StartTypeOK, Numbered, CycleRow, CycleStatus
  <2>3. Write(r, row)
    BY <2>1
  <2> HIDE DEF row
  <2>4. cycles' \in [Requests -> CycleRow] /\ index' = index /\ Numbered'
    BY <2>2, <2>3, WriteType
  <2>5. exec' \in [Requests -> {"none", "running", "ended"}]
    BY <1>1 DEF CycleCloses, StartTypeOK
  <2> QED BY <1>1, <2>4, <2>5 DEF CycleCloses, StartTypeOK
<1>2. CASE IndexCatchesUp(r)
  <2>1. index' \in [Requests -> CycleRow] /\ Numbered'
    BY <1>2 DEF IndexCatchesUp, StartTypeOK, Numbered
  <2> QED BY <1>2, <2>1 DEF IndexCatchesUp, StartTypeOK
<1>3. CASE WindowCloses(r)
  <2>1. expired' \subseteq Requests /\ Numbered'
    BY <1>3 DEF WindowCloses, StartTypeOK, Numbered
  <2> QED BY <1>3, <2>1 DEF WindowCloses, StartTypeOK
<1> QED BY <1>1, <1>2, <1>3

LEMMA CallerUpdated ==
  ASSUME NEW P, NEW F, NEW O, NEW W, NEW x \in [pc : P, flow : F, open : O, found : W],
         NEW pc \in P, NEW flow \in F, NEW open \in O, NEW found \in W
  PROVE  /\ [x EXCEPT !.pc = pc, !.open = open] \in [pc : P, flow : F, open : O, found : W]
         /\ [x EXCEPT !.pc = pc, !.found = found] \in [pc : P, flow : F, open : O, found : W]
         /\ [x EXCEPT !.pc = pc, !.flow = flow] \in [pc : P, flow : F, open : O, found : W]
OBVIOUS

LEMMA CallerStepType ==
  ASSUME TypeInv, NEW c \in Callers, CallerStep(c)
  PROVE  TypeInv'
<1> USE DEF TypeInv
<1> DEFINE C == [pc : IdentifyState, flow : Flow, open : BOOLEAN,
                 found : SUBSET (Requests \X CycleRow)]
<1>1. ASSUME UNCHANGED <<cycles, index, exec, req, key, expired, orderly>>,
             caller' \in [Callers -> C]
      PROVE  TypeInv'
  BY <1>1 DEF StartTypeOK, Numbered
<1>2. CASE CallComesIn(c)
  <2> DEFINE open == Running # {}
             new == [caller[c] EXCEPT !.pc = "RUNNING", !.open = open]
  <2>1. open \in BOOLEAN
    OBVIOUS
  <2>2. /\ caller' = [caller EXCEPT ![c].pc = "RUNNING", ![c].open = open]
        /\ UNCHANGED <<cycles, index, exec, req, key, expired, orderly>>
    BY <1>2 DEF CallComesIn
  <2> HIDE DEF open
  <2>3. new \in C
    <3>1. caller[c] \in C /\ "RUNNING" \in IdentifyState
      BY DEF StartTypeOK, IdentifyState, CycleStatus
    <3> QED BY <2>1, <3>1, CallerUpdated
  <2>4. caller' = [caller EXCEPT ![c] = new]
    BY <2>2 DEF StartTypeOK
  <2> HIDE DEF new
  <2>5. caller' \in [Callers -> C]
    BY <2>3, <2>4 DEF StartTypeOK
  <2> QED BY <1>1, <2>2, <2>5
<1>3. CASE QueryStatus(c)
  <2> DEFINE pc == caller[c].pc
             new == {<<r, index[r]>> : r \in {q \in Requests : index[q].status = pc}}
  <2>1. new \subseteq Requests \X CycleRow
    BY DEF StartTypeOK
  <2>2. NextStatus(pc) \in IdentifyState
    BY <1>3 DEF QueryStatus, NextStatus, IdentifyState, CycleStatus
  <2>3. /\ caller' = [caller EXCEPT ![c].pc = NextStatus(pc), ![c].found = @ \cup new]
        /\ UNCHANGED <<cycles, index, exec, req, key, expired, orderly>>
    BY <1>3 DEF QueryStatus
  <2> HIDE DEF pc, new
  <2> DEFINE row == [caller[c] EXCEPT !.pc = NextStatus(pc), !.found = @ \cup new]
  <2>4. row \in C
    <3>1. caller[c] \in C
      BY DEF StartTypeOK
    <3>2. caller[c].found \cup new \in SUBSET (Requests \X CycleRow)
      BY <2>1, <3>1
    <3> QED BY <2>2, <3>1, <3>2, CallerUpdated
  <2>5. caller' = [caller EXCEPT ![c] = row]
    BY <2>3 DEF StartTypeOK
  <2> HIDE DEF row
  <2>6. caller' \in [Callers -> C]
    BY <2>4, <2>5 DEF StartTypeOK
  <2> QED BY <1>1, <2>3, <2>6
<1>4. CASE HandleIdentify(c)
  <2>1. DecideInboundFlow(caller[c].found) \in Flow
    BY DEF DecideInboundFlow, Flow
  <2> QED BY <1>1, <1>4, <2>1 DEF HandleIdentify, StartTypeOK, IdentifyState
<1> QED BY <1>2, <1>3, <1>4 DEF CallerStep

LEMMA NextType == TypeInv /\ Next => TypeInv'
BY RequestStepType, TableStepType, CallerStepType DEF Next

-----------------------------------------------------------------------------
(* Rows.                                                                     *)

(* A step that writes no row, but may move the request r on.                 *)
LEMMA RowsKept ==
  ASSUME TypeInv, Rows, NEW r \in Requests, UNCHANGED <<cycles, index, expired>>,
         \A q \in Requests : q # r => req'[q].pc = req[q].pc /\ exec'[q] = exec[q],
         req'[r].pc \in {"idle", "dictionary", "guard", "put"} =>
           req[r].pc \in {"idle", "dictionary", "guard", "put"} /\ exec'[r] = exec[r],
         req'[r].pc \in {"start", "failed"} =>
           req[r].pc \in {"start", "failed"} /\ exec'[r] = exec[r]
  PROVE  Rows'
BY DEF Rows

LEMMA RequestStepRows ==
  ASSUME TypeInv, Rows, NEW r \in Requests, RequestStep(r)
  PROVE  Rows'
<1>1. ASSUME NEW pc \in ReqState, Proceed(r, pc), InFlight(r) \/ req[r].pc = "idle",
             UNCHANGED <<cycles, index, exec, expired>>,
             pc \in {"idle", "dictionary", "guard", "put"} =>
               req[r].pc \in {"idle", "dictionary", "guard", "put"},
             pc \in {"start", "failed"} => req[r].pc \in {"start", "failed"}
      PROVE  Rows'
  BY <1>1, ProceedType, RowsKept
<1>2. ASSUME NEW reply \in Reply, NEW of \in Requests \cup {NoRequest}, Answer(r, reply, of),
             UNCHANGED <<cycles, index, expired>>,
             \A q \in Requests : q # r => exec'[q] = exec[q]
      PROVE  Rows'
  BY <1>2, AnswerType, RowsKept
<1>3. CASE Arrive(r)
  BY <1>1, <1>3 DEF Arrive, ReqState
<1>4. CASE IsActiveDictionaryEmpty(r)
  BY <1>1, <1>2, <1>4 DEF IsActiveDictionaryEmpty, ReqState, Reply, InFlight
<1>5. CASE CanStartCycle(r)
  <2>1. Running # {} => Newest(Running) \in Requests
    BY NewestIsThere DEF Running
  <2> QED BY <1>1, <1>2, <1>5, <2>1 DEF CanStartCycle, ReqState, Reply, InFlight
<1>6. CASE StartExecution(r)
  BY <1>2, <1>6 DEF StartExecution, Reply, TypeInv, StartTypeOK
<1>7. CASE StartExecutionFails(r)
  BY <1>1, <1>7 DEF StartExecutionFails, ReqState, InFlight
<1>8. CASE RequestBreaks(r)
  BY <1>2, <1>8 DEF RequestBreaks, Reply
<1>9. CASE PutCycle(r)
  <2> DEFINE row == [status |-> "RUNNING", completedAt |-> FALSE,
                     startedAt |-> Cardinality({q \in Requests : Known(q)}) + 1]
  <2>1. Write(r, row) /\ Proceed(r, "start") /\ UNCHANGED <<exec, expired>> /\ req[r].pc = "put"
    BY <1>9 DEF PutCycle
  <2>2. row.status = "RUNNING" /\ row.completedAt = FALSE
    OBVIOUS
  <2> HIDE DEF row
  <2>3. /\ index' = index
        /\ \A q \in Requests : cycles'[q] = IF q = r THEN row ELSE cycles[q]
    BY <2>1 DEF Write, TypeInv, StartTypeOK
  <2>4. req'[r].pc = "start" /\ \A q \in Requests : q # r => req'[q] = req[q]
    BY <2>1, ProceedType DEF ReqState
  <2>5. /\ cycles[r].status = "ABSENT" /\ exec[r] = "none"
        /\ index[r].status = "ABSENT" /\ r \notin expired
    BY <2>1 DEF Rows, Closed
  <2> QED BY <2>1, <2>2, <2>3, <2>4, <2>5 DEF Rows
<1>10. CASE SetStartFailed(r)
  <2> DEFINE row == [cycles[r] EXCEPT !.status = "START_FAILED"]
  <2>1. Write(r, row) /\ Answer(r, "500", r) /\ UNCHANGED <<exec, expired>>
        /\ req[r].pc = "failed"
    BY <1>10 DEF SetStartFailed
  <2>2. row.status \in Closed /\ row.completedAt = cycles[r].completedAt
    BY DEF Closed, TypeInv, StartTypeOK, CycleRow
  <2> HIDE DEF row
  <2>3. /\ index' = index
        /\ \A q \in Requests : cycles'[q] = IF q = r THEN row ELSE cycles[q]
    BY <2>1 DEF Write, TypeInv, StartTypeOK
  <2>4. req'[r].pc = "done" /\ \A q \in Requests : q # r => req'[q] = req[q]
    BY <2>1, AnswerType DEF Reply
  <2>5. /\ cycles[r].status = "RUNNING"
        /\ index[r].status \in {"ABSENT", "RUNNING"} /\ r \notin expired
    BY <2>1 DEF Rows, Closed
  <2> QED BY <2>1, <2>2, <2>3, <2>4, <2>5 DEF Rows
<1> QED BY <1>3, <1>4, <1>5, <1>6, <1>7, <1>8, <1>9, <1>10 DEF RequestStep

LEMMA TableStepRows ==
  ASSUME TypeInv, Rows, NEW r \in Requests,
         CycleCloses(r) \/ IndexCatchesUp(r) \/ WindowCloses(r)
  PROVE  Rows'
<1>1. CASE CycleCloses(r)
  <2>1. PICK s \in {"COMPLETED", "TIMEOUT"} :
          Write(r, [status |-> s, startedAt |-> cycles[r].startedAt, completedAt |-> TRUE])
    BY <1>1 DEF CycleCloses
  <2> DEFINE row == [status |-> s, startedAt |-> cycles[r].startedAt, completedAt |-> TRUE]
  <2>2. row.status \in Closed /\ row.completedAt
    BY DEF Closed
  <2>3. Write(r, row)
    BY <2>1
  <2> HIDE DEF row
  <2>4. /\ index' = index
        /\ \A q \in Requests : cycles'[q] = IF q = r THEN row ELSE cycles[q]
    BY <2>3 DEF Write, TypeInv, StartTypeOK
  <2>5. /\ req' = req /\ expired' = expired /\ exec[r] = "running"
        /\ \A q \in Requests : q # r => exec'[q] = exec[q]
    BY <1>1 DEF CycleCloses, TypeInv, StartTypeOK
  <2>6. /\ cycles[r].status = "RUNNING"
        /\ req[r].pc \notin {"idle", "dictionary", "guard", "put", "start", "failed"}
        /\ index[r].status \in {"ABSENT", "RUNNING"} /\ r \notin expired
    BY <1>1, <2>5 DEF CycleCloses, Rows, Closed
  <2> QED BY <2>2, <2>4, <2>5, <2>6 DEF Rows
<1>2. CASE IndexCatchesUp(r)
  <2>1. /\ \A q \in Requests : index'[q] = IF q = r THEN cycles[r] ELSE index[q]
        /\ UNCHANGED <<cycles, exec, req, expired>>
    BY <1>2 DEF IndexCatchesUp, TypeInv, StartTypeOK
  <2> QED BY <2>1 DEF Rows
<1>3. CASE WindowCloses(r)
  BY <1>3 DEF WindowCloses, Rows
<1> QED BY <1>1, <1>2, <1>3

LEMMA RowsStep == TypeInv /\ Rows /\ Next => Rows'
<1>1. ASSUME Rows, NEW c \in Callers, CallerStep(c) PROVE Rows'
  BY <1>1 DEF CallerStep, CallComesIn, QueryStatus, HandleIdentify, Rows
<1> QED BY <1>1, RequestStepRows, TableStepRows DEF Next

-----------------------------------------------------------------------------
(* The identification.                                                       *)

LEMMA TableStepSearch ==
  ASSUME TypeInv, Rows, Search, NEW r \in Requests,
         RequestStep(r) \/ CycleCloses(r) \/ IndexCatchesUp(r) \/ WindowCloses(r)
  PROVE  Search'
<1>1. CASE UNCHANGED <<index, caller, expired>>
  BY <1>1 DEF Search, Met, Ahead, Counts
<1>2. CASE IndexCatchesUp(r)
  <2>1. /\ \A q \in Requests : index'[q] = IF q = r THEN cycles[r] ELSE index[q]
        /\ UNCHANGED <<caller, expired>>
    BY <1>2 DEF IndexCatchesUp, TypeInv, StartTypeOK
  <2>2. \A c \in Callers : Met(c) => Met(c)'
    BY <2>1 DEF Met, Counts
  <2>3. ASSUME NEW c \in Callers, Ahead(c) PROVE Ahead(c)'
    <3>1. PICK q \in Requests :
            index[q].status \in ToQuery(caller[c].pc) /\ Counts(q, index[q].status)
      BY <2>3 DEF Ahead
    <3>2. CASE q # r
      BY <2>1, <3>1, <3>2 DEF Ahead, Counts
    <3>3. CASE q = r
      <4>1. index[r].status = "RUNNING" /\ cycles[r].status \in Closed /\ r \notin expired
        BY <1>2, <3>1, <3>3 DEF IndexCatchesUp, Rows, Counts, CycleStatus
      <4>2. ToQuery(caller[c].pc) = CycleStatus
        BY <3>1, <3>3, <4>1 DEF ToQuery, Closed, CycleStatus
      <4>3. index'[r].status \in ToQuery(caller'[c].pc) /\ Counts(r, index[r].status)'
        BY <2>1, <4>1, <4>2 DEF Counts, Closed, CycleStatus
      <4> QED BY <4>3 DEF Ahead, Counts
    <3> QED BY <3>2, <3>3
  <2> QED BY <2>1, <2>2, <2>3 DEF Search
<1>3. CASE WindowCloses(r)
  <2>1. /\ UNCHANGED <<index, caller>>
        /\ \A c \in Callers : caller[c].pc \in {"idle", "done"}
    BY <1>3 DEF WindowCloses
  <2> QED BY <2>1 DEF Search
<1> QED BY <1>1, <1>2, <1>3
        DEF RequestStep, Arrive, IsActiveDictionaryEmpty, CanStartCycle, PutCycle,
            StartExecution, StartExecutionFails, SetStartFailed, RequestBreaks, CycleCloses, Write

LEMMA CallerStepSearch ==
  ASSUME TypeInv, Search, NEW c \in Callers, CallerStep(c)
  PROVE  Search'
<1>0. UNCHANGED <<index, expired>> /\ \A b \in Callers : b # c => caller'[b] = caller[b]
  BY DEF CallerStep, CallComesIn, QueryStatus, HandleIdentify, TypeInv, StartTypeOK
<1>1. ASSUME NEW b \in Callers, b # c
      PROVE  /\ caller'[b] = caller[b]
             /\ Met(b) => Met(b)'
             /\ Ahead(b) => Ahead(b)'
  BY <1>0, <1>1 DEF Met, Ahead, Counts
<1>2. ASSUME caller'[c].pc # "idle",
             caller'[c].pc # "done" => caller'[c].flow = "none",
             caller'[c].open /\ caller'[c].pc # "done" => Met(c)' \/ Ahead(c)',
             caller'[c].open => caller'[c].flow # "NO_CYCLE"
      PROVE  Search'
  BY <1>1, <1>2 DEF Search
<1>3. CASE CallComesIn(c)
  <2>1. /\ caller'[c].pc = "RUNNING" /\ caller'[c].flow = caller[c].flow
        /\ caller'[c].open = (Running # {})
    BY <1>3 DEF CallComesIn, TypeInv, StartTypeOK
  <2>2. caller[c].flow = "none"
    BY <1>3 DEF CallComesIn, Search
  <2>3. ASSUME Running # {} PROVE Ahead(c)'
    <3>1. PICK r \in Requests : index[r].status = "RUNNING"
      BY <2>3 DEF Running
    <3> QED BY <1>0, <2>1, <3>1 DEF Ahead, Counts, ToQuery, CycleStatus
  <2> QED BY <1>2, <2>1, <2>2, <2>3
<1>4. CASE QueryStatus(c)
  <2> DEFINE pc == caller[c].pc
             new == {<<r, index[r]>> : r \in {q \in Requests : index[q].status = pc}}
  <2>1. /\ pc \in CycleStatus
        /\ caller' = [caller EXCEPT ![c].pc = NextStatus(pc), ![c].found = @ \cup new]
    BY <1>4 DEF QueryStatus
  <2>2. /\ caller'[c].pc = NextStatus(pc)
        /\ caller'[c].flow = caller[c].flow /\ caller'[c].open = caller[c].open
        /\ caller'[c].found = caller[c].found \cup new
    BY <2>1 DEF TypeInv, StartTypeOK
  <2>3. NextStatus(pc) \in Closed \cup {"decide"} /\ pc # "done" /\ pc # "idle"
    BY <2>1 DEF NextStatus, CycleStatus, Closed
  <2>4. Met(c) => Met(c)'
    BY <1>0, <2>2 DEF Met, Counts
  <2>5. ASSUME Ahead(c) PROVE Met(c)' \/ Ahead(c)'
    <3>1. PICK r \in Requests : index[r].status \in ToQuery(pc) /\ Counts(r, index[r].status)
      BY <2>5 DEF Ahead
    <3>2. CASE index[r].status = pc
      <4>1. <<r, index[r]>> \in caller'[c].found
        BY <2>2, <3>2
      <4> QED BY <1>0, <3>1, <4>1 DEF Met, Counts
    <3>3. CASE index[r].status # pc
      <4>1. index[r].status \in ToQuery(NextStatus(pc))
        BY <2>1, <3>1, <3>3 DEF ToQuery, NextStatus, CycleStatus, Closed
      <4> QED BY <1>0, <2>2, <3>1, <4>1 DEF Ahead, Counts
    <3> QED BY <3>2, <3>3
  <2> HIDE DEF new
  <2> QED BY <1>2, <2>2, <2>3, <2>4, <2>5 DEF Search, Closed
<1>5. CASE HandleIdentify(c)
  <2>1. /\ caller[c].pc = "decide" /\ caller'[c].pc = "done"
        /\ caller'[c].open = caller[c].open
        /\ caller'[c].flow = DecideInboundFlow(caller[c].found)
    BY <1>5 DEF HandleIdentify, TypeInv, StartTypeOK
  <2>2. ~ Ahead(c)
    BY <2>1 DEF Ahead, ToQuery
  <2>3. ASSUME Met(c) PROVE DecideInboundFlow(caller[c].found) # "NO_CYCLE"
    BY <2>3 DEF Met, Counts, DecideInboundFlow, CycleStatus
  <2> QED BY <1>2, <2>1, <2>2, <2>3 DEF Search
<1> QED BY <1>3, <1>4, <1>5 DEF CallerStep

-----------------------------------------------------------------------------

LEMMA SearchInvStep == SearchInv /\ [Next]_startVars => SearchInv'
<1>1. ASSUME SearchInv, Next PROVE SearchInv'
  BY <1>1, NextType, RowsStep, TableStepSearch, CallerStepSearch DEF SearchInv, Next
<1>2. ASSUME SearchInv, UNCHANGED startVars PROVE SearchInv'
  BY <1>2 DEF SearchInv, TypeInv, StartTypeOK, Numbered, Rows, Search, Met, Ahead, Counts,
              startVars
<1> QED BY <1>1, <1>2

(* Every variable has its type, however many requests and calls there are;   *)
(* the cycle a repeated request is answered with exists (_create_cycle).     *)
THEOREM StartTypeCorrect == StartSpec => []StartTypeOK
<1>1. SearchInv => StartTypeOK
  BY DEF SearchInv, TypeInv
<1> QED BY <1>1, SearchInvInit, SearchInvStep, PTL DEF StartSpec

(* A caller is never turned away while a cycle is open, whatever closes or   *)
(* falls behind during the four queries (_query_recent_cycles).              *)
THEOREM OpenCyclesAreFound == StartSpec => []OpenCycleIsFound
<1>1. SearchInv => OpenCycleIsFound
  BY DEF SearchInv, Search, OpenCycleIsFound
<1> QED BY <1>1, SearchInvInit, SearchInvStep, PTL DEF StartSpec

-----------------------------------------------------------------------------
(* Validating.                                                               *)

(* A row that closes while it has been running has its completedAt.          *)
Timed(row) == row.status \in {"COMPLETED", "TIMEOUT"} => row.completedAt

FailedStart == \E r \in Requests : cycles[r].status = "START_FAILED"

(* What identify may meet: the rows, their copies, and the copies it has     *)
(* taken of these.                                                           *)
ValidInv ==
  /\ \A r \in Requests : Timed(cycles[r]) /\ Timed(index[r])
  /\ \A c \in Callers : \A f \in caller[c].found :
       /\ Timed(f[2]) /\ f[2].status \in CycleStatus
       /\ f[2].status = "START_FAILED" => FailedStart
  /\ OnlyFailedStartsRaise

(* A failed start is for good, and the index shows what was once the row.    *)
LEMMA RowMoves ==
  ASSUME TypeInv, Rows, ValidInv, Next, NEW r \in Requests
  PROVE  /\ Timed(cycles'[r])
         /\ cycles[r].status = "START_FAILED" => cycles'[r].status = "START_FAILED"
         /\ index'[r] \in {index[r], cycles[r]}
<1> USE DEF TypeInv, StartTypeOK
<1>0. Timed(cycles[r]) BY DEF ValidInv
<1>1. CASE UNCHANGED <<cycles, index>>
  BY <1>0, <1>1
<1>2. ASSUME NEW q \in Requests, PutCycle(q) \/ SetStartFailed(q) \/ CycleCloses(q)
      PROVE  /\ Timed(cycles'[r])
             /\ cycles[r].status = "START_FAILED" => cycles'[r].status = "START_FAILED"
             /\ index' = index
  <2>1. cycles[q].status # "START_FAILED"
    BY <1>2 DEF PutCycle, SetStartFailed, CycleCloses, Rows
  <2>2. index' = index /\ (r # q => cycles'[r] = cycles[r])
    BY <1>2 DEF PutCycle, SetStartFailed, CycleCloses, Write
  <2>3. Timed(cycles'[q])
    BY <1>2 DEF PutCycle, SetStartFailed, CycleCloses, Write, Timed, CycleRow
  <2> QED BY <1>0, <2>1, <2>2, <2>3
<1>3. ASSUME NEW q \in Requests, IndexCatchesUp(q)
      PROVE  cycles' = cycles /\ index'[r] \in {index[r], cycles[r]}
  BY <1>3 DEF IndexCatchesUp
<1>4. ASSUME NEW q \in Requests,
             \/ Arrive(q) \/ IsActiveDictionaryEmpty(q) \/ CanStartCycle(q)
             \/ StartExecution(q) \/ StartExecutionFails(q) \/ RequestBreaks(q)
             \/ WindowCloses(q)
      PROVE  UNCHANGED <<cycles, index>>
  BY <1>4 DEF Arrive, IsActiveDictionaryEmpty, CanStartCycle, StartExecution,
              StartExecutionFails, RequestBreaks, WindowCloses
<1>5. ASSUME NEW c \in Callers, CallerStep(c) PROVE UNCHANGED <<cycles, index>>
  BY <1>5 DEF CallerStep, CallComesIn, QueryStatus, HandleIdentify
<1> QED BY <1>0, <1>1, <1>2, <1>3, <1>4, <1>5 DEF Next, RequestStep

(* The index shows START_FAILED only of a row that is, and shows no row of   *)
(* a status that has not been queried for.                                   *)
LEMMA CallerValid ==
  ASSUME TypeInv, Rows, ValidInv, NEW c \in Callers, CallerStep(c)
  PROVE  /\ \A f \in caller'[c].found :
              /\ Timed(f[2]) /\ f[2].status \in CycleStatus
              /\ f[2].status = "START_FAILED" => FailedStart
         /\ caller'[c].flow = "ValueError" => FailedStart
         /\ \A d \in Callers : d # c => caller'[d] = caller[d]
<1> USE DEF TypeInv, StartTypeOK
<1>1. /\ \A f \in caller[c].found :
           /\ Timed(f[2]) /\ f[2].status \in CycleStatus
           /\ f[2].status = "START_FAILED" => FailedStart
      /\ caller[c].flow = "ValueError" => FailedStart
  BY DEF ValidInv, OnlyFailedStartsRaise, FailedStart
<1>2. CASE CallComesIn(c)
  BY <1>1, <1>2 DEF CallComesIn
<1>3. CASE QueryStatus(c)
  <2> DEFINE pc == caller[c].pc
             new == {<<r, index[r]>> : r \in {q \in Requests : index[q].status = pc}}
  <2>1. /\ pc \in CycleStatus
        /\ caller' = [caller EXCEPT ![c].pc = NextStatus(pc), ![c].found = @ \cup new]
    BY <1>3 DEF QueryStatus
  <2>2. /\ caller'[c].flow = caller[c].flow
        /\ caller'[c].found = caller[c].found \cup new
        /\ \A d \in Callers : d # c => caller'[d] = caller[d]
    BY <2>1
  <2>3. \A r \in Requests : index[r].status = "START_FAILED" => FailedStart
    BY DEF Rows, FailedStart
  <2>4. \A f \in new : /\ Timed(f[2]) /\ f[2].status \in CycleStatus
                       /\ f[2].status = "START_FAILED" => FailedStart
    BY <2>1, <2>3 DEF ValidInv
  <2> HIDE DEF new
  <2> QED BY <1>1, <2>2, <2>4
<1>4. CASE HandleIdentify(c)
  <2>1. /\ caller'[c].flow = DecideInboundFlow(caller[c].found)
        /\ caller'[c].found = caller[c].found
        /\ \A d \in Callers : d # c => caller'[d] = caller[d]
    BY <1>4 DEF HandleIdentify
  <2>2. ASSUME DecideInboundFlow(caller[c].found) = "ValueError" PROVE FailedStart
    <3>1. PICK f \in caller[c].found : f[2].status # "RUNNING" /\ ~ f[2].completedAt
      BY <2>2 DEF DecideInboundFlow
    <3> QED BY <1>1, <3>1 DEF Timed, CycleStatus
  <2> QED BY <1>1, <2>1, <2>2
<1> QED BY <1>2, <1>3, <1>4 DEF CallerStep

LEMMA ValidInvStep ==
  ASSUME SearchInv, ValidInv, [Next]_startVars PROVE ValidInv'
<1>1. CASE UNCHANGED startVars
  BY <1>1 DEF ValidInv, OnlyFailedStartsRaise, FailedStart, startVars
<1>2. CASE Next
  <2>1. TypeInv /\ Rows BY DEF SearchInv
  <2>2. \A r \in Requests : Timed(cycles[r]) /\ Timed(index[r]) BY DEF ValidInv
  <2>3. \A r \in Requests : Timed(cycles'[r]) /\ Timed(index'[r])
    BY <1>2, <2>1, <2>2, RowMoves
  <2>4. FailedStart => FailedStart'
    BY <1>2, <2>1, RowMoves DEF FailedStart
  <2>5. ASSUME NEW d \in Callers
        PROVE  /\ \A f \in caller'[d].found :
                    /\ Timed(f[2]) /\ f[2].status \in CycleStatus
                    /\ f[2].status = "START_FAILED" => FailedStart
               /\ caller'[d].flow = "ValueError" => FailedStart
    <3>1. CASE \E c \in Callers : CallerStep(c)
      BY <2>1, <3>1, CallerValid DEF ValidInv, OnlyFailedStartsRaise, FailedStart
    <3>2. CASE caller' = caller
      BY <3>2 DEF ValidInv, OnlyFailedStartsRaise, FailedStart
    <3>3. (\E c \in Callers : CallerStep(c)) \/ caller' = caller
      BY <1>2 DEF Next, RequestStep, Arrive, IsActiveDictionaryEmpty, CanStartCycle, PutCycle,
                  StartExecution, StartExecutionFails, SetStartFailed, RequestBreaks,
                  CycleCloses, IndexCatchesUp, WindowCloses
    <3> QED BY <3>1, <3>2, <3>3
  <2>6. \A c \in Callers : \A f \in caller'[c].found :
          /\ Timed(f[2]) /\ f[2].status \in CycleStatus
          /\ f[2].status = "START_FAILED" => FailedStart'
    BY <2>4, <2>5
  <2>7. \A c \in Callers : caller'[c].flow = "ValueError" => FailedStart'
    BY <2>4, <2>5
  <2> QED BY <2>3, <2>6, <2>7 DEF ValidInv, OnlyFailedStartsRaise, FailedStart, Timed
<1> QED BY <1>1, <1>2

(* identify raises only where a start has failed: neither a cycle that       *)
(* closes between the four queries nor an index that lags makes it meet a    *)
(* closed row without completedAt (_validate_cycle, _query_recent_cycles).   *)
THEOREM OnlyFailedStartsAreRaised == StartSpec => []OnlyFailedStartsRaise
<1>1. Init => ValidInv
  BY DEF Init, ValidInv, OnlyFailedStartsRaise, Timed, NoCycle
<1>2. ValidInv => OnlyFailedStartsRaise
  BY DEF ValidInv
<1>3. SearchInv /\ ValidInv /\ [Next]_startVars => ValidInv'
  BY ValidInvStep
<1> QED BY <1>1, <1>2, <1>3, SearchInvInit, SearchInvStep, PTL DEF StartSpec

=============================================================================
