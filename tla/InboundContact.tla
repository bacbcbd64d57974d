--------------------------- MODULE InboundContact ---------------------------
(***************************************************************************)
(* Calls that employees make to the system: the contact flow inbound.json, *)
(* both steps of lambdas/inbound_handler/handler.py, and the rows they     *)
(* write.                                                                  *)
(*                                                                         *)
(* All calls come from one employee: the rows of others have other keys.   *)
(* Which decision identify takes is the matter of CycleStart; here it may  *)
(* take any.  A step that fails is invoked again, or the flow leaves by    *)
(* its error branch.  The flow never invokes finalize for a call it has    *)
(* not recorded.                                                           *)
(***************************************************************************)
EXTENDS Naturals, FiniteSets

CONSTANTS
  Contacts,        \* calls, by their ContactId
  Cycles,
  NoRow,
  MaxFailures      \* bound: how often the steps of a call are invoked again

ASSUME MaxFailuresAssumption == MaxFailures \in Nat
ASSUME NoRowAssumption ==
  /\ NoRow \notin [inbound : Nat, answered : BOOLEAN]
  /\ Cycles \cap {NoRow, "refused"} = {}
ASSUME FiniteContacts == IsFiniteSet(Contacts)

VARIABLES
  pc,        \* per call: where it stands
  failures,  \* per call: the invocations that failed and were repeated
  decided,   \* per call: the attributes flow and cycleId; a cycle is ACTIVE_CYCLE
  contact,   \* per call: flow and cycleId in its Inbound_Contact row
  recorded,  \* per call: the cycle it is recorded for, once its row says RECORDED
  response,  \* per cycle: the employee's Response row
  retired    \* Employee.deleted

callVars == <<pc, failures, decided, contact, recorded>>
inboundVars == <<callVars, response, retired>>

CallState == {"ringing", "put", "talking", "append", "update", "over"}

(* NOT_REGISTERED, NO_CYCLE and CYCLE_TERMINATED differ in what is announced *)
(* to the caller only.                                                       *)
Decision == {"refused"} \cup Cycles

(* callResultCodes matter by the number of INBOUND in them, voiceStatus by   *)
(* whether KeywordMatcher has written it.                                    *)
Row == [inbound : Nat, answered : BOOLEAN]
NewRow == [inbound |-> 0, answered |-> FALSE]

(* update_item works on the row, or on an empty one it creates.              *)
Upsert(row) == IF row = NoRow THEN NewRow ELSE row
WithInbound(row) == [Upsert(row) EXCEPT !.inbound = @ + 1]
WithAnswer(row) == [Upsert(row) EXCEPT !.answered = TRUE]

InboundInit ==
  /\ pc = [c \in Contacts |-> "ringing"]
  /\ failures = [c \in Contacts |-> 0]
  /\ decided = [c \in Contacts |-> NoRow]
  /\ contact = [c \in Contacts |-> NoRow]
  /\ recorded = [c \in Contacts |-> NoRow]
  /\ response \in [Cycles -> {NoRow, NewRow}]
  /\ retired = FALSE

Proceed(c, state) == pc' = [pc EXCEPT ![c] = state]

(* The call ends, and its attributes with it.                                *)
Hang(c) ==
  /\ Proceed(c, "over")
  /\ decided' = [decided EXCEPT ![c] = NoRow]
  /\ failures' = [failures EXCEPT ![c] = 0]

(* The step is invoked again, from its beginning, or the call is over.       *)
Fail(c, beginning) ==
  \/ /\ failures[c] < MaxFailures
     /\ failures' = [failures EXCEPT ![c] = @ + 1]
     /\ Proceed(c, beginning)
     /\ UNCHANGED decided
  \/ Hang(c)

-----------------------------------------------------------------------------
(* identify                                                                  *)

(* The look-up finds no retired employee: that leaves one decision.          *)
LookupEmployeeByPhone == IF retired THEN {"refused"} ELSE Decision

HandleIdentify(c) ==
  /\ pc[c] = "ringing"
  /\ \E d \in LookupEmployeeByPhone : decided' = [decided EXCEPT ![c] = d]
  /\ Proceed(c, "put")
  /\ UNCHANGED <<failures, contact, recorded, response, retired>>

(* Mutant: the flow records every call.                                      *)
PutProvisionalAndRecord(c) ==
  /\ pc[c] = "put"
  /\ contact' = IF contact[c] = NoRow THEN [contact EXCEPT ![c] = decided[c]] ELSE contact
  /\ Proceed(c, "talking")
  /\ UNCHANGED <<failures, decided, recorded, response, retired>>

(* The first decision stays; a later invocation answers with its own.  The   *)
(* flow records the call if that is ACTIVE_CYCLE - or the answer is lost.    *)
PutProvisionalInboundContact(c) ==
  /\ pc[c] = "put"
  /\ contact' = IF contact[c] = NoRow THEN [contact EXCEPT ![c] = decided[c]] ELSE contact
  /\ \/ IF decided[c] \in Cycles
        THEN Proceed(c, "talking") /\ UNCHANGED <<failures, decided>>
        ELSE Hang(c)
     \/ Fail(c, "ringing")
  /\ UNCHANGED <<recorded, response, retired>>

IdentifyFails(c) ==
  /\ pc[c] = "put"
  /\ Fail(c, "ringing")
  /\ UNCHANGED <<contact, recorded, response, retired>>

HangUp(c) ==
  /\ pc[c] = "talking"
  /\ Hang(c)
  /\ UNCHANGED <<contact, recorded, response, retired>>

-----------------------------------------------------------------------------
(* finalize                                                                  *)

(* Mutant: the row is put whether or not there is one.                       *)
PutResponseBlindly(c) ==
  /\ pc[c] = "talking"
  /\ response' = [response EXCEPT ![decided[c]] = NewRow]
  /\ Proceed(c, "append")
  /\ UNCHANGED <<failures, decided, contact, recorded, retired>>

(* attribute_not_exists: a row that is there stays as it is.                 *)
PutResponse(c) ==
  /\ pc[c] = "talking"
  /\ response' = [response EXCEPT ![decided[c]] = Upsert(@)]
  /\ Proceed(c, "append")
  /\ UNCHANGED <<failures, decided, contact, recorded, retired>>

(* list_append works again each time finalize is invoked.                    *)
AppendInboundToResponse(c) ==
  /\ pc[c] = "append"
  /\ response' = [response EXCEPT ![decided[c]] = WithInbound(@)]
  /\ Proceed(c, "update")
  /\ UNCHANGED <<failures, decided, contact, recorded, retired>>

(* Mutant: the update does not ask for the flow.                             *)
FinalizeInboundContactOfAnyFlow(c) ==
  /\ pc[c] = "update"
  /\ recorded' = [recorded EXCEPT ![c] = decided[c]]
  /\ Hang(c)
  /\ UNCHANGED <<contact, response, retired>>

(* RECORDED and the keys, if the row has the flow of the call (the condition *)
(* names the flow, not the cycle).                                           *)
FinalizeInboundContact(c) ==
  /\ pc[c] = "update"
  /\ IF contact[c] \in Cycles
     THEN recorded' = [recorded EXCEPT ![c] = decided[c]] /\ Hang(c)
     ELSE Fail(c, "talking") /\ UNCHANGED recorded
  /\ UNCHANGED <<contact, response, retired>>

FinalizeFails(c) ==
  /\ pc[c] \in {"append", "update"}
  /\ Fail(c, "talking")
  /\ UNCHANGED <<contact, recorded, response, retired>>

CallStep(c) ==
  \/ HandleIdentify(c) \/ PutProvisionalInboundContact(c) \/ IdentifyFails(c)
  \/ HangUp(c) \/ PutResponse(c)
  \/ AppendInboundToResponse(c) \/ FinalizeInboundContact(c) \/ FinalizeFails(c)

-----------------------------------------------------------------------------
(* Around the calls.                                                         *)

(* KeywordMatcher writes an answer, at whatever time its transcript comes.   *)
RecordResponse(k) ==
  /\ response' = [response EXCEPT ![k] = WithAnswer(@)]
  /\ UNCHANGED <<callVars, retired>>

DeleteEmployee ==
  /\ ~retired
  /\ retired' = TRUE
  /\ UNCHANGED <<callVars, response>>

=============================================================================
