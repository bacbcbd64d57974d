--------------------------- MODULE Anonymization ----------------------------
(***************************************************************************)
(* POST /employees/{id}/anonymize of lambdas/employee_api/handler.py, at   *)
(* work on the Response rows that inbound calls and late transcripts still *)
(* write.                                                                  *)
(*                                                                         *)
(* The rows are read, cycle by cycle, and then moved to their anonymous    *)
(* key in transactions of a few rows: what is put is the copy, whatever    *)
(* has become of the row since.  A run that breaks off is started again.   *)
(***************************************************************************)
EXTENDS InboundContact

CONSTANT RowsPerBatch   \* ANONYMIZE_ROWS_PER_BATCH

ASSUME RowsPerBatchAssumption == RowsPerBatch \in Nat \ {0}

VARIABLES
  anonymous,  \* per cycle: the row under the anonymized identifier
  phase,      \* where the run stands
  unread,     \* the cycles whose row it has still to read
  copy,       \* per cycle: the row it has read and not moved yet
  touched,    \* history: the rows others wrote since the run began
  torn        \* history: the rows a transaction replaced by something older

runVars == <<anonymous, phase, unread, copy>>
anonVars == <<inboundVars, runVars, touched, torn>>

ToMove == {k \in Cycles : copy[k] # NoRow}

Init ==
  /\ InboundInit
  /\ anonymous = [k \in Cycles |-> NoRow]
  /\ phase = "idle"
  /\ unread = {}
  /\ copy = [k \in Cycles |-> NoRow]
  /\ touched = {} /\ torn = {}

-----------------------------------------------------------------------------

(* Mutant: only the first page of the scan is looked at.                     *)
AnonymizeFirstPage ==
  /\ phase = "idle" /\ retired
  /\ phase' = "read"
  /\ \E k \in Cycles : unread' = {k}
  /\ touched' = {}
  /\ UNCHANGED <<inboundVars, anonymous, copy, torn>>

(* The employee must be deleted; the scan lists the cycles there are.        *)
AnonymizeEmployee ==
  /\ phase = "idle" /\ retired
  /\ phase' = "read"
  /\ unread' = Cycles
  /\ touched' = {}
  /\ UNCHANGED <<inboundVars, anonymous, copy, torn>>

QueryResponsesForEmployee ==
  /\ phase = "read"
  /\ \E k \in unread :
       /\ copy' = [copy EXCEPT ![k] = response[k]]
       /\ unread' = unread \ {k}
       /\ phase' = IF unread = {k} THEN "write" ELSE "read"
  /\ UNCHANGED <<inboundVars, anonymous, touched, torn>>

NextBatch(batch) ==
  /\ batch # {} /\ batch \subseteq ToMove
  /\ Cardinality(batch) = RowsPerBatch \/ (batch = ToMove /\ Cardinality(batch) < RowsPerBatch)

Move(batch) ==
  /\ anonymous' = [k \in Cycles |-> IF k \in batch THEN copy[k] ELSE anonymous[k]]
  /\ copy' = [k \in Cycles |-> IF k \in batch THEN NoRow ELSE copy[k]]
  /\ torn' = torn \cup {k \in batch : response[k] # copy[k] \/ anonymous[k] # NoRow}

(* Mutant: the old rows are deleted all at once, before the new are put.     *)
TransactWriteAfterDelete ==
  /\ phase = "write"
  /\ \E batch \in SUBSET Cycles :
       /\ NextBatch(batch)
       /\ response' = [k \in Cycles |-> IF k \in ToMove THEN NoRow ELSE response[k]]
       /\ Move(batch)
  /\ UNCHANGED <<callVars, retired, phase, unread, touched>>

(* Delete under the old key and put under the new one, all or nothing.       *)
TransactWrite ==
  /\ phase = "write"
  /\ \E batch \in SUBSET Cycles :
       /\ NextBatch(batch)
       /\ response' = [k \in Cycles |-> IF k \in batch THEN NoRow ELSE response[k]]
       /\ Move(batch)
  /\ UNCHANGED <<callVars, retired, phase, unread, touched>>

(* The run answers when nothing is left to move, or it breaks off before.    *)
AnonymizeEnds ==
  /\ phase # "idle"
  /\ phase' = "idle"
  /\ unread' = {}
  /\ copy' = [k \in Cycles |-> NoRow]
  /\ touched' = {}
  /\ UNCHANGED <<inboundVars, anonymous, torn>>

AnonymizeStep ==
  \/ AnonymizeEmployee \/ QueryResponsesForEmployee \/ TransactWrite \/ AnonymizeEnds

(* The others' steps; their writes matter while a run is under way.          *)
Touch ==
  touched' = IF phase = "idle" THEN touched
             ELSE touched \cup {k \in Cycles : response'[k] # response[k]}

CallTouches ==
  /\ \E c \in Contacts : CallStep(c)
  /\ Touch
  /\ UNCHANGED <<runVars, torn>>

AnswerTouches ==
  /\ \E k \in Cycles : RecordResponse(k)
  /\ Touch
  /\ UNCHANGED <<runVars, torn>>

Next ==
  \/ CallTouches \/ AnswerTouches
  \/ DeleteEmployee /\ UNCHANGED <<runVars, touched, torn>>
  \/ AnonymizeStep

AnonymizationSpec == Init /\ [][Next]_anonVars

-----------------------------------------------------------------------------

(* Every variable has its type; a call that is being recorded has a cycle.   *)
InboundTypeOK ==
  /\ pc \in [Contacts -> CallState]
  /\ failures \in [Contacts -> 0..MaxFailures]
  /\ decided \in [Contacts -> Decision \cup {NoRow}]
  /\ \A c \in Contacts : pc[c] \in {"talking", "append", "update"} => decided[c] \in Cycles
  /\ contact \in [Contacts -> Decision \cup {NoRow}]
  /\ recorded \in [Contacts -> Cycles \cup {NoRow}]
  /\ response \in [Cycles -> Row \cup {NoRow}]
  /\ retired \in BOOLEAN
  /\ anonymous \in [Cycles -> Row \cup {NoRow}]
  /\ phase \in {"idle", "read", "write"}
  /\ unread \subseteq Cycles
  /\ copy \in [Cycles -> Row \cup {NoRow}]
  /\ touched \subseteq Cycles /\ torn \subseteq Cycles

Inbound(row) == IF row = NoRow THEN 0 ELSE row.inbound
Answered(row) == row # NoRow /\ row.answered

(* An Inbound_Contact row that says RECORDED has its INBOUND in the Response *)
(* row of the call's cycle, or in the anonymous copy, however often the      *)
(* steps failed and ran again (finalize appends before it updates), unless a *)
(* transaction put a copy that was out of date.                              *)
RecordedCallsAreCounted ==
  \A k \in Cycles \ torn :
    Cardinality({c \in Contacts : recorded[c] = k})
      <= Inbound(response[k]) + Inbound(anonymous[k])

(* A call is only ever RECORDED in a row whose first decision was            *)
(* ACTIVE_CYCLE, though a later identify may have decided otherwise          *)
(* (_finalize_inbound_contact).                                              *)
RecordedAsActive ==
  \A c \in Contacts : recorded[c] # NoRow => contact[c] \in Cycles

(* No answer is lost: not to calls that ring in, not to a run that breaks    *)
(* off between two batches and starts again, unless a transaction put a copy *)
(* that was out of date (_build_anonymize_transact_items).                   *)
AnswersSurvive ==
  [][\A k \in Cycles \ torn' :
       Answered(response[k]) \/ Answered(anonymous[k])
         => Answered(response'[k]) \/ Answered(anonymous'[k])]_anonVars

(* When a run has nothing left to move, the employee has no row but those    *)
(* written since it began, whatever earlier runs had left half done          *)
(* (_anonymize_employee).                                                    *)
AnonymizationComplete ==
  phase = "write" /\ ToMove = {}
    => \A k \in Cycles : response[k] # NoRow => k \in touched

=============================================================================
