------------------------ MODULE AnonymizationProofs -------------------------
(***************************************************************************)
(* Inbound calls and the anonymisation, for any number of calls, cycles    *)
(* and repeated invocations: no call and no answer is lost, and a run that *)
(* comes to its end has left nothing behind.                               *)
(***************************************************************************)
EXTENDS Anonymization, FiniteSetTheorems, TLAPS

(* The calls that have added, or will not add again, their INBOUND to the    *)
(* Response row of a cycle.                                                  *)
Counted(k) == {c \in Contacts : recorded[c] = k \/ (pc[c] = "update" /\ decided[c] = k)}

CountInv ==
  \A k \in Cycles \ torn : Cardinality(Counted(k)) <= Inbound(response[k]) + Inbound(anonymous[k])

(* A run holds a copy of every row it has read, but for those that others    *)
(* have written since.                                                       *)
RunInv ==
  /\ phase = "write" => unread = {}
  /\ phase # "idle" =>
       \A k \in Cycles \ unread : response[k] # NoRow => k \in touched \/ copy[k] # NoRow

InboundInv == InboundTypeOK /\ RecordedAsActive /\ CountInv /\ RunInv

-----------------------------------------------------------------------------
(* Rows.                                                                     *)

LEMMA Upserted ==
  ASSUME NEW row \in Row \cup {NoRow}
  PROVE  /\ Upsert(row) \in Row /\ Upsert(row) # NoRow
         /\ Upsert(row).inbound = Inbound(row) /\ Inbound(Upsert(row)) = Inbound(row)
         /\ Answered(row) => Upsert(row).answered
<1>1. NewRow \in Row /\ NoRow \notin Row
  BY NoRowAssumption DEF NewRow, Row
<1>2. CASE row = NoRow
  BY <1>1, <1>2 DEF Upsert, NewRow, Inbound, Answered
<1>3. CASE row # NoRow
  BY <1>1, <1>3 DEF Upsert, Inbound, Answered
<1> QED BY <1>2, <1>3

LEMMA Counts ==
  ASSUME NEW row \in Row \cup {NoRow}
  PROVE  Inbound(row) \in Nat
BY DEF Inbound, Row

(* What the updates make of a row.                                           *)
LEMMA Appended ==
  ASSUME NEW row \in Row \cup {NoRow}
  PROVE  /\ WithInbound(row) \in Row /\ WithInbound(row) # NoRow
         /\ Inbound(WithInbound(row)) = Inbound(row) + 1
         /\ Answered(row) => Answered(WithInbound(row))
<1>1. /\ Upsert(row) \in Row /\ Upsert(row).inbound = Inbound(row)
      /\ Answered(row) => Upsert(row).answered
  BY Upserted
<1>2. /\ WithInbound(row) \in Row /\ WithInbound(row).inbound = Inbound(row) + 1
      /\ WithInbound(row).answered = Upsert(row).answered
  BY <1>1 DEF WithInbound, Row
<1>3. WithInbound(row) # NoRow BY <1>2, NoRowAssumption DEF Row
<1> QED BY <1>1, <1>2, <1>3 DEF Inbound, Answered

LEMMA GetsAnswer ==
  ASSUME NEW row \in Row \cup {NoRow}
  PROVE  /\ WithAnswer(row) \in Row /\ WithAnswer(row) # NoRow
         /\ Inbound(WithAnswer(row)) = Inbound(row) /\ Answered(WithAnswer(row))
<1>1. Upsert(row) \in Row /\ Upsert(row).inbound = Inbound(row) BY Upserted
<1>2. /\ WithAnswer(row) \in Row /\ WithAnswer(row).inbound = Inbound(row)
      /\ WithAnswer(row).answered = TRUE
  BY <1>1 DEF WithAnswer, Row
<1>3. WithAnswer(row) # NoRow BY <1>2, NoRowAssumption DEF Row
<1> QED BY <1>2, <1>3 DEF Inbound, Answered

(* Every step of another than the run leaves a row in place, with its        *)
(* answer and no fewer calls.                                                *)
Grows(k) ==
  /\ response'[k] \in Row \cup {NoRow}
  /\ Inbound(response'[k]) >= Inbound(response[k])
  /\ Answered(response[k]) => Answered(response'[k])

-----------------------------------------------------------------------------
(* The calls.                                                                *)

(* InboundTypeOK, as far as the calls write it.                              *)
CallTypeOK ==
  /\ pc \in [Contacts -> CallState]
  /\ failures \in [Contacts -> 0..MaxFailures]
  /\ decided \in [Contacts -> Decision \cup {NoRow}]
  /\ \A c \in Contacts : pc[c] \in {"talking", "append", "update"} => decided[c] \in Cycles
  /\ contact \in [Contacts -> Decision \cup {NoRow}]
  /\ recorded \in [Contacts -> Cycles \cup {NoRow}]
  /\ response \in [Cycles -> Row \cup {NoRow}]

(* Where a step of c leaves the others.                                      *)
Elsewhere(c) ==
  \A d \in Contacts : d # c =>
    /\ pc'[d] = pc[d] /\ decided'[d] = decided[d]
    /\ contact'[d] = contact[d] /\ recorded'[d] = recorded[d]

LEMMA HangFacts ==
  ASSUME CallTypeOK, NEW c \in Contacts, Hang(c)
  PROVE  /\ pc' \in [Contacts -> CallState] /\ failures' \in [Contacts -> 0..MaxFailures]
         /\ decided' \in [Contacts -> Decision \cup {NoRow}]
         /\ pc'[c] = "over"
         /\ \A d \in Contacts : d # c => pc'[d] = pc[d] /\ decided'[d] = decided[d]
BY MaxFailuresAssumption DEF CallTypeOK, Hang, Proceed, CallState

LEMMA FailFacts ==
  ASSUME CallTypeOK, NEW c \in Contacts, NEW s \in {"ringing", "talking"}, Fail(c, s),
         s = "talking" => decided[c] \in Cycles
  PROVE  /\ pc' \in [Contacts -> CallState] /\ failures' \in [Contacts -> 0..MaxFailures]
         /\ decided' \in [Contacts -> Decision \cup {NoRow}]
         /\ pc'[c] = "over" \/ (pc'[c] = s /\ decided' = decided)
         /\ \A d \in Contacts : d # c => pc'[d] = pc[d] /\ decided'[d] = decided[d]
<1>1. CASE Hang(c) BY <1>1, HangFacts
<1>2. CASE ~Hang(c)
  BY <1>2, MaxFailuresAssumption DEF Fail, CallTypeOK, Proceed, CallState
<1> QED BY <1>1, <1>2

LEMMA CallKeepsTypes ==
  ASSUME CallTypeOK, NEW c \in Contacts, CallStep(c)
  PROVE  CallTypeOK' /\ Elsewhere(c)
<1> USE DEF CallTypeOK, Elsewhere
<1>1. CASE HandleIdentify(c)
  BY <1>1 DEF HandleIdentify, LookupEmployeeByPhone, Proceed, CallState, Decision
<1>2. CASE PutProvisionalInboundContact(c)
  <2>1. contact' \in [Contacts -> Decision \cup {NoRow}]
        /\ \A d \in Contacts : d # c => contact'[d] = contact[d]
    BY <1>2 DEF PutProvisionalInboundContact
  <2>2. UNCHANGED <<recorded, response>> BY <1>2 DEF PutProvisionalInboundContact
  <2>3. CASE Hang(c) \/ Fail(c, "ringing")
    BY <2>1, <2>2, <2>3, HangFacts, FailFacts
  <2>4. CASE Proceed(c, "talking") /\ decided[c] \in Cycles /\ UNCHANGED <<failures, decided>>
    BY <2>1, <2>2, <2>4 DEF Proceed, CallState
  <2> QED BY <1>2, <2>3, <2>4 DEF PutProvisionalInboundContact
<1>3. CASE IdentifyFails(c)
  BY <1>3, FailFacts DEF IdentifyFails
<1>4. CASE HangUp(c)
  BY <1>4, HangFacts DEF HangUp
<1>5. CASE PutResponse(c)
  <2>1. decided[c] \in Cycles BY <1>5 DEF PutResponse
  <2>2. response' \in [Cycles -> Row \cup {NoRow}]
    BY <1>5, <2>1, Upserted DEF PutResponse
  <2> QED BY <1>5, <2>1, <2>2 DEF PutResponse, Proceed, CallState
<1>6. CASE AppendInboundToResponse(c)
  <2>1. decided[c] \in Cycles BY <1>6 DEF AppendInboundToResponse
  <2>2. response' \in [Cycles -> Row \cup {NoRow}]
    BY <1>6, <2>1, Appended DEF AppendInboundToResponse
  <2> QED BY <1>6, <2>1, <2>2 DEF AppendInboundToResponse, Proceed, CallState
<1>7. CASE FinalizeInboundContact(c)
  <2>1. decided[c] \in Cycles BY <1>7 DEF FinalizeInboundContact
  <2>2. CASE contact[c] \in Cycles
    BY <1>7, <2>1, <2>2, HangFacts DEF FinalizeInboundContact
  <2>3. CASE contact[c] \notin Cycles
    BY <1>7, <2>1, <2>3, FailFacts DEF FinalizeInboundContact
  <2> QED BY <2>2, <2>3
<1>8. CASE FinalizeFails(c)
  BY <1>8, FailFacts DEF FinalizeFails
<1> QED BY <1>1, <1>2, <1>3, <1>4, <1>5, <1>6, <1>7, <1>8 DEF CallStep

(* What one step of a call does to the counts: it adds c to those of a cycle *)
(* in the step that also adds an INBOUND to its row.                         *)
LEMMA CallCounts ==
  ASSUME CallTypeOK, NEW c \in Contacts, CallStep(c), NEW k \in Cycles
  PROVE  /\ Grows(k)
         /\ \/ Counted(k)' \subseteq Counted(k)
            \/ /\ Counted(k)' \subseteq Counted(k) \cup {c}
               /\ Inbound(response'[k]) = Inbound(response[k]) + 1
<1> USE DEF CallTypeOK
<1>0. CallTypeOK' /\ Elsewhere(c) BY CallKeepsTypes
<1>1. \A d \in Contacts : d # c => (d \in Counted(k)' <=> d \in Counted(k))
  BY <1>0 DEF Elsewhere, Counted
<1>2. ASSUME response'[k] = response[k] PROVE Grows(k)
  BY <1>2, Counts DEF Grows
<1>3. CASE AppendInboundToResponse(c)
  <2>1. CASE k = decided[c]
    <3>1. response'[k] = WithInbound(response[k])
      BY <1>3, <2>1 DEF AppendInboundToResponse
    <3>2. Grows(k) /\ Inbound(response'[k]) = Inbound(response[k]) + 1
      BY <3>1, Appended, Counts DEF Grows
    <3>3. Counted(k)' \subseteq Counted(k) \cup {c} BY <1>1 DEF Counted
    <3> QED BY <3>2, <3>3
  <2>2. CASE k # decided[c]
    <3>1. response'[k] = response[k]
      BY <1>3, <2>2 DEF AppendInboundToResponse
    <3>2. c \in Counted(k)' => c \in Counted(k)
      BY <1>3, <2>2 DEF AppendInboundToResponse, Counted
    <3> QED BY <1>1, <1>2, <3>1, <3>2 DEF Counted
  <2> QED BY <2>1, <2>2
<1>4. CASE PutResponse(c)
  <2>1. response'[k] \in {response[k], Upsert(response[k])}
    BY <1>4 DEF PutResponse
  <2>2. response'[k] = Upsert(response[k]) => Grows(k)
    BY Upserted, Counts DEF Grows, Answered
  <2>3. c \in Counted(k)' => c \in Counted(k)
    BY <1>4 DEF PutResponse, Proceed, Counted
  <2> QED BY <1>1, <1>2, <2>1, <2>2, <2>3 DEF Counted
<1>5. CASE FinalizeInboundContact(c)
  <2>1. response' = response BY <1>5 DEF FinalizeInboundContact
  <2>2. CASE contact[c] \in Cycles
    <3>1. pc[c] = "update" /\ recorded' = [recorded EXCEPT ![c] = decided[c]] /\ pc'[c] = "over"
      BY <1>5, <2>2, HangFacts DEF FinalizeInboundContact
    <3>2. c \in Counted(k)' => c \in Counted(k)
      BY <3>1 DEF Counted
    <3> QED BY <1>1, <1>2, <2>1, <3>2 DEF Counted
  <2>3. CASE contact[c] \notin Cycles
    <3>1. recorded' = recorded /\ pc'[c] # "update"
      BY <1>5, <2>3, FailFacts DEF FinalizeInboundContact
    <3>2. c \in Counted(k)' => c \in Counted(k)
      BY <3>1 DEF Counted
    <3> QED BY <1>1, <1>2, <2>1, <3>2 DEF Counted
  <2> QED BY <2>2, <2>3
<1>6. CASE \/ HandleIdentify(c) \/ PutProvisionalInboundContact(c) \/ IdentifyFails(c)
           \/ HangUp(c) \/ FinalizeFails(c)
  <2>1. response' = response /\ recorded' = recorded
    BY <1>6 DEF HandleIdentify, PutProvisionalInboundContact, IdentifyFails, HangUp, FinalizeFails
  <2>2. pc'[c] # "update"
    <3>1. Hang(c) => pc'[c] = "over" BY HangFacts
    <3>2. Fail(c, "ringing") => pc'[c] # "update" BY FailFacts
    <3>3. FinalizeFails(c) => pc'[c] # "update" BY FailFacts DEF FinalizeFails
    <3> QED BY <1>6, <3>1, <3>2, <3>3
      DEF HandleIdentify, PutProvisionalInboundContact, IdentifyFails, HangUp, Proceed
  <2>3. c \in Counted(k)' => c \in Counted(k) BY <2>1, <2>2 DEF Counted
  <2> QED BY <1>1, <1>2, <2>1, <2>3 DEF Counted
<1> QED BY <1>3, <1>4, <1>5, <1>6 DEF CallStep

(* Contacts is finite, so that counts go up by one at most.                  *)
LEMMA CountGrows ==
  ASSUME NEW S \in SUBSET Contacts, NEW T, NEW c
  PROVE  /\ Cardinality(S) \in Nat
         /\ T \subseteq S => Cardinality(T) \in Nat /\ Cardinality(T) <= Cardinality(S)
         /\ T \subseteq S \cup {c} => Cardinality(T) \in Nat /\ Cardinality(T) <= Cardinality(S) + 1
<1>1. IsFiniteSet(S) BY FiniteContacts, FS_Subset
<1>2. Cardinality(S) \in Nat BY <1>1, FS_CardinalityType
<1>3. T \subseteq S => Cardinality(T) \in Nat /\ Cardinality(T) <= Cardinality(S)
  BY <1>1, FS_Subset, FS_CardinalityType
<1>4. IsFiniteSet(S \cup {c}) /\ Cardinality(S \cup {c}) <= Cardinality(S) + 1
  <2>1. IsFiniteSet(S \cup {c})
    BY <1>1, FS_AddElement
  <2>2. Cardinality(S \cup {c}) = IF c \in S THEN Cardinality(S) ELSE Cardinality(S) + 1
    BY <1>1, FS_AddElement
  <2> QED BY <1>2, <2>1, <2>2
<1>5. ASSUME T \subseteq S \cup {c}
      PROVE  Cardinality(T) \in Nat /\ Cardinality(T) <= Cardinality(S) + 1
  <2>1. IsFiniteSet(T) /\ Cardinality(T) <= Cardinality(S \cup {c})
    BY <1>4, <1>5, FS_Subset
  <2>2. Cardinality(T) \in Nat /\ Cardinality(S \cup {c}) \in Nat
    BY <1>4, <2>1, FS_CardinalityType
  <2> QED BY <1>2, <1>4, <2>1, <2>2
<1> QED BY <1>2, <1>3, <1>5

(* The first decision in a row stays, and only a call that has one of        *)
(* ACTIVE_CYCLE comes to be recorded.                                        *)
LEMMA CallRecords ==
  ASSUME CallTypeOK, RecordedAsActive, NEW c \in Contacts, CallStep(c)
  PROVE  RecordedAsActive'
<1>0. Elsewhere(c) BY CallKeepsTypes
<1>1. SUFFICES ASSUME recorded'[c] # NoRow PROVE contact'[c] \in Cycles
  BY <1>0 DEF Elsewhere, RecordedAsActive
<1>2. CASE FinalizeInboundContact(c)
  BY <1>1, <1>2 DEF FinalizeInboundContact, RecordedAsActive
<1>3. CASE PutProvisionalInboundContact(c)
  <2>1. recorded[c] # NoRow
    BY <1>1, <1>3 DEF PutProvisionalInboundContact
  <2>2. contact[c] \in Cycles /\ contact[c] # NoRow
    BY <2>1, NoRowAssumption DEF RecordedAsActive
  <2> QED BY <1>3, <2>2 DEF PutProvisionalInboundContact
<1>4. CASE ~FinalizeInboundContact(c) /\ ~PutProvisionalInboundContact(c)
  <2>1. recorded' = recorded /\ contact' = contact
    BY <1>4 DEF CallStep, HandleIdentify, IdentifyFails, HangUp, PutResponse,
                AppendInboundToResponse, FinalizeFails
  <2> QED BY <1>1, <2>1 DEF RecordedAsActive
<1> QED BY <1>2, <1>3, <1>4

-----------------------------------------------------------------------------
(* The run.                                                                  *)

(* InboundTypeOK, as far as the run and the administrator write it.          *)
RunTypeOK ==
  /\ retired \in BOOLEAN
  /\ anonymous \in [Cycles -> Row \cup {NoRow}]
  /\ phase \in {"idle", "read", "write"}
  /\ unread \subseteq Cycles
  /\ copy \in [Cycles -> Row \cup {NoRow}]
  /\ touched \subseteq Cycles /\ torn \subseteq Cycles

LEMMA TypeParts == InboundTypeOK <=> CallTypeOK /\ RunTypeOK
BY DEF InboundTypeOK, CallTypeOK, RunTypeOK

(* What others do while a run is under way.                                  *)
LEMMA OthersKeep ==
  ASSUME CallTypeOK, RunTypeOK, CountInv, RunInv,
         CallTypeOK', RunTypeOK', Touch, UNCHANGED <<runVars, torn>>,
         NEW c,
         \A k \in Cycles :
           /\ Grows(k)
           /\ \/ Counted(k)' \subseteq Counted(k)
              \/ /\ Counted(k)' \subseteq Counted(k) \cup {c}
                 /\ Inbound(response'[k]) = Inbound(response[k]) + 1
  PROVE  CountInv' /\ RunInv'
<1>1. ASSUME NEW k \in Cycles \ torn'
      PROVE  Cardinality(Counted(k)') <= Inbound(response'[k]) + Inbound(anonymous'[k])
  <2> DEFINE S == Counted(k)
             T == Counted(k)'
             n == Inbound(response[k])
             m == Inbound(response'[k])
             a == Inbound(anonymous[k])
  <2>1. S \in SUBSET Contacts BY DEF Counted
  <2>2. n \in Nat /\ m \in Nat /\ a \in Nat /\ m >= n
    BY Counts DEF CallTypeOK, RunTypeOK, Grows
  <2>3. Cardinality(S) <= n + a BY DEF CountInv
  <2>4. T \subseteq S \/ (T \subseteq S \cup {c} /\ m = n + 1) OBVIOUS
  <2> HIDE DEF S, T, n, m, a
  <2>5. Cardinality(T) <= m + a
    <3>1. Cardinality(S) \in Nat BY <2>1, CountGrows
    <3>2. CASE T \subseteq S
      <4>1. Cardinality(T) \in Nat /\ Cardinality(T) <= Cardinality(S)
        BY <2>1, <3>2, CountGrows
      <4> QED BY <2>2, <2>3, <3>1, <4>1
    <3>3. CASE T \subseteq S \cup {c} /\ m = n + 1
      <4>1. Cardinality(T) \in Nat /\ Cardinality(T) <= Cardinality(S) + 1
        BY <2>1, <3>3, CountGrows
      <4> QED BY <2>2, <2>3, <3>1, <3>3, <4>1
    <3> QED BY <2>4, <3>2, <3>3
  <2> QED BY <2>5 DEF T, m, a, runVars
<1>2. RunInv'
  <2>1. \A k \in Cycles : phase # "idle" /\ k \notin touched' => response'[k] = response[k] /\ k \notin touched
    BY DEF Touch
  <2> QED BY <2>1 DEF RunInv, runVars
<1> QED BY <1>1, <1>2 DEF CountInv

LEMMA AnswerKeeps ==
  ASSUME CallTypeOK, RunTypeOK, RecordedAsActive, CountInv, RunInv, AnswerTouches
  PROVE  CallTypeOK' /\ RunTypeOK' /\ RecordedAsActive' /\ CountInv' /\ RunInv'
<1>1. PICK j \in Cycles : RecordResponse(j) BY DEF AnswerTouches
<1>2. UNCHANGED <<callVars, retired, runVars, torn>> /\ Touch
  BY <1>1 DEF AnswerTouches, RecordResponse
<1>3. \A k \in Cycles : response'[k] = IF k = j THEN WithAnswer(response[k]) ELSE response[k]
  BY <1>1 DEF RecordResponse, CallTypeOK
<1>4. \A k \in Cycles : Grows(k)
  BY <1>3, GetsAnswer, Counts DEF Grows, CallTypeOK
<1>5. CallTypeOK'
  <2>1. response' \in [Cycles -> Row \cup {NoRow}]
    BY <1>1, GetsAnswer DEF RecordResponse, CallTypeOK
  <2> QED BY <1>2, <2>1 DEF CallTypeOK, callVars
<1>6. RunTypeOK' BY <1>2 DEF RunTypeOK, runVars, Touch
<1>7. \A k : Counted(k)' = Counted(k) BY <1>2 DEF Counted, callVars
<1>8. CountInv' /\ RunInv' BY <1>2, <1>4, <1>5, <1>6, <1>7, OthersKeep
<1> QED BY <1>2, <1>5, <1>6, <1>8 DEF RecordedAsActive, callVars

LEMMA CallKeeps ==
  ASSUME CallTypeOK, RunTypeOK, RecordedAsActive, CountInv, RunInv, CallTouches
  PROVE  CallTypeOK' /\ RunTypeOK' /\ RecordedAsActive' /\ CountInv' /\ RunInv'
<1>1. PICK c \in Contacts : CallStep(c) BY DEF CallTouches
<1>2. UNCHANGED <<retired, runVars, torn>> /\ Touch
  BY <1>1 DEF CallTouches, CallStep, HandleIdentify, PutProvisionalInboundContact, IdentifyFails,
              HangUp, PutResponse, AppendInboundToResponse, FinalizeInboundContact, FinalizeFails
<1>3. CallTypeOK' BY <1>1, CallKeepsTypes
<1>4. RunTypeOK' BY <1>2 DEF RunTypeOK, runVars, Touch
<1>5. RecordedAsActive' BY <1>1, CallRecords
<1>6. CountInv' /\ RunInv'
  <2>1. \A k \in Cycles :
          /\ Grows(k)
          /\ \/ Counted(k)' \subseteq Counted(k)
             \/ /\ Counted(k)' \subseteq Counted(k) \cup {c}
                /\ Inbound(response'[k]) = Inbound(response[k]) + 1
    BY <1>1, CallCounts
  <2> QED BY <1>2, <1>3, <1>4, <2>1, OthersKeep
<1> QED BY <1>3, <1>4, <1>5, <1>6

(* A transaction moves a row whole, or it tears it.                          *)
MovesWhole(k) ==
  /\ response[k] = copy[k] /\ anonymous[k] = NoRow
  /\ response'[k] = NoRow /\ anonymous'[k] = copy[k]

LEMMA TransactFacts ==
  ASSUME CallTypeOK, RunTypeOK, TransactWrite
  PROVE  /\ CallTypeOK' /\ RunTypeOK'
         /\ torn \subseteq torn' /\ UNCHANGED <<callVars, phase, unread, touched>> /\ phase = "write"
         /\ \A k \in Cycles :
              response'[k] = NoRow \/ (response'[k] = response[k] /\ copy'[k] = copy[k])
         /\ \A k \in Cycles \ torn' :
              \/ MovesWhole(k)
              \/ response'[k] = response[k] /\ anonymous'[k] = anonymous[k]
<1>1. PICK batch \in SUBSET Cycles :
        /\ response' = [k \in Cycles |-> IF k \in batch THEN NoRow ELSE response[k]]
        /\ Move(batch)
  BY DEF TransactWrite
<1>2. UNCHANGED <<callVars, retired, phase, unread, touched>> /\ phase = "write"
  BY DEF TransactWrite
<1>3. CallTypeOK' BY <1>1, <1>2 DEF CallTypeOK, callVars
<1>4. RunTypeOK' BY <1>1, <1>2 DEF RunTypeOK, Move
<1> QED BY <1>1, <1>2, <1>3, <1>4 DEF Move, MovesWhole

LEMMA RunKeeps ==
  ASSUME CallTypeOK, RunTypeOK, RecordedAsActive, CountInv, RunInv, AnonymizeStep
  PROVE  CallTypeOK' /\ RunTypeOK' /\ RecordedAsActive' /\ CountInv' /\ RunInv'
<1>1. CASE AnonymizeEmployee \/ QueryResponsesForEmployee \/ AnonymizeEnds
  <2>1. UNCHANGED <<inboundVars, anonymous, torn>>
    BY <1>1 DEF AnonymizeEmployee, QueryResponsesForEmployee, AnonymizeEnds
  <2>2. CallTypeOK' /\ RecordedAsActive'
    BY <2>1 DEF CallTypeOK, RecordedAsActive, inboundVars, callVars
  <2>3. CountInv'
    BY <2>1 DEF CountInv, Counted, inboundVars, callVars
  <2>4. RunTypeOK' /\ RunInv'
    <3> USE <2>1 DEF RunTypeOK, RunInv, inboundVars
    <3>1. CASE AnonymizeEmployee BY <3>1 DEF AnonymizeEmployee
    <3>2. CASE AnonymizeEnds BY <3>2 DEF AnonymizeEnds
    <3>3. CASE QueryResponsesForEmployee
      <4>1. PICK k \in unread :
              /\ copy' = [copy EXCEPT ![k] = response[k]]
              /\ unread' = unread \ {k}
              /\ phase' = IF unread = {k} THEN "write" ELSE "read"
        BY <3>3 DEF QueryResponsesForEmployee
      <4>2. phase = "read" /\ touched' = touched
        BY <3>3 DEF QueryResponsesForEmployee
      <4>3. RunTypeOK' BY <4>1, <4>2 DEF CallTypeOK
      <4>4. RunInv' BY <4>1, <4>2
      <4> QED BY <4>3, <4>4
    <3> QED BY <1>1, <3>1, <3>2, <3>3
  <2> QED BY <2>2, <2>3, <2>4
<1>2. CASE TransactWrite
  <2>1. CallTypeOK' /\ RunTypeOK' BY <1>2, TransactFacts
  <2>2. RecordedAsActive' BY <1>2, TransactFacts DEF RecordedAsActive, callVars
  <2>3. CountInv'
    <3>1. ASSUME NEW k \in Cycles \ torn'
          PROVE  /\ Inbound(response'[k]) + Inbound(anonymous'[k])
                      = Inbound(response[k]) + Inbound(anonymous[k])
                 /\ Counted(k)' = Counted(k) /\ k \notin torn
      <4>1. Inbound(response[k]) \in Nat /\ Inbound(anonymous[k]) \in Nat /\ Inbound(NoRow) = 0
        BY Counts DEF CallTypeOK, RunTypeOK, Inbound
      <4>2. \/ MovesWhole(k)
            \/ response'[k] = response[k] /\ anonymous'[k] = anonymous[k]
        BY <1>2, TransactFacts
      <4>3. Counted(k)' = Counted(k) /\ k \notin torn
        BY <1>2, TransactFacts DEF Counted, callVars
      <4> QED BY <4>1, <4>2, <4>3 DEF MovesWhole
    <3> QED BY <3>1 DEF CountInv
  <2>4. RunInv' BY <1>2, TransactFacts DEF RunInv
  <2> QED BY <2>1, <2>2, <2>3, <2>4
<1> QED BY <1>1, <1>2 DEF AnonymizeStep

-----------------------------------------------------------------------------

(* InboundInv is inductive.                                                  *)
THEOREM InboundInvariant == AnonymizationSpec => []InboundInv
<1>1. Init => InboundInv
  <2> SUFFICES ASSUME Init PROVE InboundInv OBVIOUS
  <2>1. CallTypeOK
    <3>1. NewRow \in Row BY DEF NewRow, Row
    <3>2. response \in [Cycles -> Row \cup {NoRow}]
      BY <3>1 DEF Init, InboundInit
    <3> QED BY <3>2, MaxFailuresAssumption DEF Init, InboundInit, CallTypeOK, CallState
  <2>2. RunTypeOK BY DEF Init, InboundInit, RunTypeOK
  <2>3. RecordedAsActive /\ RunInv BY DEF Init, InboundInit, RecordedAsActive, RunInv
  <2>4. CountInv
    <3>1. ASSUME NEW k \in Cycles PROVE Counted(k) = {}
      BY NoRowAssumption DEF Init, InboundInit, Counted
    <3>2. \A k \in Cycles : Inbound(response[k]) \in Nat /\ Inbound(anonymous[k]) \in Nat
      BY <2>1, <2>2, Counts DEF CallTypeOK, RunTypeOK
    <3>3. \A k \in Cycles : Cardinality(Counted(k)) = 0
      BY <3>1, FS_EmptySet
    <3> QED BY <3>2, <3>3 DEF CountInv
  <2> QED BY <2>1, <2>2, <2>3, <2>4, TypeParts DEF InboundInv
<1>2. InboundInv /\ [Next]_anonVars => InboundInv'
  <2> SUFFICES ASSUME InboundInv, [Next]_anonVars PROVE InboundInv' OBVIOUS
  <2>0. CallTypeOK /\ RunTypeOK /\ RecordedAsActive /\ CountInv /\ RunInv
    BY TypeParts DEF InboundInv
  <2>1. SUFFICES CallTypeOK' /\ RunTypeOK' /\ RecordedAsActive' /\ CountInv' /\ RunInv'
    BY DEF InboundInv, InboundTypeOK, CallTypeOK, RunTypeOK
  <2>2. CASE CallTouches BY <2>0, <2>2, CallKeeps
  <2>3. CASE AnswerTouches BY <2>0, <2>3, AnswerKeeps
  <2>4. CASE AnonymizeStep BY <2>0, <2>4, RunKeeps
  <2>5. CASE DeleteEmployee /\ UNCHANGED <<runVars, touched, torn>>
    BY <2>0, <2>5 DEF DeleteEmployee, CallTypeOK, RunTypeOK, RecordedAsActive, CountInv, Counted,
                      RunInv, callVars, runVars
  <2>6. CASE UNCHANGED anonVars
    BY <2>0, <2>6 DEF anonVars, inboundVars, callVars, runVars, CallTypeOK, RunTypeOK,
                      RecordedAsActive, CountInv, Counted, RunInv
  <2> QED BY <2>2, <2>3, <2>4, <2>5, <2>6 DEF Next
<1> QED BY <1>1, <1>2, PTL DEF AnonymizationSpec

(* A call that finalize works on has a cycle, wherever its steps fail and    *)
(* are invoked again (InboundTypeOK).                                        *)
THEOREM InboundTypeCorrect == AnonymizationSpec => []InboundTypeOK
BY InboundInvariant, PTL DEF InboundInv

(* _put_provisional_inbound_contact keeps the first decision, and            *)
(* _finalize_inbound_contact asks for it: a call is RECORDED as ACTIVE_CYCLE *)
(* or not at all (RecordedAsActive).                                         *)
THEOREM RecordedCallsAreActive == AnonymizationSpec => []RecordedAsActive
BY InboundInvariant, PTL DEF InboundInv

(* Every call that is RECORDED for a cycle has its own INBOUND in the rows   *)
(* of the cycle, however many calls there are and however often finalize is  *)
(* invoked again (RecordedCallsAreCounted).                                  *)
THEOREM CallsAreCounted == AnonymizationSpec => []RecordedCallsAreCounted
<1>1. InboundInv => RecordedCallsAreCounted
  <2> SUFFICES ASSUME InboundInv, NEW k \in Cycles \ torn
               PROVE  Cardinality({c \in Contacts : recorded[c] = k})
                        <= Inbound(response[k]) + Inbound(anonymous[k])
    BY DEF RecordedCallsAreCounted
  <2> DEFINE T == {c \in Contacts : recorded[c] = k}
             n == Inbound(response[k]) + Inbound(anonymous[k])
  <2>1. CallTypeOK /\ RunTypeOK BY TypeParts DEF InboundInv
  <2>2. n \in Nat BY <2>1, Counts DEF CallTypeOK, RunTypeOK
  <2>3. Cardinality(Counted(k)) <= n BY DEF InboundInv, CountInv
  <2>4. T \subseteq Counted(k) /\ Counted(k) \in SUBSET Contacts BY DEF Counted
  <2> HIDE DEF T, n
  <2>5. /\ Cardinality(T) \in Nat /\ Cardinality(Counted(k)) \in Nat
        /\ Cardinality(T) <= Cardinality(Counted(k))
    BY <2>4, CountGrows
  <2>6. Cardinality(T) <= n BY <2>2, <2>3, <2>5
  <2> QED BY <2>6 DEF T, n
<1> QED BY <1>1, InboundInvariant, PTL

(* A run of _anonymize_employee that has nothing left to move leaves no row  *)
(* under the employee's identifier but those written since it began          *)
(* (AnonymizationComplete).                                                  *)
THEOREM AnonymizationsComplete == AnonymizationSpec => []AnonymizationComplete
<1>1. InboundInv => AnonymizationComplete
  BY DEF InboundInv, RunInv, AnonymizationComplete, ToMove
<1> QED BY <1>1, InboundInvariant, PTL

(* No step of a call, of KeywordMatcher or of a run takes the answer from a  *)
(* cycle whose rows no transaction has torn (AnswersSurvive).                *)
THEOREM AnswersAreKept == AnonymizationSpec => AnswersSurvive
<1>1. InboundInv /\ [Next]_anonVars =>
        [\A k \in Cycles \ torn' :
           Answered(response[k]) \/ Answered(anonymous[k])
             => Answered(response'[k]) \/ Answered(anonymous'[k])]_anonVars
  <2> SUFFICES ASSUME InboundInv, Next, NEW k \in Cycles \ torn',
                      Answered(response[k]) \/ Answered(anonymous[k])
               PROVE  Answered(response'[k]) \/ Answered(anonymous'[k])
    OBVIOUS
  <2>0. CallTypeOK /\ RunTypeOK BY TypeParts DEF InboundInv
  <2>1. CASE CallTouches
    <3>1. PICK c \in Contacts : CallStep(c) BY <2>1 DEF CallTouches
    <3>2. Grows(k) BY <2>0, <3>1, CallCounts
    <3> QED BY <2>1, <3>2 DEF CallTouches, runVars, Grows
  <2>2. CASE AnswerTouches
    <3>1. PICK j \in Cycles : RecordResponse(j) BY <2>2 DEF AnswerTouches
    <3>2. response'[k] = IF k = j THEN WithAnswer(response[k]) ELSE response[k]
      BY <2>0, <3>1 DEF RecordResponse, CallTypeOK
    <3>3. Answered(WithAnswer(response[k])) BY <2>0, GetsAnswer DEF CallTypeOK
    <3> QED BY <2>2, <3>2, <3>3 DEF AnswerTouches, runVars
  <2>3. CASE TransactWrite
    <3>1. \/ MovesWhole(k)
          \/ response'[k] = response[k] /\ anonymous'[k] = anonymous[k]
      BY <2>0, <2>3, TransactFacts
    <3> QED BY <3>1 DEF MovesWhole, Answered
  <2>4. CASE \/ AnonymizeEmployee \/ QueryResponsesForEmployee \/ AnonymizeEnds
             \/ DeleteEmployee /\ UNCHANGED <<runVars, touched, torn>>
    BY <2>4 DEF AnonymizeEmployee, QueryResponsesForEmployee, AnonymizeEnds, DeleteEmployee,
                inboundVars, runVars
  <2> QED BY <2>1, <2>2, <2>3, <2>4 DEF Next, AnonymizeStep
<1> QED BY <1>1, InboundInvariant, PTL DEF AnonymizationSpec, AnswersSurvive

=============================================================================
