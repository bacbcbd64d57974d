------------------------ MODULE EmployeeMasterProofs ------------------------
(***************************************************************************)
(* What the scans before the writes of EmployeeApi are worth, for any      *)
(* number of invocations, rows and numbers.  No write has a condition: the *)
(* properties hold of what one invocation at a time has in hand, and of    *)
(* what two have in hand they say nothing.                                 *)
(***************************************************************************)
EXTENDS EmployeeMaster, TLAPS

(* The type invariant, by what the variables are about.                      *)
TableTypeOK ==
  /\ used \subseteq Ids /\ rows \subseteq used
  /\ deleted \subseteq rows /\ ghosts \subseteq rows \ deleted
  /\ phone \in [Ids -> Phones \cup {NoPhone}]
  /\ \A id \in rows \ deleted : phone[id] \in Phones
  /\ link \in [Ids -> users \cup {NoUser}]
  /\ users \subseteq Emails

HandlerTypeOK ==
  /\ pc \in [Handlers -> HandlerState]
  /\ op \in [Handlers -> Route]
  /\ target \in [Handlers -> used \cup {NoId}]
  /\ asked \in [Handlers -> SUBSET Phones]
  /\ email \in [Handlers -> Emails \cup {NoUser}]
  /\ left \in [Handlers -> SUBSET Phones]
  /\ inserted \in [Handlers -> SUBSET used]
  /\ doomed \in [Handlers -> SUBSET used]

HistoryTypeOK == rowsShared \subseteq used /\ phonesShared \subseteq Phones

LEMMA TypeParts == EmployeeTypeOK <=> TableTypeOK /\ HandlerTypeOK /\ HistoryTypeOK
BY DEF EmployeeTypeOK, TableTypeOK, HandlerTypeOK, HistoryTypeOK

(* What an invocation carries at each point of its route.                    *)
RouteAt(h) ==
  /\ pc[h] = "get" => op[h] \in {"PUT", "DELETE"} /\ left[h] = asked[h]
  /\ pc[h] = "check" => op[h] \in {"POST", "PUT", "import"}
  /\ pc[h] = "cognito" => op[h] = "POST" /\ email[h] # NoUser
  /\ pc[h] = "put" => op[h] = "POST"
  /\ pc[h] = "update" => op[h] = "PUT"
  /\ pc[h] \in {"import", "rollback"} => op[h] = "import"
  /\ op[h] = "PUT" \/ pc[h] \in {"get", "delete", "user"} => target[h] \in used
  /\ left[h] \subseteq asked[h]
  /\ pc[h] \notin {"import", "rollback"} => inserted[h] = {} /\ doomed[h] = {}

RouteInv == \A h \in Handlers : RouteAt(h)

(* A user is linked from one row, and the one created for a row that is      *)
(* still to be put from none.                                                *)
UserInv ==
  /\ \A id \in Ids : link[id] # NoUser => id \in rows
  /\ \A a, b \in Ids : link[a] = link[b] /\ link[a] # NoUser => a = b
  /\ \A h \in Handlers : pc[h] = "put" /\ email[h] # NoUser =>
       /\ email[h] \in users
       /\ \A id \in Ids : link[id] # email[h]
       /\ \A g \in Handlers : g # h /\ pc[g] = "put" => email[g] # email[h]

MasterInv == EmployeeTypeOK /\ RouteInv /\ UserInv

(* An invocation's own step leaves the others where they are.                *)
Stands(g) ==
  /\ pc'[g] = pc[g] /\ op'[g] = op[g] /\ target'[g] = target[g]
  /\ asked'[g] = asked[g] /\ email'[g] = email[g] /\ left'[g] = left[g]
  /\ inserted'[g] = inserted[g] /\ doomed'[g] = doomed[g]

(* What is left of an invocation that has returned.                          *)
Returned(h) ==
  /\ pc'[h] = "idle" /\ op'[h] = "none" /\ target'[h] = NoId /\ asked'[h] = {}
  /\ email'[h] = NoUser /\ left'[h] = {} /\ inserted'[h] = {} /\ doomed'[h] = {}

LEMMA ReturnFacts ==
  ASSUME HandlerTypeOK, NEW h \in Handlers, Return(h), used \subseteq used'
  PROVE  /\ HandlerTypeOK' /\ Returned(h)
         /\ \A g \in Handlers : g # h => Stands(g)
<1>1. Returned(h) /\ \A g \in Handlers : g # h => Stands(g)
  BY DEF HandlerTypeOK, Return, Proceed, Returned, Stands
<1>2. HandlerTypeOK'
  BY DEF HandlerTypeOK, Return, Proceed, HandlerState, Route
<1> QED BY <1>1, <1>2

(* The history's types follow from what the invocations have in hand.        *)
LEMMA ShareType ==
  ASSUME Share, HistoryTypeOK, used \subseteq used', HandlerTypeOK'
  PROVE  HistoryTypeOK'
<1>1. \A h \in Handlers, id \in Ids : id \in HeldRows(h)' => id \in used'
  BY NoIdAssumption DEF HandlerTypeOK, HeldRows
<1>2. \A id \in rowsShared' : id \in used'
  BY <1>1 DEF Share, HistoryTypeOK
<1>3. \A p \in phonesShared' : p \in Phones
  BY DEF Share
<1> QED BY <1>2, <1>3 DEF HistoryTypeOK

-----------------------------------------------------------------------------
(* Types, routes and users.                                                  *)

(* Where one step of h leaves everybody's variables.                         *)
Moved(h) ==
  /\ HandlerTypeOK' /\ RouteAt(h)'
  /\ \A g \in Handlers : g # h => Stands(g)

LEMMA ReturnMoves ==
  ASSUME HandlerTypeOK, NEW h \in Handlers, Return(h), used \subseteq used'
  PROVE  Moved(h)
BY ReturnFacts DEF Moved, Returned, RouteAt

(* What an import puts: rows of its own, one for each number of the batch.   *)
Puts(h, batch, new) ==
  /\ new \cap used = {}
  /\ rows' = rows \cup new /\ used' = used \cup new
  /\ \A id \in Ids \ new : phone'[id] = phone[id]
  /\ \A id \in new : phone'[id] \in batch
  /\ \A a, b \in new : phone'[a] = phone'[b] => a = b
  /\ phone' \in [Ids -> Phones \cup {NoPhone}]
  /\ UNCHANGED <<deleted, ghosts, link, users>>
  /\ IF batch = left[h]
     THEN Return(h)
     ELSE /\ inserted' = [inserted EXCEPT ![h] = @ \cup new]
          /\ left' = [left EXCEPT ![h] = @ \ batch]
          /\ UNCHANGED <<pc, op, target, asked, email, doomed>>

(* ImportBatch, once the batch and its identifiers are chosen.               *)
Chosen(h, batch, id) ==
  LET new == {id[p] : p \in batch}
  IN  /\ rows' = rows \cup new
      /\ used' = used \cup new
      /\ phone' = [i \in Ids |-> IF i \in new
                                 THEN CHOOSE p \in batch : id[p] = i
                                 ELSE phone[i]]
      /\ IF batch = left[h]
         THEN Return(h)
         ELSE /\ inserted' = [inserted EXCEPT ![h] = @ \cup new]
              /\ left' = [left EXCEPT ![h] = @ \ batch]
              /\ UNCHANGED <<pc, op, target, asked, email, doomed>>

LEMMA BatchFacts ==
  ASSUME TableTypeOK, HandlerTypeOK, NEW h \in Handlers, ImportBatch(h)
  PROVE  pc[h] = "import" /\ \E batch \in SUBSET left[h], new \in SUBSET Ids : Puts(h, batch, new)
<1>1. PICK batch \in SUBSET left[h] : \E id \in [batch -> Ids \ used] : Chosen(h, batch, id)
  BY DEF ImportBatch, Chosen
<1>2. PICK id \in [batch -> Ids \ used] : Chosen(h, batch, id)
  BY <1>1
<1> DEFINE new == {id[p] : p \in batch}
<1>3. new \subseteq Ids \ used /\ batch \subseteq Phones
  BY DEF HandlerTypeOK
<1>4. \A i \in new : phone'[i] \in batch /\ id[phone'[i]] = i
  BY <1>2, <1>3 DEF Chosen
<1>5. \A i \in Ids \ new : phone'[i] = phone[i]
  BY <1>2 DEF Chosen
<1>6. phone' \in [Ids -> Phones \cup {NoPhone}]
  <2>1. \A i \in Ids : phone'[i] \in Phones \cup {NoPhone}
    BY <1>3, <1>4, <1>5 DEF TableTypeOK
  <2> QED BY <1>2, <2>1 DEF Chosen
<1>7. Puts(h, batch, new)
  <2>1. UNCHANGED <<deleted, ghosts, link, users>> BY DEF ImportBatch
  <2>2. \A a, b \in new : phone'[a] = phone'[b] => a = b BY <1>4
  <2> QED BY <1>2, <1>3, <1>4, <1>5, <1>6, <2>1, <2>2 DEF Puts, Chosen
<1> QED BY <1>3, <1>7 DEF ImportBatch

(* Every step of h keeps the types of what invocations carry, and moves h    *)
(* alone.                                                                    *)
LEMMA StepMoves ==
  ASSUME TableTypeOK, HandlerTypeOK, RouteInv, NEW h \in Handlers, Step(h)
  PROVE  Moved(h) /\ used \subseteq used'
<1> USE DEF Moved
<1>0. RouteAt(h) BY DEF RouteInv
<1>1. CASE Arrive(h)
  <2>1. ASSUME NEW route \in Route, NEW id \in used \cup {NoId}, NEW numbers \in SUBSET Phones,
               NEW address \in Emails \cup {NoUser}, NEW state \in HandlerState,
               Receive(h, route, id, numbers, address, state),
               state = "get" => route \in {"PUT", "DELETE"},
               state = "check" => route \in {"POST", "PUT", "import"},
               state \in {"get", "check", "user"},
               route = "PUT" \/ state \in {"get", "user"} => id \in used
        PROVE  Moved(h) /\ used \subseteq used'
    <3>1. used' = used BY <2>1 DEF Receive, tableVars
    <3>2. HandlerTypeOK' /\ \A g \in Handlers : g # h => Stands(g)
      BY <2>1, <3>1 DEF Receive, Proceed, HandlerTypeOK, Stands
    <3>3. RouteAt(h)'
      BY <1>0, <2>1, <3>1 DEF Receive, Proceed, HandlerTypeOK, RouteAt
    <3> QED BY <3>1, <3>2, <3>3
  <2>2. rows \subseteq used BY DEF TableTypeOK
  <2> QED BY <1>1, <2>1, <2>2 DEF Arrive, Route, HandlerState, CsvFile
<1>2. CASE GetEmployee(h)
  <2>1. used' = used BY <1>2 DEF GetEmployee, tableVars
  <2>2. CASE target[h] \notin rows \ deleted
    BY <1>2, <2>1, <2>2, ReturnMoves DEF GetEmployee
  <2>3. CASE target[h] \in rows \ deleted
    <3> DEFINE l == left[h] \ {phone[target[h]]}
               s == IF op[h] = "DELETE" THEN "delete" ELSE IF l = {} THEN "update" ELSE "check"
    <3>1. left' = [left EXCEPT ![h] = l] /\ left'[h] = l
      BY <1>2, <2>3 DEF GetEmployee, HandlerTypeOK
    <3>2. Proceed(h, s) /\ UNCHANGED <<op, target, asked, email, inserted, doomed>>
      BY <1>2, <2>3, <3>1 DEF GetEmployee
    <3>3. l \in SUBSET Phones /\ s \in HandlerState
      BY DEF HandlerTypeOK, HandlerState
    <3> HIDE DEF l, s
    <3>4. /\ HandlerTypeOK' /\ pc'[h] = s /\ left'[h] = l
          /\ \A g \in Handlers : g # h => Stands(g)
      BY <2>1, <3>1, <3>2, <3>3 DEF Proceed, HandlerTypeOK, Stands
    <3>5. RouteAt(h)'
      BY <1>0, <1>2, <2>1, <3>2, <3>4 DEF GetEmployee, RouteAt, l, s
    <3> QED BY <2>1, <3>4, <3>5
  <2> QED BY <2>2, <2>3
<1>3. CASE PhoneAlreadyRegistered(h)
  <2>1. used' = used BY <1>3 DEF PhoneAlreadyRegistered, tableVars
  <2>2. PICK p \in left[h] :
          IF \E id \in Registered : phone[id] = p
          THEN Return(h)
          ELSE /\ IF left[h] = {p}
                  THEN /\ left' = [left EXCEPT ![h] = IF op[h] = "import" THEN asked[h] ELSE {}]
                       /\ Proceed(h, Checked(h))
                  ELSE left' = [left EXCEPT ![h] = @ \ {p}] /\ UNCHANGED pc
               /\ UNCHANGED <<op, target, asked, email, inserted, doomed>>
    BY <1>3 DEF PhoneAlreadyRegistered
  <2>3. CASE \E id \in Registered : phone[id] = p
    BY <2>1, <2>2, <2>3, ReturnMoves
  <2>4. CASE ~(\E id \in Registered : phone[id] = p) /\ left[h] = {p}
    <3> DEFINE l == IF op[h] = "import" THEN asked[h] ELSE {}
    <3>1. l \in SUBSET Phones BY DEF HandlerTypeOK
    <3>2. /\ Checked(h) \in HandlerState
          /\ Checked(h) = "import" => op[h] = "import"
          /\ Checked(h) = "update" => op[h] = "PUT"
          /\ Checked(h) = "put" => op[h] = "POST"
          /\ Checked(h) = "cognito" => op[h] = "POST" /\ email[h] # NoUser
          /\ Checked(h) \in {"import", "update", "put", "cognito"}
      <4>1. op[h] \in {"POST", "PUT", "import"}
        BY <1>0, <1>3 DEF PhoneAlreadyRegistered, RouteAt
      <4>2. CASE op[h] = "import" BY <4>2 DEF Checked, HandlerState
      <4>3. CASE op[h] = "PUT" BY <4>3 DEF Checked, HandlerState
      <4>4. CASE op[h] = "POST" BY <4>4 DEF Checked, HandlerState
      <4> QED BY <4>1, <4>2, <4>3, <4>4
    <3>3. /\ HandlerTypeOK' /\ pc'[h] = Checked(h) /\ left'[h] = l
          /\ \A g \in Handlers : g # h => Stands(g)
      BY <2>1, <2>2, <2>4, <3>1, <3>2 DEF Proceed, HandlerTypeOK, Stands
    <3>4. RouteAt(h)'
      BY <1>0, <1>3, <2>1, <2>2, <2>4, <3>2, <3>3 DEF RouteAt, PhoneAlreadyRegistered
    <3> QED BY <2>1, <3>3, <3>4
  <2>5. CASE ~(\E id \in Registered : phone[id] = p) /\ left[h] # {p}
    <3>1. /\ HandlerTypeOK' /\ left'[h] = left[h] \ {p} /\ pc' = pc
          /\ \A g \in Handlers : g # h => Stands(g)
      BY <2>1, <2>2, <2>5 DEF HandlerTypeOK, Stands
    <3>2. RouteAt(h)'
      BY <1>0, <1>3, <2>1, <2>2, <2>5, <3>1 DEF RouteAt, PhoneAlreadyRegistered
    <3> QED BY <2>1, <3>1, <3>2
  <2> QED BY <2>3, <2>4, <2>5
<1>4. CASE CreateCognitoAdmin(h)
  <2>1. used' = used BY <1>4 DEF CreateCognitoAdmin
  <2>2. CASE email[h] \in users BY <1>4, <2>1, <2>2, ReturnMoves DEF CreateCognitoAdmin
  <2>3. CASE email[h] \notin users
    <3>1. HandlerTypeOK' /\ \A g \in Handlers : g # h => Stands(g)
      BY <1>4, <2>1, <2>3
         DEF CreateCognitoAdmin, Proceed, HandlerTypeOK, HandlerState, Stands
    <3>2. RouteAt(h)'
      BY <1>0, <1>4, <2>1, <2>3 DEF CreateCognitoAdmin, Proceed, HandlerTypeOK, RouteAt
    <3> QED BY <2>1, <3>1, <3>2
  <2> QED BY <2>2, <2>3
<1>5. CASE \/ PutEmployee(h) \/ UpdateEmployee(h) \/ DeleteEmployee(h) \/ DeleteCognitoUser(h)
           \/ RollbackEnds(h) \/ HandlerBreaks(h)
  BY <1>5, ReturnMoves
     DEF PutEmployee, UpdateEmployee, DeleteEmployee, DeleteCognitoUser, RollbackEnds,
         HandlerBreaks, tableVars
<1>6. CASE ImportBatch(h)
  <2>1. PICK batch \in SUBSET left[h], new \in SUBSET Ids : Puts(h, batch, new)
    BY <1>6, BatchFacts
  <2>2. CASE batch = left[h] BY <2>1, <2>2, ReturnMoves DEF Puts
  <2>3. CASE batch # left[h]
    <3>1. HandlerTypeOK' /\ \A g \in Handlers : g # h => Stands(g)
      BY <2>1, <2>3 DEF Puts, HandlerTypeOK, Stands
    <3>2. RouteAt(h)'
      BY <1>0, <1>6, <2>1, <2>3, BatchFacts DEF Puts, HandlerTypeOK, RouteAt
    <3> QED BY <2>1, <3>1, <3>2 DEF Puts
  <2> QED BY <2>2, <2>3
<1>7. CASE ImportFails(h)
  <2>1. used' = used BY <1>7 DEF ImportFails, tableVars
  <2>2. HandlerTypeOK' /\ \A g \in Handlers : g # h => Stands(g)
    BY <1>7, <2>1 DEF ImportFails, Proceed, HandlerTypeOK, HandlerState, Stands
  <2>3. RouteAt(h)'
    BY <1>0, <1>7, <2>1 DEF ImportFails, Proceed, HandlerTypeOK, RouteAt
  <2> QED BY <2>1, <2>2, <2>3
<1>8. CASE RollbackQuery(h)
  <2>1. used' = used BY <1>8 DEF RollbackQuery, tableVars
  <2>2. HandlerTypeOK' /\ \A g \in Handlers : g # h => Stands(g)
    <3>1. \A p : {id \in rows : phone[id] = p} \in SUBSET used BY DEF TableTypeOK
    <3> QED BY <1>8, <2>1, <3>1 DEF RollbackQuery, HandlerTypeOK, Stands
  <2>3. RouteAt(h)'
    BY <1>0, <1>8, <2>1 DEF RollbackQuery, HandlerTypeOK, RouteAt
  <2> QED BY <2>1, <2>2, <2>3
<1>9. CASE RollbackDelete(h)
  <2>1. used' = used BY <1>9 DEF RollbackDelete
  <2>2. HandlerTypeOK' /\ \A g \in Handlers : g # h => Stands(g)
    BY <1>9, <2>1 DEF RollbackDelete, HandlerTypeOK, Stands
  <2>3. RouteAt(h)'
    BY <1>0, <1>9, <2>1 DEF RollbackDelete, HandlerTypeOK, RouteAt
  <2> QED BY <2>1, <2>2, <2>3
<1>10. CASE RollbackSkips(h)
  <2>1. used' = used BY <1>10 DEF RollbackSkips, tableVars
  <2>2. HandlerTypeOK' /\ \A g \in Handlers : g # h => Stands(g)
    BY <1>10, <2>1 DEF RollbackSkips, HandlerTypeOK, Stands
  <2>3. RouteAt(h)'
    BY <1>0, <1>10, <2>1 DEF RollbackSkips, HandlerTypeOK, RouteAt
  <2> QED BY <2>1, <2>2, <2>3
<1> QED BY <1>1, <1>2, <1>3, <1>4, <1>5, <1>6, <1>7, <1>8, <1>9, <1>10 DEF Step

(* The steps that leave the table and the pool alone.                        *)
Quiet(h) ==
  \/ Arrive(h) \/ GetEmployee(h) \/ PhoneAlreadyRegistered(h) \/ ImportFails(h)
  \/ RollbackQuery(h) \/ RollbackSkips(h) \/ RollbackEnds(h) \/ HandlerBreaks(h)

LEMMA QuietTable ==
  ASSUME NEW h \in Handlers, Quiet(h)
  PROVE  UNCHANGED tableVars
BY DEF Quiet, Arrive, Receive, GetEmployee, PhoneAlreadyRegistered, ImportFails,
       RollbackQuery, RollbackSkips, RollbackEnds, HandlerBreaks

(* Only a route without a user comes to its put in such a step.              *)
LEMMA QuietPut ==
  ASSUME HandlerTypeOK, RouteInv, NEW h \in Handlers, Quiet(h), pc'[h] = "put"
  PROVE  email'[h] = NoUser
<1> USE DEF HandlerTypeOK
<1>1. CASE Arrive(h) BY <1>1 DEF Arrive, Receive, Proceed
<1>2. CASE GetEmployee(h) BY <1>2 DEF GetEmployee, Return, Proceed
<1>3. CASE PhoneAlreadyRegistered(h)
  <2>1. op[h] \in {"POST", "PUT", "import"}
    BY <1>3 DEF RouteInv, RouteAt, PhoneAlreadyRegistered
  <2>2. Checked(h) = "put" => email[h] = NoUser
    <3>1. CASE op[h] = "POST" BY <3>1 DEF Checked
    <3>2. CASE op[h] = "PUT" BY <3>2 DEF Checked
    <3>3. CASE op[h] = "import" BY <3>3 DEF Checked
    <3> QED BY <2>1, <3>1, <3>2, <3>3
  <2>3. pc'[h] = Checked(h) /\ email' = email
    BY <1>3 DEF PhoneAlreadyRegistered, Return, Proceed
  <2> QED BY <2>2, <2>3
<1>4. CASE ImportFails(h) BY <1>4 DEF ImportFails, Proceed
<1>5. CASE RollbackQuery(h) BY <1>5 DEF RollbackQuery
<1>6. CASE RollbackSkips(h) BY <1>6 DEF RollbackSkips
<1>7. CASE RollbackEnds(h) BY <1>7 DEF RollbackEnds, Return, Proceed
<1>8. CASE HandlerBreaks(h) BY <1>8 DEF HandlerBreaks, Return, Proceed
<1> QED BY <1>1, <1>2, <1>3, <1>4, <1>5, <1>6, <1>7, <1>8 DEF Quiet

(* Users are found through rows as before when no link changes; a user that  *)
(* comes is a new one.                                                       *)
LEMMA LinksStand ==
  ASSUME TableTypeOK, HandlerTypeOK, UserInv, NEW h \in Handlers, Moved(h), link' = link,
         rows \subseteq rows', users \subseteq users',
         pc'[h] = "put" /\ email'[h] # NoUser => email'[h] \in users' \ users
  PROVE  UserInv'
BY DEF TableTypeOK, UserInv, Moved, Stands

(* A link goes, and its row and its user may go with it.                     *)
LEMMA LinkGoes ==
  ASSUME TableTypeOK, HandlerTypeOK, UserInv, NEW h \in Handlers, Moved(h), pc'[h] # "put",
         NEW id \in Ids, link' = [link EXCEPT ![id] = NoUser],
         rows \ {id} \subseteq rows', users \ {link[id]} \subseteq users', users' \subseteq users
  PROVE  UserInv' /\ link' \in [Ids -> users' \cup {NoUser}]
<1>1. \A i \in Ids : link'[i] = IF i = id THEN NoUser ELSE link[i]
  BY DEF TableTypeOK
<1>2. \A g \in Handlers : g # h => pc'[g] = pc[g] /\ email'[g] = email[g]
  BY DEF Moved, Stands
<1>3. \A i \in Ids : link'[i] \in users' \cup {NoUser}
  BY <1>1 DEF TableTypeOK, UserInv
<1>4. UserInv'
  BY <1>1, <1>2 DEF TableTypeOK, UserInv
<1>5. link' \in [Ids -> users' \cup {NoUser}]
  BY <1>3 DEF TableTypeOK
<1> QED BY <1>4, <1>5

LEMMA StepTable ==
  ASSUME TableTypeOK, HandlerTypeOK, RouteInv, UserInv, NEW h \in Handlers, Step(h)
  PROVE  TableTypeOK' /\ UserInv'
<1>0. Moved(h) /\ used \subseteq used' BY StepMoves
<1>1. CASE Quiet(h)
  <2>1. UNCHANGED tableVars BY <1>1, QuietTable
  <2>2. UserInv' BY <1>0, <1>1, <2>1, QuietPut, LinksStand DEF tableVars
  <2> QED BY <2>1, <2>2 DEF TableTypeOK, tableVars
<1>2. CASE CreateCognitoAdmin(h)
  <2>1. TableTypeOK' BY <1>2 DEF CreateCognitoAdmin, TableTypeOK, HandlerTypeOK, RouteInv, RouteAt
  <2>2. pc'[h] = "put" => email'[h] \in users' \ users
    BY <1>2 DEF CreateCognitoAdmin, Return, Proceed, HandlerTypeOK
  <2> QED BY <1>0, <1>2, <2>1, <2>2, LinksStand DEF CreateCognitoAdmin
<1>3. CASE PutEmployee(h)
  <2>1. PICK id \in Ids \ used, p \in asked[h] :
          /\ rows' = rows \cup {id} /\ used' = used \cup {id}
          /\ phone' = [phone EXCEPT ![id] = p] /\ link' = [link EXCEPT ![id] = email[h]]
    BY <1>3 DEF PutEmployee
  <2>2. /\ pc[h] = "put" /\ pc'[h] = "idle" /\ p \in Phones
        /\ UNCHANGED <<deleted, ghosts, users>>
    BY <1>3 DEF PutEmployee, Return, Proceed, HandlerTypeOK
  <2>3. email[h] \in users \cup {NoUser}
    BY <2>2 DEF UserInv
  <2>4. TableTypeOK'
    BY <2>1, <2>2, <2>3 DEF TableTypeOK
  <2>5. \A i \in Ids : link'[i] = IF i = id THEN email[h] ELSE link[i]
    BY <2>1 DEF TableTypeOK
  <2>6. \A g \in Handlers : g # h => pc'[g] = pc[g] /\ email'[g] = email[g]
    BY <1>0 DEF Moved, Stands
  <2>7. UserInv'
    BY <2>1, <2>2, <2>5, <2>6 DEF UserInv
  <2> QED BY <2>4, <2>7
<1>4. CASE UpdateEmployee(h)
  <2>1. target[h] \in used
    BY <1>4 DEF UpdateEmployee, RouteInv, RouteAt
  <2>2. TableTypeOK'
    BY <1>4, <2>1 DEF UpdateEmployee, TableTypeOK, HandlerTypeOK
  <2>3. pc'[h] = "idle"
    BY <1>4 DEF UpdateEmployee, Return, Proceed, HandlerTypeOK
  <2> QED BY <1>0, <1>4, <2>2, <2>3, LinksStand DEF UpdateEmployee
<1>5. CASE DeleteEmployee(h)
  <2>1. target[h] \in used /\ target[h] \in Ids
    BY <1>5 DEF DeleteEmployee, RouteInv, RouteAt, TableTypeOK
  <2>2. pc'[h] = "idle"
    BY <1>5 DEF DeleteEmployee, Return, Proceed, HandlerTypeOK
  <2>3. UserInv' /\ link' \in [Ids -> users' \cup {NoUser}]
    BY <1>0, <1>5, <2>1, <2>2, LinkGoes DEF DeleteEmployee
  <2> QED BY <1>5, <2>1, <2>3 DEF DeleteEmployee, TableTypeOK
<1>6. CASE DeleteCognitoUser(h)
  <2>1. target[h] \in used /\ target[h] \in Ids
    BY <1>6 DEF DeleteCognitoUser, RouteInv, RouteAt, TableTypeOK
  <2>2. pc'[h] = "idle"
    BY <1>6 DEF DeleteCognitoUser, Return, Proceed, HandlerTypeOK
  <2>3. UserInv' /\ link' \in [Ids -> users' \cup {NoUser}] /\ users' \subseteq users
    <3>1. CASE target[h] \in rows \cap deleted
      BY <1>0, <1>6, <2>1, <2>2, <3>1, LinkGoes DEF DeleteCognitoUser
    <3>2. CASE target[h] \notin rows \cap deleted
      BY <1>0, <1>6, <2>2, <3>2, LinksStand DEF DeleteCognitoUser, TableTypeOK
    <3> QED BY <3>1, <3>2
  <2> QED BY <1>6, <2>3 DEF DeleteCognitoUser, TableTypeOK
<1>7. CASE ImportBatch(h)
  <2>1. PICK batch \in SUBSET left[h], new \in SUBSET Ids : Puts(h, batch, new)
    BY <1>7, BatchFacts
  <2>2. TableTypeOK'
    BY <2>1 DEF Puts, TableTypeOK, HandlerTypeOK
  <2>3. pc'[h] # "put"
    BY <1>7, <2>1, BatchFacts DEF Puts, Return, Proceed, HandlerTypeOK
  <2> QED BY <1>0, <2>1, <2>2, <2>3, LinksStand DEF Puts
<1>8. CASE RollbackDelete(h)
  <2>1. PICK id \in doomed[h] :
          /\ rows' = rows \ {id} /\ deleted' = deleted \ {id} /\ ghosts' = ghosts \ {id}
          /\ phone' = [phone EXCEPT ![id] = NoPhone] /\ link' = [link EXCEPT ![id] = NoUser]
    BY <1>8 DEF RollbackDelete
  <2>2. id \in Ids /\ pc'[h] = "rollback" /\ users' = users /\ used' = used
    BY <1>8, <2>1 DEF RollbackDelete, HandlerTypeOK, TableTypeOK
  <2>3. UserInv' /\ link' \in [Ids -> users' \cup {NoUser}]
    BY <1>0, <2>1, <2>2, LinkGoes
  <2> QED BY <2>1, <2>2, <2>3 DEF TableTypeOK
<1> QED BY <1>1, <1>2, <1>3, <1>4, <1>5, <1>6, <1>7, <1>8 DEF Step, Quiet

(* MasterInv is inductive: a row, its marks and its link, and what each      *)
(* invocation carries to its next access, fit together after every step.     *)
THEOREM MasterInvariant == EmployeeSpec => []MasterInv
<1>1. Init => MasterInv
  <2> SUFFICES ASSUME Init PROVE MasterInv OBVIOUS
  <2>1. TableTypeOK BY DEF Init, TableTypeOK
  <2>2. HandlerTypeOK BY DEF Init, HandlerTypeOK, HandlerState, Route
  <2>3. HistoryTypeOK BY DEF Init, HistoryTypeOK
  <2>4. RouteInv BY DEF Init, RouteInv, RouteAt
  <2>5. UserInv BY DEF Init, UserInv
  <2> QED BY <2>1, <2>2, <2>3, <2>4, <2>5, TypeParts DEF MasterInv
<1>2. MasterInv /\ [Next]_vars => MasterInv'
  <2> SUFFICES ASSUME MasterInv, [Next]_vars PROVE MasterInv' OBVIOUS
  <2>0. TableTypeOK /\ HandlerTypeOK /\ HistoryTypeOK /\ RouteInv /\ UserInv
    BY TypeParts DEF MasterInv
  <2>1. CASE Next
    <3>1. PICK h \in Handlers : Step(h) BY <2>1 DEF Next
    <3>2. Moved(h) /\ used \subseteq used' BY <2>0, <3>1, StepMoves
    <3>3. RouteInv'
      BY <2>0, <3>2 DEF RouteInv, RouteAt, Moved, Stands
    <3>4. TableTypeOK' /\ UserInv' BY <2>0, <3>1, StepTable
    <3>5. HistoryTypeOK' BY <2>0, <2>1, <3>2, ShareType DEF Next, Moved
    <3>6. EmployeeTypeOK' BY <3>2, <3>4, <3>5
      DEF Moved, EmployeeTypeOK, TableTypeOK, HandlerTypeOK, HistoryTypeOK
    <3> QED BY <3>3, <3>4, <3>6 DEF MasterInv
  <2>2. CASE UNCHANGED vars
    BY <2>2 DEF MasterInv, EmployeeTypeOK, RouteInv, RouteAt, UserInv,
                vars, tableVars, handlerVars, historyVars
  <2> QED BY <2>1, <2>2
<1> QED BY <1>1, <1>2, PTL DEF EmployeeSpec

(* What an invocation carries always fits the point its route has reached,   *)
(* and the marks of deletion are on rows that exist: no route of the handler *)
(* leaves a row half written (EmployeeTypeOK).                               *)
THEOREM EmployeeTypeCorrect == EmployeeSpec => []EmployeeTypeOK
BY MasterInvariant, PTL DEF MasterInv

(* However POST, the logical deletion and the deletion of the user overlap,  *)
(* and wherever a POST breaks, a user of the pool is linked from one row at  *)
(* most: a user that exists already is never taken for the new one.          *)
THEOREM UsersHaveOneRow == EmployeeSpec => []OneRowPerUser
<1>1. MasterInv => OneRowPerUser
  BY DEF MasterInv, EmployeeTypeOK, UserInv, OneRowPerUser
<1> QED BY <1>1, MasterInvariant, PTL

-----------------------------------------------------------------------------
(* What one step does to the table.                                          *)

Kept(id) ==
  /\ id \in rows' <=> id \in rows
  /\ id \in deleted' <=> id \in deleted
  /\ id \in ghosts' <=> id \in ghosts
  /\ phone'[id] = phone[id]

Removed(h, id) == pc[h] = "rollback" /\ id \in doomed[h] /\ id \notin rows'

Retired(h, id) == id = target[h] /\ id \in deleted' /\ phone'[id] = NoPhone

Updated(h, id) ==
  /\ pc[h] = "update" /\ Returned(h) /\ id = target[h]
  /\ id \in rows' /\ phone'[id] \in asked[h]
  /\ id \in deleted' <=> id \in deleted
  /\ IF id \in rows THEN id \in ghosts' <=> id \in ghosts ELSE id \in ghosts'

(* A row that an invocation has put.                                         *)
Fresh(h, id) ==
  /\ id \in Registered' /\ phone'[id] \in asked[h]
  /\ \/ pc[h] = "put" /\ Returned(h)
     \/ /\ pc[h] = "import" /\ phone'[id] \in left[h]
        /\ Returned(h) \/ (phone'[id] \notin left'[h] /\ id \in inserted'[h])

(* A step keeps every row but those that h has in hand.                      *)
Effects(h) ==
  /\ \A id \in used : Kept(id) \/ Removed(h, id) \/ Retired(h, id) \/ Updated(h, id)
  /\ \A id \in used' \ used : Fresh(h, id)
  /\ \A a, b \in used' \ used : phone'[a] = phone'[b] => a = b

LEMMA StepEffects ==
  ASSUME TableTypeOK, HandlerTypeOK, RouteInv, NEW h \in Handlers, Step(h)
  PROVE  Effects(h)
<1>0. used \subseteq Ids /\ rows \subseteq used /\ deleted \subseteq used /\ ghosts \subseteq used
  BY DEF TableTypeOK
<1>1. CASE Quiet(h) \/ CreateCognitoAdmin(h) \/ DeleteCognitoUser(h)
  <2>1. UNCHANGED <<rows, deleted, ghosts, phone, used>>
    BY <1>1, QuietTable DEF CreateCognitoAdmin, DeleteCognitoUser, tableVars
  <2> QED BY <2>1 DEF Effects, Kept
<1>2. CASE PutEmployee(h)
  <2>1. PICK id \in Ids \ used, p \in asked[h] :
          /\ rows' = rows \cup {id} /\ used' = used \cup {id} /\ phone' = [phone EXCEPT ![id] = p]
    BY <1>2 DEF PutEmployee
  <2>2. Returned(h) /\ pc[h] = "put" /\ deleted' = deleted /\ ghosts' = ghosts
    BY <1>2, <2>1, ReturnFacts DEF PutEmployee
  <2>3. \A i \in used : Kept(i)
    BY <1>0, <2>1, <2>2 DEF Kept, TableTypeOK
  <2>4. Fresh(h, id)
    BY <1>0, <2>1, <2>2 DEF Fresh, Registered, TableTypeOK
  <2> QED BY <2>1, <2>3, <2>4 DEF Effects
<1>3. CASE UpdateEmployee(h)
  <2>1. used' = used /\ deleted' = deleted /\ pc[h] = "update"
    BY <1>3 DEF UpdateEmployee
  <2>2. Returned(h) BY <1>3, <2>1, ReturnFacts DEF UpdateEmployee
  <2>3. \A i \in used : i # target[h] => Kept(i)
    BY <1>0, <1>3, <2>1 DEF UpdateEmployee, Kept, TableTypeOK
  <2>4. target[h] \in used => Updated(h, target[h])
    BY <1>0, <1>3, <2>1, <2>2 DEF UpdateEmployee, Updated, TableTypeOK
  <2> QED BY <2>1, <2>3, <2>4 DEF Effects
<1>4. CASE DeleteEmployee(h)
  <2>1. used' = used BY <1>4 DEF DeleteEmployee
  <2>2. \A i \in used : i # target[h] => Kept(i)
    BY <1>0, <1>4 DEF DeleteEmployee, Kept, TableTypeOK
  <2>3. target[h] \in used => Retired(h, target[h])
    BY <1>0, <1>4 DEF DeleteEmployee, Retired, TableTypeOK
  <2> QED BY <2>1, <2>2, <2>3 DEF Effects
<1>5. CASE ImportBatch(h)
  <2>1. PICK batch \in SUBSET left[h], new \in SUBSET Ids : Puts(h, batch, new)
    BY <1>5, BatchFacts
  <2>2. pc[h] = "import" BY <1>5, BatchFacts
  <2>3. \A i \in used : Kept(i)
    BY <1>0, <2>1 DEF Puts, Kept
  <2>4. Returned(h) \/ (left'[h] = left[h] \ batch /\ inserted'[h] = inserted[h] \cup new)
    BY <2>1, ReturnFacts DEF Puts, HandlerTypeOK
  <2>5. left[h] \subseteq asked[h] BY DEF RouteInv, RouteAt
  <2>6. \A i \in new : Fresh(h, i)
    BY <1>0, <2>1, <2>2, <2>4, <2>5 DEF Puts, Fresh, Registered
  <2>7. used' \ used = new BY <2>1 DEF Puts
  <2> QED BY <2>1, <2>3, <2>6, <2>7 DEF Effects, Puts
<1>6. CASE RollbackDelete(h)
  <2>1. PICK id \in doomed[h] :
          /\ rows' = rows \ {id} /\ deleted' = deleted \ {id} /\ ghosts' = ghosts \ {id}
          /\ phone' = [phone EXCEPT ![id] = NoPhone]
    BY <1>6 DEF RollbackDelete
  <2>2. used' = used /\ pc[h] = "rollback" BY <1>6 DEF RollbackDelete
  <2>3. \A i \in used : i # id => Kept(i)
    BY <1>0, <2>1 DEF Kept, TableTypeOK
  <2>4. Removed(h, id) BY <2>1, <2>2 DEF Removed
  <2> QED BY <2>2, <2>3, <2>4 DEF Effects
<1> QED BY <1>1, <1>2, <1>3, <1>4, <1>5, <1>6 DEF Step, Quiet

-----------------------------------------------------------------------------
(* What two invocations have in hand at once is in the history.              *)

HeldInv ==
  \A g, h \in Handlers : g # h =>
    /\ \A id \in Ids : id \in HeldRows(g) \cap HeldRows(h) => id \in rowsShared
    /\ asked[g] \cap asked[h] \subseteq phonesShared

LEMMA ShareGives ==
  ASSUME Share, HandlerTypeOK'
  PROVE  HeldInv'
BY DEF Share, HeldInv, HandlerTypeOK

LEMMA RowStays ==
  ASSUME Share, NEW id \in Ids, id \in rowsShared,
         \/ \E h \in Handlers : id \in HeldRows(h)'
         \/ id \in ghosts'
         \/ id \in deleted' /\ phone'[id] # NoPhone
  PROVE  id \in rowsShared'
BY DEF Share

LEMMA NumberStays ==
  ASSUME Share, NEW p \in Phones, p \in phonesShared,
         \/ \E h \in Handlers : p \in asked'[h]
         \/ \E a, b \in Registered' : a # b /\ phone'[a] = p /\ phone'[b] = p
  PROVE  p \in phonesShared'
BY DEF Share

(* The invariants of one invocation and its rows hold wherever no other had  *)
(* a hand in them: another's step changes none of it.                        *)
LEMMA OthersKeep ==
  ASSUME TableTypeOK, HandlerTypeOK, HeldInv, NEW h \in Handlers, Effects(h), Moved(h), Share,
         NEW g \in Handlers, g # h, NEW id \in used, id \in HeldRows(g), id \notin rowsShared'
  PROVE  Kept(id) /\ id \notin rowsShared
<1>1. id \in Ids /\ Stands(g) BY DEF TableTypeOK, Moved
<1>2. id \in HeldRows(g)' BY <1>1 DEF HeldRows, Stands
<1>3. id \notin rowsShared BY <1>1, <1>2, RowStays
<1>4. id \notin HeldRows(h) BY <1>1, <1>3 DEF HeldInv
<1> QED BY <1>3, <1>4 DEF Effects, Removed, Retired, Updated, HeldRows

-----------------------------------------------------------------------------
(* Retired rows.                                                             *)

(* A number in a deleted row, a row that an update wrote anew, and a row     *)
(* that goes away while a PUT is on its way to it, are the work of two.      *)
RowInv ==
  /\ \A id \in deleted : phone[id] # NoPhone => id \in rowsShared
  /\ ghosts \subseteq rowsShared
  /\ \A h \in Handlers :
       op[h] = "PUT" /\ pc[h] \in {"check", "update"} /\ target[h] \notin rows \ deleted
         => target[h] \in rowsShared

LEMMA StepKeepsRowInv ==
  ASSUME TableTypeOK, HandlerTypeOK, RouteInv, HeldInv, RowInv, NEW h \in Handlers, Step(h),
         Effects(h), Moved(h), Share, TableTypeOK'
  PROVE  RowInv'
<1>0. used \subseteq Ids /\ rows \subseteq used /\ deleted \subseteq rows /\ ghosts \subseteq rows
  BY DEF TableTypeOK
<1>1. ASSUME NEW id \in deleted', phone'[id] # NoPhone PROVE id \in rowsShared'
  <2>1. id \in used
    BY <1>0, <1>1 DEF Effects, Fresh, Registered, TableTypeOK
  <2>2. id \in rowsShared
    BY <1>0, <1>1, <2>1 DEF Effects, Kept, Removed, Retired, Updated, RowInv, RouteInv, RouteAt,
                            TableTypeOK
  <2> QED BY <1>0, <1>1, <2>1, <2>2, RowStays
<1>2. ASSUME NEW id \in ghosts' PROVE id \in rowsShared'
  <2>1. id \in used
    BY <1>0, <1>2 DEF Effects, Fresh, Registered, TableTypeOK
  <2>2. id \in rowsShared
    BY <1>0, <1>2, <2>1 DEF Effects, Kept, Removed, Retired, Updated, RowInv, RouteInv, RouteAt,
                            TableTypeOK
  <2> QED BY <1>0, <1>2, <2>1, <2>2, RowStays
<1>3. ASSUME NEW g \in Handlers, op'[g] = "PUT", pc'[g] \in {"check", "update"},
             target'[g] \notin rows' \ deleted'
      PROVE  target'[g] \in rowsShared'
  <2>0. target'[g] \in HeldRows(g)' BY DEF HeldRows
  <2>1. CASE g # h
    <3>1. Stands(g) /\ target[g] \in used
      BY <1>3, <2>1 DEF Moved, Stands, RouteInv, RouteAt
    <3>2. target[g] \in HeldRows(g) BY DEF HeldRows
    <3>3. CASE target[g] \in rows \ deleted
      BY <1>3, <2>1, <3>1, <3>2, <3>3, OthersKeep DEF Kept, Stands
    <3>4. CASE target[g] \notin rows \ deleted
      BY <1>0, <1>3, <2>0, <3>1, <3>4, RowStays DEF RowInv, Stands
    <3> QED BY <3>3, <3>4
  <2>2. CASE g = h
    <3>1. CASE GetEmployee(h)
      BY <1>3, <2>2, <3>1 DEF GetEmployee, Return, Proceed, HandlerTypeOK, tableVars
    <3>2. CASE PhoneAlreadyRegistered(h)
      <4>1. /\ pc[h] = "check" /\ op'[h] = op[h] /\ target'[h] = target[h]
            /\ UNCHANGED tableVars
        BY <1>3, <2>2, <3>2 DEF PhoneAlreadyRegistered, Return, Proceed, HandlerTypeOK
      <4>2. target[h] \in rowsShared /\ target[h] \in used
        BY <1>3, <2>2, <4>1 DEF RowInv, RouteInv, RouteAt, tableVars
      <4> QED BY <1>0, <1>3, <2>0, <2>2, <4>1, <4>2, RowStays
    <3>3. CASE ~GetEmployee(h) /\ ~PhoneAlreadyRegistered(h)
      <4>1. CASE Arrive(h)
        BY <1>3, <2>2, <4>1 DEF Arrive, Receive, Proceed, HandlerTypeOK
      <4>2. CASE CreateCognitoAdmin(h) \/ ImportFails(h)
        BY <1>3, <2>2, <4>2 DEF CreateCognitoAdmin, ImportFails, Return, Proceed, HandlerTypeOK
      <4>3. CASE RollbackQuery(h) \/ RollbackDelete(h) \/ RollbackSkips(h)
        BY <1>3, <2>2, <4>3 DEF RollbackQuery, RollbackDelete, RollbackSkips
      <4>4. CASE ImportBatch(h)
        <5>1. pc'[h] \in {"idle", "import"}
          BY <4>4, BatchFacts, ReturnFacts DEF Puts, Returned
        <5> QED BY <1>3, <2>2, <5>1
      <4>5. CASE Return(h)
        BY <1>3, <2>2, <4>5 DEF Return, Proceed, HandlerTypeOK
      <4> QED BY <3>3, <4>1, <4>2, <4>3, <4>4, <4>5
        DEF Step, PutEmployee, UpdateEmployee, DeleteEmployee, DeleteCognitoUser,
            RollbackEnds, HandlerBreaks
    <3> QED BY <3>1, <3>2, <3>3
  <2> QED BY <2>1, <2>2
<1> QED BY <1>1, <1>2, <1>3 DEF RowInv

-----------------------------------------------------------------------------
(* Numbers.                                                                  *)

(* h has found p free, and is on its way to write it.                        *)
Cleared(h, p) ==
  /\ p \in asked[h]
  /\ \/ pc[h] = "check" /\ p \notin left[h]
     \/ pc[h] \in {"cognito", "put", "update"}
     \/ pc[h] = "import" /\ p \in left[h]

(* The row h may find its own number in.                                     *)
Own(h, id) == op[h] = "PUT" /\ (id = target[h] \/ target[h] \notin Registered)

(* h has put p, and has not been told to take it back.                       *)
PutBy(h, p) ==
  /\ p \in asked[h]
  /\ \/ pc[h] = "import" /\ p \notin left[h]
     \/ pc[h] = "rollback" /\ p \in left[h]

(* A number is in two rows, or in a row though an invocation has found it    *)
(* free, or in another row than the one the import has put, only if it is    *)
(* the work of two.                                                          *)
PhoneInv ==
  /\ PhonesUnique
  /\ \A h \in Handlers, id \in Registered :
       /\ Cleared(h, phone[id]) => Own(h, id) \/ phone[id] \in phonesShared
       /\ PutBy(h, phone[id]) => id \in inserted[h] \ doomed[h] \/ phone[id] \in phonesShared

(* A registered row after the step is one from before, or has a number that  *)
(* h asked for.                                                              *)
LEMMA RegisteredRows ==
  ASSUME TableTypeOK, TableTypeOK', NEW h \in Handlers, Effects(h), NEW id \in Registered'
  PROVE  \/ id \in used /\ id \in Registered /\ phone'[id] = phone[id]
         \/ id \in used /\ id \in Registered /\ Updated(h, id)
         \/ id \notin used /\ Fresh(h, id)
<1>1. id \in used' BY DEF Registered, TableTypeOK
<1>2. CASE id \in used
  BY <1>2 DEF Effects, Kept, Removed, Retired, Updated, Registered
<1> QED BY <1>1, <1>2 DEF Effects

(* PhonesUnique holds after a step.                                          *)
LEMMA StepKeepsUnique ==
  ASSUME TableTypeOK, HandlerTypeOK, RouteInv, PhoneInv, NEW h \in Handlers, Effects(h), Share,
         TableTypeOK'
  PROVE  PhonesUnique'
<1> SUFFICES ASSUME NEW a \in Registered', NEW b \in Registered', phone'[a] = phone'[b], a # b
             PROVE  phone'[a] \in phonesShared'
  BY DEF PhonesUnique
<1> DEFINE p == phone'[a]
<1>0. p \in Phones /\ RouteAt(h) BY DEF Registered, TableTypeOK, RouteInv
<1>1. SUFFICES p \in phonesShared BY <1>0, NumberStays
<1>2. ASSUME NEW i \in Registered, NEW j \in Registered', i # j, phone[i] = p,
             (j \in used /\ Updated(h, j)) \/ (j \notin used /\ Fresh(h, j)), phone'[j] = p
      PROVE  p \in phonesShared
  <2>1. Cleared(h, p)
    BY <1>0, <1>2 DEF Cleared, Updated, Fresh
  <2>2. ~Own(h, i)
    <3>1. CASE j \in used /\ Updated(h, j)
      <4>1. j \in Registered BY <3>1 DEF Updated, Registered
      <4> QED BY <1>2, <3>1, <4>1 DEF Own, Updated
    <3>2. CASE Fresh(h, j) BY <1>0, <3>2 DEF Own, Fresh, RouteAt
    <3> QED BY <1>2, <3>1, <3>2
  <2> QED BY <1>2, <2>1, <2>2 DEF PhoneInv
<1>3. CASE a \in Registered /\ phone[a] = p
  BY <1>2, <1>3, RegisteredRows DEF PhoneInv, PhonesUnique
<1>4. CASE b \in Registered /\ phone[b] = p
  BY <1>2, <1>4, RegisteredRows DEF PhoneInv, PhonesUnique
<1>5. CASE ~(a \in Registered /\ phone[a] = p) /\ ~(b \in Registered /\ phone[b] = p)
  <2>1. Updated(h, a) \/ (a \notin used /\ Fresh(h, a)) BY <1>5, RegisteredRows
  <2>2. Updated(h, b) \/ (b \notin used /\ Fresh(h, b)) BY <1>5, RegisteredRows
  <2>3. a \in used' /\ b \in used' BY DEF Registered, TableTypeOK
  <2>4. CASE a \notin used /\ b \notin used BY <2>3, <2>4 DEF Effects
  <2>5. CASE Updated(h, a) BY <2>2, <2>5, RegisteredRows DEF Updated, Fresh, Returned
  <2>6. CASE Updated(h, b) BY <2>1, <2>6 DEF Updated, Fresh, Returned
  <2> QED BY <2>1, <2>2, <2>4, <2>5, <2>6
<1> QED BY <1>3, <1>4, <1>5

(* A row stays the one that a PUT may find its number in.                    *)
LEMMA OwnStays ==
  ASSUME TableTypeOK, TableTypeOK', RouteInv, NEW h \in Handlers, Effects(h), NEW g \in Handlers,
         NEW id, Own(g, id), op'[g] = op[g], target'[g] = target[g]
  PROVE  Own(g, id)'
<1>1. target[g] \in used BY DEF Own, RouteInv, RouteAt
<1>2. target[g] \in Registered' => target[g] \in Registered
  BY <1>1, RegisteredRows
<1> QED BY <1>2 DEF Own

(* What h has found free is in no row but its own.                           *)
LEMMA OwnCleared ==
  ASSUME TableTypeOK, HandlerTypeOK, RouteInv, PhoneInv, NEW h \in Handlers, Step(h), Effects(h),
         TableTypeOK', NEW id \in Registered, NEW p \in Phones, phone[id] = p, Cleared(h, p)'
  PROVE  Own(h, id)' \/ p \in phonesShared
<1>0. RouteAt(h) BY DEF RouteInv
<1>1. ASSUME Cleared(h, p), op'[h] = op[h], target'[h] = target[h]
      PROVE  Own(h, id)' \/ p \in phonesShared
  BY <1>1, OwnStays DEF PhoneInv
<1>2. CASE GetEmployee(h)
  <2>1. /\ pc[h] = "get" /\ target[h] \in rows \ deleted /\ op[h] = "PUT"
        /\ op'[h] = op[h] /\ target'[h] = target[h] /\ asked'[h] = asked[h]
        /\ left'[h] = left[h] \ {phone[target[h]]} /\ pc'[h] \in {"check", "update"}
        /\ pc'[h] = "update" => left'[h] = {}
    BY <1>0, <1>2 DEF GetEmployee, Cleared, Return, Proceed, HandlerTypeOK, RouteAt
  <2>2. p = phone[target[h]]
    BY <1>0, <2>1 DEF Cleared, RouteAt
  <2>3. Own(h, id) \/ p \in phonesShared
    BY <2>1, <2>2 DEF Own, PhoneInv, PhonesUnique
  <2> QED BY <2>1, <2>3, OwnStays
<1>3. CASE PhoneAlreadyRegistered(h)
  <2>1. PICK q \in left[h] :
          IF \E i \in Registered : phone[i] = q
          THEN Return(h)
          ELSE /\ IF left[h] = {q}
                  THEN /\ left' = [left EXCEPT ![h] = IF op[h] = "import" THEN asked[h] ELSE {}]
                       /\ Proceed(h, Checked(h))
                  ELSE left' = [left EXCEPT ![h] = @ \ {q}] /\ UNCHANGED pc
               /\ UNCHANGED <<op, target, asked, email, inserted, doomed>>
    BY <1>3 DEF PhoneAlreadyRegistered
  <2>2. ~Return(h)
    BY DEF Return, Cleared, HandlerTypeOK
  <2>3. q # p /\ UNCHANGED <<op, target, asked>> /\ pc[h] = "check"
    BY <1>3, <2>1, <2>2 DEF PhoneAlreadyRegistered
  <2>4. p \notin left[h]
    BY <2>1, <2>2, <2>3 DEF Cleared, HandlerTypeOK
  <2> QED BY <1>1, <2>3, <2>4 DEF Cleared
<1>4. CASE ImportBatch(h)
  <2>1. PICK batch \in SUBSET left[h], new \in SUBSET Ids : Puts(h, batch, new)
    BY <1>4, BatchFacts
  <2>2. ~Returned(h) BY DEF Returned, Cleared
  <2>3. /\ left'[h] = left[h] \ batch
        /\ UNCHANGED <<pc, op, target, asked>>
    BY <2>1, <2>2, ReturnFacts DEF Puts, HandlerTypeOK
  <2>4. pc[h] = "import" BY <1>4, BatchFacts
  <2> QED BY <1>1, <2>3, <2>4 DEF Cleared
<1>5. CASE CreateCognitoAdmin(h)
  <2>1. ~Return(h) BY DEF Return, Cleared, HandlerTypeOK
  <2> QED BY <1>1, <1>5, <2>1 DEF CreateCognitoAdmin, Cleared
<1>6. CASE Arrive(h)
  BY <1>6 DEF Arrive, Receive, Proceed, Cleared, HandlerTypeOK
<1>7. CASE ImportFails(h) \/ RollbackQuery(h) \/ RollbackDelete(h) \/ RollbackSkips(h)
  BY <1>7 DEF ImportFails, RollbackQuery, RollbackDelete, RollbackSkips, Proceed, Cleared,
              HandlerTypeOK
<1>8. CASE Return(h)
  BY <1>8 DEF Return, Cleared, HandlerTypeOK
<1> QED BY <1>2, <1>3, <1>4, <1>5, <1>6, <1>7, <1>8
  DEF Step, PutEmployee, UpdateEmployee, DeleteEmployee, DeleteCognitoUser, RollbackEnds,
      HandlerBreaks

(* What h has put, and has not been told to take back, is in the row of it.  *)
LEMMA OwnPut ==
  ASSUME TableTypeOK, HandlerTypeOK, RouteInv, PhoneInv, NEW h \in Handlers, Step(h),
         TableTypeOK', NEW id \in Registered, NEW p \in Phones, phone[id] = p, id \in Registered',
         PutBy(h, p)'
  PROVE  id \in inserted'[h] \ doomed'[h] \/ p \in phonesShared
<1>0. RouteAt(h) /\ id \in rows BY DEF RouteInv, Registered
<1>1. ASSUME PutBy(h, p) PROVE id \in inserted[h] \ doomed[h] \/ p \in phonesShared
  BY <1>1 DEF PhoneInv
<1>2. CASE ImportBatch(h)
  <2>1. PICK batch \in SUBSET left[h], new \in SUBSET Ids : Puts(h, batch, new)
    BY <1>2, BatchFacts
  <2>2. ~Returned(h) BY DEF Returned, PutBy
  <2>3. /\ left'[h] = left[h] \ batch /\ inserted'[h] = inserted[h] \cup new
        /\ UNCHANGED <<pc, op, target, asked, doomed>>
    BY <2>1, <2>2, ReturnFacts DEF Puts, HandlerTypeOK
  <2>4. pc[h] = "import" BY <1>2, BatchFacts
  <2>5. CASE p \in batch
    <3>1. Cleared(h, p) /\ ~Own(h, id)
      BY <1>0, <2>4, <2>5 DEF Cleared, Own, RouteAt
    <3> QED BY <3>1 DEF PhoneInv
  <2>6. CASE p \notin batch
    BY <1>1, <2>3, <2>4, <2>6 DEF PutBy
  <2> QED BY <2>5, <2>6
<1>3. CASE ImportFails(h)
  <2>1. PutBy(h, p) BY <1>0, <1>3 DEF ImportFails, PutBy, Proceed, HandlerTypeOK
  <2> QED BY <1>1, <1>3, <2>1 DEF ImportFails
<1>4. CASE RollbackQuery(h)
  <2>1. PICK q \in left[h] :
          /\ left' = [left EXCEPT ![h] = @ \ {q}]
          /\ doomed' = [doomed EXCEPT ![h] = {i \in rows : phone[i] = q}]
    BY <1>4 DEF RollbackQuery
  <2>2. p # q /\ PutBy(h, p) /\ inserted' = inserted
    BY <1>4, <2>1 DEF RollbackQuery, PutBy, HandlerTypeOK
  <2> QED BY <1>1, <2>1, <2>2 DEF HandlerTypeOK
<1>5. CASE RollbackDelete(h)
  BY <1>1, <1>5 DEF RollbackDelete, PutBy, HandlerTypeOK
<1>6. CASE RollbackSkips(h)
  <2>1. PutBy(h, p) BY <1>6 DEF RollbackSkips, PutBy, HandlerTypeOK
  <2> QED BY <1>1, <1>6, <2>1 DEF RollbackSkips, PutBy, HandlerTypeOK
<1>7. CASE PhoneAlreadyRegistered(h)
  <2>1. ~Return(h)
    BY DEF Return, PutBy, HandlerTypeOK
  <2>2. /\ pc[h] = "check"
        /\ pc'[h] # "check" => pc'[h] = Checked(h)
        /\ pc'[h] # "check" => left'[h] = IF op[h] = "import" THEN asked[h] ELSE {}
        /\ asked' = asked
    BY <1>7, <2>1 DEF PhoneAlreadyRegistered, Proceed, HandlerTypeOK
  <2>3. Checked(h) # "rollback" /\ (Checked(h) = "import" => op[h] = "import")
    <3>1. op[h] \in {"POST", "PUT", "import"} BY <1>0, <2>2 DEF RouteAt
    <3>2. CASE op[h] = "POST" BY <3>2 DEF Checked
    <3>3. CASE op[h] = "PUT" BY <3>3 DEF Checked
    <3>4. CASE op[h] = "import" BY <3>4 DEF Checked
    <3> QED BY <3>1, <3>2, <3>3, <3>4
  <2> QED BY <2>2, <2>3 DEF PutBy
<1>8. CASE Arrive(h) \/ GetEmployee(h) \/ CreateCognitoAdmin(h)
  BY <1>8 DEF Arrive, Receive, GetEmployee, CreateCognitoAdmin, Return, Proceed, PutBy, HandlerTypeOK
<1>9. CASE Return(h)
  BY <1>9 DEF Return, PutBy, HandlerTypeOK
<1> QED BY <1>2, <1>3, <1>4, <1>5, <1>6, <1>7, <1>8, <1>9
  DEF Step, PutEmployee, UpdateEmployee, DeleteEmployee, DeleteCognitoUser, RollbackEnds,
      HandlerBreaks

LEMMA StepKeepsPhoneInv ==
  ASSUME TableTypeOK, HandlerTypeOK, RouteInv, HeldInv, PhoneInv, NEW h \in Handlers, Step(h),
         Effects(h), Moved(h), Share, TableTypeOK'
  PROVE  PhoneInv'
<1> SUFFICES ASSUME NEW g \in Handlers, NEW id \in Registered', NEW p \in Phones, phone'[id] = p,
                    p \notin phonesShared'
             PROVE  /\ Cleared(g, p)' => Own(g, id)'
                    /\ PutBy(g, p)' => id \in inserted'[g] \ doomed'[g]
  BY StepKeepsUnique DEF PhoneInv, Registered, TableTypeOK
<1>1. p \in asked'[g] => p \notin phonesShared
  BY NumberStays
<1>2. CASE id \in Registered /\ phone[id] = p /\ g = h
  <2>1. Cleared(h, p)' => Own(h, id)'
    BY <1>1, <1>2, OwnCleared DEF Cleared
  <2>2. PutBy(h, p)' => id \in inserted'[h] \ doomed'[h]
    BY <1>1, <1>2, OwnPut DEF PutBy
  <2> QED BY <1>2, <2>1, <2>2
<1>3. CASE id \in Registered /\ phone[id] = p /\ g # h
  <2>1. Stands(g) BY <1>3 DEF Moved
  <2>2. Cleared(g, p)' => Own(g, id)'
    <3>1. Cleared(g, p)' => Cleared(g, p) BY <2>1 DEF Stands, Cleared
    <3>2. Cleared(g, p)' => Own(g, id) BY <1>1, <1>3, <3>1 DEF PhoneInv, Cleared
    <3> QED BY <2>1, <3>2, OwnStays DEF Stands
  <2>3. PutBy(g, p)' => id \in inserted'[g] \ doomed'[g]
    BY <1>1, <1>3, <2>1 DEF Stands, PutBy, PhoneInv
  <2> QED BY <2>2, <2>3
<1>4. CASE ~(id \in Registered /\ phone[id] = p)
  <2>1. (id \in used /\ Updated(h, id)) \/ (id \notin used /\ Fresh(h, id))
    BY <1>4, RegisteredRows
  <2>2. p \in asked[h] BY <2>1 DEF Updated, Fresh
  <2>3. CASE g # h
    <3>1. p \notin asked'[g]
      BY <1>1, <2>2, <2>3 DEF HeldInv, Moved, Stands
    <3> QED BY <3>1 DEF Cleared, PutBy
  <2>4. CASE g = h /\ Returned(h)
    BY <2>4 DEF Returned, Cleared, PutBy
  <2>5. CASE g = h /\ ~Returned(h)
    <3>1. id \notin used /\ pc[h] = "import" /\ p \in left[h] /\ p \notin left'[h] /\ id \in inserted'[h]
      BY <2>1, <2>5 DEF Updated, Fresh
    <3>2. ImportBatch(h) \/ ImportFails(h) \/ Returned(h)
      BY <3>1, ReturnFacts
         DEF Step, Arrive, Receive, GetEmployee, PhoneAlreadyRegistered, CreateCognitoAdmin,
             PutEmployee, UpdateEmployee, DeleteEmployee, DeleteCognitoUser, RollbackQuery,
             RollbackDelete, RollbackSkips, RollbackEnds, HandlerBreaks, tableVars
    <3>3. ~ImportFails(h)
      <4>1. id \in used' BY DEF Registered, TableTypeOK
      <4> QED BY <3>1, <4>1 DEF ImportFails, tableVars
    <3>4. pc'[h] = "import" /\ doomed'[h] = doomed[h]
      BY <2>5, <3>1, <3>2, <3>3, BatchFacts, ReturnFacts DEF Puts
    <3>5. id \notin doomed'[h]
      BY <3>1, <3>4 DEF HandlerTypeOK
    <3> QED BY <2>5, <3>1, <3>4, <3>5 DEF Cleared, PutBy
  <2> QED BY <2>3, <2>4, <2>5
<1> QED BY <1>2, <1>3, <1>4

-----------------------------------------------------------------------------
(* The rows of an import.                                                    *)

(* A rollback will find, by a number to come, what the import put; and what  *)
(* it has found, the import put.                                             *)
ImportInv ==
  \A h \in Handlers :
    /\ \A id \in (inserted[h] \cap rows) \ rowsShared :
         /\ pc[h] = "import" => phone[id] \in asked[h] \ left[h]
         /\ pc[h] = "rollback" => phone[id] \in left[h] \/ id \in doomed[h]
    /\ \A id \in (doomed[h] \cap rows) \ rowsShared :
         /\ phone[id] \in asked[h]
         /\ id \in inserted[h] \/ phone[id] \in phonesShared

(* The part of ImportInv about the rows h has put.                           *)
LEMMA OwnInserted ==
  ASSUME TableTypeOK, HandlerTypeOK, RouteInv, ImportInv, NEW h \in Handlers, Step(h), Effects(h),
         TableTypeOK', NEW id \in (inserted'[h] \cap rows') \ rowsShared',
         id \in inserted[h] => id \notin rowsShared
  PROVE  /\ pc'[h] = "import" => phone'[id] \in asked'[h] \ left'[h]
         /\ pc'[h] = "rollback" => phone'[id] \in left'[h] \/ id \in doomed'[h]
<1>0. RouteAt(h) BY DEF RouteInv
<1>1. CASE ImportBatch(h)
  <2>1. PICK batch \in SUBSET left[h], new \in SUBSET Ids : Puts(h, batch, new)
    BY <1>1, BatchFacts
  <2>2. pc[h] = "import" BY <1>1, BatchFacts
  <2>3. CASE Returned(h) BY <2>3 DEF Returned
  <2>4. CASE ~Returned(h)
    <3>1. /\ left'[h] = left[h] \ batch /\ inserted'[h] = inserted[h] \cup new
          /\ pc' = pc /\ asked' = asked
      BY <2>1, <2>4, ReturnFacts DEF Puts, HandlerTypeOK
    <3>2. CASE id \in new
      BY <1>0, <2>1, <2>2, <3>1, <3>2 DEF Puts, RouteAt
    <3>3. CASE id \notin new
      <4>1. id \in inserted[h] /\ id \in rows /\ phone'[id] = phone[id]
        BY <2>1, <3>1, <3>3 DEF Puts, HandlerTypeOK, TableTypeOK
      <4> QED BY <2>2, <3>1, <4>1 DEF ImportInv
    <3> QED BY <3>2, <3>3
  <2> QED BY <2>3, <2>4
<1>2. CASE ImportFails(h)
  BY <1>2 DEF ImportFails, ImportInv, Proceed, HandlerTypeOK, tableVars
<1>3. CASE RollbackQuery(h)
  <2>1. PICK q \in left[h] :
          /\ left' = [left EXCEPT ![h] = @ \ {q}]
          /\ doomed' = [doomed EXCEPT ![h] = {i \in rows : phone[i] = q}]
    BY <1>3 DEF RollbackQuery
  <2>2. /\ pc[h] = "rollback" /\ doomed[h] = {} /\ pc' = pc
        /\ left'[h] = left[h] \ {q} /\ doomed'[h] = {i \in rows : phone[i] = q}
        /\ inserted' = inserted /\ rows' = rows /\ phone' = phone
    BY <1>3, <2>1 DEF RollbackQuery, HandlerTypeOK, tableVars
  <2>3. phone[id] \in left[h]
    BY <2>2 DEF ImportInv
  <2> QED BY <2>2, <2>3
<1>4. CASE RollbackDelete(h)
  <2>1. PICK x \in doomed[h] :
          /\ rows' = rows \ {x} /\ phone' = [phone EXCEPT ![x] = NoPhone]
          /\ doomed' = [doomed EXCEPT ![h] = @ \ {x}]
    BY <1>4 DEF RollbackDelete
  <2>2. /\ id # x /\ id \in rows /\ phone'[id] = phone[id] /\ doomed'[h] = doomed[h] \ {x}
        /\ UNCHANGED <<pc, left, asked, inserted>> /\ pc[h] = "rollback"
    BY <1>4, <2>1 DEF RollbackDelete, TableTypeOK, HandlerTypeOK
  <2> QED BY <2>2 DEF ImportInv
<1>5. CASE RollbackSkips(h)
  <2>1. /\ UNCHANGED <<rows, phone, pc, asked>> /\ pc[h] = "rollback" /\ doomed'[h] = {}
        /\ inserted'[h] \subseteq inserted[h]
    BY <1>5 DEF RollbackSkips, HandlerTypeOK, tableVars
  <2>2. phone[id] \in left[h] \/ id \in doomed[h]
    BY <2>1 DEF ImportInv
  <2>3. CASE doomed[h] # {}
    BY <1>5, <2>1, <2>2, <2>3 DEF RollbackSkips, HandlerTypeOK
  <2>4. CASE doomed[h] = {}
    <3>1. PICK q \in left[h] :
            /\ left' = [left EXCEPT ![h] = @ \ {q}]
            /\ inserted' = [inserted EXCEPT ![h] = @ \ {i \in rows : phone[i] = q}]
      BY <1>5, <2>4 DEF RollbackSkips
    <3>2. left'[h] = left[h] \ {q} /\ inserted'[h] = inserted[h] \ {i \in rows : phone[i] = q}
      BY <3>1 DEF HandlerTypeOK
    <3> QED BY <2>1, <2>2, <2>4, <3>2
  <2> QED BY <2>3, <2>4
<1>6. CASE PhoneAlreadyRegistered(h)
  <2>1. inserted[h] = {} BY <1>0, <1>6 DEF PhoneAlreadyRegistered, RouteAt
  <2>2. inserted'[h] = {}
    BY <1>6, <2>1 DEF PhoneAlreadyRegistered, Return, HandlerTypeOK
  <2> QED BY <2>2
<1>7. CASE Arrive(h) \/ GetEmployee(h) \/ CreateCognitoAdmin(h)
  BY <1>7 DEF Arrive, Receive, GetEmployee, CreateCognitoAdmin, Return, Proceed, HandlerTypeOK
<1>8. CASE Return(h)
  BY <1>8 DEF Return, HandlerTypeOK
<1> QED BY <1>1, <1>2, <1>3, <1>4, <1>5, <1>6, <1>7, <1>8
  DEF Step, PutEmployee, UpdateEmployee, DeleteEmployee, DeleteCognitoUser, RollbackEnds,
      HandlerBreaks

(* The part of ImportInv about the rows h has found.                         *)
LEMMA OwnDoomed ==
  ASSUME TableTypeOK, HandlerTypeOK, RouteInv, RowInv, PhoneInv, ImportInv,
         NEW h \in Handlers, Step(h), Share,
         NEW id \in (doomed'[h] \cap rows') \ rowsShared', id \notin rowsShared
  PROVE  /\ phone'[id] \in asked'[h]
         /\ id \in inserted'[h] \/ phone'[id] \in phonesShared
<1>0. RouteAt(h) BY DEF RouteInv
<1>1. CASE RollbackQuery(h)
  <2>1. PICK q \in left[h] : doomed' = [doomed EXCEPT ![h] = {i \in rows : phone[i] = q}]
    BY <1>1 DEF RollbackQuery
  <2>2. /\ pc[h] = "rollback" /\ id \in rows /\ phone[id] = q /\ doomed[h] = {}
        /\ UNCHANGED <<phone, asked, inserted>>
    BY <1>1, <2>1 DEF RollbackQuery, HandlerTypeOK, tableVars
  <2>3. q \in asked[h] /\ q # NoPhone
    BY <1>0, NoPhoneAssumption DEF RouteAt, HandlerTypeOK
  <2>4. id \in Registered
    BY <2>2, <2>3 DEF Registered, RowInv
  <2>5. PutBy(h, phone[id])
    BY <2>2, <2>3 DEF PutBy
  <2> QED BY <2>2, <2>3, <2>4, <2>5 DEF PhoneInv
<1>2. CASE RollbackDelete(h)
  <2>1. PICK x \in doomed[h] :
          /\ rows' = rows \ {x} /\ phone' = [phone EXCEPT ![x] = NoPhone]
          /\ doomed' = [doomed EXCEPT ![h] = @ \ {x}]
    BY <1>2 DEF RollbackDelete
  <2>2. /\ id \in rows /\ phone'[id] = phone[id] /\ id \in doomed[h]
        /\ UNCHANGED <<asked, inserted>>
    BY <1>2, <2>1 DEF RollbackDelete, TableTypeOK, HandlerTypeOK
  <2> QED BY <2>2 DEF ImportInv
<1>3. CASE ImportBatch(h)
  <2>1. PICK batch \in SUBSET left[h], new \in SUBSET Ids : Puts(h, batch, new)
    BY <1>3, BatchFacts
  <2>2. ~Returned(h) BY DEF Returned
  <2>3. inserted'[h] = inserted[h] \cup new /\ UNCHANGED <<asked, doomed>>
    BY <2>1, <2>2, ReturnFacts DEF Puts, HandlerTypeOK
  <2>4. id \in rows /\ phone'[id] = phone[id]
    BY <2>1, <2>3 DEF Puts, HandlerTypeOK, TableTypeOK
  <2> QED BY <2>3, <2>4 DEF ImportInv
<1>4. CASE ImportFails(h)
  BY <1>4 DEF ImportFails, ImportInv, tableVars
<1>5. CASE RollbackSkips(h)
  BY <1>5 DEF RollbackSkips, HandlerTypeOK
<1>6. CASE Return(h)
  BY <1>6 DEF Return, HandlerTypeOK
<1>7. CASE PhoneAlreadyRegistered(h) \/ GetEmployee(h) \/ CreateCognitoAdmin(h) \/ Arrive(h)
  <2>1. pc[h] \notin {"import", "rollback"}
    BY <1>7 DEF PhoneAlreadyRegistered, GetEmployee, CreateCognitoAdmin, Arrive, Receive
  <2>2. doomed[h] = {} BY <1>0, <2>1 DEF RouteAt
  <2> QED BY <1>7, <2>2
    DEF PhoneAlreadyRegistered, GetEmployee, CreateCognitoAdmin, Arrive, Receive, Return,
        HandlerTypeOK
<1> QED BY <1>1, <1>2, <1>3, <1>4, <1>5, <1>6, <1>7
  DEF Step, PutEmployee, UpdateEmployee, DeleteEmployee, DeleteCognitoUser, RollbackEnds,
      HandlerBreaks

LEMMA StepKeepsImportInv ==
  ASSUME TableTypeOK, HandlerTypeOK, RouteInv, HeldInv, RowInv, PhoneInv, ImportInv,
         NEW h \in Handlers, Step(h), Effects(h), Moved(h), Share, TableTypeOK', HandlerTypeOK'
  PROVE  ImportInv'
<1> SUFFICES ASSUME NEW g \in Handlers, NEW id \in rows' \ rowsShared'
             PROVE  /\ id \in inserted'[g] =>
                         /\ pc'[g] = "import" => phone'[id] \in asked'[g] \ left'[g]
                         /\ pc'[g] = "rollback" => phone'[id] \in left'[g] \/ id \in doomed'[g]
                    /\ id \in doomed'[g] =>
                         /\ phone'[id] \in asked'[g]
                         /\ id \in inserted'[g] \/ phone'[id] \in phonesShared'
  BY DEF ImportInv
<1>1. id \in Ids BY DEF TableTypeOK
<1>2. id \in inserted'[g] \cup doomed'[g] => id \notin rowsShared
  BY <1>1, RowStays DEF HeldRows
<1>3. phone'[id] \in asked'[g] /\ phone'[id] \in phonesShared => phone'[id] \in phonesShared'
  BY NumberStays DEF HandlerTypeOK
<1>4. CASE g = h
  BY <1>2, <1>3, <1>4, OwnInserted, OwnDoomed
<1>5. CASE g # h
  <2>1. Stands(g) BY <1>5 DEF Moved
  <2>2. ASSUME id \in inserted'[g] \cup doomed'[g] PROVE Kept(id) /\ id \notin rowsShared
    <3>1. id \in used /\ id \in HeldRows(g)
      BY <2>1, <2>2 DEF Stands, HeldRows, HandlerTypeOK
    <3> QED BY <1>5, <3>1, OthersKeep
  <2> QED BY <1>3, <2>1, <2>2 DEF ImportInv, Stands, Kept
<1> QED BY <1>4, <1>5

-----------------------------------------------------------------------------

SharingInv == HeldInv /\ RowInv /\ PhoneInv /\ ImportInv

LEMMA InitSharing == Init => SharingInv
<1> SUFFICES ASSUME Init PROVE SharingInv OBVIOUS
<1>1. HeldInv BY NoIdAssumption DEF Init, HeldInv, HeldRows
<1>2. RowInv BY DEF Init, RowInv
<1>3. PhoneInv BY DEF Init, PhoneInv, PhonesUnique, Registered, Cleared, PutBy
<1>4. ImportInv BY DEF Init, ImportInv
<1> QED BY <1>1, <1>2, <1>3, <1>4 DEF SharingInv

(* Whatever two invocations had in hand at once is recorded, and all that    *)
(* goes wrong with a number or a row goes wrong there.                       *)
THEOREM SharingInvariant == EmployeeSpec => []SharingInv
<1>1. MasterInv /\ MasterInv' /\ SharingInv /\ [Next]_vars => SharingInv'
  <2> SUFFICES ASSUME MasterInv, MasterInv', SharingInv, [Next]_vars PROVE SharingInv' OBVIOUS
  <2>0. /\ TableTypeOK /\ HandlerTypeOK /\ RouteInv /\ HeldInv /\ RowInv /\ PhoneInv /\ ImportInv
        /\ TableTypeOK' /\ HandlerTypeOK'
    BY TypeParts DEF MasterInv, SharingInv, EmployeeTypeOK, TableTypeOK, HandlerTypeOK
  <2>1. CASE Next
    <3>1. PICK h \in Handlers : Step(h) BY <2>1 DEF Next
    <3>2. Share BY <2>1 DEF Next
    <3>3. Moved(h) /\ Effects(h) BY <2>0, <3>1, StepMoves, StepEffects
    <3>4. HeldInv' BY <2>0, <3>2, ShareGives
    <3>5. RowInv' BY <2>0, <3>1, <3>2, <3>3, StepKeepsRowInv
    <3>6. PhoneInv' BY <2>0, <3>1, <3>2, <3>3, StepKeepsPhoneInv
    <3>7. ImportInv' BY <2>0, <3>1, <3>2, <3>3, StepKeepsImportInv
    <3> QED BY <3>4, <3>5, <3>6, <3>7 DEF SharingInv
  <2>2. CASE UNCHANGED vars
    <3> USE <2>2 DEF vars, tableVars, handlerVars, historyVars
    <3>1. HeldInv' BY <2>0 DEF HeldInv, HeldRows
    <3>2. RowInv' BY <2>0 DEF RowInv
    <3>3. PhoneInv' BY <2>0 DEF PhoneInv, PhonesUnique, Registered, Cleared, PutBy, Own
    <3>4. ImportInv' BY <2>0 DEF ImportInv
    <3> QED BY <3>1, <3>2, <3>3, <3>4 DEF SharingInv
  <2> QED BY <2>1, <2>2
<1> QED BY <1>1, InitSharing, MasterInvariant, PTL DEF EmployeeSpec

(* Two employees come to have one number only if two invocations had it in   *)
(* hand at once: the scan of _phone_already_registered before the write is   *)
(* enough otherwise (PhonesUnique).                                          *)
THEOREM NumbersAreUnique == EmployeeSpec => []PhonesUnique
BY SharingInvariant, PTL DEF SharingInv, PhoneInv

(* The number that _delete_employee clears stays cleared, unless an update   *)
(* of the row was under way (RetiredRowsHaveNoPhone).                        *)
THEOREM RetiredNumbersAreGone == EmployeeSpec => []RetiredRowsHaveNoPhone
<1>1. SharingInv => RetiredRowsHaveNoPhone
  BY DEF SharingInv, RowInv, RetiredRowsHaveNoPhone
<1> QED BY <1>1, SharingInvariant, PTL

(* _rollback_inserted comes to every row of its import that is still there,  *)
(* in whatever order its queries and deletions succeed                       *)
(* (RollbackMissesNothing).                                                  *)
THEOREM RollbacksMissNothing == EmployeeSpec => []RollbackMissesNothing
<1>1. SharingInv => RollbackMissesNothing
  BY DEF SharingInv, ImportInv, RollbackMissesNothing
<1> QED BY <1>1, SharingInvariant, PTL

(* It finds rows by number, and yet deletes none but those the import put,   *)
(* where no other invocation had the row or the number too                   *)
(* (RollbackTakesItsOwn).                                                    *)
THEOREM RollbacksTakeTheirOwn == EmployeeSpec => RollbackTakesItsOwn
<1>1. MasterInv /\ SharingInv /\ [Next]_vars =>
        [\A id \in rows \ rows' :
           \/ id \in rowsShared \/ phone[id] \in phonesShared
           \/ \E h \in Handlers : pc[h] = "rollback" /\ id \in inserted[h]]_vars
  <2> SUFFICES ASSUME MasterInv, SharingInv, Next, NEW id \in rows \ rows'
               PROVE  \/ id \in rowsShared \/ phone[id] \in phonesShared
                      \/ \E h \in Handlers : pc[h] = "rollback" /\ id \in inserted[h]
    OBVIOUS
  <2>1. TableTypeOK /\ HandlerTypeOK /\ RouteInv BY TypeParts DEF MasterInv
  <2>2. PICK h \in Handlers : Step(h) BY DEF Next
  <2>3. Effects(h) BY <2>1, <2>2, StepEffects
  <2>4. Removed(h, id)
    <3>1. id \in used BY <2>1 DEF TableTypeOK
    <3>2. ~Retired(h, id)
      <4>1. TableTypeOK' BY <2>1, <2>2, StepTable DEF MasterInv
      <4> QED BY <4>1 DEF Retired, TableTypeOK
    <3> QED BY <2>3, <3>1, <3>2 DEF Effects, Kept, Updated
  <2> QED BY <2>4 DEF Removed, SharingInv, ImportInv
<1> QED BY <1>1, MasterInvariant, SharingInvariant, PTL DEF EmployeeSpec, RollbackTakesItsOwn

=============================================================================
