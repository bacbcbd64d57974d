--------------------------- MODULE EmployeeMaster ---------------------------
(***************************************************************************)
(* The employee master: the writing routes of                              *)
(* lambdas/employee_api/handler.py over the Employee table and the Cognito *)
(* user pool, with field encryption on, as template.yaml sets it.          *)
(*                                                                         *)
(* No write of the handler has a condition.  A phone number is unique only *)
(* because each route scans for it before it writes, and the rollback of a *)
(* CSV import finds its rows again by their phone numbers.                 *)
(*                                                                         *)
(* Names and audit records are left out; the table fits one page of a      *)
(* scan, and a scan sees every write that came before it.                  *)
(***************************************************************************)
EXTENDS Naturals, FiniteSets

CONSTANTS
  Handlers,   \* EmployeeApi invocations that may run at the same time
  Ids,        \* the identifiers uuid4 may give (bound)
  Phones, NoPhone,
  Emails, NoUser,
  BatchSize,  \* TRANSACT_MAX_ITEMS
  NoId

ASSUME NoPhoneAssumption == NoPhone \notin Phones
ASSUME NoUserAssumption == NoUser \notin Emails
ASSUME NoIdAssumption == NoId \notin Ids

VARIABLES
  rows,      \* the identifiers that have a row
  deleted,   \* those with deleted = True
  ghosts,    \* those with no attribute deleted: an update wrote them anew
  phone,     \* per row: its number; "" is NoPhone
  link,      \* per row: the user cognitoSub names
  users,     \* the users of the pool
  used,      \* the identifiers given so far
  pc,        \* per handler: where it stands
  op,        \* per handler: its route
  target,    \* per handler: the {id} of the path
  asked,     \* per handler: the numbers it wants to write
  email,     \* per handler: adminEmail
  left,      \* per handler: the numbers still to check, to insert, to roll back
  inserted,  \* per handler: the rows its import has put
  doomed,    \* per handler: the rows its rollback has found and not deleted yet
  rowsShared,    \* history: rows two invocations had in hand at once, see Share
  phonesShared   \* history: numbers two invocations had in hand at once

tableVars == <<rows, deleted, ghosts, phone, link, users, used>>
handlerVars == <<pc, op, target, asked, email, left, inserted, doomed>>
historyVars == <<rowsShared, phonesShared>>
vars == <<tableVars, handlerVars, historyVars>>

Route == {"none", "POST", "PUT", "DELETE", "import", "cognito-user"}
HandlerState == {"idle", "get", "check", "cognito", "put", "update", "delete",
                 "import", "rollback", "user"}

(* The rows that read deleted = False: a ghost has no such attribute.        *)
Registered == rows \ (deleted \cup ghosts)

HeldRows(h) == {target[h]} \cup inserted[h] \cup doomed[h]

(* History: what two invocations have in hand after this step.  A row stays  *)
(* listed while it is in hand, a ghost, or deleted with a number; a number   *)
(* while it is in hand or in two rows.                                       *)
Share ==
  /\ rowsShared' =
       {id \in Ids :
          \/ \E g, h \in Handlers : g # h /\ id \in HeldRows(g)' \cap HeldRows(h)'
          \/ /\ id \in rowsShared
             /\ \/ \E h \in Handlers : id \in HeldRows(h)'
                \/ id \in ghosts'
                \/ id \in deleted' /\ phone'[id] # NoPhone}
  /\ phonesShared' =
       {p \in Phones :
          \/ \E g, h \in Handlers : g # h /\ p \in asked'[g] \cap asked'[h]
          \/ /\ p \in phonesShared
             /\ \/ \E h \in Handlers : p \in asked'[h]
                \/ \E a, b \in Registered' : a # b /\ phone'[a] = p /\ phone'[b] = p}

-----------------------------------------------------------------------------

(* A master with some employees in it, none of them an administrator.        *)
Init ==
  /\ rows \in SUBSET Ids
  /\ deleted = {} /\ ghosts = {}
  /\ phone \in [Ids -> Phones \cup {NoPhone}]
  /\ \A id \in Ids : phone[id] = NoPhone <=> id \notin rows
  /\ \A a, b \in rows : phone[a] = phone[b] => a = b
  /\ link = [id \in Ids |-> NoUser]
  /\ users = {}
  /\ used = rows
  /\ pc = [h \in Handlers |-> "idle"]
  /\ op = [h \in Handlers |-> "none"]
  /\ target = [h \in Handlers |-> NoId]
  /\ asked = [h \in Handlers |-> {}]
  /\ email = [h \in Handlers |-> NoUser]
  /\ left = [h \in Handlers |-> {}]
  /\ inserted = [h \in Handlers |-> {}]
  /\ doomed = [h \in Handlers |-> {}]
  /\ rowsShared = {} /\ phonesShared = {}

Proceed(h, state) == pc' = [pc EXCEPT ![h] = state]

(* The end of an invocation, whatever it answers.                            *)
Return(h) ==
  /\ Proceed(h, "idle")
  /\ op' = [op EXCEPT ![h] = "none"]
  /\ target' = [target EXCEPT ![h] = NoId]
  /\ asked' = [asked EXCEPT ![h] = {}]
  /\ email' = [email EXCEPT ![h] = NoUser]
  /\ left' = [left EXCEPT ![h] = {}]
  /\ inserted' = [inserted EXCEPT ![h] = {}]
  /\ doomed' = [doomed EXCEPT ![h] = {}]

Receive(h, route, id, numbers, address, state) ==
  /\ pc[h] = "idle"
  /\ op' = [op EXCEPT ![h] = route]
  /\ target' = [target EXCEPT ![h] = id]
  /\ asked' = [asked EXCEPT ![h] = numbers]
  /\ email' = [email EXCEPT ![h] = address]
  /\ left' = [left EXCEPT ![h] = numbers]
  /\ Proceed(h, state)
  /\ UNCHANGED <<tableVars, inserted, doomed>>

(* A file that is accepted has a row, and no number twice.                   *)
CsvFile == (SUBSET Phones) \ {{}}

(* A PUT without a number is one with the number it will find.               *)
Arrive(h) ==
  \/ \E p \in Phones, e \in Emails \cup {NoUser} : Receive(h, "POST", NoId, {p}, e, "check")
  \/ \E id \in rows, p \in Phones : Receive(h, "PUT", id, {p}, NoUser, "get")
  \/ \E id \in rows : Receive(h, "DELETE", id, {}, NoUser, "get")
  \/ \E id \in rows : Receive(h, "cognito-user", id, {}, NoUser, "user")
  \/ \E file \in CsvFile : Receive(h, "import", NoId, file, NoUser, "check")

(* Mutant: PUT does not look for another row.                                *)
GetEmployeeUnchecked(h) ==
  /\ pc[h] = "get"
  /\ IF target[h] \in rows \ deleted
     THEN /\ left' = [left EXCEPT ![h] = {}]
          /\ Proceed(h, IF op[h] = "PUT" THEN "update" ELSE "delete")
          /\ UNCHANGED <<op, target, asked, email, inserted, doomed>>
     ELSE Return(h)
  /\ UNCHANGED tableVars

(* 404 for a row that is absent or deleted.  PUT looks for another row with  *)
(* its number only if the number is not the one it finds.                    *)
GetEmployee(h) ==
  /\ pc[h] = "get"
  /\ IF target[h] \notin rows \ deleted
     THEN Return(h)
     ELSE /\ left' = [left EXCEPT ![h] = @ \ {phone[target[h]]}]
          /\ Proceed(h, IF op[h] = "DELETE" THEN "delete"
                        ELSE IF left'[h] = {} THEN "update" ELSE "check")
          /\ UNCHANGED <<op, target, asked, email, inserted, doomed>>
  /\ UNCHANGED tableVars

(* Where a route goes on once its numbers are found to be free.              *)
Checked(h) ==
  CASE op[h] = "import" -> "import"
    [] op[h] = "PUT"    -> "update"
    [] op[h] = "POST"   -> IF email[h] = NoUser THEN "put" ELSE "cognito"

(* Mutant: an import only looks at its first row.                            *)
PhoneAlreadyRegisteredOnce(h) ==
  /\ pc[h] = "check"
  /\ \E p \in left[h] :
       IF \E id \in Registered : phone[id] = p
       THEN Return(h)
       ELSE /\ left' = [left EXCEPT ![h] = IF op[h] = "import" THEN asked[h] ELSE {}]
            /\ Proceed(h, Checked(h))
            /\ UNCHANGED <<op, target, asked, email, inserted, doomed>>
  /\ UNCHANGED tableVars

(* One scan per number.  The first number that is taken decides on 409; the  *)
(* scans of an import that follow it change nothing.                         *)
PhoneAlreadyRegistered(h) ==
  /\ pc[h] = "check"
  /\ \E p \in left[h] :
       IF \E id \in Registered : phone[id] = p
       THEN Return(h)
       ELSE /\ IF left[h] = {p}
               THEN /\ left' = [left EXCEPT ![h] = IF op[h] = "import" THEN asked[h] ELSE {}]
                    /\ Proceed(h, Checked(h))
               ELSE left' = [left EXCEPT ![h] = @ \ {p}] /\ UNCHANGED pc
            /\ UNCHANGED <<op, target, asked, email, inserted, doomed>>
  /\ UNCHANGED tableVars

(* Mutant: a user that exists already is taken for the new one.              *)
CreateCognitoAdminOrReuse(h) ==
  /\ pc[h] = "cognito"
  /\ users' = users \cup {email[h]}
  /\ Proceed(h, "put")
  /\ UNCHANGED <<rows, deleted, ghosts, phone, link, used, op, target, asked, email, left,
                 inserted, doomed>>

(* The user first, then the row; UsernameExistsException is answered by 409. *)
CreateCognitoAdmin(h) ==
  /\ pc[h] = "cognito"
  /\ IF email[h] \in users
     THEN Return(h) /\ UNCHANGED users
     ELSE /\ users' = users \cup {email[h]}
          /\ Proceed(h, "put")
          /\ UNCHANGED <<op, target, asked, email, left, inserted, doomed>>
  /\ UNCHANGED <<rows, deleted, ghosts, phone, link, used>>

PutEmployee(h) ==
  /\ pc[h] = "put"
  /\ \E id \in Ids \ used, p \in asked[h] :
       /\ rows' = rows \cup {id}
       /\ used' = used \cup {id}
       /\ phone' = [phone EXCEPT ![id] = p]
       /\ link' = [link EXCEPT ![id] = email[h]]
  /\ Return(h)
  /\ UNCHANGED <<deleted, ghosts, users>>

(* update_item writes the number whether or not the row is still there, and  *)
(* leaves the attribute deleted as it is - absent, if the row was gone.      *)
UpdateEmployee(h) ==
  /\ pc[h] = "update"
  /\ rows' = rows \cup {target[h]}
  /\ ghosts' = IF target[h] \in rows THEN ghosts ELSE ghosts \cup {target[h]}
  /\ \E p \in asked[h] : phone' = [phone EXCEPT ![target[h]] = p]
  /\ Return(h)
  /\ UNCHANGED <<deleted, link, users, used>>

(* Mutant: the number stays in the retired row.                              *)
DeleteEmployeeKeepsPhone(h) ==
  /\ pc[h] = "delete"
  /\ rows' = rows \cup {target[h]}
  /\ deleted' = deleted \cup {target[h]}
  /\ ghosts' = ghosts \ {target[h]}
  /\ link' = [link EXCEPT ![target[h]] = NoUser]
  /\ Return(h)
  /\ UNCHANGED <<phone, users, used>>

(* SET deleted, clear the number, REMOVE cognitoSub.                         *)
DeleteEmployee(h) ==
  /\ pc[h] = "delete"
  /\ rows' = rows \cup {target[h]}
  /\ deleted' = deleted \cup {target[h]}
  /\ ghosts' = ghosts \ {target[h]}
  /\ phone' = [phone EXCEPT ![target[h]] = NoPhone]
  /\ link' = [link EXCEPT ![target[h]] = NoUser]
  /\ Return(h)
  /\ UNCHANGED <<users, used>>

(* Only for a deleted row that still names its user; the three accesses of   *)
(* this route are one step, for nothing else writes these attributes of a    *)
(* deleted row.                                                              *)
DeleteCognitoUser(h) ==
  /\ pc[h] = "user"
  /\ IF target[h] \in rows \cap deleted
     THEN /\ users' = users \ {link[target[h]]}
          /\ link' = [link EXCEPT ![target[h]] = NoUser]
     ELSE UNCHANGED <<users, link>>
  /\ Return(h)
  /\ UNCHANGED <<rows, deleted, ghosts, phone, used>>

-----------------------------------------------------------------------------
(* CSV import.                                                               *)

Injective(f) == \A a, b \in DOMAIN f : f[a] = f[b] => a = b

(* A transaction puts the next BatchSize rows of the file, all or none.      *)
ImportBatch(h) ==
  /\ pc[h] = "import"
  /\ \E batch \in SUBSET left[h] :
       /\ batch # {}
       /\ \/ Cardinality(batch) = BatchSize
          \/ batch = left[h] /\ Cardinality(batch) < BatchSize
       /\ \E id \in [batch -> Ids \ used] :
            LET new == {id[p] : p \in batch}
            IN  /\ Injective(id)
                /\ rows' = rows \cup new
                /\ used' = used \cup new
                /\ phone' = [i \in Ids |-> IF i \in new
                                           THEN CHOOSE p \in batch : id[p] = i
                                           ELSE phone[i]]
                /\ IF batch = left[h]
                   THEN Return(h)
                   ELSE /\ inserted' = [inserted EXCEPT ![h] = @ \cup new]
                        /\ left' = [left EXCEPT ![h] = @ \ batch]
                        /\ UNCHANGED <<pc, op, target, asked, email, doomed>>
  /\ UNCHANGED <<deleted, ghosts, link, users>>

(* Mutant: the rollback goes for the rows that were never put.               *)
ImportFailsForward(h) ==
  /\ pc[h] = "import"
  /\ Proceed(h, "rollback")
  /\ UNCHANGED <<tableVars, op, target, asked, email, left, inserted, doomed>>

(* A transaction fails: the rows of the batches before it are to go.         *)
ImportFails(h) ==
  /\ pc[h] = "import"
  /\ Proceed(h, "rollback")
  /\ left' = [left EXCEPT ![h] = asked[h] \ @]
  /\ UNCHANGED <<tableVars, op, target, asked, email, inserted, doomed>>

(* Every row with the number is found: deleted ones and ghosts too.          *)
RollbackQuery(h) ==
  /\ pc[h] = "rollback" /\ doomed[h] = {}
  /\ \E p \in left[h] :
       /\ left' = [left EXCEPT ![h] = @ \ {p}]
       /\ doomed' = [doomed EXCEPT ![h] = {id \in rows : phone[id] = p}]
  /\ UNCHANGED <<tableVars, pc, op, target, asked, email, inserted>>

(* Mutant: the row goes, its mark of deletion stays.                         *)
RollbackDeleteMarks(h) ==
  /\ pc[h] = "rollback"
  /\ \E id \in doomed[h] :
       /\ rows' = rows \ {id}
       /\ phone' = [phone EXCEPT ![id] = NoPhone]
       /\ link' = [link EXCEPT ![id] = NoUser]
       /\ doomed' = [doomed EXCEPT ![h] = @ \ {id}]
  /\ UNCHANGED <<deleted, ghosts, users, used, pc, op, target, asked, email, left, inserted>>

(* delete_item by identifier, whatever has become of the row since.          *)
RollbackDelete(h) ==
  /\ pc[h] = "rollback"
  /\ \E id \in doomed[h] :
       /\ rows' = rows \ {id}
       /\ deleted' = deleted \ {id}
       /\ ghosts' = ghosts \ {id}
       /\ phone' = [phone EXCEPT ![id] = NoPhone]
       /\ link' = [link EXCEPT ![id] = NoUser]
       /\ doomed' = [doomed EXCEPT ![h] = @ \ {id}]
  /\ UNCHANGED <<users, used, pc, op, target, asked, email, left, inserted>>

(* An error is logged, and the rollback goes on with the next number: what   *)
(* it has found of this one is given up.                                     *)
RollbackSkips(h) ==
  /\ pc[h] = "rollback"
  /\ \/ /\ doomed[h] # {}
        /\ inserted' = [inserted EXCEPT ![h] = @ \ doomed[h]]
        /\ UNCHANGED left
     \/ /\ doomed[h] = {}
        /\ \E p \in left[h] :
             /\ left' = [left EXCEPT ![h] = @ \ {p}]
             /\ inserted' = [inserted EXCEPT ![h] = @ \ {id \in rows : phone[id] = p}]
  /\ doomed' = [doomed EXCEPT ![h] = {}]
  /\ UNCHANGED <<tableVars, pc, op, target, asked, email>>

RollbackEnds(h) ==
  /\ pc[h] = "rollback" /\ left[h] = {} /\ doomed[h] = {}
  /\ Return(h)
  /\ UNCHANGED tableVars

(* An access fails with another error, or the Lambda ends.                   *)
HandlerBreaks(h) ==
  /\ pc[h] # "idle"
  /\ Return(h)
  /\ UNCHANGED tableVars

Step(h) ==
  \/ Arrive(h) \/ GetEmployee(h) \/ PhoneAlreadyRegistered(h) \/ CreateCognitoAdmin(h)
  \/ PutEmployee(h) \/ UpdateEmployee(h) \/ DeleteEmployee(h) \/ DeleteCognitoUser(h)
  \/ ImportBatch(h) \/ ImportFails(h)
  \/ RollbackQuery(h) \/ RollbackDelete(h) \/ RollbackSkips(h) \/ RollbackEnds(h)
  \/ HandlerBreaks(h)

Next == (\E h \in Handlers : Step(h)) /\ Share

EmployeeSpec == Init /\ [][Next]_vars

-----------------------------------------------------------------------------

(* Every variable has its type; only rows that exist are marked, and a row   *)
(* that is not deleted has a number.                                         *)
EmployeeTypeOK ==
  /\ used \subseteq Ids /\ rows \subseteq used
  /\ deleted \subseteq rows /\ ghosts \subseteq rows \ deleted
  /\ phone \in [Ids -> Phones \cup {NoPhone}]
  /\ \A id \in rows \ deleted : phone[id] \in Phones
  /\ link \in [Ids -> users \cup {NoUser}]
  /\ users \subseteq Emails
  /\ pc \in [Handlers -> HandlerState]
  /\ op \in [Handlers -> Route]
  /\ target \in [Handlers -> used \cup {NoId}]
  /\ asked \in [Handlers -> SUBSET Phones]
  /\ email \in [Handlers -> Emails \cup {NoUser}]
  /\ left \in [Handlers -> SUBSET Phones]
  /\ inserted \in [Handlers -> SUBSET used]
  /\ doomed \in [Handlers -> SUBSET used]
  /\ rowsShared \subseteq used /\ phonesShared \subseteq Phones

(* Two employees have one number only if two invocations had that number in  *)
(* hand at once: the scan before the write of each route, and of each row of *)
(* an import, is enough as long as they do not overlap (Requirement 2.3).    *)
PhonesUnique ==
  \A a, b \in Registered : phone[a] = phone[b] /\ a # b => phone[a] \in phonesShared

(* The number of a retired employee is gone for good, unless an update of    *)
(* the same row was under way (_delete_employee; Requirement 15.3).          *)
RetiredRowsHaveNoPhone ==
  \A id \in deleted \ rowsShared : phone[id] = NoPhone

(* A rollback will not miss a row of its import: every one that is still     *)
(* there is found by a number to come, unless another request had the row    *)
(* too or its deletion failed (_rollback_inserted; Requirement 3.7).         *)
RollbackMissesNothing ==
  \A h \in Handlers :
    pc[h] = "rollback" =>
      \A id \in (inserted[h] \cap rows) \ rowsShared :
        phone[id] \in left[h] \/ id \in doomed[h]

(* A user of the pool is linked from at most one row, whatever invocations   *)
(* overlap or break between the user and the row (_create_cognito_admin).    *)
OneRowPerUser ==
  \A a, b \in rows : link[a] = link[b] /\ link[a] # NoUser => a = b

(* A rollback deletes no row but those its import put, unless two            *)
(* invocations had the row or its number in hand at once.                    *)
RollbackTakesItsOwn ==
  [][\A id \in rows \ rows' :
       \/ id \in rowsShared \/ phone[id] \in phonesShared
       \/ \E h \in Handlers : pc[h] = "rollback" /\ id \in inserted[h]]_vars

=============================================================================
