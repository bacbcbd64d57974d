-------------------------- MODULE MCEmployeeMaster --------------------------
(***************************************************************************)
(* An instance of EmployeeMaster for TLC, and a statement of the documents *)
(* that the code does not keep.                                            *)
(***************************************************************************)
EXTENDS EmployeeMaster, TLC

EmployeeSymmetry ==
  Permutations(Handlers) \cup Permutations(Ids) \cup Permutations(Phones)

-----------------------------------------------------------------------------

(* privacy.md, section 6.1, and _delete_cognito_user: the user of a retired  *)
(* administrator is removed after the row is marked deleted, by the          *)
(* cognitoSub in it.  The mark therefore leaves cognitoSub in place.         *)
RetiredAdminStaysLinked ==
  [][\A id \in deleted' \ deleted : link'[id] = link[id]]_vars

=============================================================================
