-------------------------- MODULE MCAnonymization ---------------------------
(***************************************************************************)
(* An instance of Anonymization, and with it of InboundContact, for TLC.   *)
(***************************************************************************)
EXTENDS Anonymization, TLC

InboundSymmetry == Permutations(Contacts) \cup Permutations(Cycles)

=============================================================================
