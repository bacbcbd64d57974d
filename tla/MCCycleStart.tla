---------------------------- MODULE MCCycleStart ----------------------------
(***************************************************************************)
(* Instances of CycleStart for TLC, and the statements of the documents    *)
(* that the code does not keep.                                            *)
(***************************************************************************)
EXTENDS CycleStart, TLC

StartSymmetry == Permutations(Requests) \cup Permutations(Callers)

-----------------------------------------------------------------------------

(* design.md, Idempotency: a repeated request is answered with the same      *)
(* cycle, so that sending twice does not start twice.                        *)
SameKeyStartsOnce ==
  \A r, q \in Requests :
    key[r] = key[q] /\ key[r] # NoKey /\ exec[r] = "running" /\ exec[q] = "running" => r = q

(* Requirements 4.1 and 4.11: a cycle whose execution does not start is not  *)
(* left RUNNING once its request is over.                                    *)
RunningIsStarted ==
  \A r \in Requests :
    cycles[r].status = "RUNNING" /\ req[r].pc = "done" => exec[r] = "running"

(* Property 11: an inbound call of a registered employee is always given one *)
(* of the flows.                                                             *)
IdentifyAlwaysDecides == \A c \in Callers : caller[c].flow # "ValueError"

=============================================================================
