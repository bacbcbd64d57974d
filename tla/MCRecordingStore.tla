-------------------------- MODULE MCRecordingStore --------------------------
(***************************************************************************)
(* Instances of RecordingStore for TLC, and a statement of the             *)
(* requirements that the code does not keep.                               *)
(***************************************************************************)
EXTENDS RecordingStore, TLC

DeliverySymmetry == Permutations(Deliveries)

-----------------------------------------------------------------------------

(* Requirement 10.7: an administrator who asks for a recording is given a    *)
(* link through which it can be had.                                         *)
LinkOpensTheRecording ==
  \A s \in Seqs : store[s] # 0 =>
    \E t \in Seqs : store[t] = store[s] /\ CycleArtifactKey(s) = TargetOutboundKey(t)

=============================================================================
