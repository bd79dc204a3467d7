-------------------------- MODULE MCMetadataStream --------------------------
(* Instances of MetadataStream for TLC. *)
EXTENDS MetadataStream, TLC

SessionSymmetry == Permutations(Sessions)
=============================================================================
