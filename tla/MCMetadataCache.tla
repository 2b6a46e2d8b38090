-------------------------- MODULE MCMetadataCache --------------------------
(* Instances of MetadataCache for TLC. *)
EXTENDS MetadataCache

CONSTANTS r1, r2, r3, m1, m2
=============================================================================
