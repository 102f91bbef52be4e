---------------------- MODULE MCGarbageCollectionLoop ----------------------
(* Constants of GarbageCollectionLoop for TLC. *)
EXTENDS GarbageCollectionLoop

CONSTANTS c1, c2, c3

ThreeCallers == {c1, c2, c3}
=============================================================================
