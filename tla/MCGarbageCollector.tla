------------------------ MODULE MCGarbageCollector -------------------------
(***************************************************************************)
(* Model checking of GarbageCollector, and the mutated definitions that    *)
(* its properties are shown to notice.                                     *)
(***************************************************************************)
EXTENDS GarbageCollector
=============================================================================
