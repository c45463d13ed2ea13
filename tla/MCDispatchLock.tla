--------------------------- MODULE MCDispatchLock ---------------------------
(* Two workers of one host, so that the dead-pid rule applies between them. *)
EXTENDS DispatchLock, TLC
CONSTANTS local1, local2, laptop
MCHostOf2 == (local1 :> laptop) @@ (local2 :> laptop)
=============================================================================
