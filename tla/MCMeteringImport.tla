------------------------- MODULE MCMeteringImport -------------------------
(* Deliveries that overlap: each covers its own slot and the one before.   *)
EXTENDS MeteringImport, TLC

MCSlots == 0..NumFiles
MCCovers == [f \in 1..NumFiles |-> {f - 1, f}]
===========================================================================
