--------------------------- MODULE MCVnbMutations ---------------------------
(* One member of an active community, whose changes to the grid operator   *)
(* two requests record.                                                    *)
EXTENDS VnbMutations
=============================================================================
