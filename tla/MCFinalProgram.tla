--------------------------- MODULE MCFinalProgram ---------------------------
(* finalprogram.c for TLC.                                                   *)
EXTENDS FinalProgram
=============================================================================
