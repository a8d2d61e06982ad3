---------------------------- MODULE MC_LineIndex ----------------------------
(* Small instances of LineIndex for TLC.                                     *)
EXTENDS LineIndex, TLC
CONSTANTS A, r1, r2
BothOnA == (r1 :> A @@ r2 :> A)
===============================================================================
