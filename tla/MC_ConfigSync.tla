---------------------------- MODULE MC_ConfigSync ----------------------------
(***************************************************************************)
(* Small instances of ConfigSync for TLC.                                   *)
(***************************************************************************)
EXTENDS ConfigSync, TLC

CONSTANTS A, B, p, q, v0, v1, v2

OneProcEach == (p :> A @@ q :> B)
BothOnA == (p :> A @@ q :> A)
OneProc == (p :> A)

\* The files the nodes start with; that of B may be broken.
BrokenFileOnB == (A :> v0 @@ B :> Bad)
OneFile == (A :> v0)
SameFiles == (A :> v0 @@ B :> v0)
===============================================================================
