----------------------------- MODULE MC_Ingest -----------------------------
(* Small instances of Ingest for TLC.                                       *)
EXTENDS Ingest, TLC
CONSTANTS A, B
===============================================================================
