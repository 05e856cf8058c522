------------------------------ MODULE MCGenRun ------------------------------
(***************************************************************************)
(* GenRun for TLC.  What a text says never matters beyond its being this   *)
(* one or another, so behaviours that differ by a renaming of Texts are    *)
(* one; no liveness is checked of this module.                             *)
(***************************************************************************)
EXTENDS GenRun, TLC

TextSymmetry == Permutations(Texts)
=============================================================================
