---------------------------- MODULE MCJobRunner ------------------------------
(***************************************************************************)
(* Instances of JobRunner for TLC.                                         *)
(***************************************************************************)
EXTENDS JobRunner

CONSTANTS h1, h2

HostSymmetry == Permutations({h1, h2})
=============================================================================
