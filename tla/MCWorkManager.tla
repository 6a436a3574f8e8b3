---------------------------- MODULE MCWorkManager ----------------------------
(***************************************************************************)
(* Instances of WorkManager for TLC.                                       *)
(***************************************************************************)
EXTENDS WorkManager

CONSTANTS w1, w2, u1, u2, wa, wb, wc

\* Every Work refers to an object of its own.
DistinctObjects == [w \in Works |-> w]

\* The works wa and wb refer to the same object.
SharedObject == [w \in Works |-> IF w = wb THEN wa ELSE w]

WorkerSymmetry == Permutations({w1, w2})
=============================================================================
