---------------------------- MODULE MCSafeFileIO -----------------------------
(***************************************************************************)
(* Instances of SafeFileIO for TLC: the ways in which the objects of       *)
(* OpendTect are set up.                                                   *)
(***************************************************************************)
EXTENDS SafeFileIO

CONSTANTS w1, r1

Setup(locked, usebak, removebak, allowremove) ==
    [locked |-> locked, usebakwhenmissing |-> usebak,
     removebakonsuccess |-> removebak, allowlockremove |-> allowremove]

Unlocked == Setup(FALSE, TRUE, FALSE, TRUE)
Locked == Setup(TRUE, TRUE, FALSE, TRUE)

\* The defaults without the lock (settings, .omf files) and with it (posinfo2dsurv.cc,
\* hostdata.cc); readers without and writers with it (rockphysics.cc, stratlevel.cc);
\* EventPatchWriter.
UsedSettings ==
    {[p \in Procs |-> Unlocked],
     [p \in Procs |-> Locked],
     [p \in Procs |-> IF p \in Writers THEN Locked ELSE Unlocked],
     [p \in Procs |-> Setup(FALSE, FALSE, TRUE, TRUE)]}
=============================================================================
