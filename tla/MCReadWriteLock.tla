--------------------------- MODULE MCReadWriteLock ---------------------------
(***************************************************************************)
(* Instances of ReadWriteLock for TLC: the ways in which the locks of      *)
(* OpendTect are used.                                                     *)
(***************************************************************************)
EXTENDS ReadWriteLock

CONSTANTS t1, t2, t3

\* Reading and writing with conversions, as array3dfloodfill.h and
\* vispolygonselection.cc do; permissive locking without readers; a Locker
\* that converts a write lock.
SoundUses == {{"read", "write", "upgrade", "downgrade"},
              {"write", "permissive"},
              {"write", "convert"}}

\* Lockers that read and then convert, beside Lockers that write, as the
\* setters of monitor.h and vistexturecoords.cc do.
ConvertUses == {{"read", "write", "convert"}}
=============================================================================
