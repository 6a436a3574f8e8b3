------------------------ MODULE ReadWriteLock_proofs ------------------------
(***************************************************************************)
(* A writer is alone, the permissive lock has one holder, and status_ and  *)
(* nrreaders_ say who has the lock, for any number of threads and calls    *)
(* and any mixture of operations, readers beside the permissive lock       *)
(* included, as long as none of two steps is taken that make the lock      *)
(* forget a holder.                                                        *)
(***************************************************************************)
EXTENDS ReadWriteLock, FiniteSetTheorems, TLAPS

\* The two steps that make the lock forget a holder are not taken: the last
\* reader does not leave while another thread has the permissive lock, which
\* resets status_ (thread.cc:545-547), and no Locker that has read-locked is
\* asked to convert, which returns true and converts nothing (thread.cc:168).
NobodyForgotten ==
    \A t \in Threads :
        /\ ReadUnLock(t) \/ ConvReadUnLock(t) =>
              (status = mPermissive => nrreaders > 1)
        /\ ConvertToWriteLock(t) => release[t] # "read"

\* A use of the lock that mixes no reading with the operations in which they
\* could be.
Sound(u) == \/ u \cap {"read", "downgrade"} = {}
            \/ u \cap {"permissive", "convert"} = {}

TypeInv ==
    /\ status \in {mUnLocked, mPermissive, mWriteLocked}
    /\ nrreaders \in Int
    /\ waiters \subseteq Threads
    /\ pc \in [Threads -> Pcs]
    /\ holds \in [Threads -> Modes]
    /\ release \in [Threads -> Modes]
    /\ calls \in [Threads -> 0 .. MaxCalls]
    /\ use \in Uses

\* A thread that has mode m, will unlock with r and is in call p: it unlocks in
\* the way it has locked, and uses only the operations in use.
Consistent(m, r, p) ==
    /\ m = "none" => r = "none"
    /\ m = "read" => r = "read" /\ use \cap {"read", "downgrade"} # {}
    /\ m = "write" => r \in {"write", "permissive"}
    /\ m = "permissive" => r = "permissive"
    /\ r = "permissive" => "permissive" \in use
    /\ p \in {"readLock", "writeLock", "permissiveWriteLock"} => m = "none"
    /\ p = "readLock" => "read" \in use
    /\ p = "permissiveWriteLock" => "permissive" \in use
    /\ p = "convReadUnLock" => m = "read" \/ (m = "write" /\ r = "write")
    /\ p = "convPermissiveToWriteLock" => m = "permissive"

ThreadInv == \A t \in Threads : Consistent(holds[t], release[t], pc[t])

OnePermissive ==
    \A t, u \in Threads : holds[t] = "permissive" /\ holds[u] = "permissive" => t = u

IInv ==
    /\ TypeInv
    /\ ThreadInv
    /\ OnePermissive
    /\ WriterIsAlone
    /\ LockKnowsHolders

Readers(h) == {t \in Threads : h[t] = "read"}

-----------------------------------------------------------------------------
(***************************************************************************)
(* The number of readers when one thread's mode changes.                   *)
(***************************************************************************)
LEMMA ReadersChange ==
    ASSUME NEW h \in [Threads -> Modes], NEW t \in Threads, NEW m \in Modes
    PROVE  Cardinality(Readers([h EXCEPT ![t] = m])) =
               Cardinality(Readers(h)) + (IF m = "read" THEN 1 ELSE 0)
                                       - (IF h[t] = "read" THEN 1 ELSE 0)
PROOF
<1> DEFINE g == [h EXCEPT ![t] = m]
<1>1. IsFiniteSet(Readers(h))
  BY ConstantAssumption, FS_Subset DEF ConstantAssumption, Readers
<1>2. Cardinality(Readers(h)) \in Nat
  BY <1>1, FS_CardinalityType
<1>3. ASSUME h[t] # "read", m = "read" PROVE Cardinality(Readers(g)) = Cardinality(Readers(h)) + 1
  <2>1. Readers(g) = Readers(h) \cup {t} /\ t \notin Readers(h)
    BY <1>3 DEF Readers
  <2> QED BY <1>1, <2>1, FS_AddElement
<1>4. ASSUME h[t] = "read", m # "read" PROVE Cardinality(Readers(g)) = Cardinality(Readers(h)) - 1
  <2>1. Readers(g) = Readers(h) \ {t} /\ t \in Readers(h)
    BY <1>4 DEF Readers
  <2> QED BY <1>1, <2>1, FS_RemoveElement
<1>5. ASSUME h[t] # "read", m # "read" PROVE Readers(g) = Readers(h)
  BY <1>5 DEF Readers
<1>6. ASSUME h[t] = "read", m = "read" PROVE Readers(g) = Readers(h)
  BY <1>6 DEF Readers
<1> QED BY <1>2, <1>3, <1>4, <1>5, <1>6

(***************************************************************************)
(* What the lock knows, in terms of the threads.                           *)
(***************************************************************************)
LEMMA KnowsReaders == LockKnowsHolders => nrreaders = Cardinality(Readers(holds))
PROOF BY DEF LockKnowsHolders, Holding, Readers

LEMMA TypeStep == TypeInv /\ [Next]_vars => TypeInv'
PROOF
<1> SUFFICES ASSUME TypeInv, [Next]_vars PROVE TypeInv'
  OBVIOUS
<1> USE DEF TypeInv, Modes, Pcs, mUnLocked, mPermissive, mWriteLocked
<1>1. CASE UNCHANGED vars
  BY <1>1 DEF vars
<1> SUFFICES ASSUME NEW t \in Threads, Locks(t) \/ Unlocks(t) PROVE TypeInv'
  BY <1>1 DEF Next
<1>c. ConstantAssumption
  BY ConstantAssumption
<1>2. ASSUME NEW op, NEW held, Begins(t, op, held) PROVE calls' \in [Threads -> 0 .. MaxCalls]
  BY <1>2, <1>c DEF Begins, ConstantAssumption
<1>3. ASSUME LeaveAsReader PROVE nrreaders' \in Int /\ waiters' \subseteq Threads
                                 /\ status' \in {mUnLocked, mPermissive, mWriteLocked}
  BY <1>3 DEF LeaveAsReader, ReadersLeft, SignalOne
<1>4. CASE ReadLock(t)
  BY <1>4, <1>2 DEF ReadLock, Retries, Wait, Granted, Return
<1>5. CASE WriteLock(t)
  BY <1>5, <1>2 DEF WriteLock, Retries, Wait, Granted, Return
<1>6. ASSUME ConvReadToWriteLock(t), calls' \in [Threads -> 0 .. MaxCalls], use' = use
      PROVE  TypeInv'
  BY <1>6 DEF ConvReadToWriteLock, ReadersAfterConv, Granted, Return
<1>7. CASE Upgrade(t)
  BY <1>7, <1>6, <1>2 DEF Upgrade
<1>8. CASE ConvReadUnLock(t)
  BY <1>8, <1>3 DEF ConvReadUnLock
<1>9. CASE ConvWriteToReadLock(t)
  BY <1>9 DEF ConvWriteToReadLock, SignalAll, Granted, Return
<1>10. CASE ConvertToWriteLock(t)
  BY <1>10, <1>6, <1>2 DEF ConvertToWriteLock, Return
<1>11. CASE PermissiveWriteLock(t)
  BY <1>11, <1>2 DEF PermissiveWriteLock, Retries, Wait, Granted, Return
<1>12. CASE ConvPermissiveToWriteLock(t)
  BY <1>12, <1>2 DEF ConvPermissiveToWriteLock, Retries, Wait, Return
<1>13. CASE ReadUnLock(t)
  BY <1>13, <1>3 DEF ReadUnLock, Granted, Return
<1>14. CASE WriteUnLock(t)
  BY <1>14 DEF WriteUnLock, SignalAll, Granted, Return
<1>15. CASE PermissiveWriteUnLock(t)
  BY <1>15 DEF PermissiveWriteUnLock, Granted, Return
<1>16. CASE ConvWriteToPermissive(t)
  BY <1>16 DEF ConvWriteToPermissive, SignalAll, Return
<1> QED
  BY <1>4, <1>5, <1>7, <1>8, <1>9, <1>10, <1>11, <1>12, <1>13, <1>14, <1>15, <1>16
     DEF Locks, Unlocks

-----------------------------------------------------------------------------
\* Another thread than t has the lock in mode m.
Others(t, m) == \E u \in Threads \ {t} : holds[u] = m

\* Thread t goes to mode m, is to unlock with r and is in call p, and the lock takes
\* note of that.
Move(t, m, r, p) ==
    /\ UNCHANGED use
    /\ holds' = [holds EXCEPT ![t] = m]
    /\ release' = [release EXCEPT ![t] = r]
    /\ pc' = [pc EXCEPT ![t] = p]
    /\ Consistent(m, r, p)
    /\ m # "none" => ~Others(t, "write")
    /\ m = "write" => ~Others(t, "read") /\ ~Others(t, "permissive")
    /\ m = "permissive" => ~Others(t, "permissive")
    /\ status' = mWriteLocked <=> m = "write" \/ Others(t, "write")
    /\ status' = mPermissive <=> m = "permissive" \/ Others(t, "permissive")
    /\ nrreaders' = nrreaders + (IF m = "read" THEN 1 ELSE 0)
                              - (IF holds[t] = "read" THEN 1 ELSE 0)

(***************************************************************************)
(* Such a move keeps the invariant.                                        *)
(***************************************************************************)
LEMMA MoveKeepsInv ==
    ASSUME IInv, TypeInv',
           NEW t \in Threads, NEW m \in Modes, NEW r \in Modes, NEW p \in Pcs,
           Move(t, m, r, p)
    PROVE  IInv'
PROOF
<1>0. TypeInv /\ holds \in [Threads -> Modes]
  BY DEF IInv, TypeInv
<1>1. ThreadInv'
  <2>1. ASSUME NEW u \in Threads PROVE Consistent(holds'[u], release'[u], pc'[u])
    BY <1>0 DEF IInv, TypeInv, ThreadInv, Move
  <2> QED BY <2>1 DEF ThreadInv, Consistent, Move
<1>2. OnePermissive'
  BY <1>0 DEF IInv, OnePermissive, Others, Move
<1>3. WriterIsAlone'
  <2> SUFFICES ASSUME NEW u \in Threads, NEW v \in Threads, holds'[u] = "write", v # u
               PROVE  holds'[v] = "none"
    BY DEF WriterIsAlone, Holding
  <2>1. CASE u = t
    BY <1>0, <2>1 DEF Others, Modes, Move
  <2>2. CASE u # t
    BY <1>0, <2>2 DEF Others, IInv, WriterIsAlone, Holding, Move
  <2> QED BY <2>1, <2>2
<1>4. LockKnowsHolders'
  <2>1. nrreaders = Cardinality(Readers(holds))
    BY KnowsReaders DEF IInv
  <2>2. nrreaders' = Cardinality(Readers(holds'))
    <3>1. Cardinality(Readers([holds EXCEPT ![t] = m])) =
               Cardinality(Readers(holds)) + (IF m = "read" THEN 1 ELSE 0)
                                           - (IF holds[t] = "read" THEN 1 ELSE 0)
      BY <1>0, ReadersChange
    <3> QED BY <2>1, <3>1 DEF Move
  <2>3. nrreaders' = Cardinality({u \in Threads : holds'[u] = "read"})
    BY <2>2 DEF Readers
  <2>4. ASSUME NEW k \in Modes
        PROVE  (\E u \in Threads : holds'[u] = k) <=> m = k \/ Others(t, k)
    BY <1>0 DEF Others, Move
  <2> QED BY <2>3, <2>4 DEF LockKnowsHolders, Holding, Modes, Move
<1> QED BY <1>1, <1>2, <1>3, <1>4 DEF IInv

-----------------------------------------------------------------------------
(***************************************************************************)
(* What the invariant says of the other threads, given what the lock says. *)
(***************************************************************************)
LEMMA LockSays ==
    ASSUME IInv, NEW t \in Threads
    PROVE  /\ status # mWriteLocked => holds[t] # "write" /\ ~Others(t, "write")
           /\ status # mPermissive => holds[t] # "permissive" /\ ~Others(t, "permissive")
           /\ status = mPermissive => holds[t] = "permissive" \/ Others(t, "permissive")
           /\ nrreaders \in Nat
           /\ nrreaders = 0 => holds[t] # "read" /\ ~Others(t, "read")
           /\ nrreaders = 1 /\ holds[t] = "read" => ~Others(t, "read")
           /\ holds[t] = "write" =>
                 /\ status = mWriteLocked
                 /\ nrreaders = 0
                 /\ \A m \in Modes \ {"none"} : ~Others(t, m)
           /\ holds[t] = "read" => /\ status # mWriteLocked
                                   /\ nrreaders > 0
                                   /\ ~Others(t, "write")
           /\ holds[t] = "permissive" => /\ status = mPermissive
                                         /\ ~Others(t, "permissive")
                                         /\ ~Others(t, "write")
PROOF
<1> DEFINE R == {u \in Threads : holds[u] = "read"}
<1>1. IsFiniteSet(R)
  BY ConstantAssumption, FS_Subset DEF ConstantAssumption
<1>2. nrreaders = Cardinality(R) /\ nrreaders \in Nat
  BY <1>1, FS_CardinalityType DEF IInv, LockKnowsHolders, Holding
<1>3. nrreaders = 0 <=> R = {}
  BY <1>1, <1>2, FS_EmptySet
<1>4. ASSUME nrreaders = 1, holds[t] = "read" PROVE ~Others(t, "read")
  <2>1. t \in R /\ Cardinality(R \ {t}) = Cardinality(R) - 1 /\ IsFiniteSet(R \ {t})
    BY <1>1, <1>4, FS_RemoveElement
  <2>2. R \ {t} = {}
    BY <2>1, <1>2, <1>4, FS_EmptySet
  <2> QED BY <2>2 DEF Others
<1>5. /\ status # mWriteLocked => holds[t] # "write" /\ ~Others(t, "write")
      /\ status # mPermissive => holds[t] # "permissive" /\ ~Others(t, "permissive")
      /\ status = mPermissive => holds[t] = "permissive" \/ Others(t, "permissive")
      /\ holds[t] = "write" => status = mWriteLocked
      /\ holds[t] = "permissive" => status = mPermissive
  BY DEF IInv, LockKnowsHolders, Holding, Others
<1>6. nrreaders = 0 => holds[t] # "read" /\ ~Others(t, "read")
  BY <1>3 DEF Others
<1>7. ASSUME holds[t] = "write" PROVE nrreaders = 0 /\ \A m \in Modes \ {"none"} : ~Others(t, m)
  <2>1. \A u \in Threads : u # t => holds[u] = "none"
    BY <1>7 DEF IInv, WriterIsAlone, Holding
  <2>2. R = {}
    BY <2>1, <1>7
  <2> QED BY <2>1, <2>2, <1>3 DEF Others
<1>8. ASSUME holds[t] = "read"
      PROVE  /\ status # mWriteLocked
             /\ nrreaders > 0
             /\ ~Others(t, "write")
  <2>1. \A u \in Threads : holds[u] # "write"
    BY <1>8 DEF IInv, WriterIsAlone, Holding
  <2>2. status # mWriteLocked
    BY <2>1 DEF IInv, LockKnowsHolders, Holding
  <2>3. nrreaders > 0
    BY <1>2, <1>3, <1>8
  <2> QED BY <2>1, <2>2, <2>3 DEF Others
<1>9. holds[t] = "permissive" => ~Others(t, "permissive")
  BY DEF IInv, OnePermissive, Others
<1>10. holds[t] = "permissive" => ~Others(t, "write")
  BY <1>5 DEF mPermissive, mWriteLocked
<1> QED BY <1>2, <1>4, <1>5, <1>6, <1>7, <1>8, <1>9, <1>10

(***************************************************************************)
(* The invariant is kept when one thread only goes on in its call.         *)
(***************************************************************************)
LEMMA CallKeepsInv ==
    ASSUME IInv, TypeInv', UNCHANGED <<status, nrreaders, holds, release, use>>,
           NEW t \in Threads, NEW p \in Pcs,
           pc' = [pc EXCEPT ![t] = p],
           Consistent(holds[t], release[t], p)
    PROVE  IInv'
PROOF
<1>1. ASSUME NEW u \in Threads PROVE Consistent(holds[u], release[u], pc'[u])
  BY DEF IInv, ThreadInv, TypeInv
<1>2. ThreadInv'
  BY <1>1 DEF ThreadInv, Consistent
<1>3. (OnePermissive /\ WriterIsAlone /\ LockKnowsHolders)'
  BY DEF IInv, OnePermissive, WriterIsAlone, LockKnowsHolders, Holding
<1> QED BY <1>2, <1>3 DEF IInv

-----------------------------------------------------------------------------
LEMMA WaitKeepsInv ==
    ASSUME IInv, TypeInv', UNCHANGED use, NEW t \in Threads, NEW call \in Pcs,
           Wait(t, call), Consistent(holds[t], release[t], call)
    PROVE  IInv'
PROOF BY CallKeepsInv DEF Wait

LEMMA ReadLockInv ==
    ASSUME IInv, TypeInv', NEW t \in Threads, ReadLock(t)
    PROVE  IInv'
PROOF
<1>1. /\ holds[t] = "none"
      /\ Consistent("none", "none", "readLock")
      /\ Consistent("read", "read", "none")
      /\ release[t] = "none"
  BY DEF IInv, ThreadInv, Consistent, ReadLock, Begins, Retries
<1>2. CASE Wait(t, "readLock")
  BY <1>1, <1>2, WaitKeepsInv DEF ReadLock, Pcs
<1>3. CASE /\ MayRead
           /\ nrreaders' = nrreaders + 1
           /\ Granted(t, "read")
           /\ UNCHANGED <<status, waiters>>
  <2>1. /\ ~Others(t, "write") /\ nrreaders \in Nat
        /\ status # mWriteLocked
        /\ status = mPermissive <=> Others(t, "permissive")
    BY <1>1, <1>3, LockSays DEF MayRead
  <2>9. Move(t, "read", "read", "none")
    BY <1>1, <1>3, <2>1 DEF ReadLock, Granted, Return, Move
  <2> QED BY <2>9, MoveKeepsInv DEF Pcs, Modes
<1> QED BY <1>2, <1>3 DEF ReadLock

LEMMA WriteLockInv ==
    ASSUME IInv, TypeInv', NEW t \in Threads, WriteLock(t)
    PROVE  IInv'
PROOF
<1>1. /\ holds[t] = "none"
      /\ Consistent("none", "none", "writeLock")
      /\ Consistent("write", "write", "none")
      /\ release[t] = "none"
  BY DEF IInv, ThreadInv, Consistent, WriteLock, Begins, Retries
<1>2. CASE Wait(t, "writeLock")
  BY <1>1, <1>2, WaitKeepsInv DEF WriteLock, Pcs
<1>3. CASE /\ MayWrite
           /\ status' = mWriteLocked
           /\ Granted(t, "write")
           /\ UNCHANGED <<nrreaders, waiters>>
  <2>1. /\ ~Others(t, "write") /\ ~Others(t, "permissive") /\ ~Others(t, "read")
        /\ nrreaders \in Nat
    BY <1>3, LockSays DEF MayWrite, mUnLocked, mWriteLocked, mPermissive
  <2>9. Move(t, "write", "write", "none")
    BY <1>1, <1>3, <2>1
       DEF WriteLock, Granted, Return, mWriteLocked, mPermissive, Move
  <2> QED BY <2>9, MoveKeepsInv DEF Pcs, Modes
<1> QED BY <1>2, <1>3 DEF WriteLock

LEMMA ConvInv ==
    ASSUME IInv, TypeInv', UNCHANGED use, NEW t \in Threads, ConvReadToWriteLock(t),
           holds[t] = "read" \/ (holds[t] = "write" /\ release[t] = "write")
    PROVE  IInv'
PROOF
<1>1. CASE status = mUnLocked /\ nrreaders = 1
  <2>1. holds[t] = "read" /\ ~Others(t, "read")
    BY <1>1, LockSays
  <2>2. ~Others(t, "write") /\ ~Others(t, "permissive")
    BY <1>1, <2>1, LockSays DEF mUnLocked, mPermissive
  <2>3. Consistent("write", "write", "none")
    BY DEF Consistent
  <2>9. Move(t, "write", "write", "none")
    BY <1>1, <2>1, <2>2, <2>3
       DEF ConvReadToWriteLock, ReadersAfterConv, Granted, Return, 
           mWriteLocked, mPermissive, Move
  <2> QED BY <2>9, MoveKeepsInv DEF Pcs, Modes
<1>2. CASE ~(status = mUnLocked /\ nrreaders = 1)
  <2>1. Consistent(holds[t], release[t], "convReadUnLock")
    BY DEF IInv, ThreadInv, Consistent
  <2> QED BY <1>2, <2>1, CallKeepsInv DEF ConvReadToWriteLock, Pcs
<1> QED BY <1>1, <1>2

LEMMA UpgradeInv ==
    ASSUME IInv, TypeInv', NEW t \in Threads, Upgrade(t)
    PROVE  IInv'
PROOF BY ConvInv DEF Upgrade, Begins

LEMMA ConvertInv ==
    ASSUME IInv, TypeInv', NEW t \in Threads, ConvertToWriteLock(t), release[t] # "read"
    PROVE  IInv'
PROOF
<1>1. release[t] = "write" /\ ConvReadToWriteLock(t) /\ UNCHANGED use
  BY DEF ConvertToWriteLock
<1>2. holds[t] = "write"
  BY <1>1 DEF IInv, TypeInv, Modes, ThreadInv, Consistent
<1> QED BY <1>1, <1>2, ConvInv

\* LeaveAsReader gives up the read lock, or the write lock if that is held.
\* Beside the permissive lock another reader is left.
LEMMA LeaveInv ==
    ASSUME IInv, TypeInv', UNCHANGED use, NEW t \in Threads, LeaveAsReader,
           NEW p \in {"none", "writeLock"},
           holds' = [holds EXCEPT ![t] = "none"],
           release' = [release EXCEPT ![t] = "none"],
           pc' = [pc EXCEPT ![t] = p],
           holds[t] = "read" \/ holds[t] = "write",
           status = mPermissive => nrreaders > 1
    PROVE  IInv'
PROOF
<1>1. Consistent("none", "none", p)
  BY DEF Consistent
<1>2. CASE holds[t] = "read"
  <2>1. /\ status \in {mUnLocked, mPermissive}
        /\ nrreaders > 0 /\ nrreaders \in Nat
        /\ ~Others(t, "write")
        /\ status = mPermissive <=> Others(t, "permissive")
    BY <1>2, LockSays DEF IInv, TypeInv
  <2>2. status' = status /\ nrreaders' = nrreaders - 1
    BY <2>1 DEF LeaveAsReader, ReadersLeft, mUnLocked, mWriteLocked, mPermissive
  <2>9. Move(t, "none", "none", p)
    BY <1>1, <1>2, <2>1, <2>2
       DEF mUnLocked, mWriteLocked, mPermissive, Move
  <2> QED BY <2>9, MoveKeepsInv DEF Pcs, Modes
<1>3. CASE holds[t] = "write"
  <2>1. status = mWriteLocked /\ nrreaders = 0
        /\ ~Others(t, "write") /\ ~Others(t, "permissive")
    BY <1>3, LockSays DEF Modes
  <2>2. status' = mUnLocked /\ nrreaders' = 0
    BY <2>1 DEF LeaveAsReader, ReadersLeft
  <2>9. Move(t, "none", "none", p)
    BY <1>1, <1>3, <2>1, <2>2
       DEF mUnLocked, mWriteLocked, mPermissive, Move
  <2> QED BY <2>9, MoveKeepsInv DEF Pcs, Modes
<1> QED BY <1>2, <1>3

LEMMA ReadUnLockInv ==
    ASSUME IInv, TypeInv', NobodyForgotten, NEW t \in Threads, ReadUnLock(t)
    PROVE  IInv'
PROOF
<1>1. holds[t] = "read"
  BY DEF IInv, TypeInv, Modes, ThreadInv, Consistent, ReadUnLock
<1>2. status = mPermissive => nrreaders > 1
  BY DEF NobodyForgotten
<1> QED BY <1>1, <1>2, LeaveInv DEF ReadUnLock, Granted, Return

LEMMA ConvReadUnLockInv ==
    ASSUME IInv, TypeInv', NobodyForgotten, NEW t \in Threads, ConvReadUnLock(t)
    PROVE  IInv'
PROOF
<1>1. holds[t] = "read" \/ holds[t] = "write"
  BY DEF IInv, ThreadInv, Consistent, ConvReadUnLock
<1>2. status = mPermissive => nrreaders > 1
  BY DEF NobodyForgotten
<1> QED BY <1>1, <1>2, LeaveInv DEF ConvReadUnLock

LEMMA WriteUnLockInv ==
    ASSUME IInv, TypeInv', NEW t \in Threads, WriteUnLock(t)
    PROVE  IInv'
PROOF
<1>1. holds[t] = "write"
  BY DEF IInv, TypeInv, Modes, ThreadInv, Consistent, WriteUnLock
<1>2. status = mWriteLocked /\ nrreaders = 0
      /\ ~Others(t, "write") /\ ~Others(t, "permissive")
  BY <1>1, LockSays DEF Modes
<1>3. Consistent("none", "none", "none")
  BY DEF Consistent
<1>9. Move(t, "none", "none", "none")
  BY <1>1, <1>2, <1>3
     DEF WriteUnLock, Granted, Return, mUnLocked, mWriteLocked, mPermissive, Move
<1> QED BY <1>9, MoveKeepsInv DEF Pcs, Modes

LEMMA DowngradeInv ==
    ASSUME IInv, TypeInv', NEW t \in Threads, ConvWriteToReadLock(t)
    PROVE  IInv'
PROOF
<1>1. holds[t] = "write" /\ nrreaders = 0
      /\ ~Others(t, "write") /\ ~Others(t, "permissive")
  BY LockSays DEF ConvWriteToReadLock, Modes
<1>2. Consistent("read", "read", "none")
  BY DEF Consistent, ConvWriteToReadLock
<1>9. Move(t, "read", "read", "none")
  BY <1>1, <1>2
     DEF ConvWriteToReadLock, Granted, Return, mUnLocked, mWriteLocked,
         mPermissive, Move
<1> QED BY <1>9, MoveKeepsInv DEF Pcs, Modes

-----------------------------------------------------------------------------
LEMMA PermissiveWriteLockInv ==
    ASSUME IInv, TypeInv', NEW t \in Threads, PermissiveWriteLock(t)
    PROVE  IInv'
PROOF
<1>1. /\ holds[t] = "none"
      /\ Consistent("none", "none", "permissiveWriteLock")
      /\ Consistent("permissive", "permissive", "none")
      /\ release[t] = "none"
  BY DEF IInv, ThreadInv, Consistent, PermissiveWriteLock, Begins, Retries
<1>2. CASE Wait(t, "permissiveWriteLock")
  BY <1>1, <1>2, WaitKeepsInv DEF PermissiveWriteLock, Pcs
<1>3. CASE /\ MayPermit
           /\ status' = mPermissive
           /\ Granted(t, "permissive")
           /\ UNCHANGED <<nrreaders, waiters>>
  <2>1. ~Others(t, "write") /\ ~Others(t, "permissive") /\ nrreaders \in Nat
    BY <1>3, LockSays DEF MayPermit, mUnLocked, mWriteLocked, mPermissive
  <2>9. Move(t, "permissive", "permissive", "none")
    BY <1>1, <1>3, <2>1
       DEF PermissiveWriteLock, Granted, Return, mWriteLocked, mPermissive, Move
  <2> QED BY <2>9, MoveKeepsInv DEF Pcs, Modes
<1> QED BY <1>2, <1>3 DEF PermissiveWriteLock

LEMMA PermissiveWriteUnLockInv ==
    ASSUME IInv, TypeInv', NEW t \in Threads, PermissiveWriteUnLock(t)
    PROVE  IInv'
PROOF
<1>1. /\ holds[t] = "permissive" /\ status = mPermissive
      /\ ~Others(t, "write") /\ ~Others(t, "permissive")
  BY LockSays DEF PermissiveWriteUnLock
<1>2. Consistent("none", "none", "none")
  BY DEF Consistent
<1>3. nrreaders \in Nat
  BY LockSays
<1>9. Move(t, "none", "none", "none")
  BY <1>1, <1>2, <1>3
     DEF PermissiveWriteUnLock, Granted, Return, mUnLocked, mWriteLocked,
         mPermissive, Move
<1> QED BY <1>9, MoveKeepsInv DEF Pcs, Modes

LEMMA ConvPermissiveInv ==
    ASSUME IInv, TypeInv', NEW t \in Threads, ConvPermissiveToWriteLock(t)
    PROVE  IInv'
PROOF
<1>1. holds[t] = "permissive"
  BY DEF IInv, ThreadInv, Consistent, ConvPermissiveToWriteLock, Begins, Retries
<1>2. /\ status = mPermissive
      /\ ~Others(t, "write") /\ ~Others(t, "permissive")
      /\ release[t] = "permissive"
      /\ Consistent("permissive", "permissive", "convPermissiveToWriteLock")
      /\ Consistent("write", "permissive", "none")
  BY <1>1, LockSays DEF IInv, ThreadInv, Consistent
<1>3. CASE Wait(t, "convPermissiveToWriteLock")
  BY <1>1, <1>2, <1>3, WaitKeepsInv DEF ConvPermissiveToWriteLock, Pcs
<1>4. CASE /\ nrreaders = 0
           /\ status' = mWriteLocked
           /\ Return(t, "write")
           /\ UNCHANGED <<nrreaders, waiters, release>>
  <2>1. ~Others(t, "read") /\ nrreaders \in Nat
    BY <1>4, LockSays
  <2>2. release' = [release EXCEPT ![t] = "permissive"]
    <3>1. release \in [Threads -> Modes]
      BY DEF IInv, TypeInv
    <3> QED BY <3>1, <1>2, <1>4
  <2>3. /\ UNCHANGED use
        /\ holds' = [holds EXCEPT ![t] = "write"]
        /\ pc' = [pc EXCEPT ![t] = "none"]
        /\ status' = mWriteLocked
        /\ nrreaders' = nrreaders + 0 - 0
    BY <1>4, <2>1 DEF ConvPermissiveToWriteLock, Return
  <2>9. Move(t, "write", "permissive", "none")
    BY <1>1, <1>2, <2>1, <2>2, <2>3 DEF mWriteLocked, mPermissive, Move
  <2> QED BY <2>9, MoveKeepsInv DEF Pcs, Modes
<1> QED BY <1>2, <1>3, <1>4 DEF ConvPermissiveToWriteLock

LEMMA ConvWriteToPermissiveInv ==
    ASSUME IInv, TypeInv', NEW t \in Threads, ConvWriteToPermissive(t)
    PROVE  IInv'
PROOF
<1>1. /\ holds[t] = "write" /\ status = mWriteLocked /\ nrreaders = 0
      /\ ~Others(t, "write") /\ ~Others(t, "permissive")
  BY LockSays DEF ConvWriteToPermissive, Modes
<1>2. Consistent("permissive", "permissive", "none")
  BY DEF IInv, ThreadInv, Consistent, ConvWriteToPermissive
<1>3. release' = [release EXCEPT ![t] = "permissive"]
  <2>1. release \in [Threads -> Modes]
    BY DEF IInv, TypeInv
  <2>2. release[t] = "permissive" /\ release' = release
    BY DEF ConvWriteToPermissive
  <2> QED BY <2>1, <2>2
<1>4. /\ UNCHANGED use
      /\ holds' = [holds EXCEPT ![t] = "permissive"]
      /\ pc' = [pc EXCEPT ![t] = "none"]
      /\ status' = mPermissive
      /\ nrreaders' = nrreaders + 0 - 0
  BY <1>1 DEF ConvWriteToPermissive, Return
<1>9. Move(t, "permissive", "permissive", "none")
  BY <1>1, <1>2, <1>3, <1>4 DEF mWriteLocked, mPermissive, Move
<1> QED BY <1>9, MoveKeepsInv DEF Pcs, Modes

-----------------------------------------------------------------------------
LEMMA IInvInit == Init => IInv
PROOF
<1> SUFFICES ASSUME Init PROVE IInv
  OBVIOUS
<1>1. TypeInv
  BY ConstantAssumption DEF Init, TypeInv, Modes, Pcs, ConstantAssumption
<1>2. ThreadInv
  BY DEF Init, ThreadInv, Consistent
<1>3. OnePermissive /\ WriterIsAlone
  BY DEF Init, OnePermissive, WriterIsAlone, Holding
<1>4. LockKnowsHolders
  <2>1. Holding("read") = {} /\ Holding("write") = {} /\ Holding("permissive") = {}
    BY DEF Init, Holding
  <2> QED BY <2>1, FS_EmptySet
       DEF Init, LockKnowsHolders, mUnLocked, mWriteLocked, mPermissive
<1> QED BY <1>1, <1>2, <1>3, <1>4 DEF IInv

LEMMA IInvStep ==
    ASSUME IInv, [Next]_vars, NobodyForgotten
    PROVE  IInv'
PROOF
<1>1. TypeInv'
  BY TypeStep DEF IInv
<1>2. CASE UNCHANGED vars
  BY <1>1, <1>2 DEF vars, IInv, ThreadInv, Consistent, OnePermissive, WriterIsAlone,
                    LockKnowsHolders, Holding
<1>3. ASSUME NEW t \in Threads, Locks(t) \/ Unlocks(t) PROVE IInv'
  BY <1>1, <1>3, ReadLockInv, WriteLockInv, UpgradeInv, ConvReadUnLockInv, DowngradeInv,
     ConvertInv, PermissiveWriteLockInv, ConvPermissiveInv, ReadUnLockInv, WriteUnLockInv,
     PermissiveWriteUnLockInv, ConvWriteToPermissiveInv
     DEF Locks, Unlocks, NobodyForgotten
<1> QED BY <1>2, <1>3 DEF Next

LEMMA IInvariant == Spec /\ [][NobodyForgotten]_vars => []IInv
PROOF
<1>1. IInv /\ [Next]_vars /\ [NobodyForgotten]_vars => IInv'
  <2>1. UNCHANGED vars /\ IInv => IInv'
    BY DEF vars, IInv, TypeInv, ThreadInv, Consistent, OnePermissive, WriterIsAlone,
           LockKnowsHolders, Holding
  <2> QED BY <2>1, IInvStep
<1> QED BY <1>1, IInvInit, PTL DEF Spec

(***************************************************************************)
(* Where nobody reads a lock that is locked permissively or that a Locker  *)
(* converts, neither of the two steps is ever taken, so that what follows  *)
(* holds of every behaviour.                                               *)
(***************************************************************************)
THEOREM SoundForgetsNobody ==
    ASSUME \A u \in Uses : Sound(u)
    PROVE  Spec => [][NobodyForgotten]_vars
PROOF
<1>1. ASSUME IInv PROVE NobodyForgotten
  <2>1. Sound(use) /\ \A t \in Threads : Consistent(holds[t], release[t], pc[t])
    BY <1>1 DEF IInv, TypeInv, ThreadInv
  <2>2. ASSUME NEW t \in Threads, ReadUnLock(t) \/ ConvReadUnLock(t), status = mPermissive
        PROVE  FALSE
    <3>1. PICK u \in Threads : holds[u] = "permissive"
      BY <1>1, <2>2 DEF IInv, LockKnowsHolders, Holding
    <3>2. "permissive" \in use
      BY <2>1, <3>1 DEF Consistent
    <3>3. holds[t] # "read"
      BY <2>1, <3>2 DEF Consistent, Sound
    <3>4. holds[t] # "write"
      BY <1>1, <2>2 DEF IInv, LockKnowsHolders, Holding, mPermissive, mWriteLocked
    <3> QED BY <1>1, <2>1, <2>2, <3>3, <3>4
            DEF IInv, TypeInv, Modes, Consistent, ReadUnLock, ConvReadUnLock
  <2>3. ASSUME NEW t \in Threads, ConvertToWriteLock(t), release[t] = "read"
        PROVE  FALSE
    <3>1. "convert" \in use
      BY <2>3 DEF ConvertToWriteLock, Begins
    <3>2. holds[t] = "read"
      BY <1>1, <2>1, <2>3 DEF IInv, TypeInv, Modes, Consistent
    <3> QED BY <2>1, <3>1, <3>2 DEF Consistent, Sound
  <2> QED BY <2>2, <2>3 DEF NobodyForgotten
<1>2. IInv /\ [Next]_vars => IInv'
  <2>1. UNCHANGED vars /\ IInv => IInv'
    BY DEF vars, IInv, TypeInv, ThreadInv, Consistent, OnePermissive, WriterIsAlone,
           LockKnowsHolders, Holding
  <2> QED BY <1>1, <2>1, IInvStep
<1>3. Spec => []IInv
  BY <1>2, IInvInit, PTL DEF Spec
<1> QED BY <1>1, <1>3, PTL DEF Spec

(***************************************************************************)
(* Every variable keeps its type as long as the lock forgets nobody; in    *)
(* particular, the number of readers is never negative.                    *)
(***************************************************************************)
THEOREM LockTypeCorrect == Spec /\ [][NobodyForgotten]_vars => []TypeOK
PROOF
<1>1. IInv => TypeOK
  <2> SUFFICES ASSUME IInv PROVE TypeOK
    OBVIOUS
  <2>1. nrreaders \in Nat
    <3>1. IsFiniteSet(Readers(holds))
      BY ConstantAssumption, FS_Subset DEF ConstantAssumption, Readers
    <3> QED BY <3>1, KnowsReaders, FS_CardinalityType DEF IInv
  <2> QED BY <2>1 DEF IInv, TypeInv, TypeOK
<1> QED BY <1>1, IInvariant, PTL

(***************************************************************************)
(* A thread that writes is alone, however many threads there are and       *)
(* whatever they convert, also where a thread has come from the permissive *)
(* lock beside readers, which it waits for (thread.cc:651).                *)
(***************************************************************************)
THEOREM WriterIsAloneCorrect == Spec /\ [][NobodyForgotten]_vars => []WriterIsAlone
PROOF
<1>1. IInv => WriterIsAlone
  BY DEF IInv
<1> QED BY <1>1, IInvariant, PTL

(***************************************************************************)
(* status_ and nrreaders_ always agree with what the threads have been     *)
(* granted, with readers and a permissive holder at the same time too.     *)
(***************************************************************************)
THEOREM LockKnowsHoldersCorrect == Spec /\ [][NobodyForgotten]_vars => []LockKnowsHolders
PROOF
<1>1. IInv => LockKnowsHolders
  BY DEF IInv
<1> QED BY <1>1, IInvariant, PTL

(***************************************************************************)
(* Only one thread has the permissive lock, among any number of readers,   *)
(* writers and converting threads, unless the last reader leaves under a   *)
(* permissive holder or a Locker that reads is asked to convert.  So       *)
(* nothing else can let a second thread in: not a reader that comes while  *)
(* the lock is held permissively, not the wait of                          *)
(* convPermissiveToWriteLock for the readers, not the way back from        *)
(* writing, not a reader that gives its lock up to convert among others.   *)
(***************************************************************************)
THEOREM PermissiveIsAloneCorrect ==
    Spec /\ [][NobodyForgotten]_vars => []PermissiveIsAlone
PROOF
<1>1. IInv => PermissiveIsAlone
  <2> SUFFICES ASSUME IInv PROVE PermissiveIsAlone
    OBVIOUS
  <2> DEFINE P == {t \in Threads : release[t] = "permissive"}
  <2>1. \A t, u \in P : t = u
    BY DEF IInv, TypeInv, Modes, ThreadInv, Consistent, OnePermissive, WriterIsAlone, Holding
  <2>2. Cardinality(P) <= 1
    <3>1. CASE P = {}
      BY <3>1, FS_EmptySet
    <3>2. CASE P # {}
      <4>1. PICK t \in P : TRUE
        BY <3>2
      <4>2. P = {t}
        BY <2>1, <4>1
      <4>3. Cardinality({t}) = 1
        BY FS_Singleton
      <4> HIDE DEF P
      <4> QED BY <4>2, <4>3
    <3> QED BY <3>1, <3>2
  <2> QED BY <2>2 DEF PermissiveIsAlone
<1> QED BY <1>1, IInvariant, PTL
=============================================================================
