---------------------------- MODULE ReadWriteLock ----------------------------
(***************************************************************************)
(* Threads::ReadWriteLock, and Threads::Locker as it is used with it.      *)
(*                                                                         *)
(* One action is one critical section of statuscond_.  A thread that calls *)
(* statuscond_.wait() joins "waiters" and tries again only after a signal. *)
(* A call that is not finished is in pc[t]; "holds" is what the calls that *)
(* have returned entitle the thread to, "release" is how it will give that *)
(* back: a Locker remembers only whether it read-locked (isread_).         *)
(* tryReadLock and tryWriteLock do what readLock and writeLock do at the   *)
(* first try, or nothing; they have no action of their own.                *)
(*                                                                         *)
(* Nobody uses all the operations on one lock.  "use" is the set of those  *)
(* that the users of this lock make: read, write, upgrade and downgrade    *)
(* (convReadToWriteLock, convWriteToReadLock), permissive (the four        *)
(* permissive operations), convert (Locker::convertToWriteLock).           *)
(***************************************************************************)
EXTENDS Integers, FiniteSets

CONSTANTS
    Threads,
    Uses,     \* the sets of operations that are used together on one lock
    MaxCalls  \* bound: locking calls that one thread makes

Operations == {"read", "write", "upgrade", "downgrade", "permissive", "convert"}

ASSUME ConstantAssumption ==
    /\ IsFiniteSet(Threads)
    /\ Uses \subseteq SUBSET Operations
    /\ MaxCalls \in Nat

VARIABLES
    status,     \* status_
    nrreaders,  \* nrreaders_
    waiters,    \* the threads asleep in statuscond_.wait()
    pc,         \* the call a thread is in
    holds,      \* what it may rely on: none, read, write or permissive
    release,    \* the unlock call it will make
    calls,      \* locking calls made
    use         \* the operations used on this lock

vars == <<status, nrreaders, waiters, pc, holds, release, calls, use>>

mUnLocked == 0
mPermissive == -1
mWriteLocked == -2

Modes == {"none", "read", "write", "permissive"}
Pcs == {"none", "readLock", "writeLock", "convReadUnLock", "permissiveWriteLock",
        "convPermissiveToWriteLock"}

Init ==
    /\ status = mUnLocked
    /\ nrreaders = 0
    /\ waiters = {}
    /\ pc = [t \in Threads |-> "none"]
    /\ holds = [t \in Threads |-> "none"]
    /\ release = [t \in Threads |-> "none"]
    /\ calls = [t \in Threads |-> 0]
    /\ use \in Uses

-----------------------------------------------------------------------------
\* A new call of op by a thread that holds the lock in mode held.
Begins(t, op, held) ==
    /\ pc[t] = "none"
    /\ op \in use
    /\ holds[t] = held
    /\ calls[t] < MaxCalls
    /\ calls' = [calls EXCEPT ![t] = @ + 1]

\* A thread that was woken goes round the while loop of its call again.
Retries(t, call) ==
    /\ pc[t] = call
    /\ t \notin waiters
    /\ UNCHANGED calls

Wait(t, call) ==
    /\ waiters' = waiters \cup {t}
    /\ pc' = [pc EXCEPT ![t] = call]
    /\ UNCHANGED <<status, nrreaders, holds, release>>

\* The call returns and t has the lock in mode m.
Return(t, m) ==
    /\ pc' = [pc EXCEPT ![t] = "none"]
    /\ holds' = [holds EXCEPT ![t] = m]

Granted(t, m) == Return(t, m) /\ release' = [release EXCEPT ![t] = m]

SignalAll == waiters' = {}
SignalOne ==
    IF waiters = {} THEN UNCHANGED waiters
                    ELSE \E w \in waiters : waiters' = waiters \ {w}

MayRead == status # mWriteLocked
MayWriteAmongReaders == status = mUnLocked
MayWrite == status = mUnLocked /\ nrreaders = 0
MayPermitUnlessWritten == status # mWriteLocked
MayPermit == status = mUnLocked

-----------------------------------------------------------------------------
ReadLock(t) ==
    /\ Begins(t, "read", "none") \/ Retries(t, "readLock")
    /\ \/ /\ ~MayRead
          /\ Wait(t, "readLock")
       \/ /\ MayRead
          /\ nrreaders' = nrreaders + 1
          /\ Granted(t, "read")
          /\ UNCHANGED <<status, waiters>>
    /\ UNCHANGED use

WriteLock(t) ==
    /\ Begins(t, "write", "none") \/ Retries(t, "writeLock")
    /\ \/ /\ ~MayWrite
          /\ Wait(t, "writeLock")
       \/ /\ MayWrite
          /\ status' = mWriteLocked
          /\ Granted(t, "write")
          /\ UNCHANGED <<nrreaders, waiters>>
    /\ UNCHANGED use

\* The last reader leaves the lock unlocked, whatever status_ was before.
ReadersLeft == IF status = mWriteLocked THEN nrreaders ELSE nrreaders - 1
LeaveAsReaderQuietly ==
    /\ nrreaders' = ReadersLeft
    /\ status' = IF ReadersLeft = 0 THEN mUnLocked ELSE status
    /\ UNCHANGED waiters
LeaveAsReader ==
    /\ nrreaders' = ReadersLeft
    /\ IF ReadersLeft = 0 THEN status' = mUnLocked /\ SignalOne
                          ELSE UNCHANGED <<status, waiters>>

ReadUnLock(t) ==
    /\ pc[t] = "none"
    /\ holds[t] # "none"
    /\ release[t] = "read"
    /\ LeaveAsReader
    /\ Granted(t, "none")
    /\ UNCHANGED <<calls, use>>

WriteUnLock(t) ==
    /\ pc[t] = "none"
    /\ holds[t] # "none"
    /\ release[t] = "write"
    /\ status' = IF status = mWriteLocked THEN mUnLocked ELSE status
    /\ SignalAll
    /\ Granted(t, "none")
    /\ UNCHANGED <<nrreaders, calls, use>>

\* convReadToWriteLock.  Who is not the only reader gives the lock up first
\* (ConvReadUnLock), in a critical section of its own, and then waits for it.
ReadersAfterConvKept == nrreaders
ReadersAfterConv == 0
ConvReadToWriteLock(t) ==
    IF status = mUnLocked /\ nrreaders = 1
    THEN /\ status' = mWriteLocked
         /\ nrreaders' = ReadersAfterConv
         /\ Granted(t, "write")
         /\ UNCHANGED waiters
    ELSE /\ pc' = [pc EXCEPT ![t] = "convReadUnLock"]
         /\ UNCHANGED <<status, nrreaders, waiters, holds, release>>

Upgrade(t) ==
    /\ Begins(t, "upgrade", "read")
    /\ ConvReadToWriteLock(t)
    /\ UNCHANGED use

ConvReadUnLock(t) ==
    /\ pc[t] = "convReadUnLock"
    /\ LeaveAsReader
    /\ pc' = [pc EXCEPT ![t] = "writeLock"]
    /\ holds' = [holds EXCEPT ![t] = "none"]
    /\ release' = [release EXCEPT ![t] = "none"]
    /\ UNCHANGED <<calls, use>>

ConvWriteToReadLock(t) ==
    /\ pc[t] = "none"
    /\ "downgrade" \in use
    /\ holds[t] = "write"
    /\ status' = mUnLocked
    /\ nrreaders' = 1
    /\ SignalAll
    /\ Granted(t, "read")
    /\ UNCHANGED <<calls, use>>

-----------------------------------------------------------------------------
\* Locker::convertToWriteLock.  It returns true at once if the Locker has read-
\* locked, and converts if it has not; isread_ stays what it was.
ConvertToWriteLock(t) ==
    /\ Begins(t, "convert", holds[t])
    /\ \/ /\ release[t] = "read"
          /\ Return(t, "write")
          /\ UNCHANGED <<status, nrreaders, waiters, release>>
       \/ /\ release[t] = "write"
          /\ ConvReadToWriteLock(t)
    /\ UNCHANGED use

-----------------------------------------------------------------------------
PermissiveWriteLock(t) ==
    /\ Begins(t, "permissive", "none") \/ Retries(t, "permissiveWriteLock")
    /\ \/ /\ ~MayPermit
          /\ Wait(t, "permissiveWriteLock")
       \/ /\ MayPermit
          /\ status' = mPermissive
          /\ Granted(t, "permissive")
          /\ UNCHANGED <<nrreaders, waiters>>
    /\ UNCHANGED use

\* It signals nobody.
PermissiveWriteUnLock(t) ==
    /\ pc[t] = "none"
    /\ holds[t] = "permissive"
    /\ status' = IF status = mPermissive THEN mUnLocked ELSE status
    /\ Granted(t, "none")
    /\ UNCHANGED <<nrreaders, waiters, calls, use>>

\* With the wrong status the call returns at once.  In the loop only the number
\* of readers is looked at.
ConvPermissiveToWriteLock(t) ==
    /\ \/ Begins(t, "permissive", "permissive")
       \/ Retries(t, "convPermissiveToWriteLock")
    /\ \/ /\ pc[t] = "none"
          /\ status # mPermissive
          /\ Return(t, "write")
          /\ UNCHANGED <<status, nrreaders, waiters, release>>
       \/ /\ pc[t] = "none" => status = mPermissive
          /\ nrreaders # 0
          /\ Wait(t, "convPermissiveToWriteLock")
       \/ /\ pc[t] = "none" => status = mPermissive
          /\ nrreaders = 0
          /\ status' = mWriteLocked
          /\ Return(t, "write")
          /\ UNCHANGED <<nrreaders, waiters, release>>
    /\ UNCHANGED use

ConvWriteToPermissive(t) ==
    /\ pc[t] = "none"
    /\ holds[t] = "write"
    /\ release[t] = "permissive"
    /\ IF status = mWriteLocked THEN status' = mPermissive /\ SignalAll
                                ELSE UNCHANGED <<status, waiters>>
    /\ Return(t, "permissive")
    /\ UNCHANGED <<nrreaders, release, calls, use>>

-----------------------------------------------------------------------------
Unlocks(t) ==
    ReadUnLock(t) \/ WriteUnLock(t) \/ PermissiveWriteUnLock(t) \/ ConvWriteToPermissive(t)

Locks(t) ==
    \/ ReadLock(t) \/ WriteLock(t) \/ Upgrade(t) \/ ConvReadUnLock(t)
    \/ ConvWriteToReadLock(t) \/ ConvertToWriteLock(t)
    \/ PermissiveWriteLock(t) \/ ConvPermissiveToWriteLock(t)

Next == \E t \in Threads : Locks(t) \/ Unlocks(t)

Spec == Init /\ [][Next]_vars

\* Every thread is scheduled, and who has the lock unlocks it in the end.
Fairness ==
    \A t \in Threads :
        /\ WF_vars(pc[t] # "none" /\ Locks(t))
        /\ WF_vars(Unlocks(t))

FairSpec == Spec /\ Fairness

-----------------------------------------------------------------------------
TypeOK ==
    /\ status \in {mUnLocked, mPermissive, mWriteLocked}
    /\ nrreaders \in Nat
    /\ waiters \subseteq Threads
    /\ pc \in [Threads -> Pcs]
    /\ holds \in [Threads -> Modes]
    /\ release \in [Threads -> Modes]
    /\ calls \in [Threads -> 0 .. MaxCalls]
    /\ use \in Uses

Holding(m) == {t \in Threads : holds[t] = m}

(***************************************************************************)
(* A thread whose calls have given it the write lock is alone: no other    *)
(* thread may read, write or hold the permissive lock.  The critical       *)
(* sections of all users of the lock rest on it, whatever conversions they *)
(* use (thread.cc:514-671).                                                *)
(***************************************************************************)
WriterIsAlone ==
    \A t \in Holding("write"), u \in Threads : u # t => holds[u] = "none"

(***************************************************************************)
(* status_ and nrreaders_ say who has the lock: nrreaders_ is the number   *)
(* of threads that read, status_ is mWriteLocked exactly while a thread    *)
(* writes.  Conversions change both; a lost reader lets a writer in, one   *)
(* too many keeps every writer out for ever (thread.cc:537-615).           *)
(***************************************************************************)
LockKnowsHolders ==
    /\ nrreaders = Cardinality(Holding("read"))
    /\ status = mWriteLocked <=> Holding("write") # {}
    /\ status = mPermissive <=> Holding("permissive") # {}

(***************************************************************************)
(* Only one thread has the permissive write lock at any given time         *)
(* (thread.h:160-164), from permissiveWriteLock to its unlock.             *)
(***************************************************************************)
PermissiveIsAlone == Cardinality({t \in Threads : release[t] = "permissive"}) <= 1

(***************************************************************************)
(* Every call returns, if every holder unlocks in the end: no unlock that  *)
(* wakes one or all (thread.cc:537-550, 575-584) leaves a thread asleep on *)
(* a lock it could have.  permissiveWriteUnLock signals nobody, so this is *)
(* claimed of locks without permissive users only.                         *)
(***************************************************************************)
CallsReturn ==
    \A t \in Threads : pc[t] # "none" /\ "permissive" \notin use ~> pc[t] = "none"
=============================================================================
