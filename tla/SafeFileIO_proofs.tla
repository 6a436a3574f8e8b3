--------------------------- MODULE SafeFileIO_proofs --------------------------
(***************************************************************************)
(* Proofs about SafeFileIO, for every number of processes, versions and    *)
(* faults: the types, that no lock is left behind, and, where one process  *)
(* writes and removes the file, what readers get, that commits succeed and *)
(* that failures and crashes leave a version on the disk.                  *)
(***************************************************************************)
EXTENDS SafeFileIO, SequenceTheorems, TLAPS

\* A version in the new file or under a stream is rewritten in place.
LEMMA RewriteType ==
    ASSUME NEW s \in Seq(Contents), NEW i \in 1 .. Len(s), NEW c \in Contents
    PROVE  /\ [s EXCEPT ![i] = c] \in Seq(Contents)
           /\ Len([s EXCEPT ![i] = c]) = Len(s)
BY ExceptSeq

LEMMA AppendType ==
    ASSUME NEW s \in Seq(Contents), NEW c \in Contents
    PROVE  /\ Append(s, c) \in Seq(Contents)
           /\ Len(Append(s, c)) = Len(s) + 1
           /\ \A i \in 1 .. Len(s) : Append(s, c)[i] = s[i]
           /\ Append(s, c)[Len(s) + 1] = c
BY AppendProperties

-----------------------------------------------------------------------------
(* Types.  A stream that is open for writing has a version.                *)

WritesAVersion == \A p \in Procs : pc[p] = "writing" => strm[p] # None

TypeInv == TypeOK /\ WritesAVersion

\* A failure is counted, or there is none.
FaultTypes == faults \in 0 .. MaxFaults /\ clean \in [Procs -> BOOLEAN]

LEMMA FaultType ==
    ASSUME FaultTypes, NEW p \in Procs, Fault(p) \/ NoFault
    PROVE  FaultTypes'
<1>1. MaxFaults \in Nat
    BY ConstantAssumption
<1>2. CASE Fault(p)
    <2>1. faults' \in 0 .. MaxFaults
        BY <1>1, <1>2 DEF FaultTypes, Fault
    <2>2. clean' \in [Procs -> BOOLEAN]
        BY <1>2, Zenon DEF FaultTypes, Fault
    <2> QED BY <2>1, <2>2 DEF FaultTypes
<1>3. CASE NoFault
    BY <1>3 DEF FaultTypes, NoFault
<1> QED BY <1>2, <1>3

LEMMA TypeInit == Init => TypeInv
<1> SUFFICES ASSUME Init PROVE TypeInv
    OBVIOUS
<1>1. content \in Seq(Contents) /\ Len(content) = 1
    BY DEF Init, Contents
<1>2. main \in 0 .. 1 /\ bak \in 0 .. 1 /\ new \in 0 .. 1 /\ committed \in 0 .. 1
    BY DEF Init, None
<1>3. lock \in BOOLEAN /\ kept \in [Procs -> BOOLEAN] /\ clean \in [Procs -> BOOLEAN]
    BY DEF Init
<1>4. /\ pc \in [Procs -> Pcs] /\ call \in [Procs -> Calls]
      /\ \A p \in Procs : pc[p] # "writing"
    BY DEF Init, Pcs, Calls
<1>5. /\ tries \in [Procs -> 0 .. LockRetries] /\ strm \in [Procs -> 0 .. 1]
      /\ since \in [Procs -> 0 .. 1] /\ writes \in 0 .. MaxWrites /\ faults \in 0 .. MaxFaults
    BY ConstantAssumption DEF Init, None
<1>6. setup \in Settings
    BY DEF Init
<1> QED BY <1>1, <1>2, <1>3, <1>4, <1>5, <1>6 DEF TypeInv, TypeOK, WritesAVersion

LEMMA LockStepType ==
    ASSUME TypeInv, NEW p \in Procs, LockStep(p)
    PROVE  TypeInv'
<1> USE ConstantAssumption
    DEF TypeInv, TypeOK, WritesAVersion, None, Pcs, Calls, Goto, Fault, NoFault, Works,
        OnlyLock, files, AfterWait, WaitIsOver
<1>1. CASE WaitEnds(p)
    <2>1. tries' \in [Procs -> 0 .. LockRetries]
        BY <1>1 DEF WaitEnds
    <2>2. /\ pc' \in [Procs -> Pcs] /\ pc'[p] # "writing"
          /\ \A q \in Procs : q # p => pc'[q] = pc[q]
        BY <1>1 DEF WaitEnds
    <2>3. UNCHANGED <<main, bak, new, content, lock, call, strm, kept, since, committed,
                      writes, faults, clean, setup>>
        BY <1>1 DEF WaitEnds
    <2> QED BY <2>1, <2>2, <2>3
<1>2. CASE WaitAgain(p)
    BY <1>2 DEF WaitAgain
<1>3. CASE WaitGivesUp(p)
    <2>1. tries' \in [Procs -> 0 .. LockRetries]
        BY <1>3 DEF WaitGivesUp
    <2>2. /\ pc' \in [Procs -> Pcs] /\ pc'[p] # "writing"
          /\ \A q \in Procs : q # p => pc'[q] = pc[q]
        BY <1>3 DEF WaitGivesUp
    <2>3. UNCHANGED <<main, bak, new, content, lock, call, strm, kept, since, committed,
                      writes, faults, clean, setup>>
        BY <1>3 DEF WaitGivesUp
    <2> QED BY <2>1, <2>2, <2>3
<1>4. CASE BreakLock(p)
    <2>1. lock' \in BOOLEAN
        BY <1>4 DEF BreakLock
    <2> QED BY <1>4, <2>1 DEF BreakLock
<1>5. CASE MkLock(p)
    <2>1. lock' \in BOOLEAN
        BY <1>5 DEF MkLock
    <2>2. /\ pc' \in [Procs -> Pcs] /\ pc'[p] # "writing"
          /\ \A q \in Procs : q # p => pc'[q] = pc[q]
        BY <1>5 DEF MkLock
    <2>3. faults' \in 0 .. MaxFaults /\ clean' \in [Procs -> BOOLEAN]
        <3>1. Fault(p) \/ NoFault
            BY <1>5 DEF MkLock
        <3> QED BY <3>1, FaultType DEF FaultTypes
    <2>4. call' \in [Procs -> Calls]
        BY <1>5 DEF MkLock
    <2>5. UNCHANGED <<main, bak, new, content, tries, strm, kept, since, committed,
            writes, setup>>
        BY <1>5 DEF MkLock
    <2> QED BY <2>1, <2>2, <2>3, <2>4, <2>5
<1>6. CASE DirectoryFails(p)
    BY <1>6 DEF DirectoryFails
<1>7. CASE RmLock(p)
    BY <1>7 DEF RmLock
<1> QED BY <1>1, <1>2, <1>3, <1>4, <1>5, <1>6, <1>7 DEF LockStep

LEMMA ReadStepType ==
    ASSUME TypeInv, NEW p \in Procs, ReadStep(p)
    PROVE  TypeInv'
<1> USE ConstantAssumption
    DEF TypeInv, TypeOK, WritesAVersion, None, Pcs, Calls, Goto, Fault, NoFault,
        OnlyStream, files
<1>1. CASE PickMain(p)
    BY <1>1 DEF PickMain
<1>2. CASE PickBak(p)
    BY <1>2 DEF PickBak
<1>3. CASE OpenMain(p) \/ OpenBak(p)
    <2>1. PICK v \in {main, bak} : OpenStream(p, v)
        BY <1>3 DEF OpenMain, OpenBak
    <2>2. FaultTypes'
        <3>1. Fault(p) \/ NoFault
            BY <2>1 DEF OpenStream
        <3> QED BY <3>1, FaultType DEF FaultTypes
    <2>3. /\ pc' \in [Procs -> Pcs] /\ pc'[p] # "writing"
          /\ \A q \in Procs : q # p => pc'[q] = pc[q]
        BY <2>1 DEF OpenStream
    <2>4. /\ strm' \in [Procs -> 0 .. Len(content)]
          /\ \A q \in Procs : q # p => strm'[q] = strm[q]
        <3>1. v \in 0 .. Len(content)
            OBVIOUS
        <3>2. strm' = [strm EXCEPT ![p] = v] \/ strm' = strm
            BY <2>1 DEF OpenStream
        <3>3. strm \in [Procs -> 0 .. Len(content)]
            OBVIOUS
        <3> QED BY ONLY <3>1, <3>2, <3>3, p \in Procs
    <2>5. UNCHANGED <<main, bak, new, content, lock, call, tries, kept, since, committed,
            writes, setup>>
        BY <2>1 DEF OpenStream
    <2> QED BY <2>2, <2>3, <2>4, <2>5 DEF FaultTypes
<1>5. CASE CloseRead(p)
    BY <1>5 DEF CloseRead
<1> QED BY <1>1, <1>2, <1>3, <1>5 DEF ReadStep

LEMMA WriteStepType ==
    ASSUME TypeInv, NEW p \in Procs, WriteStep(p) \/ WritePart(p)
    PROVE  TypeInv'
<1> USE DEF TypeInv, TypeOK, WritesAVersion, None, Pcs, Calls, Goto, OnlyStream, files
<1>0. ASSUME FaultTypes, Fault(p) \/ NoFault
      PROVE  faults' \in 0 .. MaxFaults /\ clean' \in [Procs -> BOOLEAN]
    BY <1>0, FaultType DEF FaultTypes
<1>1. CASE RmNew(p) \/ DropNew(p)
    <2>1. Fault(p) \/ NoFault
        BY <1>1 DEF RmNew, DropNew, Works
    <2>2. new' \in 0 .. Len(content)
        BY <1>1 DEF RmNew, DropNew, Works
    <2>3. /\ pc' \in [Procs -> Pcs] /\ pc'[p] # "writing"
          /\ \A q \in Procs : q # p => pc'[q] = pc[q]
        BY <1>1 DEF RmNew, DropNew
    <2>4. UNCHANGED <<main, bak, committed, content, lock, call, tries, strm, kept, since,
                      writes, setup>>
        BY <1>1 DEF RmNew, DropNew, OnlyFiles
    <2> QED BY <1>0, <2>1, <2>2, <2>3, <2>4 DEF FaultTypes
<1>2. CASE OpenNew(p)
    <2>1. Fault(p) \/ NoFault
        BY <1>2 DEF OpenNew
    <2>2. UNCHANGED <<main, bak, lock, call, tries, kept, since, committed, writes, setup>>
        BY <1>2 DEF OpenNew
    <2>3. /\ content' \in Seq(Contents) /\ Len(content') \in Nat
          /\ Len(content) <= Len(content') /\ new' \in 0 .. Len(content')
        <3>1. CASE new = None /\ new' = Len(content) + 1 /\ content' = Append(content, "empty")
            BY <3>1, AppendType DEF Contents
        <3>2. CASE new # None /\ content' = [content EXCEPT ![new] = "empty"] /\ new' = new
            BY <3>2, RewriteType DEF Contents
        <3>3. CASE UNCHANGED <<new, content>>
            BY <3>3
        <3> QED BY <1>2, <3>1, <3>2, <3>3 DEF OpenNew
    <2>4. /\ pc' \in [Procs -> Pcs] /\ strm' \in [Procs -> 0 .. Len(content')]
          /\ pc'[p] = "writing" => strm'[p] # None
          /\ \A q \in Procs : q # p => pc'[q] = pc[q] /\ strm'[q] = strm[q]
        <3>4. strm \in [Procs -> 0 .. Len(content)] /\ Len(content) \in Nat
            OBVIOUS
        <3>5. strm \in [Procs -> 0 .. Len(content')]
            BY ONLY <2>3, <3>4
        <3>6. pc \in [Procs -> Pcs] /\ {"writing", "rmLock"} \subseteq Pcs
            BY DEF Pcs
        <3>1. CASE /\ strm' = [strm EXCEPT ![p] = new'] /\ Goto(p, "writing")
                   /\ new' # None
            <4>1. /\ strm' \in [Procs -> 0 .. Len(content')] /\ strm'[p] # None
                  /\ \A q \in Procs : q # p => strm'[q] = strm[q]
                BY ONLY <2>3, <3>1, <3>5, p \in Procs
            <4>2. pc' \in [Procs -> Pcs] /\ \A q \in Procs : q # p => pc'[q] = pc[q]
                BY ONLY <3>1, <3>6, p \in Procs DEF Goto
            <4> QED BY ONLY <4>1, <4>2
        <3>2. CASE UNCHANGED strm /\ Goto(p, "rmLock")
            BY ONLY <3>2, <3>5, <3>6, p \in Procs DEF Goto
        <3>3. (new' = new /\ new # None) \/ new' = Len(content) + 1 => new' # None
            BY ONLY <3>4 DEF None
        <3>7. \/ strm' = [strm EXCEPT ![p] = new'] /\ Goto(p, "writing") /\ new' # None
              \/ UNCHANGED strm /\ Goto(p, "rmLock")
            BY ONLY <1>2, <3>3 DEF OpenNew
        <3> QED BY <3>1, <3>2, <3>7
    <2>5. /\ main' \in 0 .. Len(content') /\ bak' \in 0 .. Len(content')
          /\ committed' \in 0 .. Len(content') /\ since' \in [Procs -> 0 .. Len(content')]
        <3>1. /\ {main, bak, committed} \subseteq 0 .. Len(content) /\ Len(content) \in Nat
              /\ since \in [Procs -> 0 .. Len(content)]
            OBVIOUS
        <3> QED BY ONLY <2>2, <2>3, <3>1
    <2>6. faults' \in 0 .. MaxFaults /\ clean' \in [Procs -> BOOLEAN]
        BY <1>0, <2>1 DEF FaultTypes
    <2> QED BY <2>2, <2>3, <2>4, <2>5, <2>6
<1>3. CASE WritePart(p) \/ CloseSuccess(p) \/ CloseFail(p)
    <2>1. UNCHANGED <<main, bak, new, faults, clean, lock, call, tries, kept, since, committed,
                      writes, setup>>
        BY <1>3 DEF WritePart, CloseSuccess, CloseFail, NoFault
    <2>2. content' \in Seq(Contents) /\ Len(content') = Len(content)
        <3>1. strm[p] \in 1 .. Len(content)
            BY <1>3 DEF WritePart, CloseSuccess, CloseFail
        <3>2. content[strm[p]] \in Contents
            BY <3>1
        <3>3. \/ \E c \in Contents : content' = [content EXCEPT ![strm[p]] = c]
              \/ content' = content
            BY <1>3 DEF WritePart, CloseSuccess, CloseFail, Written, Contents
        <3>4. CASE content' = content
            BY <3>4
        <3>5. ASSUME NEW c \in Contents, content' = [content EXCEPT ![strm[p]] = c]
              PROVE  content' \in Seq(Contents) /\ Len(content') = Len(content)
            BY <3>1, <3>5, RewriteType
        <3> QED BY <3>3, <3>4, <3>5
    <2>3. /\ pc' \in [Procs -> Pcs] /\ strm' \in [Procs -> 0 .. Len(content)]
          /\ pc'[p] = "writing" => strm'[p] # None
          /\ \A q \in Procs : q # p => pc'[q] = pc[q] /\ strm'[q] = strm[q]
        <3>1. CASE UNCHANGED <<pc, strm>>
            BY <3>1
        <3>2. CASE \E next \in {"commit", "dropNew"} :
                       Goto(p, next) /\ strm' = [strm EXCEPT ![p] = None]
            BY <3>2
        <3> QED BY <1>3, <3>1, <3>2 DEF WritePart, CloseSuccess, CloseFail
    <2> QED BY <2>1, <2>2, <2>3
<1> QED BY <1>1, <1>2, <1>3 DEF WriteStep

LEMMA CommitStepType ==
    ASSUME TypeInv, NEW p \in Procs, CommitStep(p) \/ DelBak(p) \/ DelMain(p)
    PROVE  TypeInv'
<1> USE DEF TypeInv, TypeOK, WritesAVersion, None, Pcs, Goto
<1>1. Fault(p) \/ NoFault
    BY DEF CommitStep, CommitWrite, RmBak, MainToBak, NewToMain, RmOldBak, DelBak,
            DelMain, Works
<1>2. faults' \in 0 .. MaxFaults /\ clean' \in [Procs -> BOOLEAN]
    BY <1>1, FaultType DEF FaultTypes
<1>3. UNCHANGED <<content, lock, call, tries, strm, kept, since, writes, setup>>
    BY DEF CommitStep, CommitWrite, RmBak, MainToBak, NewToMain, RmOldBak, DelBak, DelMain,
           OnlyFiles
<1>4. \E next \in Pcs \ {"writing"} : Goto(p, next)
    BY DEF CommitStep, CommitWrite, RmBak, MainToBak, NewToMain, RmOldBak, DelBak, DelMain
<1>5. /\ pc' \in [Procs -> Pcs]
      /\ \A q \in Procs : pc'[q] = "writing" => pc[q] = "writing"
    BY <1>4
<1>6. /\ main' \in {main, new, None} /\ bak' \in {bak, main, None} /\ new' \in {new, None}
      /\ committed' \in {committed, new}
    <2>1. CASE CommitWrite(p)
        BY <2>1 DEF CommitWrite, files
    <2>2. CASE RmBak(p) \/ RmOldBak(p) \/ DelBak(p)
        BY <2>2 DEF RmBak, RmOldBak, DelBak, Works
    <2>3. CASE MainToBak(p)
        BY <2>3 DEF MainToBak, Works
    <2>4. CASE NewToMain(p)
        BY <2>4 DEF NewToMain
    <2>5. CASE DelMain(p)
        BY <2>5 DEF DelMain, Works
    <2> QED BY <2>1, <2>2, <2>3, <2>4, <2>5 DEF CommitStep
<1>7. /\ {main', bak', new', committed'} \subseteq 0 .. Len(content')
      /\ since' \in [Procs -> 0 .. Len(content')] /\ strm' \in [Procs -> 0 .. Len(content')]
    <2>1. /\ {main, bak, new, committed, None} \subseteq 0 .. Len(content)
          /\ since \in [Procs -> 0 .. Len(content)] /\ strm \in [Procs -> 0 .. Len(content)]
        OBVIOUS
    <2> QED BY ONLY <1>3, <1>6, <2>1
<1>8. /\ content' \in Seq(Contents) /\ lock' \in BOOLEAN /\ call' \in [Procs -> Calls]
      /\ tries' \in [Procs -> 0 .. LockRetries] /\ kept' \in [Procs -> BOOLEAN]
      /\ writes' \in 0 .. MaxWrites /\ setup' \in Settings
    BY <1>3
<1>9. WritesAVersion'
    BY <1>3, <1>5
<1> QED
    <2> HIDE DEF Pcs, Goto, None
    <2> QED BY <1>2, <1>5, <1>7, <1>8, <1>9

LEMMA CallType ==
    ASSUME TypeInv, NEW p \in Procs,
           OpenRead(p) \/ OpenWrite(p) \/ Remove(p) \/ DelNew(p) \/ Crash(p)
    PROVE  TypeInv'
<1> USE DEF TypeInv, TypeOK, WritesAVersion, None, Pcs, Calls, Goto
<1>1. CASE OpenRead(p) \/ OpenWrite(p) \/ Remove(p)
    <2>1. PICK c \in {"read", "write", "remove"}, ign \in BOOLEAN : Begins(p, c, ign)
        BY <1>1, ConstantAssumption DEF OpenRead, OpenWrite, Remove
    <2>2. /\ UNCHANGED <<main, bak, new, content, lock, tries, strm, committed, faults, setup>>
          /\ kept' \in [Procs -> BOOLEAN] /\ clean' \in [Procs -> BOOLEAN]
        BY <2>1, Zenon DEF Begins, files
    <2>3. call' \in [Procs -> Calls]
        BY <2>1 DEF Begins
    <2>4. /\ pc' \in [Procs -> Pcs] /\ pc'[p] # "writing"
          /\ \A q \in Procs : q # p => pc'[q] = pc[q]
        BY <2>1 DEF Begins, AfterWait
    <2>5. writes' \in 0 .. MaxWrites /\ since' \in [Procs -> 0 .. Len(content)]
        <3>1. writes' \in 0 .. MaxWrites
            <4>1. MaxWrites \in Nat
                BY ConstantAssumption
            <4>2. writes' = writes \/ (writes < MaxWrites /\ writes' = writes + 1)
                BY <1>1 DEF OpenRead, OpenWrite, Remove
            <4>3. writes \in 0 .. MaxWrites
                OBVIOUS
            <4> QED BY ONLY <4>1, <4>2, <4>3
        <3>2. since' \in [Procs -> 0 .. Len(content)]
            BY <1>1 DEF OpenRead, OpenWrite, Remove
        <3> QED BY <3>1, <3>2
    <2> QED BY <2>2, <2>3, <2>4, <2>5
<1>2. CASE DelNew(p)
    <2>1. Fault(p) \/ NoFault
        BY <1>2 DEF DelNew, Works
    <2>2. faults' \in 0 .. MaxFaults /\ clean' \in [Procs -> BOOLEAN]
        BY <2>1, FaultType DEF FaultTypes
    <2>3. /\ new' \in 0 .. Len(content) /\ committed' \in 0 .. Len(content)
          /\ since' \in [Procs -> 0 .. Len(content)] /\ call' \in [Procs -> Calls]
        BY <1>2 DEF DelNew, Works
    <2>4. pc' \in [Procs -> Pcs] /\ \A q \in Procs : pc'[q] = "writing" => pc[q] = "writing"
        BY <1>2 DEF DelNew
    <2>5. UNCHANGED <<main, bak, content, lock, tries, strm, kept, writes, setup>>
        BY <1>2 DEF DelNew
    <2> QED BY <2>2, <2>3, <2>4, <2>5
<1>3. CASE Crash(p)
    <2>1. faults' \in 0 .. MaxFaults /\ tries' \in [Procs -> 0 .. LockRetries]
        BY <1>3, ConstantAssumption DEF Crash
    <2>2. kept' \in [Procs -> BOOLEAN] /\ clean' \in [Procs -> BOOLEAN]
        BY <1>3, Zenon DEF Crash
    <2>3. /\ pc' \in [Procs -> Pcs] /\ call' \in [Procs -> Calls]
          /\ strm' \in [Procs -> 0 .. Len(content)] /\ since' \in [Procs -> 0 .. Len(content)]
        BY <1>3 DEF Crash
    <2>4. pc'[p] # "writing" /\ \A q \in Procs : q # p => pc'[q] = pc[q] /\ strm'[q] = strm[q]
        BY <1>3 DEF Crash
    <2>5. UNCHANGED <<main, bak, new, content, lock, committed, writes, setup>>
        BY <1>3 DEF Crash, files
    <2> QED BY <2>1, <2>2, <2>3, <2>4, <2>5
<1> QED BY <1>1, <1>2, <1>3

LEMMA TypeStep ==
    ASSUME TypeInv, [Next]_vars
    PROVE  TypeInv'
<1>1. CASE UNCHANGED vars
    BY <1>1 DEF vars, files, TypeInv, TypeOK, WritesAVersion
<1>2. CASE Next
    BY <1>2, LockStepType, ReadStepType, WriteStepType, CommitStepType, CallType
       DEF Next, Step, RemoveStep
<1> QED BY <1>1, <1>2

\* Every variable of the file, its lock and its users keeps its type, and a stream that is
\* open for writing has a version (openRead, openWrite, commitWrite, doClose, remove).
THEOREM FileTypeCorrect == Spec => []TypeOK
<1>1. TypeInv /\ [Next]_vars => TypeInv'
    BY TypeStep
<1>2. Spec => []TypeInv
    BY <1>1, TypeInit, PTL DEF Spec
<1>3. TypeInv => TypeOK
    BY DEF TypeInv
<1> QED BY <1>2, <1>3, PTL

-----------------------------------------------------------------------------
(* No lock is left.  A process owns the lock from mkLock to rmLock, or     *)
(* keeps it; a lock file that exists has an owner, or something failed.    *)

OwnerPcs == {"mkLock", "pickMain", "pickBak", "openMain", "openBak", "reading",
             "rmNew", "openNew", "writing", "dropNew", "commit", "rmBak", "mainToBak",
             "newToMain", "rmOldBak", "rmLock"}

Owns(p) == setup[p].locked /\ (kept[p] \/ pc[p] \in OwnerPcs)

LockInv ==
    lock => (faults > 0 \/ \E p \in Procs : Owns(p))

\* The process that makes the step goes on owning the lock, and the others do.
StaysOwned(p) ==
    /\ lock' => lock
    /\ UNCHANGED <<setup, faults>>
    /\ Owns(p) => Owns(p)'
    /\ \A q \in Procs \ {p} : UNCHANGED <<pc[q], kept[q]>>

LEMMA OwnedStep ==
    ASSUME LockInv, NEW p \in Procs, StaysOwned(p)
    PROVE  LockInv'
<1> SUFFICES ASSUME lock', ~(faults > 0)
             PROVE  \E q \in Procs : Owns(q)'
    BY DEF LockInv, StaysOwned
<1>1. PICK q \in Procs : Owns(q)
    BY DEF LockInv, StaysOwned
<1>2. CASE q = p
    BY <1>1, <1>2 DEF StaysOwned
<1>3. CASE q # p
    BY <1>1, <1>3 DEF StaysOwned, Owns
<1> QED BY <1>2, <1>3

LEMMA FaultStep ==
    ASSUME TypeInv, LockInv, NEW p \in Procs, Fault(p), lock' => lock, UNCHANGED setup
    PROVE  LockInv'
<1>1. faults \in Nat /\ faults' = faults + 1
    BY DEF TypeInv, TypeOK, Fault
<1> QED BY <1>1 DEF LockInv

LEMMA LockStepLock ==
    ASSUME TypeInv, LockInv, NEW p \in Procs, LockStep(p)
    PROVE  LockInv'
<1> USE DEF OnlyLock
<1>1. CASE WaitEnds(p) \/ WaitAgain(p) \/ WaitGivesUp(p)
    <2>1. pc[p] = "wait" /\ UNCHANGED <<lock, kept, setup, faults>>
        BY <1>1 DEF WaitEnds, WaitAgain, WaitGivesUp, NoFault
    <2>2. \A q \in Procs \ {p} : pc'[q] = pc[q]
        BY <1>1 DEF WaitEnds, WaitAgain, WaitGivesUp, WaitIsOver, Goto, TypeInv, TypeOK
    <2>3. Owns(p) => Owns(p)'
        BY <2>1 DEF Owns, OwnerPcs
    <2> QED BY <2>1, <2>2, <2>3, OwnedStep DEF StaysOwned
<1>2. CASE BreakLock(p)
    BY <1>2 DEF BreakLock, LockInv
<1>5. CASE RmLock(p)
    <2>1. CASE setup[p].locked
        <3>1. ~lock'
            BY <1>5, <2>1, Zenon DEF RmLock
        <3> QED BY <3>1 DEF LockInv
    <2>2. CASE ~setup[p].locked
        <3>1. UNCHANGED <<kept, setup, faults>> /\ (lock' => lock)
            BY <1>5 DEF RmLock
        <3>2. \A q \in Procs \ {p} : pc'[q] = pc[q]
            BY <1>5 DEF RmLock, Goto, TypeInv, TypeOK
        <3>3. Owns(p) => Owns(p)'
            BY <2>2 DEF Owns
        <3> QED BY <3>1, <3>2, <3>3, OwnedStep DEF StaysOwned
    <2> QED BY <2>1, <2>2
<1>3. CASE MkLock(p)
    <2> DEFINE locked == setup[p].locked
    <2>1. UNCHANGED <<setup, kept>> /\ pc[p] = "mkLock" /\ (Fault(p) \/ NoFault)
        BY <1>3 DEF MkLock, Works
    <2>2. pc'[p] \in OwnerPcs /\ \A q \in Procs \ {p} : pc'[q] = pc[q]
        BY <1>3 DEF MkLock, Goto, OwnerPcs, TypeInv, TypeOK
    <2>3. CASE locked
        BY <2>1, <2>2, <2>3 DEF LockInv, Owns
    <2>4. CASE ~locked
        <3>1. lock' = (lock \/ locked) \/ lock' = lock
            BY <1>3, Zenon DEF MkLock, Works
        <3>2. lock' => lock
            BY <2>4, <3>1, Zenon
        <3>3. Owns(p) => Owns(p)'
            BY <2>4 DEF Owns
        <3> QED BY <2>1, <2>2, <3>2, <3>3, OwnedStep, FaultStep DEF StaysOwned, NoFault
    <2> QED BY <2>3, <2>4
<1>4. CASE DirectoryFails(p)
    BY <1>4, FaultStep DEF DirectoryFails
<1> QED BY <1>1, <1>2, <1>3, <1>4, <1>5 DEF LockStep

LEMMA CallStepLock ==
    ASSUME TypeInv, LockInv, NEW p \in Procs,
           OpenRead(p) \/ OpenWrite(p) \/ Remove(p) \/ Crash(p) \/ RemoveStep(p)
    PROVE  LockInv'
<1>1. CASE OpenRead(p) \/ OpenWrite(p) \/ Remove(p)
    <2>1. PICK c \in {"read", "write", "remove"}, ign \in {TRUE, FALSE} :
              Begins(p, c, ign) /\ (kept[p] => c = "write" /\ ign)
        <3>1. IgnoreLock \subseteq BOOLEAN /\ kept[p] \in BOOLEAN
            BY ConstantAssumption DEF TypeInv, TypeOK
        <3> QED BY <1>1, <3>1, Zenon DEF OpenRead, OpenWrite, Remove
    <2>2. /\ UNCHANGED <<lock, setup, faults>> /\ pc[p] = "idle"
          /\ \A q \in Procs \ {p} : UNCHANGED <<pc[q], kept[q]>>
        BY <2>1 DEF Begins, Goto, TypeInv, TypeOK
    <2>3. Owns(p) => Owns(p)'
        <3>1. CASE kept[p]
            BY <2>1, <3>1 DEF Begins, Goto, AfterWait, Owns, OwnerPcs, TypeInv, TypeOK
        <3> QED BY <2>2, <3>1 DEF Owns, OwnerPcs
    <2> QED BY <2>2, <2>3, OwnedStep DEF StaysOwned
<1>2. CASE Crash(p)
    <2>1. faults \in Nat /\ faults' = faults + 1 /\ UNCHANGED <<lock, setup>>
        BY <1>2 DEF Crash, TypeInv, TypeOK
    <2> QED BY <2>1 DEF LockInv
<1>3. CASE RemoveStep(p)
    <2>1. UNCHANGED <<lock, kept, setup>> /\ pc[p] \in {"delNew", "delBak", "delMain"}
        BY <1>3 DEF RemoveStep, DelNew, DelBak, DelMain, OnlyFiles
    <2>2. Fault(p) \/ NoFault
        BY <1>3 DEF RemoveStep, DelNew, DelBak, DelMain, Works
    <2>3. \A q \in Procs \ {p} : pc'[q] = pc[q]
        BY <1>3 DEF RemoveStep, DelNew, DelBak, DelMain, Goto, TypeInv, TypeOK
    <2>4. Owns(p) => Owns(p)'
        BY <2>1 DEF Owns, OwnerPcs
    <2> QED BY <2>1, <2>2, <2>3, <2>4, OwnedStep, FaultStep DEF StaysOwned, NoFault
<1> QED BY <1>1, <1>2, <1>3

\* The steps of a call between mkLock and rmLock.
LEMMA FileStepLock ==
    ASSUME TypeInv, LockInv, NEW p \in Procs,
           ReadStep(p) \/ WriteStep(p) \/ WritePart(p) \/ CommitStep(p)
    PROVE  LockInv'
<1>1. UNCHANGED <<lock, setup>>
    <2>1. CASE ReadStep(p)
        BY <2>1 DEF ReadStep, PickMain, PickBak, OpenMain, OpenBak, OpenStream, CloseRead,
                    OnlyStream
    <2>2. CASE WriteStep(p) \/ WritePart(p)
        BY <2>2 DEF WriteStep, WritePart, RmNew, OpenNew, CloseSuccess, CloseFail, DropNew,
                    OnlyStream, OnlyFiles
    <2>3. CASE CommitStep(p)
        BY <2>3 DEF CommitStep, CommitWrite, RmBak, MainToBak, NewToMain, RmOldBak, OnlyFiles
    <2> QED BY <2>1, <2>2, <2>3
<1>2. Fault(p) \/ NoFault
    <2>1. CASE ReadStep(p)
        BY <2>1 DEF ReadStep, PickMain, PickBak, OpenMain, OpenBak, OpenStream, CloseRead
    <2>2. CASE WriteStep(p) \/ WritePart(p)
        BY <2>2 DEF WriteStep, WritePart, RmNew, OpenNew, CloseSuccess, CloseFail,
                DropNew, Works
    <2>3. CASE CommitStep(p)
        BY <2>3 DEF CommitStep, CommitWrite, RmBak, MainToBak, NewToMain, RmOldBak, Works
    <2> QED BY <2>1, <2>2, <2>3
<1>3. /\ \A q \in Procs \ {p} : UNCHANGED <<pc[q], kept[q]>>
      /\ kept'[p] \/ pc'[p] \in OwnerPcs
    <2> USE DEF Goto, TypeInv, TypeOK, OwnerPcs
    <2>1. CASE PickMain(p) \/ PickBak(p) \/ OpenMain(p) \/ OpenBak(p)
        BY <2>1 DEF PickMain, PickBak, OpenMain, OpenBak, OpenStream, OnlyStream
    <2>2. CASE CloseRead(p)
        BY <2>2 DEF CloseRead
    <2>3. CASE WriteStep(p) \/ WritePart(p)
        BY <2>3 DEF WriteStep, WritePart, RmNew, OpenNew, CloseSuccess, CloseFail, DropNew,
                    OnlyFiles, OnlyStream
    <2>4. CASE CommitStep(p)
        BY <2>4 DEF CommitStep, CommitWrite, RmBak, MainToBak, NewToMain, RmOldBak, OnlyFiles
    <2> QED BY <2>1, <2>2, <2>3, <2>4 DEF ReadStep
<1>4. Owns(p) => Owns(p)'
    BY <1>1, <1>3 DEF Owns
<1> QED BY <1>1, <1>2, <1>3, <1>4, OwnedStep, FaultStep DEF StaysOwned, NoFault

\* A lock file that exists belongs to a call that is not finished or to a process that
\* keeps it, unless something has failed: no return of openRead, openWrite or doClose
\* forgets rmLock, whichever processes interleave.
THEOREM NoLockIsLeftCorrect == Spec => []NoLockIsLeft
<1>1. Init => TypeInv /\ LockInv
    BY TypeInit DEF Init, LockInv
<1>2. TypeInv /\ LockInv /\ [Next]_vars => (TypeInv /\ LockInv)'
    <2> SUFFICES ASSUME TypeInv, LockInv, [Next]_vars PROVE LockInv'
        BY TypeStep
    <2>1. CASE UNCHANGED vars
        BY <2>1 DEF vars, LockInv, Owns
    <2>2. CASE Next
        BY <2>2, LockStepLock, CallStepLock, FileStepLock DEF Next, Step
    <2> QED BY <2>1, <2>2
<1>3. Spec => [](TypeInv /\ LockInv)
    BY <1>1, <1>2, PTL DEF Spec
<1>4. TypeInv /\ LockInv => NoLockIsLeft
    BY DEF NoLockIsLeft, LockInv, Owns, OwnerPcs
<1> QED BY <1>3, <1>4, PTL

-----------------------------------------------------------------------------
(* Who makes which call.                                                   *)

WritePcs == {"rmNew", "openNew", "writing", "dropNew", "commit", "rmBak", "mainToBak",
             "newToMain", "rmOldBak"}
RemovePcs == {"delNew", "delBak", "delMain"}

MayCall(p, c) ==
    /\ c \in {"read", "write", "remove"}
    /\ c = "write" => p \in Writers
    /\ c = "remove" => p \in Removers

Role(p) ==
    /\ pc[p] \in {"wait", "breakLock", "mkLock"} => MayCall(p, call[p])
    /\ pc[p] = "mkLock" => call[p] # "remove"
    /\ pc[p] \in WritePcs => p \in Writers
    /\ pc[p] \in RemovePcs => p \in Removers

RoleInv == \A p \in Procs : Role(p)

\* A step changes pc and call of the process that makes it.
OthersStay(p) == \A q \in Procs \ {p} : UNCHANGED <<pc[q], call[q], strm[q]>>

LEMMA StepOfOne ==
    ASSUME TypeInv, NEW p \in Procs,
           \/ OpenRead(p) \/ OpenWrite(p) \/ Remove(p)
           \/ Step(p) \/ WritePart(p) \/ Crash(p)
    PROVE  OthersStay(p)
<1> USE DEF OthersStay, Goto, TypeInv, TypeOK
<1>1. CASE OpenRead(p) \/ OpenWrite(p) \/ Remove(p)
    <2>1. PICK c \in Calls, ign \in {TRUE, FALSE, kept[p]} \cup IgnoreLock : Begins(p, c, ign)
        BY <1>1 DEF OpenRead, OpenWrite, Remove, Calls
    <2> QED BY <2>1 DEF Begins
<1>2. CASE LockStep(p)
    BY <1>2 DEF LockStep, WaitEnds, WaitAgain, WaitGivesUp, BreakLock, MkLock,
                DirectoryFails, RmLock, WaitIsOver, OnlyLock
<1>3. CASE ReadStep(p)
    BY <1>3 DEF ReadStep, PickMain, PickBak, OpenMain, OpenBak, OpenStream, CloseRead,
            OnlyStream
<1>4. CASE WriteStep(p) \/ WritePart(p)
    BY <1>4 DEF WriteStep, WritePart, RmNew, OpenNew, CloseSuccess, CloseFail, DropNew,
                OnlyStream, OnlyFiles
<1>5. CASE CommitStep(p)
    BY <1>5 DEF CommitStep, CommitWrite, RmBak, MainToBak, NewToMain, RmOldBak, OnlyFiles
<1>6. CASE RemoveStep(p)
    BY <1>6 DEF RemoveStep, DelNew, DelBak, DelMain, OnlyFiles
<1>7. CASE Crash(p)
    BY <1>7 DEF Crash
<1> QED BY <1>1, <1>2, <1>3, <1>4, <1>5, <1>6, <1>7 DEF Step

LEMMA RoleStep ==
    ASSUME TypeInv, RoleInv, NEW p \in Procs,
           \/ OpenRead(p) \/ OpenWrite(p) \/ Remove(p)
           \/ Step(p) \/ WritePart(p) \/ Crash(p)
    PROVE  RoleInv'
<1>1. \A q \in Procs \ {p} : Role(q)'
    BY StepOfOne DEF OthersStay, RoleInv, Role, MayCall
<1> SUFFICES Role(p)'
    BY <1>1 DEF RoleInv
<1> USE DEF Goto, TypeInv, TypeOK, RoleInv, Role, WritePcs, RemovePcs
<1>2. CASE OpenRead(p) \/ OpenWrite(p) \/ Remove(p)
    <2>1. PICK c \in {"read", "write", "remove"},
               ign \in {TRUE, FALSE, kept[p]} \cup IgnoreLock :
              Begins(p, c, ign) /\ MayCall(p, c) /\ (c = "remove" => ign = FALSE)
        BY <1>2, Zenon DEF OpenRead, OpenWrite, Remove, MayCall
    <2>2. call'[p] = c /\ MayCall(p, call'[p])
        BY <2>1 DEF Begins
    <2>3. pc'[p] \in {"wait", AfterWait(c)}
        BY <2>1 DEF Begins
    <2> QED BY <2>2, <2>3 DEF AfterWait, MayCall
<1>3. CASE LockStep(p)
    BY <1>3 DEF LockStep, WaitEnds, WaitAgain, WaitGivesUp, BreakLock, MkLock,
                DirectoryFails, RmLock, WaitIsOver, AfterWait, MayCall
<1>4. CASE ReadStep(p)
    BY <1>4 DEF ReadStep, PickMain, PickBak, OpenMain, OpenBak, OpenStream, CloseRead
<1>5. CASE WriteStep(p) \/ WritePart(p)
    BY <1>5 DEF WriteStep, WritePart, RmNew, OpenNew, CloseSuccess, CloseFail, DropNew
<1>6. CASE CommitStep(p)
    BY <1>6 DEF CommitStep, CommitWrite, RmBak, MainToBak, NewToMain, RmOldBak
<1>7. CASE RemoveStep(p)
    BY <1>7 DEF RemoveStep, DelNew, DelBak, DelMain
<1>8. CASE Crash(p)
    BY <1>8 DEF Crash
<1> QED BY <1>2, <1>3, <1>4, <1>5, <1>6, <1>7, <1>8 DEF Step

-----------------------------------------------------------------------------
(* What readers get, where one process writes the file.  The names of the  *)
(* file and the streams of readers are bound to whole versions; the new    *)
(* file is none of those, and is whole before commitWrite renames it.      *)

OneWriter == \A p, q \in Writers : p = q

NamesWhole == (main # None => IsWhole(main)) /\ (bak # None => IsWhole(bak))

NewIsApart ==
    new # None => /\ new # main /\ new # bak
                  /\ \A p \in Procs : pc[p] = "reading" => strm[p] # new

WritesNew(p) ==
    pc[p] = "writing" => content[strm[p]] \in {"empty", "part"} /\ new \in {None, strm[p]}

CommitsWhole(p) ==
    /\ pc[p] = "commit" => new = None \/ content[new] \in {"empty", "full"}
    /\ pc[p] \in {"rmBak", "mainToBak", "newToMain"} => new = None \/ content[new] = "full"

VersionInv ==
    /\ NamesWhole
    /\ ReadsAreWhole
    /\ NewIsApart
    /\ \A p \in Procs : WritesNew(p) /\ CommitsWhole(p)

AllInv == TypeInv /\ RoleInv /\ VersionInv

LEMMA OnlyOneWrites ==
    ASSUME OneWriter, RoleInv, NEW p \in Procs, NEW q \in Procs,
           pc[p] \in WritePcs, pc[q] \in WritePcs
    PROVE  p = q
BY DEF OneWriter, RoleInv, Role

\* The steps that no part of the invariant depends on: no content changes, no new version
\* is bound to a name, and the process is not about to read, write or commit.
Harmless(p) ==
    /\ main' \in {main, None} /\ bak' \in {bak, None} /\ new' \in {new, None}
    /\ UNCHANGED content
    /\ pc'[p] \notin {"reading", "writing", "commit", "rmBak", "mainToBak", "newToMain"}
    /\ OthersStay(p)

LEMMA HarmlessStep ==
    ASSUME AllInv, NEW p \in Procs, Harmless(p)
    PROVE  VersionInv'
<1> USE DEF Harmless, OthersStay, AllInv, VersionInv, IsWhole, None
<1>1. NamesWhole'
    BY DEF NamesWhole
<1>2. ReadsAreWhole'
    BY DEF ReadsAreWhole
<1>3. NewIsApart'
    BY DEF NewIsApart
<1>4. \A q \in Procs : WritesNew(q)' /\ CommitsWhole(q)'
    BY DEF WritesNew, CommitsWhole
<1> QED BY <1>1, <1>2, <1>3, <1>4

LEMMA HarmlessSteps ==
    ASSUME TypeInv, NEW p \in Procs,
           \/ OpenRead(p) \/ OpenWrite(p) \/ Remove(p)
           \/ LockStep(p) \/ PickMain(p) \/ PickBak(p) \/ CloseRead(p)
           \/ RmNew(p) \/ CloseFail(p) \/ DropNew(p) \/ RmOldBak(p)
           \/ RemoveStep(p) \/ Crash(p)
    PROVE  Harmless(p)
<1>1. OthersStay(p)
    BY StepOfOne DEF Step, ReadStep, WriteStep, CommitStep
<1> SUFFICES /\ main' \in {main, None} /\ bak' \in {bak, None} /\ new' \in {new, None}
             /\ UNCHANGED content
             /\ pc'[p] \notin {"reading", "writing", "commit", "rmBak", "mainToBak",
                               "newToMain"}
    BY <1>1 DEF Harmless
<1> USE DEF Goto, TypeInv, TypeOK, files
<1>2. CASE OpenRead(p) \/ OpenWrite(p) \/ Remove(p)
    <2>1. PICK c \in Calls, ign \in {TRUE, FALSE, kept[p]} \cup IgnoreLock : Begins(p, c, ign)
        BY <1>2 DEF OpenRead, OpenWrite, Remove, Calls
    <2> QED BY <2>1 DEF Begins, AfterWait
<1>3. CASE LockStep(p)
    BY <1>3 DEF LockStep, WaitEnds, WaitAgain, WaitGivesUp, BreakLock, MkLock,
                DirectoryFails, RmLock, WaitIsOver, AfterWait, OnlyLock
<1>4. CASE PickMain(p) \/ PickBak(p) \/ CloseRead(p)
    BY <1>4 DEF PickMain, PickBak, CloseRead, OnlyStream
<1>5. CASE RmNew(p) \/ CloseFail(p) \/ DropNew(p) \/ RmOldBak(p)
    BY <1>5 DEF RmNew, CloseFail, DropNew, RmOldBak, Works, OnlyStream, OnlyFiles
<1>6. CASE RemoveStep(p)
    BY <1>6 DEF RemoveStep, DelNew, DelBak, DelMain, Works, OnlyFiles
<1>7. CASE Crash(p)
    BY <1>7 DEF Crash
<1> QED BY <1>2, <1>3, <1>4, <1>5, <1>6, <1>7

LEMMA OpenStreamStep ==
    ASSUME AllInv, NEW p \in Procs, OpenMain(p) \/ OpenBak(p)
    PROVE  VersionInv'
<1>1. PICK v \in {main, bak} : OpenStream(p, v)
    BY DEF OpenMain, OpenBak
<1>2. UNCHANGED <<main, bak, new, content>> /\ OthersStay(p)
    BY <1>1, StepOfOne DEF OpenStream, OnlyStream, files, AllInv, Step, ReadStep
<1>3. CASE pc'[p] = "reading" /\ strm'[p] = v /\ v # None
    <2> USE <1>2, <1>3 DEF OthersStay, AllInv, VersionInv, IsWhole, None
    <2>1. NamesWhole'
        BY DEF NamesWhole
    <2>2. ReadsAreWhole'
        BY DEF ReadsAreWhole, NamesWhole
    <2>3. NewIsApart'
        BY DEF NewIsApart
    <2>4. \A q \in Procs : WritesNew(q)' /\ CommitsWhole(q)'
        BY DEF WritesNew, CommitsWhole
    <2> QED BY <2>1, <2>2, <2>3, <2>4
<1>4. CASE pc'[p] = "rmLock"
    BY <1>2, <1>4, HarmlessStep DEF Harmless
<1> QED BY <1>1, <1>3, <1>4 DEF OpenStream, Goto, AllInv, TypeInv, TypeOK

LEMMA OpenNewStep ==
    ASSUME OneWriter, AllInv, NEW p \in Procs, OpenNew(p)
    PROVE  VersionInv'
<1> USE DEF None
<1>1. OthersStay(p) /\ UNCHANGED <<main, bak>>
    BY StepOfOne DEF OpenNew, AllInv, Step, WriteStep
<1>2. \A q \in Procs : pc[q] \in WritePcs => q = p
    BY OnlyOneWrites DEF OpenNew, AllInv, WritePcs
<1>3. CASE UNCHANGED <<new, content>> /\ pc'[p] = "rmLock"
    BY <1>1, <1>3, HarmlessStep DEF Harmless
<1>4. CASE /\ pc'[p] = "writing" /\ strm'[p] = new' /\ new' # None
           /\ content'[new'] = "empty"
           /\ new' # main /\ new' # bak
           /\ \A q \in Procs : pc[q] = "reading" => strm[q] # new'
           /\ \A v \in 1 .. Len(content) : v # new' => content'[v] = content[v]
    <2> USE <1>1, <1>2, <1>4 DEF OthersStay, AllInv, VersionInv, IsWhole, TypeInv, TypeOK
    <2>1. NamesWhole'
        <3>1. \A v \in 1 .. Len(content) : IsWhole(v) /\ v # new' => IsWhole(v)'
            OBVIOUS
        <3>2. main \in 0 .. Len(content) /\ bak \in 0 .. Len(content) /\ Len(content) \in Nat
            OBVIOUS
        <3>3. (main # 0 => IsWhole(main)') /\ (bak # 0 => IsWhole(bak)')
            BY <3>1, <3>2 DEF NamesWhole
        <3> QED BY <3>3 DEF NamesWhole
    <2>2. ReadsAreWhole'
        <3> SUFFICES ASSUME NEW q \in Procs, pc'[q] = "reading" PROVE IsWhole(strm[q])'
            BY DEF ReadsAreWhole
        <3>1. pc[q] = "reading" /\ strm'[q] = strm[q]
            OBVIOUS
        <3>2. strm[q] \in 1 .. Len(content) /\ content[strm[q]] = "full" /\ strm[q] # new'
            BY <3>1 DEF ReadsAreWhole
        <3> QED BY <3>1, <3>2
    <2>3. NewIsApart'
        <3>1. \A q \in Procs : pc'[q] = "reading" => pc[q] = "reading" /\ strm'[q] = strm[q]
            OBVIOUS
        <3> QED BY ONLY <1>1, <1>4, <3>1 DEF NewIsApart
    <2>4. \A q \in Procs : WritesNew(q)' /\ CommitsWhole(q)'
        <3>1. \A q \in Procs \ {p} : pc'[q] \notin WritePcs
            BY ONLY <1>1, <1>2 DEF OthersStay
        <3> QED BY ONLY <1>4, <3>1 DEF WritesNew, CommitsWhole, WritePcs
    <2> QED BY <2>1, <2>2, <2>3, <2>4
<1>5. CASE /\ strm' = [strm EXCEPT ![p] = new'] /\ Goto(p, "writing")
           /\ new = None /\ new' = Len(content) + 1 /\ content' = Append(content, "empty")
    <2>1. content \in Seq(Contents) /\ "empty" \in Contents /\ Len(content) \in Nat
        BY DEF AllInv, TypeInv, TypeOK, Contents
    <2>2. /\ content'[new'] = "empty"
          /\ \A v \in 1 .. Len(content) : content'[v] = content[v]
        BY <1>5, <2>1, AppendType
    <2>3. /\ new' \notin 0 .. Len(content) /\ pc'[p] = "writing" /\ strm'[p] = new'
        BY <1>5, <2>1 DEF Goto, AllInv, TypeInv, TypeOK
    <2> QED BY <1>4, <2>1, <2>2, <2>3 DEF AllInv, TypeInv, TypeOK
<1>6. CASE /\ strm' = [strm EXCEPT ![p] = new'] /\ Goto(p, "writing")
           /\ new # None /\ content' = [content EXCEPT ![new] = "empty"] /\ new' = new
    <2>1. content \in Seq(Contents) /\ new \in 1 .. Len(content)
        BY <1>6 DEF AllInv, TypeInv, TypeOK
    <2>2. /\ content'[new'] = "empty"
          /\ \A v \in 1 .. Len(content) : v # new' => content'[v] = content[v]
        BY <1>6, <2>1
    <2>3. pc'[p] = "writing" /\ strm'[p] = new'
        BY <1>6 DEF Goto, AllInv, TypeInv, TypeOK
    <2> QED BY <1>4, <1>6, <2>2, <2>3 DEF AllInv, VersionInv, NewIsApart
<1> QED BY <1>3, <1>5, <1>6 DEF OpenNew, Goto, AllInv, TypeInv, TypeOK

LEMMA WritingStep ==
    ASSUME OneWriter, AllInv, NEW p \in Procs, WritePart(p) \/ CloseSuccess(p)
    PROVE  VersionInv'
<1> DEFINE v == strm[p]
<1>1. OthersStay(p) /\ UNCHANGED <<main, bak, new>>
    BY StepOfOne DEF WritePart, CloseSuccess, AllInv, Step, WriteStep, OnlyStream, files
<1>2. \A q \in Procs : pc[q] \in WritePcs => q = p
    BY OnlyOneWrites DEF WritePart, CloseSuccess, AllInv, WritePcs
<1>3. /\ pc[p] = "writing" /\ v \in 1 .. Len(content) /\ content \in Seq(Contents)
      /\ content[v] \in {"empty", "part"} /\ new \in {None, v}
    BY DEF WritePart, CloseSuccess, AllInv, VersionInv, WritesNew, TypeInv, TypeOK,
           WritesAVersion, None
<1>4. ~Shared(p)
    BY <1>2 DEF Shared, WritePcs
<1>5. \A w \in 1 .. Len(content) : w # v => content'[w] = content[w]
    BY <1>3 DEF WritePart, CloseSuccess, Written
<1>6. /\ WritePart(p) => content'[v] = "part"
      /\ CloseSuccess(p) => content'[v] = "full" \/ content'[v] = "empty"
    BY <1>3, <1>4 DEF WritePart, CloseSuccess, Written
<1>7. /\ WritePart(p) => UNCHANGED <<pc, strm>>
      /\ CloseSuccess(p) => pc'[p] = "commit"
    BY DEF WritePart, CloseSuccess, Goto, AllInv, TypeInv, TypeOK
<1>8. /\ main # v /\ bak # v
      /\ \A q \in Procs : pc[q] = "reading" => strm[q] # v
    BY <1>3 DEF AllInv, VersionInv, NamesWhole, ReadsAreWhole, IsWhole, None
<1>9. \A w \in 0 .. Len(content) : IsWhole(w) => IsWhole(w)'
    BY <1>3, <1>5 DEF IsWhole, None
<1> HIDE DEF v
<1>10. NamesWhole'
    BY <1>1, <1>9 DEF NamesWhole, AllInv, VersionInv, TypeInv, TypeOK
<1>11. ReadsAreWhole'
    <2> SUFFICES ASSUME NEW q \in Procs, pc'[q] = "reading" PROVE IsWhole(strm[q])'
        BY DEF ReadsAreWhole
    <2>1. q # p
        BY <1>3, <1>7
    <2>2. pc[q] = "reading" /\ strm'[q] = strm[q] /\ strm[q] \in 0 .. Len(content)
        BY <1>1, <2>1 DEF OthersStay, AllInv, TypeInv, TypeOK
    <2> QED BY <1>9, <2>2 DEF AllInv, VersionInv, ReadsAreWhole, IsWhole
<1>12. NewIsApart'
    BY <1>1, <1>3, <1>7 DEF NewIsApart, AllInv, VersionInv, OthersStay
<1>13. \A q \in Procs : WritesNew(q)' /\ CommitsWhole(q)'
    <2> SUFFICES ASSUME NEW q \in Procs PROVE WritesNew(q)' /\ CommitsWhole(q)'
        OBVIOUS
    <2>1. CASE q # p
        <3>1. pc'[q] = pc[q] /\ pc[q] \notin WritePcs
            BY <1>1, <1>2, <2>1 DEF OthersStay
        <3> QED BY <3>1 DEF WritesNew, CommitsWhole, WritePcs
    <2>2. CASE q = p /\ WritePart(p)
        BY <1>1, <1>3, <1>6, <1>7, <2>2 DEF WritesNew, CommitsWhole, v
    <2>3. CASE q = p /\ CloseSuccess(p)
        BY <1>1, <1>3, <1>6, <1>7, <2>3 DEF WritesNew, CommitsWhole
    <2> QED BY <2>1, <2>2, <2>3
<1> QED BY <1>10, <1>11, <1>12, <1>13 DEF VersionInv

LEMMA CommittingStep ==
    ASSUME OneWriter, AllInv, NEW p \in Procs,
           CommitWrite(p) \/ RmBak(p) \/ MainToBak(p) \/ NewToMain(p)
    PROVE  VersionInv'
<1> USE DEF AllInv, TypeInv, TypeOK, VersionInv, IsWhole, None
<1>1. OthersStay(p) /\ UNCHANGED content
    BY StepOfOne DEF Step, CommitStep, CommitWrite, RmBak, MainToBak, NewToMain, OnlyFiles
<1>2. \A q \in Procs : pc[q] \in WritePcs => q = p
    BY OnlyOneWrites DEF CommitWrite, RmBak, MainToBak, NewToMain, WritePcs
<1>3. \A q \in Procs \ {p} : WritesNew(q)' /\ CommitsWhole(q)'
    BY <1>1, <1>2 DEF OthersStay, WritesNew, CommitsWhole, WritePcs
<1>4. \A q \in Procs : pc'[q] = "reading" => pc[q] = "reading" /\ strm'[q] = strm[q]
    BY <1>1 DEF OthersStay, CommitWrite, RmBak, MainToBak, NewToMain, Goto
<1>5. ReadsAreWhole'
    BY <1>1, <1>4 DEF ReadsAreWhole
<1>6. CASE CommitWrite(p)
    <2>1. /\ UNCHANGED <<main, bak, new>>
          /\ pc'[p] = "rmLock" \/ (pc'[p] = "rmBak" /\ ~IsEmpty(new))
        BY <1>6 DEF CommitWrite, Goto, files
    <2>2. WritesNew(p)' /\ CommitsWhole(p)'
        BY <1>1, <1>6, <2>1 DEF CommitWrite, CommitsWhole, WritesNew, IsEmpty
    <2> QED BY <1>1, <1>3, <1>4, <1>5, <2>1, <2>2 DEF NamesWhole, NewIsApart
<1>7. CASE RmBak(p)
    <2>1. UNCHANGED <<main, new>> /\ bak' \in {None, bak} /\ pc'[p] = "mainToBak"
        BY <1>7 DEF RmBak, Works, Goto
    <2>2. WritesNew(p)' /\ CommitsWhole(p)'
        BY <1>1, <1>7, <2>1 DEF RmBak, CommitsWhole, WritesNew
    <2> QED BY <1>1, <1>3, <1>4, <1>5, <2>1, <2>2 DEF NamesWhole, NewIsApart
<1>8. CASE MainToBak(p)
    <2>1. /\ UNCHANGED new /\ pc'[p] = "newToMain"
          /\ UNCHANGED <<main, bak>> \/ (main' = None /\ bak' = main)
        BY <1>8 DEF MainToBak, Works, Goto
    <2>2. WritesNew(p)' /\ CommitsWhole(p)'
        BY <1>1, <1>8, <2>1 DEF MainToBak, CommitsWhole, WritesNew
    <2> QED BY <1>1, <1>3, <1>4, <1>5, <2>1, <2>2 DEF NamesWhole, NewIsApart
<1>9. CASE NewToMain(p)
    <2>1. /\ UNCHANGED bak /\ pc'[p] \in {"rmLock", "rmOldBak"}
          /\ UNCHANGED <<main, new>> \/ (main' = new /\ new' = None)
        BY <1>9 DEF NewToMain, Goto
    <2>2. WritesNew(p)' /\ CommitsWhole(p)'
        BY <2>1 DEF CommitsWhole, WritesNew
    <2>3. NamesWhole'
        BY <1>1, <1>9, <2>1 DEF NewToMain, NamesWhole, CommitsWhole
    <2> QED BY <1>1, <1>3, <1>4, <1>5, <2>1, <2>2, <2>3 DEF NewIsApart
<1> QED BY <1>6, <1>7, <1>8, <1>9

LEMMA AllInvStep ==
    ASSUME OneWriter, AllInv, [Next]_vars
    PROVE  AllInv'
<1>1. TypeInv'
    BY TypeStep DEF AllInv
<1>2. CASE UNCHANGED vars
    BY <1>1, <1>2 DEF vars, files, AllInv, RoleInv, Role, MayCall, VersionInv, NamesWhole,
                      ReadsAreWhole, NewIsApart, WritesNew, CommitsWhole, IsWhole
<1>3. CASE Next
    <2>1. PICK p \in Procs : \/ OpenRead(p) \/ OpenWrite(p) \/ Remove(p)
                             \/ Step(p) \/ WritePart(p) \/ Crash(p)
        BY <1>3 DEF Next
    <2>2. RoleInv'
        BY <2>1, RoleStep DEF AllInv
    <2>3. VersionInv'
        BY <2>1, HarmlessSteps, HarmlessStep, OpenStreamStep, OpenNewStep, WritingStep,
           CommittingStep
           DEF Step, ReadStep, WriteStep, CommitStep, AllInv
    <2> QED BY <1>1, <2>2, <2>3 DEF AllInv
<1> QED BY <1>2, <1>3

LEMMA AllInvInit == Init => AllInv
<1> SUFFICES ASSUME Init PROVE AllInv
    OBVIOUS
<1>1. RoleInv
    BY DEF Init, RoleInv, Role, WritePcs, RemovePcs
<1>2. VersionInv
    BY DEF Init, VersionInv, NamesWhole, ReadsAreWhole, NewIsApart, WritesNew, CommitsWhole,
           IsWhole, None
<1> QED BY <1>1, <1>2, TypeInit DEF AllInv

\* A reader gets a whole version, never one that is partly written, if one process writes:
\* for any number of readers, with or without the lock, whatever fails or crashes.
THEOREM ReadsAreWholeCorrect == OneWriter => (Spec => []ReadsAreWhole)
<1> SUFFICES ASSUME OneWriter PROVE Spec => []ReadsAreWhole
    OBVIOUS
<1>1. AllInv /\ [Next]_vars => AllInv'
    BY AllInvStep
<1>2. Spec => []AllInv
    BY <1>1, AllInvInit, PTL DEF Spec
<1>3. AllInv => ReadsAreWhole
    BY DEF AllInv, VersionInv
<1> QED BY <1>2, <1>3, PTL

-----------------------------------------------------------------------------
(* Commits, where one process writes and removes the file: as long as no   *)
(* operation of the call has failed there is a new file, then no backup,   *)
(* then no main file, so that each rename finds what it needs.             *)

OneChanger == \A p, q \in Writers \cup Removers : p = q

CommitInv ==
    \A p \in Procs : clean[p] =>
        /\ pc[p] \in {"rmBak", "mainToBak", "newToMain"} => new # None
        /\ pc[p] = "mainToBak" => bak = None
        /\ pc[p] = "newToMain" => main = None

\* A step that leaves the names of the file as they are.
KeepsNames(p) ==
    \/ OpenRead(p) \/ OpenWrite(p) \/ Remove(p) \/ LockStep(p) \/ ReadStep(p)
    \/ CloseSuccess(p) \/ CloseFail(p) \/ WritePart(p) \/ Crash(p)

ChangesNames(p) ==
    RmNew(p) \/ OpenNew(p) \/ DropNew(p) \/ CommitStep(p) \/ RemoveStep(p)

LEMMA NamesKept ==
    ASSUME TypeInv, NEW p \in Procs, KeepsNames(p)
    PROVE  UNCHANGED <<main, bak, new, committed>>
<1> USE DEF files, OnlyLock, OnlyStream
<1>1. CASE OpenRead(p) \/ OpenWrite(p) \/ Remove(p)
    <2>1. PICK c \in Calls, ign \in {TRUE, FALSE, kept[p]} \cup IgnoreLock : Begins(p, c, ign)
        BY <1>1 DEF OpenRead, OpenWrite, Remove, Calls
    <2> QED BY <2>1 DEF Begins
<1>2. CASE LockStep(p)
    BY <1>2 DEF LockStep, WaitEnds, WaitAgain, WaitGivesUp, BreakLock, MkLock,
                DirectoryFails, RmLock
<1>3. CASE ReadStep(p)
    BY <1>3 DEF ReadStep, PickMain, PickBak, OpenMain, OpenBak, OpenStream, CloseRead
<1>4. CASE CloseSuccess(p) \/ CloseFail(p) \/ WritePart(p)
    BY <1>4 DEF CloseSuccess, CloseFail, WritePart
<1>5. CASE Crash(p)
    BY <1>5 DEF Crash
<1> QED BY <1>1, <1>2, <1>3, <1>4, <1>5 DEF KeepsNames

\* ... and does not come to the renames, nor change what other calls know of failures.
LEMMA NoCommit ==
    ASSUME TypeInv, NEW p \in Procs, KeepsNames(p)
    PROVE  /\ pc'[p] \notin {"rmBak", "mainToBak", "newToMain"}
           /\ \A q \in Procs \ {p} : clean'[q] = clean[q]
<1> USE DEF Goto, TypeInv, TypeOK, Fault, NoFault
<1>1. CASE OpenRead(p) \/ OpenWrite(p) \/ Remove(p)
    <2>1. PICK c \in Calls, ign \in {TRUE, FALSE, kept[p]} \cup IgnoreLock : Begins(p, c, ign)
        BY <1>1 DEF OpenRead, OpenWrite, Remove, Calls
    <2> QED BY <2>1 DEF Begins, AfterWait
<1>2. CASE LockStep(p)
    BY <1>2 DEF LockStep, WaitEnds, WaitAgain, WaitGivesUp, BreakLock, MkLock, Works,
                DirectoryFails, RmLock, WaitIsOver, AfterWait
<1>3. CASE ReadStep(p)
    BY <1>3 DEF ReadStep, PickMain, PickBak, OpenMain, OpenBak, OpenStream, CloseRead
<1>4. CASE CloseSuccess(p) \/ CloseFail(p) \/ WritePart(p)
    BY <1>4 DEF CloseSuccess, CloseFail, WritePart
<1>5. CASE Crash(p)
    BY <1>5 DEF Crash
<1> QED BY <1>1, <1>2, <1>3, <1>4, <1>5 DEF KeepsNames

LEMMA OnlyOneChanges ==
    ASSUME OneChanger, RoleInv, NEW p \in Procs, NEW q \in Procs,
           pc[p] \in WritePcs \cup RemovePcs, pc[q] \in WritePcs \cup RemovePcs
    PROVE  p = q
BY DEF OneChanger, RoleInv, Role

LEMMA ChangerPc ==
    ASSUME NEW p \in Procs, ChangesNames(p)
    PROVE  pc[p] \in WritePcs \cup RemovePcs
BY DEF ChangesNames, RmNew, OpenNew, DropNew, CommitStep, CommitWrite, RmBak, MainToBak,
       NewToMain, RmOldBak, RemoveStep, DelNew, DelBak, DelMain, WritePcs, RemovePcs

\* What a commit knows after its own step.
LEMMA CommitKnows ==
    ASSUME TypeInv, CommitInv, NEW p \in Procs, ChangesNames(p), clean'[p]
    PROVE  /\ pc'[p] \in {"rmBak", "mainToBak", "newToMain"} => new' # None
           /\ pc'[p] = "mainToBak" => bak' = None
           /\ pc'[p] = "newToMain" => main' = None
<1> USE DEF Goto, TypeInv, TypeOK, Fault, NoFault, CommitInv, Works
<1>1. CASE RmNew(p) \/ OpenNew(p) \/ DropNew(p) \/ RemoveStep(p)
    BY <1>1 DEF RmNew, OpenNew, DropNew, RemoveStep, DelNew, DelBak, DelMain
<1>2. CASE CommitWrite(p)
    BY <1>2 DEF CommitWrite, IsEmpty, files
<1>3. CASE RmBak(p)
    BY <1>3 DEF RmBak
<1>4. CASE MainToBak(p)
    BY <1>4 DEF MainToBak
<1>5. CASE NewToMain(p)
    BY <1>5 DEF NewToMain
<1>6. CASE RmOldBak(p)
    BY <1>6 DEF RmOldBak
<1> QED BY <1>1, <1>2, <1>3, <1>4, <1>5, <1>6 DEF ChangesNames, CommitStep

LEMMA StepKinds ==
    ASSUME Next
    PROVE  \E p \in Procs : KeepsNames(p) \/ ChangesNames(p)
BY DEF Next, Step, WriteStep, KeepsNames, ChangesNames

LEMMA CommitInvStep ==
    ASSUME OneChanger, TypeInv, RoleInv, CommitInv, [Next]_vars
    PROVE  CommitInv'
<1>1. CASE UNCHANGED vars
    BY <1>1 DEF vars, files, CommitInv
<1>2. CASE Next
    <2>1. PICK p \in Procs : KeepsNames(p) \/ ChangesNames(p)
        BY <1>2, StepKinds
    <2>2. OthersStay(p)
        BY <2>1, StepOfOne DEF KeepsNames, ChangesNames, Step, WriteStep
    <2>3. CASE KeepsNames(p)
        BY <2>2, <2>3, NamesKept, NoCommit DEF CommitInv, OthersStay
    <2>4. CASE ChangesNames(p)
        <3>1. \A q \in Procs \ {p} : pc'[q] \notin {"rmBak", "mainToBak", "newToMain"}
            BY <2>2, <2>4, OnlyOneChanges, ChangerPc DEF OthersStay, WritePcs
        <3> QED BY <2>4, <3>1, CommitKnows DEF CommitInv
    <2> QED BY <2>1, <2>3, <2>4
<1> QED BY <1>1, <1>2

\* commitWrite makes the new version the main file unless an operation of the call fails,
\* whatever earlier crashes and failures left behind, if one process changes the file.
THEOREM CommitSucceedsCorrect == OneChanger => (Spec => CommitSucceeds)
<1> SUFFICES ASSUME OneChanger PROVE Spec => CommitSucceeds
    OBVIOUS
<1> DEFINE Inv == TypeInv /\ RoleInv /\ CommitInv
<1> DEFINE Succeeds(p) ==
        pc[p] = "newToMain" /\ pc'[p] \in {"rmOldBak", "rmLock"} =>
            (main' = new /\ committed' = new) \/ ~clean'[p]
<1>1. Init => Inv
    <2> SUFFICES ASSUME Init PROVE CommitInv
        BY AllInvInit DEF AllInv
    <2> QED BY DEF Init, CommitInv
<1>2. Inv /\ [Next]_vars => Inv'
    <2> SUFFICES ASSUME Inv, [Next]_vars PROVE Inv'
        OBVIOUS
    <2>1. RoleInv'
        <3>1. CASE UNCHANGED vars
            BY <3>1 DEF vars, RoleInv, Role, MayCall
        <3> QED BY <3>1, RoleStep DEF Next
    <2> QED BY <2>1, TypeStep, CommitInvStep
<1>3. Inv /\ [Next]_vars => [\A p \in Procs : Succeeds(p)]_vars
    <2> SUFFICES ASSUME Inv, Next, NEW p \in Procs,
                        pc[p] = "newToMain", pc'[p] \in {"rmOldBak", "rmLock"}
                 PROVE  (main' = new /\ committed' = new) \/ ~clean'[p]
        OBVIOUS
    <2>1. PICK q \in Procs : KeepsNames(q) \/ ChangesNames(q)
        BY StepKinds
    <2>2. OthersStay(q)
        BY <2>1, StepOfOne DEF KeepsNames, ChangesNames, Step, WriteStep
    <2>3. q = p
        BY <2>2 DEF OthersStay
    <2>4. NewToMain(p) \/ Crash(p)
        BY <2>1, <2>3
           DEF KeepsNames, ChangesNames, OpenRead, OpenWrite, Remove, Begins, LockStep,
                   WaitEnds,
               WaitAgain, WaitGivesUp, BreakLock, MkLock, DirectoryFails, RmLock, ReadStep,
               PickMain, PickBak, OpenMain, OpenBak, CloseRead, RmNew, OpenNew, WritePart,
               CloseSuccess, CloseFail, DropNew, CommitStep, CommitWrite, RmBak, MainToBak,
               RmOldBak, RemoveStep, DelNew, DelBak, DelMain
    <2>5. ~Crash(p)
        BY DEF Crash, Goto, TypeInv, TypeOK
    <2>6. clean[p] => new # None /\ main = None
        BY DEF CommitInv
    <2>7. clean'[p] => clean[p] /\ faults' = faults
        BY <2>4, <2>5 DEF NewToMain, Fault, NoFault, TypeInv, TypeOK
    <2> QED BY <2>4, <2>5, <2>6, <2>7 DEF NewToMain, Fault, TypeInv, TypeOK
<1>4. Spec => [][\A p \in Procs : Succeeds(p)]_vars
    <2> HIDE DEF Inv, Succeeds
    <2> QED BY <1>1, <1>2, <1>3, PTL DEF Spec
<1> QED BY <1>4 DEF CommitSucceeds

-----------------------------------------------------------------------------
(* How old a version is, where one process writes and removes the file: a  *)
(* name is bound to what was committed last or to nothing, and a reader    *)
(* that turns to the backup finds there what was committed meanwhile.      *)

NamesRecent ==
    /\ committed # None => /\ main \in {None, committed}
                           /\ main = None => bak \in {None, committed}
    /\ new # None => new > committed

Recent(p) ==
    /\ since[p] <= committed
    /\ pc[p] \in {"pickBak", "openBak"} /\ since[p] # None => bak = None \/ bak >= since[p]
    /\ pc[p] = "reading" => strm[p] >= since[p]
    /\ pc[p] \in {"delBak", "delMain"} => committed = None

RecentInv == NamesRecent /\ \A p \in Procs : Recent(p)

\* Where a step that leaves the names alone comes to.
LEMMA ReaderPc ==
    ASSUME TypeInv, NEW p \in Procs, KeepsNames(p)
    PROVE  /\ \/ since'[p] \in {None, since[p]}
              \/ since'[p] = committed /\ pc'[p] \in {"wait", "mkLock", "delNew"}
           /\ \A q \in Procs \ {p} : since'[q] = since[q]
           /\ pc'[p] \notin {"delBak", "delMain"}
           /\ pc'[p] = "pickBak" => pc[p] = "pickMain" /\ IsEmpty(main) /\ since'[p] = since[p]
           /\ pc'[p] = "openBak" => pc[p] = "pickBak" /\ since'[p] = since[p]
           /\ pc'[p] = "reading" => /\ since'[p] = since[p] /\ strm'[p] # None
                                    /\ \/ pc[p] = "openMain" /\ strm'[p] = main
                                       \/ pc[p] = "openBak" /\ strm'[p] = bak
<1> USE DEF Goto, TypeInv, TypeOK
<1>1. CASE OpenRead(p) \/ OpenWrite(p) \/ Remove(p)
    <2>1. PICK c \in Calls, ign \in {TRUE, FALSE, kept[p]} \cup IgnoreLock : Begins(p, c, ign)
        BY <1>1 DEF OpenRead, OpenWrite, Remove, Calls
    <2>2. pc'[p] \in {"wait", "mkLock", "delNew"}
        BY <2>1 DEF Begins, AfterWait
    <2>3. since' = since \/ since' = [since EXCEPT ![p] = committed]
        BY <1>1 DEF OpenRead, OpenWrite, Remove
    <2> QED BY <2>2, <2>3
<1>2. CASE LockStep(p)
    <2>1. since' = since \/ since' = [since EXCEPT ![p] = None]
        BY <1>2 DEF LockStep, WaitEnds, WaitAgain, WaitGivesUp, BreakLock, MkLock,
                    DirectoryFails, RmLock
    <2>2. pc'[p] \in {"wait", "breakLock", "mkLock", "delNew", "idle", "pickMain", "rmNew"}
        BY <1>2 DEF LockStep, WaitEnds, WaitAgain, WaitGivesUp, BreakLock, MkLock,
                    DirectoryFails, RmLock, WaitIsOver, AfterWait
    <2> QED BY <2>1, <2>2
<1>3. CASE ReadStep(p)
    BY <1>3 DEF ReadStep, PickMain, PickBak, OpenMain, OpenBak, OpenStream, CloseRead,
            OnlyStream
<1>4. CASE CloseSuccess(p) \/ CloseFail(p) \/ WritePart(p)
    BY <1>4 DEF CloseSuccess, CloseFail, WritePart, OnlyStream
<1>5. CASE Crash(p)
    BY <1>5 DEF Crash
<1> QED BY <1>1, <1>2, <1>3, <1>4, <1>5 DEF KeepsNames

LEMMA KeepsRecent ==
    ASSUME AllInv, RecentInv, NEW p \in Procs, KeepsNames(p)
    PROVE  RecentInv'
<1> USE DEF RecentInv, None
<1>1. UNCHANGED <<main, bak, new, committed>>
    BY NamesKept DEF AllInv
<1>2. OthersStay(p)
    BY StepOfOne DEF KeepsNames, Step, WriteStep, AllInv
<1>3. NamesRecent'
    BY <1>1 DEF NamesRecent
<1>4. \A q \in Procs \ {p} : Recent(q)'
    <2>1. \A q \in Procs \ {p} : since'[q] = since[q]
        BY ReaderPc DEF AllInv
    <2> QED BY <1>1, <1>2, <2>1 DEF Recent, OthersStay
<1>5. Recent(p)'
    <2>1. /\ since[p] \in Nat /\ committed \in Nat /\ main \in Nat /\ bak \in Nat
          /\ since[p] <= committed
        BY DEF Recent, AllInv, TypeInv, TypeOK
    <2>2. since'[p] <= committed'
        BY <1>1, <2>1, ReaderPc DEF AllInv
    <2>3. ASSUME pc'[p] \in {"pickBak", "openBak"}, since'[p] # None
          PROVE  bak' = None \/ bak' >= since'[p]
        <3>1. CASE pc'[p] = "pickBak"
            <4>1. IsEmpty(main) /\ since'[p] = since[p]
                BY <3>1, ReaderPc DEF AllInv
            <4>2. main = None
                BY <4>1 DEF IsEmpty, AllInv, VersionInv, NamesWhole, IsWhole
            <4>3. bak \in {None, committed}
                BY <2>1, <2>3, <4>1, <4>2 DEF NamesRecent
            <4> QED BY <1>1, <2>1, <4>1, <4>3
        <3>2. CASE pc'[p] = "openBak"
            BY <1>1, <2>3, <3>2, ReaderPc DEF Recent, AllInv
        <3> QED BY <2>3, <3>1, <3>2
    <2>4. ASSUME pc'[p] = "reading" PROVE strm'[p] >= since'[p]
        <3>1. since'[p] = since[p] /\ strm'[p] # None
            BY <2>4, ReaderPc DEF AllInv
        <3>2. CASE strm'[p] = main
            BY <2>1, <3>1, <3>2 DEF NamesRecent
        <3>3. CASE pc[p] = "openBak" /\ strm'[p] = bak
            BY <2>1, <3>1, <3>3 DEF Recent
        <3> QED BY <2>4, <3>2, <3>3, ReaderPc DEF AllInv
    <2>5. pc'[p] \notin {"delBak", "delMain"}
        BY ReaderPc DEF AllInv
    <2> QED BY <2>2, <2>3, <2>4, <2>5 DEF Recent
<1> QED BY <1>3, <1>4, <1>5

\* What a step of the process that changes the names does to them.
LEMMA NamesMove ==
    ASSUME OneChanger, AllInv, RecentInv, NEW p \in Procs, ChangesNames(p)
    PROVE  /\ NamesRecent'
           /\ \/ since' = since /\ committed' >= committed
              \/ since' = [q \in Procs |-> None]
           /\ \/ bak' \in {None, bak}
              \/ committed # None => bak' = committed
           /\ pc'[p] \notin {"pickBak", "openBak", "reading"}
           /\ pc'[p] \in {"delBak", "delMain"} => committed' = None
<1> USE DEF RecentInv, None, Goto, AllInv, TypeInv, TypeOK, OnlyFiles, files, Works
<1>0. /\ main \in Nat /\ bak \in Nat /\ new \in Nat /\ committed \in Nat /\ Len(content) \in Nat
      /\ committed <= Len(content)
    OBVIOUS
<1>1. CASE RmNew(p) \/ DropNew(p)
    BY <1>0, <1>1 DEF RmNew, DropNew, NamesRecent
<1>2. CASE OpenNew(p)
    <2>1. /\ UNCHANGED <<main, bak, since, committed>>
          /\ pc'[p] \in {"writing", "rmLock"}
          /\ new' \in {new, Len(content) + 1}
        BY <1>2 DEF OpenNew
    <2> QED BY <1>0, <2>1 DEF NamesRecent
<1>3. CASE CommitWrite(p)
    BY <1>0, <1>3 DEF CommitWrite, NamesRecent
<1>4. CASE RmBak(p) \/ RmOldBak(p)
    BY <1>0, <1>4 DEF RmBak, RmOldBak, NamesRecent
<1>5. CASE MainToBak(p)
    BY <1>0, <1>5 DEF MainToBak, NamesRecent
<1>6. CASE NewToMain(p)
    BY <1>0, <1>6 DEF NewToMain, NamesRecent
<1>7. CASE DelNew(p)
    <2>1. committed' = None /\ since' = [q \in Procs |-> None] /\ pc'[p] = "delBak"
          /\ UNCHANGED <<main, bak>> /\ new' \in {None, new}
        BY <1>7 DEF DelNew
    <2> QED BY <1>0, <2>1 DEF NamesRecent
<1>8. CASE DelBak(p) \/ DelMain(p)
    <2>1. committed = None
        BY <1>8 DEF DelBak, DelMain, Recent
    <2> QED BY <1>0, <1>8, <2>1 DEF DelBak, DelMain, NamesRecent
<1> QED BY <1>1, <1>2, <1>3, <1>4, <1>5, <1>6, <1>7, <1>8
        DEF ChangesNames, CommitStep, RemoveStep

LEMMA ChangesRecent ==
    ASSUME OneChanger, AllInv, RecentInv, NEW p \in Procs, ChangesNames(p)
    PROVE  RecentInv'
<1> USE DEF RecentInv, None
<1>1. OthersStay(p)
    BY StepOfOne DEF ChangesNames, Step, WriteStep, AllInv
<1>2. TypeInv'
    <2>1. Next
        BY DEF ChangesNames, Next, Step, WriteStep
    <2> QED BY <2>1, TypeStep DEF AllInv
<1> SUFFICES ASSUME NEW q \in Procs PROVE Recent(q)'
    BY NamesMove
<1>4. /\ since[q] \in Nat /\ since'[q] \in Nat /\ committed \in Nat /\ committed' \in Nat
      /\ bak \in Nat /\ bak' \in Nat /\ strm[q] \in Nat /\ strm'[q] \in Nat
    BY <1>2 DEF AllInv, TypeInv, TypeOK
<1>5. since'[q] <= committed' /\ since'[q] \in {None, since[q]}
    BY <1>4, NamesMove DEF Recent
<1>6. ASSUME pc'[q] \in {"pickBak", "openBak"}, since'[q] # None
      PROVE  bak' = None \/ bak' >= since'[q]
    <2>1. q # p
        BY <1>6, NamesMove
    <2>2. pc[q] \in {"pickBak", "openBak"} /\ since[q] # None /\ since'[q] = since[q]
        BY <1>1, <1>5, <1>6, <2>1 DEF OthersStay
    <2>3. (bak = None \/ bak >= since[q]) /\ committed >= since[q] /\ committed # None
        BY <1>4, <2>2 DEF Recent
    <2> QED BY <1>4, <2>2, <2>3, NamesMove
<1>7. ASSUME pc'[q] = "reading" PROVE strm'[q] >= since'[q]
    <2>1. q # p
        BY <1>7, NamesMove
    <2>2. pc[q] = "reading" /\ strm'[q] = strm[q]
        BY <1>1, <1>7, <2>1 DEF OthersStay
    <2> QED BY <1>4, <1>5, <2>2 DEF Recent
<1>8. ASSUME pc'[q] \in {"delBak", "delMain"} PROVE committed' = None
    <2>1. q = p
        <3> SUFFICES ASSUME q # p PROVE FALSE
            OBVIOUS
        <3>1. pc[q] \in RemovePcs
            BY <1>1, <1>8 DEF OthersStay, RemovePcs
        <3> QED BY <3>1, OnlyOneChanges, ChangerPc DEF AllInv
    <2> QED BY <1>8, <2>1, NamesMove
<1> QED BY <1>5, <1>6, <1>7, <1>8 DEF Recent

LEMMA OneChangerWrites ==
    ASSUME OneChanger PROVE OneWriter
BY DEF OneChanger, OneWriter

\* What is read is as new as what was committed when openRead was called, for any number of
\* readers, with or without the lock, whatever fails or crashes.
THEOREM ReadsAreRecentCorrect == OneChanger => (Spec => []ReadsAreRecent)
<1> SUFFICES ASSUME OneChanger PROVE Spec => []ReadsAreRecent
    OBVIOUS
<1> DEFINE Inv == AllInv /\ RecentInv
<1>1. Init => Inv
    <2> SUFFICES ASSUME Init PROVE RecentInv
        BY AllInvInit
    <2> QED BY DEF Init, RecentInv, NamesRecent, Recent, None
<1>2. Inv /\ [Next]_vars => Inv'
    <2> SUFFICES ASSUME AllInv, RecentInv, [Next]_vars PROVE RecentInv'
        BY AllInvStep, OneChangerWrites
    <2>1. CASE UNCHANGED vars
        BY <2>1 DEF vars, files, RecentInv, NamesRecent, Recent
    <2>2. CASE Next
        BY <2>2, StepKinds, KeepsRecent, ChangesRecent
    <2> QED BY <2>1, <2>2
<1>3. Inv => ReadsAreRecent
    BY DEF RecentInv, Recent, ReadsAreRecent
<1>4. Spec => []Inv
    <2> HIDE DEF Inv
    <2> QED BY <1>1, <1>2, PTL DEF Spec
<1> QED BY <1>3, <1>4, PTL

-----------------------------------------------------------------------------
(* What is left of the file, where one process writes and removes it.  The *)
(* main file is missing only between two renames of a commit, until        *)
(* something fails; and a commit that takes the last backup away has its   *)
(* new file complete, and a second failure to go.                          *)

LeftInv ==
    \A p \in Procs :
        /\ pc[p] \in {"rmBak", "mainToBak", "newToMain"} => new # None
        /\ pc[p] = "rmOldBak" => main # None

MainInv ==
    faults = 0 =>
        /\ \A p \in Procs : clean[p]
        /\ committed # None =>
              \/ main = committed
              \/ main = None /\ bak = committed /\ \E p \in Procs : pc[p] = "newToMain"

SomeInv ==
    committed # None /\ faults = 1 =>
        \/ main # None \/ bak # None
        \/ \E p \in Procs : pc[p] \in {"mainToBak", "newToMain"}

RemainsInv == LeftInv /\ MainInv /\ SomeInv

\* A commit that is left before its renames are done has failed.
LEMMA KeepsFaults ==
    ASSUME TypeInv, NEW p \in Procs, KeepsNames(p)
    PROVE  /\ faults' \in {faults, faults + 1}
           /\ pc[p] \in {"mainToBak", "newToMain"} => faults' = faults + 1
           /\ pc'[p] \notin {"rmBak", "mainToBak", "newToMain", "rmOldBak"}
           /\ faults' = faults => \A q \in Procs : clean[q] => clean'[q]
<1> USE DEF Goto, TypeInv, TypeOK, Fault, NoFault
<1>1. CASE OpenRead(p) \/ OpenWrite(p) \/ Remove(p)
    <2>1. PICK c \in Calls, ign \in {TRUE, FALSE, kept[p]} \cup IgnoreLock : Begins(p, c, ign)
        BY <1>1 DEF OpenRead, OpenWrite, Remove, Calls
    <2> QED BY <2>1 DEF Begins, AfterWait
<1>2. CASE LockStep(p)
    BY <1>2 DEF LockStep, WaitEnds, WaitAgain, WaitGivesUp, BreakLock, MkLock, Works,
                DirectoryFails, RmLock, WaitIsOver, AfterWait
<1>3. CASE ReadStep(p)
    BY <1>3 DEF ReadStep, PickMain, PickBak, OpenMain, OpenBak, OpenStream, CloseRead
<1>4. CASE CloseSuccess(p) \/ CloseFail(p) \/ WritePart(p)
    BY <1>4 DEF CloseSuccess, CloseFail, WritePart
<1>5. CASE Crash(p)
    BY <1>5 DEF Crash
<1> QED BY <1>1, <1>2, <1>3, <1>4, <1>5 DEF KeepsNames

LEMMA KeepsRemains ==
    ASSUME TypeInv, RemainsInv, NEW p \in Procs, KeepsNames(p)
    PROVE  RemainsInv'
<1> USE DEF RemainsInv
<1>1. UNCHANGED <<main, bak, new, committed>>
    BY NamesKept
<1>2. OthersStay(p)
    BY StepOfOne DEF KeepsNames, Step, WriteStep
<1>3. /\ faults' \in {faults, faults + 1} /\ faults \in Nat
      /\ pc[p] \in {"mainToBak", "newToMain"} => faults' = faults + 1
      /\ pc'[p] \notin {"rmBak", "mainToBak", "newToMain", "rmOldBak"}
      /\ faults' = faults => \A q \in Procs : clean[q] => clean'[q]
    BY KeepsFaults DEF TypeInv, TypeOK
<1>4. LeftInv'
    BY <1>1, <1>2, <1>3 DEF LeftInv, OthersStay
<1>5. MainInv'
    BY <1>1, <1>2, <1>3 DEF MainInv, OthersStay
<1>6. SomeInv'
    <2> SUFFICES ASSUME committed' # None, faults' = 1, main' = None, bak' = None
                 PROVE  \E q \in Procs : pc'[q] \in {"mainToBak", "newToMain"}
        BY DEF SomeInv
    <2>1. faults # 0
        BY <1>1 DEF MainInv
    <2>2. faults = 1 /\ faults' = faults
        BY <1>3, <2>1
    <2>3. PICK q \in Procs : pc[q] \in {"mainToBak", "newToMain"}
        BY <1>1, <2>2 DEF SomeInv
    <2>4. q # p
        BY <1>3, <2>2, <2>3
    <2> QED BY <1>2, <2>3, <2>4 DEF OthersStay
<1> QED BY <1>4, <1>5, <1>6

\* What a step of the process that changes the names counts.
LEMMA ChangesFaults ==
    ASSUME TypeInv, NEW p \in Procs, ChangesNames(p)
    PROVE  /\ faults' \in {faults, faults + 1} /\ faults \in Nat
           /\ faults' = faults => \A q \in Procs : clean'[q] = clean[q]
<1>1. Fault(p) \/ NoFault
    BY DEF ChangesNames, RmNew, OpenNew, DropNew, CommitStep, CommitWrite, RmBak, MainToBak,
           NewToMain, RmOldBak, RemoveStep, DelNew, DelBak, DelMain, Works
<1> QED BY <1>1 DEF Fault, NoFault, TypeInv, TypeOK

LEMMA ChangesRemain ==
    ASSUME OneChanger, AllInv, RecentInv, CommitInv, RemainsInv,
           NEW p \in Procs, ChangesNames(p)
    PROVE  RemainsInv'
<1> USE DEF RemainsInv, AllInv
<1>1. OthersStay(p)
    BY StepOfOne DEF ChangesNames, Step, WriteStep
<1>2. \A q \in Procs \ {p} : pc[q] \notin WritePcs \cup RemovePcs /\ pc'[q] = pc[q]
    BY <1>1, OnlyOneChanges, ChangerPc DEF OthersStay
<1>3. /\ faults' \in {faults, faults + 1} /\ faults \in Nat
      /\ faults' = faults => \A q \in Procs : clean'[q] = clean[q]
    BY ChangesFaults
<1>4. \A q \in Procs \ {p} :
          /\ pc[q] \notin {"rmBak", "mainToBak", "newToMain", "rmOldBak"}
          /\ pc'[q] \notin {"rmBak", "mainToBak", "newToMain", "rmOldBak"}
    BY <1>2 DEF WritePcs
<1>5. (\A q \in Procs : clean[q]) /\ faults' = faults => \A q \in Procs : clean'[q]
    BY <1>3
<1>6. clean[p] => /\ pc[p] = "mainToBak" => bak = None
                  /\ pc[p] = "newToMain" => main = None
    BY DEF CommitInv
\* It is enough to look at the process itself.
<1> DEFINE
      Left ==
        /\ pc'[p] \in {"rmBak", "mainToBak", "newToMain"} => new' # None
        /\ pc'[p] = "rmOldBak" => main' # None
      Main ==
        faults' = 0 /\ committed' # None =>
            main' = committed' \/ (main' = None /\ bak' = committed' /\ pc'[p] = "newToMain")
      Some ==
        committed' # None /\ faults' = 1 =>
            main' # None \/ bak' # None \/ pc'[p] \in {"mainToBak", "newToMain"}
<1> SUFFICES Left /\ Main /\ Some
    <2>1. LeftInv'
        BY <1>4 DEF LeftInv
    <2>2. MainInv'
        BY <1>3, <1>5 DEF MainInv
    <2>3. SomeInv'
        BY DEF SomeInv
    <2> QED BY <2>1, <2>2, <2>3
<1>7. /\ pc[p] \in {"rmBak", "mainToBak", "newToMain"} => new # None
      /\ pc[p] = "rmOldBak" => main # None
    BY DEF LeftInv
<1>8. faults = 0 /\ committed # None =>
          /\ clean[p]
          /\ main = committed \/ (main = None /\ bak = committed /\ pc[p] = "newToMain")
    BY <1>4 DEF MainInv
<1>9. faults = 1 /\ committed # None =>
          main # None \/ bak # None \/ pc[p] \in {"mainToBak", "newToMain"}
    BY <1>4 DEF SomeInv
<1> USE DEF Goto, TypeInv, TypeOK, Works, NoFault, Fault, None
<1>10. CASE RmNew(p) \/ OpenNew(p) \/ DropNew(p)
    <2>1. /\ UNCHANGED <<main, bak, committed>>
          /\ pc[p] \notin {"rmBak", "mainToBak", "newToMain", "rmOldBak"}
          /\ pc'[p] \notin {"rmBak", "mainToBak", "newToMain", "rmOldBak"}
        BY <1>10 DEF RmNew, OpenNew, DropNew
    <2> QED BY <1>3, <1>8, <1>9, <2>1
<1>11. CASE CommitWrite(p)
    BY <1>3, <1>8, <1>9, <1>11 DEF CommitWrite, IsEmpty, files
<1>12. CASE RmBak(p)
    <2>1. /\ UNCHANGED <<main, new, committed>>
          /\ pc[p] = "rmBak" /\ pc'[p] = "mainToBak"
        BY <1>12 DEF RmBak
    <2> QED BY <1>3, <1>7, <1>8, <1>9, <2>1
<1>13. CASE MainToBak(p)
    <2>1. /\ UNCHANGED <<new, committed>>
          /\ pc[p] = "mainToBak" /\ pc'[p] = "newToMain"
          /\ \/ main # None /\ main' = None /\ bak' = main
             \/ UNCHANGED <<main, bak>> /\ (faults' = faults => main = None \/ bak # None)
        BY <1>13 DEF MainToBak
    <2> QED BY <1>3, <1>6, <1>7, <1>8, <1>9, <2>1
<1>14. CASE NewToMain(p)
    <2>1. /\ UNCHANGED bak /\ pc[p] = "newToMain"
          /\ \/ /\ main' = new /\ committed' = new /\ new # None
                /\ pc'[p] \in {"rmOldBak", "rmLock"}
             \/ /\ UNCHANGED <<main, new, committed>> /\ pc'[p] = "rmLock"
                /\ main = None => faults' = faults + 1
        BY <1>7, <1>14 DEF NewToMain
    <2> QED BY <1>3, <1>6, <1>7, <1>8, <1>9, <2>1
<1>15. CASE RmOldBak(p)
    <2>1. /\ UNCHANGED <<main, new, committed>>
          /\ pc[p] = "rmOldBak" /\ pc'[p] = "rmLock"
        BY <1>15 DEF RmOldBak
    <2> QED BY <1>3, <1>7, <1>8, <1>9, <2>1
<1>16. CASE RemoveStep(p)
    <2>1. committed' = None
        BY <1>16 DEF RemoveStep, DelNew, DelBak, DelMain, RecentInv, Recent
    <2>2. pc'[p] \in {"delBak", "delMain", "idle"}
        BY <1>16 DEF RemoveStep, DelNew, DelBak, DelMain
    <2> QED BY <2>1, <2>2
<1> QED BY <1>10, <1>11, <1>12, <1>13, <1>14, <1>15, <1>16 DEF ChangesNames, CommitStep

\* A version of the file can be had at any time, also after one failure or crash, and until
\* then the last version committed, as the main file or the backup: for any number of readers
\* and of commits, if one process writes and removes the file.
THEOREM AVersionRemainsCorrect == OneChanger => (Spec => []AVersionRemains)
<1> SUFFICES ASSUME OneChanger PROVE Spec => []AVersionRemains
    OBVIOUS
<1> DEFINE Inv == AllInv /\ RecentInv /\ CommitInv /\ RemainsInv
<1>1. Init => Inv
    <2> SUFFICES ASSUME Init PROVE RecentInv /\ CommitInv /\ RemainsInv
        BY AllInvInit
    <2>1. RecentInv /\ CommitInv
        BY DEF Init, RecentInv, NamesRecent, Recent, CommitInv, None
    <2>2. RemainsInv
        BY DEF Init, RemainsInv, LeftInv, MainInv, SomeInv, None
    <2> QED BY <2>1, <2>2
<1>2. Inv /\ [Next]_vars => Inv'
    <2> SUFFICES ASSUME AllInv, RecentInv, CommitInv, RemainsInv, [Next]_vars
                 PROVE  RecentInv' /\ CommitInv' /\ RemainsInv'
        BY AllInvStep, OneChangerWrites
    <2>1. CommitInv'
        BY CommitInvStep DEF AllInv
    <2>2. CASE UNCHANGED vars
        BY <2>1, <2>2 DEF vars, files, RecentInv, NamesRecent, Recent, RemainsInv, LeftInv,
                          MainInv, SomeInv
    <2>3. CASE Next
        <3>1. PICK p \in Procs : KeepsNames(p) \/ ChangesNames(p)
            BY <2>3, StepKinds
        <3>2. RecentInv'
            BY <3>1, KeepsRecent, ChangesRecent
        <3>3. RemainsInv'
            BY <3>1, KeepsRemains, ChangesRemain DEF AllInv
        <3> QED BY <2>1, <3>2, <3>3
    <2> QED BY <2>2, <2>3
<1>3. Inv => AVersionRemains
    <2> SUFFICES ASSUME AllInv, RecentInv, RemainsInv, committed # None
                 PROVE  /\ faults = 0 => main = committed \/ (main = None /\ bak = committed)
                        /\ faults <= 1 => IsWhole(main) \/ IsWhole(bak) \/ IsWhole(new)
        BY DEF AVersionRemains
    <2>1. faults = 0 => main = committed \/ (main = None /\ bak = committed)
        BY DEF RemainsInv, MainInv
    <2>2. ASSUME faults <= 1 PROVE IsWhole(main) \/ IsWhole(bak) \/ IsWhole(new)
        <3>1. CASE main # None \/ bak # None
            BY <3>1 DEF AllInv, VersionInv, NamesWhole
        <3>2. CASE main = None /\ bak = None
            <4>1. faults = 1
                BY <2>1, <2>2, <3>2 DEF AllInv, TypeInv, TypeOK
            <4>2. PICK p \in Procs : pc[p] \in {"mainToBak", "newToMain"}
                BY <3>2, <4>1 DEF RemainsInv, SomeInv
            <4> QED BY <4>2 DEF RemainsInv, LeftInv, AllInv, VersionInv, CommitsWhole, IsWhole
        <3> QED BY <3>1, <3>2
    <2> QED BY <2>1, <2>2
<1>4. Spec => []Inv
    <2> HIDE DEF Inv
    <2> QED BY <1>1, <1>2, PTL DEF Spec
<1> QED BY <1>3, <1>4, PTL

=============================================================================
