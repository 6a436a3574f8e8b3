------------------------------ MODULE SafeFileIO -----------------------------
(***************************************************************************)
(* SafeFileIO: processes that read and write one file through a new file,  *)
(* a backup and a lock file.                                               *)
(*                                                                         *)
(* A name of the file (main = filenm_, bak = bakfnm_, new = newfnm_) is    *)
(* bound to a version, or to none.  Version v is the v-th file that was    *)
(* created for writing, and content[v] is how far that writing came.  An   *)
(* open stream keeps its version when the name is renamed or removed.      *)
(*                                                                         *)
(* One action is one call to the file system together with the tests that  *)
(* follow it in the same process: other processes run between any two, and *)
(* a process may end, without cleaning up, at any of them.  At most        *)
(* MaxFaults calls fail or processes end like that.                        *)
(***************************************************************************)
EXTENDS Integers, Sequences

CONSTANTS
    Procs,
    Readers,     \* the processes that call open( true )
    Writers,     \* the processes that call open( false )
    Removers,    \* the processes that call remove()
    Settings,    \* how each process may set up its SafeFileIO objects of this file
    IgnoreLock,  \* the values of ignorelock in open()
    LockRetries, \* lockretries_
    MaxWrites,   \* bound: calls of open( false )
    MaxFaults    \* bound: failing operations and crashes

ASSUME ConstantAssumption ==
    /\ Readers \subseteq Procs
    /\ Writers \subseteq Procs
    /\ Removers \subseteq Procs
    /\ Settings \subseteq
          [Procs -> [locked : BOOLEAN, usebakwhenmissing : BOOLEAN,
                     removebakonsuccess : BOOLEAN, allowlockremove : BOOLEAN]]
    /\ IgnoreLock \subseteq BOOLEAN
    /\ LockRetries \in Nat
    /\ MaxWrites \in Nat
    /\ MaxFaults \in Nat

VARIABLES
    main, bak, new, \* the version each name is bound to, None if there is no such file
    content,        \* what is in each version
    lock,           \* whether lockfnm_ exists
    pc,             \* where each process is in its call
    call,           \* the call: read, write or remove
    tries,          \* idx in waitForLock
    strm,           \* the version strm_ reads or writes
    kept,           \* closed with keeplock: the lock is still its own
    since,          \* the last version committed when openRead was called, if not removed
    committed,      \* the last version that commitWrite made the main file
    writes,         \* calls of open( false )
    faults,         \* operations that failed, and crashes
    clean,          \* no operation of this call of the process has failed
    setup           \* locked_ and the setup variables of the objects of each process

files == <<main, bak, new>>
vars == <<main, bak, new, content, lock, pc, call, tries, strm, kept, since,
          committed, writes, faults, clean, setup>>

None == 0
Contents == {"empty", "part", "full", "mixed"}
Calls == {"none", "read", "write", "remove"}
Pcs == {"idle", "wait", "breakLock", "mkLock", "rmLock",
        "pickMain", "pickBak", "openMain", "openBak", "reading",
        "rmNew", "openNew", "writing", "dropNew", "commit", "rmBak", "mainToBak",
        "newToMain", "rmOldBak", "delNew", "delBak", "delMain"}

\* File::isEmpty, which also holds of a file that does not exist.
IsEmpty(v) == v = None \/ content[v] = "empty"

\* The file was written before; remove() leads to the states where it was not.
Init ==
    /\ content = <<"full">>
    /\ main = 1 /\ bak = None /\ new = None
    /\ lock = FALSE
    /\ pc = [p \in Procs |-> "idle"]
    /\ call = [p \in Procs |-> "none"]
    /\ tries = [p \in Procs |-> 0]
    /\ strm = [p \in Procs |-> None]
    /\ kept = [p \in Procs |-> FALSE]
    /\ since = [p \in Procs |-> None]
    /\ committed = 1
    /\ writes = 0
    /\ faults = 0
    /\ clean = [p \in Procs |-> TRUE]
    /\ setup \in Settings

-----------------------------------------------------------------------------
Goto(p, next) == pc' = [pc EXCEPT ![p] = next]

\* A file operation that fails, or a process that ends.
Fault(p) ==
    /\ faults < MaxFaults
    /\ faults' = faults + 1
    /\ clean' = [clean EXCEPT ![p] = FALSE]
NoFault == UNCHANGED <<faults, clean>>

\* The operation works, and is Done; or it fails, and changes nothing.
Works(p, Done, unchanged) ==
    \/ Done /\ NoFault
    \/ UNCHANGED unchanged /\ Fault(p)

\* Only pc changes besides the names of the file and the faults.
OnlyFiles == UNCHANGED <<content, lock, call, tries, strm, kept, since, writes, setup>>

\* The first step after waitForLock.
AfterWait(c) == IF c = "remove" THEN "delNew" ELSE "mkLock"

\* A process calls open or remove; an unlocked object, or one told to ignore the lock,
\* does not wait.
Begins(p, c, ignorelock) ==
    /\ pc[p] = "idle"
    /\ call' = [call EXCEPT ![p] = c]
    /\ kept' = [kept EXCEPT ![p] = FALSE]
    /\ Goto(p, IF setup[p].locked /\ ~ignorelock THEN "wait" ELSE AfterWait(c))
    /\ clean' = [clean EXCEPT ![p] = TRUE]
    /\ UNCHANGED <<files, content, lock, tries, strm, committed, faults, setup>>

OpenRead(p) ==
    /\ p \in Readers /\ ~kept[p]
    /\ \E ignorelock \in IgnoreLock : Begins(p, "read", ignorelock)
    /\ since' = [since EXCEPT ![p] = committed]
    /\ UNCHANGED writes

\* After a read that kept the lock, the caller ignores that lock.
OpenWrite(p) ==
    /\ p \in Writers
    /\ writes < MaxWrites
    /\ writes' = writes + 1
    /\ \E ignorelock \in IgnoreLock \cup {kept[p]} :
          (kept[p] => ignorelock) /\ Begins(p, "write", ignorelock)
    /\ UNCHANGED since

Remove(p) ==
    /\ p \in Removers /\ ~kept[p]
    /\ Begins(p, "remove", FALSE)
    /\ UNCHANGED <<since, writes>>

-----------------------------------------------------------------------------
OnlyLock ==
    UNCHANGED <<files, content, strm, kept, committed, writes, setup>>

\* The step that follows waitForLock; the loop is left.
WaitIsOver(p) ==
    /\ tries' = [tries EXCEPT ![p] = 0]
    /\ Goto(p, AfterWait(call[p]))

\* waitForLock: haveLock() is false.
WaitEnds(p) ==
    /\ pc[p] = "wait" /\ ~lock
    /\ WaitIsOver(p)
    /\ UNCHANGED <<lock, call, since>> /\ NoFault /\ OnlyLock

\* Mistake (WaitAgain): the retries are not counted.
WaitsForEver(p) ==
    /\ pc[p] = "wait" /\ lock
    /\ UNCHANGED vars

WaitAgain(p) ==
    /\ pc[p] = "wait" /\ lock /\ tries[p] < LockRetries
    /\ tries' = [tries EXCEPT ![p] = @ + 1]
    /\ UNCHANGED <<pc, lock, call, since>> /\ NoFault /\ OnlyLock

\* The lock is still there after all retries: it is broken, or the call fails ...
WaitGivesUp(p) ==
    /\ pc[p] = "wait" /\ lock /\ tries[p] = LockRetries
    /\ tries' = [tries EXCEPT ![p] = 0]
    /\ Goto(p, IF setup[p].allowlockremove THEN "breakLock"
               ELSE IF call[p] = "remove" THEN "delNew" ELSE "idle")
    /\ UNCHANGED <<lock, call, since>> /\ NoFault /\ OnlyLock

\* ... remove() goes on all the same.  Whose lock it is by now, nobody looks.
BreakLock(p) ==
    /\ pc[p] = "breakLock"
    /\ lock' = FALSE
    /\ WaitIsOver(p)
    /\ UNCHANGED <<call, since>> /\ NoFault /\ OnlyLock

\* mkLock makes the lock file whether or not there is one by now.
MkLock(p) ==
    /\ pc[p] = "mkLock"
    /\ Works(p, lock' = (lock \/ setup[p].locked), lock)
    /\ Goto(p, IF call[p] = "read" THEN "pickMain" ELSE "rmNew")
    /\ call' = [call EXCEPT ![p] = "none"]
    /\ UNCHANGED <<tries, since>> /\ OnlyLock

\* checkDirectory fails: open returns without rmLock.
DirectoryFails(p) ==
    /\ pc[p] \in {"pickMain", "rmNew"}
    /\ Fault(p)
    /\ Goto(p, "idle")
    /\ UNCHANGED <<lock, tries, call, since>> /\ OnlyLock

\* rmLock at the end of a call removes the lock file, whoever made it.
RmLock(p) ==
    /\ pc[p] = "rmLock"
    /\ lock' = (lock /\ ~setup[p].locked)
    /\ Goto(p, "idle")
    /\ since' = [since EXCEPT ![p] = None]
    /\ clean' = [clean EXCEPT ![p] = TRUE]
    /\ UNCHANGED <<tries, call, faults>> /\ OnlyLock

-----------------------------------------------------------------------------
OnlyStream == UNCHANGED <<files, lock, call, tries, since, committed, writes, setup>>

\* Mistake (PickMain): the backup is read whenever there is one.
PickBakFirst(p) ==
    /\ pc[p] = "pickMain"
    /\ Goto(p, IF IsEmpty(main) \/ ~IsEmpty(bak) THEN "pickBak" ELSE "openMain")
    /\ UNCHANGED <<content, strm, kept>> /\ NoFault /\ OnlyStream

\* openRead chooses between the main file and the backup ...
PickMain(p) ==
    /\ pc[p] = "pickMain"
    /\ Goto(p, IF IsEmpty(main) THEN "pickBak" ELSE "openMain")
    /\ UNCHANGED <<content, strm, kept>> /\ NoFault /\ OnlyStream

\* Mistake (PickBak): openRead returns without rmLock.
PickBakOrReturn(p) ==
    /\ pc[p] = "pickBak"
    /\ LET toopen == IF setup[p].usebakwhenmissing THEN bak ELSE main
       IN  Goto(p, IF IsEmpty(toopen) THEN "idle"
                   ELSE IF setup[p].usebakwhenmissing THEN "openBak" ELSE "openMain")
    /\ UNCHANGED <<content, strm, kept>> /\ NoFault /\ OnlyStream

PickBak(p) ==
    /\ pc[p] = "pickBak"
    /\ LET toopen == IF setup[p].usebakwhenmissing THEN bak ELSE main
       IN  Goto(p, IF IsEmpty(toopen) THEN "rmLock"
                   ELSE IF setup[p].usebakwhenmissing THEN "openBak" ELSE "openMain")
    /\ UNCHANGED <<content, strm, kept>> /\ NoFault /\ OnlyStream

\* ... and opens what that name is bound to by now.
OpenStream(p, v) ==
    \/ /\ v # None
       /\ strm' = [strm EXCEPT ![p] = v]
       /\ Goto(p, "reading")
       /\ UNCHANGED <<content, kept>> /\ NoFault /\ OnlyStream
    \/ /\ IF v = None THEN NoFault ELSE Fault(p)
       /\ Goto(p, "rmLock")
       /\ UNCHANGED <<content, strm, kept>> /\ OnlyStream

OpenMain(p) == pc[p] = "openMain" /\ OpenStream(p, main)
OpenBak(p) == pc[p] = "openBak" /\ OpenStream(p, bak)

\* closeSuccess or closeFail after reading; keeplock if the process will write next.
CloseRead(p) ==
    /\ pc[p] = "reading"
    /\ strm' = [strm EXCEPT ![p] = None]
    /\ \E keeplock \in BOOLEAN :
          /\ keeplock => (p \in Writers /\ setup[p].locked /\ writes < MaxWrites)
          /\ kept' = [kept EXCEPT ![p] = keeplock]
          /\ Goto(p, IF keeplock THEN "idle" ELSE "rmLock")
    /\ UNCHANGED content /\ NoFault /\ OnlyStream

-----------------------------------------------------------------------------
\* openWrite removes a new file that was left, and makes its own.
RmNew(p) ==
    /\ pc[p] = "rmNew"
    /\ Works(p, new' = None, new)
    /\ Goto(p, "openNew")
    /\ UNCHANGED <<main, bak, committed>> /\ OnlyFiles

\* od_ostream truncates a file that exists: another process may just have made it.
OpenNew(p) ==
    /\ pc[p] = "openNew"
    /\ \/ /\ IF new = None
             THEN new' = Len(content) + 1 /\ content' = Append(content, "empty")
             ELSE content' = [content EXCEPT ![new] = "empty"] /\ UNCHANGED new
          /\ strm' = [strm EXCEPT ![p] = new']
          /\ Goto(p, "writing")
          /\ NoFault
       \/ Fault(p) /\ Goto(p, "rmLock") /\ UNCHANGED <<new, content, strm>>
    /\ UNCHANGED <<main, bak, lock, call, tries, kept, since, committed, writes, setup>>

\* Two streams that write one version, or write it again, make a mixture of it.
Shared(p) == \E q \in Procs \ {p} : pc[q] = "writing" /\ strm[q] = strm[p]
Written(p, c) ==
    content' = [content EXCEPT ![strm[p]] =
                   IF Shared(p) \/ @ \in {"full", "mixed"} THEN "mixed" ELSE c]

WritePart(p) ==
    /\ pc[p] = "writing"
    /\ Written(p, "part")
    /\ UNCHANGED <<pc, strm, kept>> /\ NoFault /\ OnlyStream

\* closeSuccess: the stream is flushed and closed; the user may have written nothing.
CloseSuccess(p) ==
    /\ pc[p] = "writing"
    /\ \/ Written(p, "full")
       \/ content[strm[p]] = "empty" /\ UNCHANGED content
    /\ strm' = [strm EXCEPT ![p] = None]
    /\ Goto(p, "commit")
    /\ UNCHANGED kept /\ NoFault /\ OnlyStream

\* Mistake (CloseFail): the new file is committed all the same.
CloseFailCommits(p) ==
    /\ pc[p] = "writing"
    /\ strm' = [strm EXCEPT ![p] = None]
    /\ Goto(p, "commit")
    /\ UNCHANGED <<content, kept>> /\ NoFault /\ OnlyStream

CloseFail(p) ==
    /\ pc[p] = "writing"
    /\ strm' = [strm EXCEPT ![p] = None]
    /\ Goto(p, "dropNew")
    /\ UNCHANGED <<content, kept>> /\ NoFault /\ OnlyStream

DropNew(p) ==
    /\ pc[p] = "dropNew"
    /\ Works(p, new' = None, new)
    /\ Goto(p, "rmLock")
    /\ UNCHANGED <<main, bak, committed>> /\ OnlyFiles

-----------------------------------------------------------------------------
\* commitWrite: an empty new file is not committed.
CommitWrite(p) ==
    /\ pc[p] = "commit"
    /\ Goto(p, IF IsEmpty(new) THEN "rmLock" ELSE "rmBak")
    /\ UNCHANGED <<files, committed>> /\ NoFault /\ OnlyFiles

\* Mistake (RmBak): an old backup is left where it is.
KeepBak(p) ==
    /\ pc[p] = "rmBak"
    /\ Goto(p, "mainToBak")
    /\ UNCHANGED <<files, committed>> /\ NoFault /\ OnlyFiles

RmBak(p) ==
    /\ pc[p] = "rmBak"
    /\ Works(p, bak' = None, bak)
    /\ Goto(p, "mainToBak")
    /\ UNCHANGED <<main, new, committed>> /\ OnlyFiles

\* Mistake (MainToBak): the main file is removed, and no backup made of it.
MainRemoved(p) ==
    /\ pc[p] = "mainToBak"
    /\ Works(p, main' = None, main)
    /\ Goto(p, "newToMain")
    /\ UNCHANGED <<bak, new, committed>> /\ OnlyFiles

\* File::rename fails if there is nothing to rename, or if the target exists.
MainToBak(p) ==
    /\ pc[p] = "mainToBak"
    /\ IF main # None /\ bak = None
       THEN Works(p, bak' = main /\ main' = None, <<main, bak>>)
       ELSE UNCHANGED <<main, bak>> /\ NoFault
    /\ Goto(p, "newToMain")
    /\ UNCHANGED <<new, committed>> /\ OnlyFiles

NewToMain(p) ==
    /\ pc[p] = "newToMain"
    /\ \/ /\ new # None /\ main = None
          /\ main' = new /\ new' = None /\ committed' = new
          /\ Goto(p, IF setup[p].removebakonsuccess THEN "rmOldBak" ELSE "rmLock")
          /\ NoFault
       \/ /\ IF new # None /\ main = None THEN Fault(p) ELSE NoFault
          /\ Goto(p, "rmLock")
          /\ UNCHANGED <<main, new, committed>>
    /\ UNCHANGED bak /\ OnlyFiles

RmOldBak(p) ==
    /\ pc[p] = "rmOldBak"
    /\ Works(p, bak' = None, bak)
    /\ Goto(p, "rmLock")
    /\ UNCHANGED <<main, new, committed>> /\ OnlyFiles

-----------------------------------------------------------------------------
\* remove(): from here on nobody can expect a version; no lock is made, and none removed.
DelNew(p) ==
    /\ pc[p] = "delNew"
    /\ Works(p, new' = None, new)
    /\ committed' = None
    /\ since' = [q \in Procs |-> None]
    /\ Goto(p, "delBak")
    /\ call' = [call EXCEPT ![p] = "none"]
    /\ UNCHANGED <<main, bak, content, lock, tries, strm, kept, writes, setup>>

DelBak(p) ==
    /\ pc[p] = "delBak"
    /\ Works(p, bak' = None, bak)
    /\ Goto(p, "delMain")
    /\ UNCHANGED <<main, new, committed>> /\ OnlyFiles

DelMain(p) ==
    /\ pc[p] = "delMain"
    /\ Works(p, main' = None, main)
    /\ Goto(p, "idle")
    /\ UNCHANGED <<bak, new, committed>> /\ OnlyFiles

\* The process ends and is started again: nothing on the disk is cleaned up.
Crash(p) ==
    /\ pc[p] # "idle" \/ kept[p]
    /\ faults < MaxFaults /\ faults' = faults + 1
    /\ Goto(p, "idle")
    /\ call' = [call EXCEPT ![p] = "none"]
    /\ since' = [since EXCEPT ![p] = None]
    /\ clean' = [clean EXCEPT ![p] = TRUE]
    /\ strm' = [strm EXCEPT ![p] = None]
    /\ kept' = [kept EXCEPT ![p] = FALSE]
    /\ tries' = [tries EXCEPT ![p] = 0]
    /\ UNCHANGED <<files, content, lock, committed, writes, setup>>

-----------------------------------------------------------------------------
LockStep(p) ==
    \/ WaitEnds(p) \/ WaitAgain(p) \/ WaitGivesUp(p) \/ BreakLock(p)
    \/ MkLock(p) \/ DirectoryFails(p) \/ RmLock(p)
ReadStep(p) == PickMain(p) \/ PickBak(p) \/ OpenMain(p) \/ OpenBak(p) \/ CloseRead(p)
WriteStep(p) == RmNew(p) \/ OpenNew(p) \/ CloseSuccess(p) \/ CloseFail(p) \/ DropNew(p)
CommitStep(p) ==
    CommitWrite(p) \/ RmBak(p) \/ MainToBak(p) \/ NewToMain(p) \/ RmOldBak(p)
RemoveStep(p) == DelNew(p) \/ DelBak(p) \/ DelMain(p)

\* What brings a call that was made nearer to its end.
Step(p) ==
    LockStep(p) \/ ReadStep(p) \/ WriteStep(p) \/ CommitStep(p) \/ RemoveStep(p)

Next ==
    \E p \in Procs :
        \/ OpenRead(p) \/ OpenWrite(p) \/ Remove(p)
        \/ Step(p) \/ WritePart(p) \/ Crash(p)

\* The operating system runs every process, and a user who opens a file closes it.
Fairness == \A p \in Procs : WF_vars(Step(p))

Spec == Init /\ [][Next]_vars /\ Fairness

-----------------------------------------------------------------------------
\* Every variable keeps its type; a name is bound to a version that exists.
TypeOK ==
    /\ content \in Seq(Contents)
    /\ main \in 0 .. Len(content) /\ bak \in 0 .. Len(content) /\ new \in 0 .. Len(content)
    /\ lock \in BOOLEAN
    /\ pc \in [Procs -> Pcs]
    /\ call \in [Procs -> Calls]
    /\ tries \in [Procs -> 0 .. LockRetries]
    /\ strm \in [Procs -> 0 .. Len(content)]
    /\ kept \in [Procs -> BOOLEAN]
    /\ since \in [Procs -> 0 .. Len(content)]
    /\ committed \in 0 .. Len(content)
    /\ writes \in 0 .. MaxWrites
    /\ faults \in 0 .. MaxFaults
    /\ clean \in [Procs -> BOOLEAN]
    /\ setup \in Settings

IsWhole(v) == v # None /\ content[v] = "full"

\* openRead, commitWrite: a reader never gets a file that is partly written, whatever
\* failed or crashed, if only one process writes ("when you can't afford to have partly
\* written things", safefileio.h).
ReadsAreWhole == \A p \in Procs : pc[p] = "reading" => IsWhole(strm[p])

\* openRead: what is read is at least as new as what was committed when openRead was
\* called, also when the backup is read because the main file was missing for a moment.
ReadsAreRecent ==
    \A p \in Procs : pc[p] = "reading" => strm[p] >= since[p]

\* commitWrite: unless something fails the last version committed can be read, as main
\* file or as backup; after one failure or crash some version is still on the disk.
AVersionRemains ==
    committed # None =>
        /\ faults = 0 => (main = committed \/ (main = None /\ bak = committed))
        /\ faults <= 1 => (IsWhole(main) \/ IsWhole(bak) \/ IsWhole(new))

\* openRead, openWrite, doClose: no way through a call leaves the lock file behind, unless
\* something fails or the caller asks to keep it.
NoLockIsLeft ==
    lock => \/ faults > 0
            \/ \E p \in Procs : pc[p] # "idle" \/ kept[p]

\* commitWrite: the last rename makes the new version the main file, whatever an earlier
\* crash has left on the disk, unless an operation of this very call has failed.
CommitSucceeds ==
    [][\A p \in Procs : pc[p] = "newToMain" /\ pc'[p] \in {"rmOldBak", "rmLock"} =>
          (main' = new /\ committed' = new) \/ ~clean'[p]]_vars

\* waitForLock: every call ends, also beside a lock file that nobody will remove.
CallsEnd == \A p \in Procs : []<>(pc[p] = "idle")

=============================================================================
