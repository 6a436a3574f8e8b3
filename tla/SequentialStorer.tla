--------------------------- MODULE SequentialStorer ---------------------------
(***************************************************************************)
(* Seis::SequentialStorer: several threads make the traces of a volume,    *)
(* and one after the other they are to be stored in the order in which     *)
(* they were announced.  A trace that is submitted is kept in outputs_     *)
(* until all traces announced before it have been submitted; then it goes  *)
(* to a SingleThread queue of the WorkManager.  A thread that submits      *)
(* waits while outputs_ and the queue are full.                            *)
(*                                                                         *)
(* Traces are numbered in the order in which they are announced; no two    *)
(* are at the same position.  Every critical section of lock_ is one       *)
(* action.  workload is WorkManager::workload_: what waits for a pool      *)
(* thread, <<"write", t>> for the storing of a trace and other pairs for   *)
(* work of others.  The actions do not say which pool thread stores; the   *)
(* module that composes them with a pool does.                             *)
(***************************************************************************)
EXTENDS Naturals, Sequences, FiniteSets, SequencesExt

CONSTANTS
    Submitters,    \* the threads that make traces
    NrTraces,      \* bound: traces in the volume
    maxqueuesize   \* maxqueuesize_

ASSUME StorerAssumption ==
    /\ IsFiniteSet(Submitters)
    /\ NrTraces \in Nat
    /\ maxqueuesize \in Nat \ {0}

VARIABLES
    nexttrace,  \* the next trace of the input
    hold,       \* the trace a thread has announced and not submitted, or 0
    announced,  \* announcedtraces_
    outputs,    \* outputs_
    workload,
    writing,    \* the trace whose storing has been given a thread, or 0
    reported,   \* whether reportWrite has been called for it
    written,    \* what the Storer has stored, in order
    uirv,       \* uirv_.isOK()
    blocked,    \* the threads in the loop of submitTrace ...
    sleeping    \* ... and in lock_.wait()

storerVars == <<nexttrace, hold, announced, outputs, workload, writing,
                reported, written, uirv, blocked, sleeping>>

StorerInit ==
    /\ nexttrace = 1
    /\ hold = [s \in Submitters |-> 0]
    /\ announced = <<>>
    /\ outputs = {}
    /\ workload = <<>>
    /\ writing = 0
    /\ reported = FALSE
    /\ written = <<>>
    /\ uirv = TRUE
    /\ blocked = {}
    /\ sleeping = {}

-----------------------------------------------------------------------------
IsWrite(item) == item[1] = "write"

WriteItems(ts) == [i \in DOMAIN ts |-> <<"write", ts[i]>>]

\* WorkManager::queueSize: what is being stored no longer counts.
queueSize(load) == Cardinality({i \in DOMAIN load : IsWrite(load[i])})

Size(out, load) == Cardinality(out) + queueSize(load)

\* A client reads the next trace and announces it under a lock of its own.
announceTrace(s) ==
    /\ hold[s] = 0
    /\ s \notin blocked
    /\ nexttrace <= NrTraces
    /\ hold' = [hold EXCEPT ![s] = nexttrace]
    /\ announced' = Append(announced, nexttrace)
    /\ nexttrace' = nexttrace + 1
    /\ UNCHANGED <<outputs, workload, writing, reported, written, uirv,
                   blocked, sleeping>>

\* How many of the traces announced first are there.
ReadyIn(out) ==
    CHOOSE n \in 0..Len(announced) :
        /\ \A i \in 1..n : announced[i] \in out
        /\ n < Len(announced) => announced[n + 1] \notin out

\* Mistake (Ready): goes on after an announced trace that is not there.
ReadyAny(out) == SelectSeq(announced, LAMBDA t : t \in out)

\* The traces that can go to the queue.
Ready(out) == SubSeq(announced, 1, ReadyIn(out))

\* addWork starts the first at once if the queue is idle and a thread is free.
iterateBuffer(out, startsnow) ==
    LET ready == Ready(out) IN
    /\ startsnow => ready # <<>> /\ writing = 0
    /\ announced' = SubSeq(announced, Len(ready) + 1, Len(announced))
    /\ outputs' = out \ ToSet(ready)
    /\ writing' = IF startsnow THEN Head(ready) ELSE writing
    /\ workload' = workload \o
                       WriteItems(IF startsnow THEN Tail(ready) ELSE ready)

MustWait(out, load) == Size(out, load) >= maxqueuesize /\ uirv

\* submitTrace with waitforbuffer, up to its return or to lock_.wait().
submitTrace(s, startsnow) ==
    /\ hold[s] # 0
    /\ iterateBuffer(outputs \cup {hold[s]}, startsnow)
    /\ hold' = [hold EXCEPT ![s] = 0]
    /\ IF MustWait(outputs', workload')
       THEN blocked' = blocked \cup {s} /\ sleeping' = sleeping \cup {s}
       ELSE UNCHANGED <<blocked, sleeping>>
    /\ UNCHANGED <<nexttrace, reported, written, uirv>>

\* lock_.wait() returns.
ResumeSubmit(s) ==
    /\ s \in blocked \ sleeping
    /\ IF MustWait(outputs, workload)
       THEN sleeping' = sleeping \cup {s} /\ UNCHANGED blocked
       ELSE blocked' = blocked \ {s} /\ UNCHANGED sleeping
    /\ UNCHANGED <<nexttrace, hold, announced, outputs, workload, writing,
                   reported, written, uirv>>

\* emptyQueue( queueid_, false ): the other works stay as they are.
WithoutWrites(load) ==
    {s \in SetToSeqs({item \in ToSet(load) : ~IsWrite(item)}) :
        \A a, b \in DOMAIN s : a < b =>
            \E c, d \in DOMAIN load : c < d /\ load[c] = s[a] /\ load[d] = s[b]}

\* Mistake (reportWrite): wakes nobody when there is room again.
reportWriteSilently(isok) ==
    IF isok
    THEN UNCHANGED <<uirv, workload, sleeping>>
    ELSE /\ uirv' = FALSE
         /\ workload' \in WithoutWrites(workload)
         /\ sleeping' = {}

\* After an error what waits in the queue is dropped.
reportWrite(isok) ==
    IF isok
    THEN /\ sleeping' = IF Size(outputs, workload) < maxqueuesize
                        THEN {} ELSE sleeping
         /\ UNCHANGED <<uirv, workload>>
    ELSE /\ uirv' = FALSE
         /\ workload' \in WithoutWrites(workload)
         /\ sleeping' = {}

\* SingleTraceStorer::execute: Storer::put, which may fail, and the report.
execute(isok) ==
    /\ writing # 0
    /\ ~reported
    /\ written' = IF isok THEN Append(written, writing) ELSE written
    /\ reported' = TRUE
    /\ reportWrite(isok)
    /\ UNCHANGED <<nexttrace, hold, announced, outputs, writing, blocked>>

\* What emptyQueue(queueid_, true) waits for.
Drained == writing = 0 /\ queueSize(workload) = 0

\* finishWrite returns uirv; what is left in outputs_ is deleted.
finishWrite ==
    /\ Drained
    /\ outputs' = {}
    /\ UNCHANGED <<nexttrace, hold, announced, workload, writing, reported,
                   written, uirv, blocked, sleeping>>

-----------------------------------------------------------------------------
\* Traces are stored in the order in which they were announced, each once, and
\* none is left out before a later one unless the storing of one has failed.
WrittenInOrder ==
    /\ \A i, j \in DOMAIN written : i < j => written[i] < written[j]
    /\ uirv => \A i \in DOMAIN written : written[i] = i
=============================================================================
