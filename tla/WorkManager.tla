----------------------------- MODULE WorkManager -----------------------------
(***************************************************************************)
(* The thread pool of OpendTect: Threads::WorkManager and its WorkThreads. *)
(*                                                                         *)
(* Every critical section of workloadcond_ is one action.  The condition   *)
(* variable is explicit: a thread in WorkManager::emptyQueue or            *)
(* removeQueue that calls workloadcond_.wait() joins "waiters" and may     *)
(* only go on after somebody has called workloadcond_.signal(true).  The   *)
(* mutex of a WorkThread (controlcond_) is held by the thread itself while *)
(* its pc is "report" or "idle"; nobody can assign a task to it then.      *)
(*                                                                         *)
(* A thread is a pool thread or a thread of the application.  What runs on *)
(* it is a stack of works, because a work may itself call addWork          *)
(* and executeWork, which may run works in the calling thread.  pc says    *)
(* what the top of the stack is doing:                                     *)
(*   run       executing the work on top (or the application's own code)   *)
(*   assign    in addWork, after the unlock, before assignTask             *)
(*   exec      in the loop of executeWork that adds works 1..n-1           *)
(*   execwait  in executeWork, waiting for the others                      *)
(*   empty, remove, rewait   in emptyQueue / removeQueue                   *)
(*   shutdown, erase         in shutdown                                   *)
(*   wait, report, idle, exited   a pool thread in doWork                  *)
(***************************************************************************)
EXTENDS Integers, Sequences, FiniteSets, SequencesExt

CONSTANTS
    Workers,     \* the pool threads (threads_)
    Users,       \* the other threads of the application
    Works,       \* the Work objects that are ever submitted, each once
    None,        \* no work, no thread
    WorkObj,     \* what a Work refers to: Work::operator== compares that
    MayFail,     \* the works whose execution may return false
    QueueTypes,  \* the types of queue the application adds
    MaxQueues,   \* bound: queues ever created, the default queue included
    MaxBatch,    \* bound: works in one call of executeWork
    ForceChoices,\* the values of forcedifferentthread the callers of addWork give
    Adders,      \* the threads that call addWork and removeWork
    Executors,   \* the threads that call executeWork
    Runners,     \* the threads that call executeQueue
    Removers,    \* the threads that call addQueue, emptyQueue and removeQueue
    Shutters     \* the threads that call shutdown

Threads == Workers \cup Users

ASSUME ConstantAssumption ==
    /\ None \notin Works \cup Threads
    /\ Workers \cap Users = {}
    /\ Workers # {}
    /\ IsFiniteSet(Works)
    /\ IsFiniteSet(Workers)
    /\ DOMAIN WorkObj = Works
    /\ MayFail \subseteq Works
    /\ QueueTypes \subseteq {"MultiThread", "SingleThread", "Manual"}
    /\ MaxQueues \in Nat
    /\ MaxBatch \in Nat
    /\ ForceChoices \subseteq BOOLEAN
    /\ UNION {Adders, Executors, Runners, Removers, Shutters} \subseteq Threads

VARIABLES
    queues,      \* queueids_, queuetypes_, queueworkload_, queueisclosing_
    freeid,      \* freeid_: the id of the next queue
    workload,    \* workload_, in order; wq and batch are the linked arrays
    freethreads, \* freethreads_
    erased,      \* whether threads_ has been erased
    task,        \* WorkThread::task_
    exitflag,    \* WorkThread::exitflag_
    wst,         \* what has become of every work
    wq,          \* the queue a work was submitted to
    to,          \* the thread a work was assigned to
    ok,          \* what the execution of the work returned
    batch,       \* the executeWork call (its first work) waiting for a work
    exec,        \* the WorkResultManager of that call
    pc, stack, cur, op,   \* the threads
    waiters,     \* the threads inside workloadcond_.wait()
    alarms       \* the pErrMsg's given and the bad subscripts used

poolVars   == <<queues, freeid, workload, freethreads, erased>>
workerVars == <<task, exitflag>>
workVars   == <<wst, wq, to, ok, batch, exec>>
threadVars == <<pc, stack, cur, op>>
vars == <<poolVars, workerVars, workVars, threadVars, waiters, alarms>>

(***************************************************************************)
(* A work counts in queueworkload_ from the moment a thread is chosen for  *)
(* it until that thread has reported back.                                 *)
(***************************************************************************)
Busy == {"assigned", "task", "reporting", "inline", "manual"}

WorkStates == Busy \cup {"new", "held", "pending", "first", "serial", "direct",
                         "done", "destroyed", "ignored"}

Queue == [id : Nat, type : {"MultiThread", "SingleThread", "Manual"},
          load : Int, closing : BOOLEAN]

Call == [q : Nat, idx : Nat, all : BOOLEAN, remove : BOOLEAN, down : BOOLEAN]

Batch == [todo : Seq(Works), nrtasks : Nat, nrfinished : Nat,
          error : BOOLEAN, firstinline : BOOLEAN]

NoCall  == [q |-> 0, idx |-> 0, all |-> FALSE, remove |-> FALSE, down |-> FALSE]
NoBatch == [todo |-> <<>>, nrtasks |-> 0, nrfinished |-> 0,
            error |-> FALSE, firstinline |-> FALSE]

DefaultQueue == [id |-> 0, type |-> "MultiThread", load |-> 0,
                 closing |-> FALSE]

Init ==
    /\ queues = <<DefaultQueue>>
    /\ freeid = 1
    /\ workload = <<>>
    /\ freethreads \in SetToSeqs(Workers)
    /\ erased = FALSE
    /\ task = [x \in Workers |-> None]
    /\ exitflag = [x \in Workers |-> FALSE]
    /\ wst = [w \in Works |-> "new"]
    /\ wq = [w \in Works |-> 0]
    /\ to = [w \in Works |-> None]
    /\ ok = [w \in Works |-> TRUE]
    /\ batch = [w \in Works |-> None]
    /\ exec = [w \in Works |-> NoBatch]
    /\ pc = [t \in Threads |-> IF t \in Workers THEN "wait" ELSE "run"]
    /\ stack = [t \in Threads |-> <<>>]
    /\ cur = [t \in Threads |-> None]
    /\ op = [t \in Threads |-> NoCall]
    /\ waiters = {}
    /\ alarms = {}

-----------------------------------------------------------------------------
(***************************************************************************)
(* Helpers                                                                 *)
(***************************************************************************)

\* queueids_.indexOf(q): 0 stands for the -1 of the code.
IndexOf(q) ==
    IF \E i \in DOMAIN queues : queues[i].id = q
    THEN CHOOSE i \in DOMAIN queues : queues[i].id = q
    ELSE 0

\* Mistake (Open): a queue that is being removed still accepts work.
OpenIfKnown(q) == \E i \in DOMAIN queues : queues[i].id = q

\* The queue exists and is not being removed.
Open(q) == \E i \in DOMAIN queues : queues[i].id = q /\ ~queues[i].closing

\* queueSizeNoLock(q) # 0
HasPending(q) == \E i \in DOMAIN workload : wq[workload[i]] = q

AddLoad(i, d) == [queues EXCEPT ![i].load = @ + d]

\* Mistake (Reduced): the counter of the default queue goes down.
ReducedDefault(q) == AddLoad(1, -1)

\* Mistake (Wakes): nobody is woken.
WakesNobody(q) == FALSE

\* reduceWorkload: an invalid index is reported, changes no counter and
\* wakes everybody; otherwise only the last thread of the queue wakes them.
Reduced(q) == IF IndexOf(q) = 0 THEN queues ELSE AddLoad(IndexOf(q), -1)

Wakes(q) == IndexOf(q) = 0 \/ queues[IndexOf(q)].load = 1

ReduceAlarm(q) == IF IndexOf(q) = 0 THEN {"invalid index"} ELSE {}

\* Mistakes (Takeable): the counter is tested for no queue, for every queue;
\* only MultiThread queues are looked at.
TakeableAlways(qs, w) ==
    \E k \in DOMAIN qs : qs[k].id = wq[w] /\ qs[k].type # "Manual"

TakeableAlone(qs, w) ==
    \E k \in DOMAIN qs :
        qs[k].id = wq[w] /\ qs[k].type # "Manual" /\ qs[k].load = 0

TakeableMulti(qs, w) ==
    \E k \in DOMAIN qs : qs[k].id = wq[w] /\ qs[k].type = "MultiThread"

\* reportFinishedAndAskForMore: whether a pool thread may take a pending work.
Takeable(qs, w) ==
    \E k \in DOMAIN qs :
        /\ qs[k].id = wq[w]
        /\ qs[k].type # "Manual"
        /\ qs[k].type = "SingleThread" => qs[k].load = 0

\* The first pending work that may be taken.
IsNext(qs, i) ==
    /\ Takeable(qs, workload[i])
    /\ \A j \in 1..i-1 : ~Takeable(qs, workload[j])

Top(t) == stack[t][Len(stack[t])]

\* Thread t is executing, outside any call, a work that has state s.
Executing(t, w, s) ==
    /\ pc[t] = "run"
    /\ stack[t] # <<>>
    /\ w = Top(t)
    /\ wst[w] = s

Push(t, w) == stack' = [stack EXCEPT ![t] = Append(@, w)]
Pop(t)     == stack' = [stack EXCEPT ![t] = Front(@)]

\* Where addWork returns to: the loop of executeWork, or the caller's code.
ReturnAfter(t, w) ==
    /\ pc' = [pc EXCEPT ![t] = IF batch[w] = None THEN "run" ELSE "exec"]
    /\ cur' = [cur EXCEPT ![t] = batch[w]]

\* Mistakes (ImFinished): a work that fails is not counted; the last result
\* overwrites those before.
ImFinishedIfGood(w, good) ==
    /\ ok' = [ok EXCEPT ![w] = good]
    /\ exec' = IF batch[w] = None \/ ~good THEN exec
               ELSE [exec EXCEPT ![batch[w]].nrfinished = @ + 1]

ImFinishedLast(w, good) ==
    /\ ok' = [ok EXCEPT ![w] = good]
    /\ exec' = IF batch[w] = None THEN exec
               ELSE [exec EXCEPT ![batch[w]].nrfinished = @ + 1,
                                 ![batch[w]].error = ~good]

\* WorkResultManager::imFinished, the callback executeWork gives to addWork.
\* Its condition variable has one waiter and one condition, so the wait is the
\* guard of ExecuteWorkReturn.
ImFinished(w, good) ==
    /\ ok' = [ok EXCEPT ![w] = good]
    /\ exec' = IF batch[w] = None THEN exec
               ELSE [exec EXCEPT ![batch[w]].nrfinished = @ + 1,
                                 ![batch[w]].error = @ \/ ~good]

Outcomes(w) == IF w \in MayFail THEN BOOLEAN ELSE {TRUE}

-----------------------------------------------------------------------------
(***************************************************************************)
(* addWork: one of six outcomes                                            *)
(***************************************************************************)

\* No threads (after shutdown): the work is run by the caller, on no queue.
SubmitDirect(t, w) ==
    /\ erased
    /\ wst' = [wst EXCEPT ![w] = "direct"]
    /\ Push(t, w)
    /\ pc' = [pc EXCEPT ![t] = "run"]
    /\ UNCHANGED <<poolVars, cur, to>>

\* "Queue does not exist or is closing. Task rejected.": no callback is made.
SubmitRejected(t, w, q) ==
    /\ ~erased
    /\ ~Open(q)
    /\ wst' = [wst EXCEPT ![w] = "destroyed"]
    /\ ReturnAfter(t, w)
    /\ UNCHANGED <<poolVars, stack, to>>

Accepts(q) == ~erased /\ Open(q)

SubmitIgnored(t, w, q) ==
    /\ Accepts(q)
    /\ \E i \in DOMAIN workload : WorkObj[workload[i]] = WorkObj[w]
    /\ wst' = [wst EXCEPT ![w] = "ignored"]
    /\ ReturnAfter(t, w)
    /\ UNCHANGED <<poolVars, stack, to>>

\* Mistake (CanStart): the counter of a SingleThread queue is not tested.
CanStartAlways(q) == queues[IndexOf(q)].type # "Manual"

\* Whether addWork may start a work of the queue at once.
CanStart(q) ==
    LET queue == queues[IndexOf(q)] IN
    \/ queue.type = "MultiThread"
    \/ queue.type = "SingleThread" /\ queue.load = 0

\* Mistake (FreeThreadsLeft): the thread is used but stays free.
FreeThreadsKept == freethreads

\* freethreads_.removeSingle( nrfreethreads-1 )
FreeThreadsLeft == Front(freethreads)

\* The last free thread is taken and, after the unlock, given the work.
SubmitToFreeThread(t, w, q) ==
    /\ Accepts(q)
    /\ CanStart(q)
    /\ freethreads # <<>>
    /\ freethreads' = FreeThreadsLeft
    /\ queues' = AddLoad(IndexOf(q), 1)
    /\ wst' = [wst EXCEPT ![w] = "assigned"]
    /\ to' = [to EXCEPT ![w] = Last(freethreads)]
    /\ pc' = [pc EXCEPT ![t] = "assign"]
    /\ cur' = [cur EXCEPT ![t] = w]
    /\ UNCHANGED <<freeid, workload, erased, stack>>

\* A pool thread that finds no free thread does the work itself.
SubmitInline(t, w, q) ==
    /\ Accepts(q)
    /\ CanStart(q)
    /\ freethreads = <<>>
    /\ t \in Workers
    /\ queues' = AddLoad(IndexOf(q), 1)
    /\ wst' = [wst EXCEPT ![w] = "inline"]
    /\ Push(t, w)
    /\ pc' = [pc EXCEPT ![t] = "run"]
    /\ UNCHANGED <<freeid, workload, freethreads, erased, cur, to>>

SubmitQueued(t, w, q, firstinline, force) ==
    /\ Accepts(q)
    /\ CanStart(q) => freethreads = <<>> /\ (t \in Workers => force)
    /\ workload' = IF firstinline THEN Cons(w, workload) ELSE Append(workload, w)
    /\ wst' = [wst EXCEPT ![w] = "pending"]
    /\ ReturnAfter(t, w)
    /\ UNCHANGED <<queues, freeid, freethreads, erased, stack, to>>

Submit(t, w, q, firstinline, nodup, force) ==
    LET duplicate == \E i \in DOMAIN workload : WorkObj[workload[i]] = WorkObj[w]
    IN  /\ wq' = [wq EXCEPT ![w] = q]
        /\ \/ SubmitDirect(t, w)
           \/ SubmitRejected(t, w, q)
           \/ nodup /\ SubmitIgnored(t, w, q)
           \/ /\ ~(nodup /\ duplicate)
              /\ \/ SubmitToFreeThread(t, w, q)
                 \/ ~force /\ SubmitInline(t, w, q)
                 \/ SubmitQueued(t, w, q, firstinline, force)
        /\ UNCHANGED <<workerVars, ok, op, waiters, alarms>>

AddWork(t, w, q, firstinline, nodup, force) ==
    /\ t \in Adders
    /\ pc[t] = "run"
    /\ wst[w] = "new"
    /\ Submit(t, w, q, firstinline, nodup, force)
    /\ UNCHANGED <<batch, exec>>

\* WorkThread::assignTask, under the thread's own mutex.
AssignTask(t) ==
    LET w == cur[t]
        x == to[w]
    IN  /\ pc[t] = "assign"
        /\ pc[x] \notin {"report", "idle"}
        /\ task' = IF task[x] = None THEN [task EXCEPT ![x] = w] ELSE task
        /\ wst' = IF task[x] = None THEN wst ELSE [wst EXCEPT ![w] = "destroyed"]
        /\ alarms' = IF task[x] = None THEN alarms
                     ELSE alarms \cup {"existing task"}
        /\ ReturnAfter(t, w)
        /\ UNCHANGED <<poolVars, exitflag, wq, to, ok, batch, exec, stack, op,
                       waiters>>

\* The caller has executed a work that addWork had accepted but could not
\* hand over.  The counter goes down, but nobody is woken.
InlineDone(t) ==
    \E w \in Works : \E good \in Outcomes(w) :
        LET i == IndexOf(wq[w]) IN
        /\ Executing(t, w, "inline")
        /\ ImFinished(w, good)
        /\ queues' = IF i = 0 THEN queues ELSE AddLoad(i, -1)
        /\ alarms' = IF i = 0 THEN alarms \cup {"bad subscript"} ELSE alarms
        /\ wst' = [wst EXCEPT ![w] = "done"]
        /\ Pop(t)
        /\ ReturnAfter(t, w)
        /\ UNCHANGED <<freeid, workload, freethreads, erased, workerVars,
                       wq, to, batch, op, waiters>>

DirectDone(t) ==
    \E w \in Works : \E good \in Outcomes(w) :
        /\ Executing(t, w, "direct")
        /\ ImFinished(w, good)
        /\ wst' = [wst EXCEPT ![w] = "done"]
        /\ Pop(t)
        /\ ReturnAfter(t, w)
        /\ UNCHANGED <<poolVars, workerVars, wq, to, batch, op, waiters, alarms>>

\* removeWork: the first pending work that refers to the same object goes.  Who
\* calls it has submitted the work; those of executeWork are not known to others.
RemoveWork(t, w) ==
    /\ t \in Adders
    /\ pc[t] = "run"
    /\ batch[w] = None
    /\ \E i \in DOMAIN workload :
        /\ WorkObj[workload[i]] = WorkObj[w]
        /\ \A j \in 1..i-1 : WorkObj[workload[j]] # WorkObj[w]
        /\ wst' = [wst EXCEPT ![workload[i]] = "destroyed"]
        /\ workload' = RemoveAt(workload, i)
    /\ UNCHANGED <<queues, freeid, freethreads, erased, workerVars, wq, to, ok,
                   batch, exec, threadVars, waiters, alarms>>

-----------------------------------------------------------------------------
(***************************************************************************)
(* WorkThread::doWork                                                      *)
(***************************************************************************)

\* task_.isOK()
HasTask(x) == task[x] # None

\* The wait for a task is over.
TakeTask(x) ==
    /\ pc[x] = "wait"
    /\ HasTask(x)
    /\ ~exitflag[x]
    /\ pc' = [pc EXCEPT ![x] = "run"]
    /\ stack' = [stack EXCEPT ![x] = <<task[x]>>]
    /\ wst' = [wst EXCEPT ![task[x]] = "task"]
    /\ UNCHANGED <<poolVars, workerVars, wq, to, ok, batch, exec, cur, op,
                   waiters, alarms>>

\* task_.execute() returns; the thread's mutex is taken and the callback made.
TaskDone(x) ==
    LET w == task[x] IN
    \E good \in Outcomes(w) :
        /\ Executing(x, w, "task")
        /\ ImFinished(w, good)
        /\ wst' = [wst EXCEPT ![w] = "reporting"]
        /\ pc' = [pc EXCEPT ![x] = "report"]
        /\ UNCHANGED <<poolVars, workerVars, wq, to, batch, stack, cur, op,
                       waiters, alarms>>

ReportIdle(x) ==
    LET q == wq[task[x]] IN
    /\ pc[x] = "report"
    /\ \A i \in DOMAIN workload : ~Takeable(Reduced(q), workload[i])
    /\ queues' = Reduced(q)
    /\ freethreads' = Append(freethreads, x)
    /\ task' = [task EXCEPT ![x] = None]
    /\ wst' = [wst EXCEPT ![task[x]] = "done"]
    /\ waiters' = IF Wakes(q) THEN {} ELSE waiters
    /\ alarms' = alarms \cup ReduceAlarm(q)
    /\ stack' = [stack EXCEPT ![x] = <<>>]
    /\ pc' = [pc EXCEPT ![x] = "idle"]
    /\ UNCHANGED <<freeid, workload, erased, exitflag, wq, to, ok, batch, exec,
                   cur, op>>

ReportNext(x) ==
    LET q == wq[task[x]] IN
    /\ pc[x] = "report"
    /\ \E i \in DOMAIN workload :
        /\ IsNext(Reduced(q), i)
        /\ queues' = [k \in DOMAIN queues |->
                        IF queues[k].id = wq[workload[i]]
                        THEN [Reduced(q)[k] EXCEPT !.load = @ + 1]
                        ELSE Reduced(q)[k]]
        /\ workload' = RemoveAt(workload, i)
        /\ task' = [task EXCEPT ![x] = workload[i]]
        /\ to' = [to EXCEPT ![workload[i]] = x]
        /\ wst' = [wst EXCEPT ![task[x]] = "done", ![workload[i]] = "task"]
        /\ stack' = [stack EXCEPT ![x] = <<workload[i]>>]
    /\ waiters' = IF Wakes(q) THEN {} ELSE waiters
    /\ alarms' = alarms \cup ReduceAlarm(q)
    /\ pc' = [pc EXCEPT ![x] = IF exitflag[x] THEN "exited" ELSE "run"]
    /\ UNCHANGED <<freeid, freethreads, erased, exitflag, wq, ok, batch, exec,
                   cur, op>>

\* isidle has been triggered; the wait releases the thread's mutex.
GoIdle(x) ==
    /\ pc[x] = "idle"
    /\ pc' = [pc EXCEPT ![x] = "wait"]
    /\ UNCHANGED <<poolVars, workerVars, workVars, stack, cur, op, waiters,
                   alarms>>

Exit(x) ==
    /\ pc[x] = "wait"
    /\ exitflag[x]
    /\ pc' = [pc EXCEPT ![x] = "exited"]
    /\ UNCHANGED <<poolVars, workerVars, workVars, stack, cur, op, waiters,
                   alarms>>

-----------------------------------------------------------------------------
(***************************************************************************)
(* executeWork.  With one pool thread the works are executed in sequence   *)
(* by the caller; otherwise the caller adds all but the first, executes    *)
(* the first and waits for the others.  Only MultiThread queues are given, *)
(* as everywhere in the application.                                       *)
(***************************************************************************)
Serial == ~erased /\ Cardinality(Workers) = 1

ExecuteWork(t, s, q, firstinline) ==
    LET b == Head(s) IN
    /\ t \in Executors
    /\ pc[t] = "run"
    /\ \A i \in DOMAIN s : wst[s[i]] = "new"
    /\ \E i \in DOMAIN queues : queues[i].id = q /\ queues[i].type = "MultiThread"
    /\ exec' = [exec EXCEPT ![b] =
                  [todo |-> Tail(s), nrtasks |-> Len(s) - 1, nrfinished |-> 0,
                   error |-> FALSE, firstinline |-> firstinline]]
    /\ batch' = [w \in Works |-> IF w \in ToSet(Tail(s)) THEN b ELSE batch[w]]
    /\ wq' = [w \in Works |-> IF w \in ToSet(s) THEN q ELSE wq[w]]
    /\ wst' = [w \in Works |-> IF w = b /\ Serial THEN "serial"
                               ELSE IF w \in ToSet(s) THEN "held"
                               ELSE wst[w]]
    /\ IF Serial THEN Push(t, b) ELSE UNCHANGED stack
    /\ pc' = [pc EXCEPT ![t] = IF Serial THEN "run" ELSE "exec"]
    /\ cur' = [cur EXCEPT ![t] = IF Serial THEN None ELSE b]
    /\ UNCHANGED <<poolVars, workerVars, to, ok, op, waiters, alarms>>

\* for ( int idx=1; idx<workloadsize; idx++ ) addWork( workload[idx], .. )
ExecuteWorkAdd(t) ==
    LET b == cur[t]
        w == Head(exec[b].todo)
    IN  /\ pc[t] = "exec"
        /\ exec[b].todo # <<>>
        /\ Submit(t, w, wq[b], exec[b].firstinline, FALSE, FALSE)
        /\ exec' = [exec EXCEPT ![b].todo = Tail(@)]
        /\ UNCHANGED batch

\* res = workload[0].execute()
ExecuteWorkFirst(t) ==
    LET b == cur[t] IN
    /\ pc[t] = "exec"
    /\ exec[b].todo = <<>>
    /\ wst' = [wst EXCEPT ![b] = "first"]
    /\ Push(t, b)
    /\ pc' = [pc EXCEPT ![t] = "run"]
    /\ UNCHANGED <<poolVars, workerVars, wq, to, ok, batch, exec, cur, op,
                   waiters, alarms>>

FirstDone(t) ==
    \E w \in Works : \E good \in Outcomes(w) :
        /\ Executing(t, w, "first")
        /\ ok' = [ok EXCEPT ![w] = good]
        /\ wst' = [wst EXCEPT ![w] = "done"]
        /\ Pop(t)
        /\ pc' = [pc EXCEPT ![t] = "execwait"]
        /\ cur' = [cur EXCEPT ![t] = w]
        /\ UNCHANGED <<poolVars, workerVars, wq, to, batch, exec, op, waiters,
                       alarms>>

ExecuteWorkReturn(t) ==
    LET b == cur[t] IN
    /\ pc[t] = "execwait"
    /\ exec[b].nrfinished = exec[b].nrtasks
    /\ exec' = [exec EXCEPT ![b] = NoBatch]
    /\ pc' = [pc EXCEPT ![t] = "run"]
    /\ cur' = [cur EXCEPT ![t] = None]
    /\ UNCHANGED <<poolVars, workerVars, wq, wst, to, ok, batch, stack, op,
                   waiters, alarms>>

\* The value executeWork returns: res, and if that is true !hasErrors().
ExecuteWorkResult(b) == ok[b] /\ ~exec[b].error

\* The serial loop stops at the first work that fails.
SerialDone(t) ==
    \E w \in Works : \E good \in Outcomes(w) :
        LET b == IF batch[w] = None THEN w ELSE batch[w]
            more == good /\ exec[b].todo # <<>>
        IN  /\ Executing(t, w, "serial")
            /\ ok' = [ok EXCEPT ![w] = good]
            /\ exec' = [exec EXCEPT ![b].todo = IF more THEN Tail(@) ELSE <<>>,
                                    ![b].error = @ \/ ~good]
            /\ wst' = IF more
                      THEN [wst EXCEPT ![w] = "done",
                                       ![Head(exec[b].todo)] = "serial"]
                      ELSE [wst EXCEPT ![w] = "done"]
            /\ stack' = [stack EXCEPT ![t] = IF more
                            THEN Append(Front(@), Head(exec[b].todo))
                            ELSE Front(@)]
            /\ UNCHANGED <<poolVars, workerVars, wq, to, batch, pc, cur, op,
                           waiters, alarms>>

-----------------------------------------------------------------------------
(***************************************************************************)
(* Queues: addQueue, executeQueue, emptyQueue, removeQueue                 *)
(***************************************************************************)
AddQueue(t, type) ==
    /\ t \in Removers
    /\ pc[t] = "run"
    /\ freeid < MaxQueues
    /\ \A u \in Threads : ~op[u].down
    /\ queues' = Append(queues, [id |-> freeid, type |-> type, load |-> 0,
                                 closing |-> FALSE])
    /\ freeid' = freeid + 1
    /\ UNCHANGED <<workload, freethreads, erased, workerVars, workVars,
                   threadVars, waiters, alarms>>

IsFirstOf(q, i) ==
    /\ wq[workload[i]] = q
    /\ \A j \in 1..i-1 : wq[workload[j]] # q

\* The first round of executeQueue; without a pending work it just returns.
ExecuteQueue(t, q) ==
    /\ t \in Runners
    /\ pc[t] = "run"
    /\ IndexOf(q) # 0
    /\ queues[IndexOf(q)].type = "Manual"
    /\ \E i \in DOMAIN workload :
        /\ IsFirstOf(q, i)
        /\ workload' = RemoveAt(workload, i)
        /\ wst' = [wst EXCEPT ![workload[i]] = "manual"]
        /\ Push(t, workload[i])
    /\ queues' = AddLoad(IndexOf(q), 1)
    /\ UNCHANGED <<freeid, freethreads, erased, workerVars, wq, to, ok, batch,
                   exec, pc, cur, op, waiters, alarms>>

\* A work of executeQueue is done.  In one critical section the counter goes
\* down and the next work, if any, is fetched and counted.
ManualDone(t) ==
    \E w \in Works : \E good \in Outcomes(w) :
        LET q == wq[w]
            more == IndexOf(q) # 0 /\ HasPending(q)
        IN  /\ Executing(t, w, "manual")
            /\ ImFinished(w, good)
            /\ waiters' = IF IndexOf(q) # 0 /\ Wakes(q) THEN {} ELSE waiters
            /\ IF more
               THEN \E i \in DOMAIN workload :
                      /\ IsFirstOf(q, i)
                      /\ queues' = queues
                      /\ workload' = RemoveAt(workload, i)
                      /\ wst' = [wst EXCEPT ![w] = "done",
                                            ![workload[i]] = "manual"]
                      /\ stack' = [stack EXCEPT ![t] =
                                     Append(Front(@), workload[i])]
               ELSE /\ queues' = Reduced(q)
                    /\ workload' = workload
                    /\ wst' = [wst EXCEPT ![w] = "done"]
                    /\ Pop(t)
            /\ UNCHANGED <<freeid, freethreads, erased, workerVars, wq, to,
                           batch, pc, cur, op, alarms>>

\* Mistake (LoadIsNonZero): the works that are being done are not waited for.
LoadIsNotTested(i) == {FALSE}

\* queueworkload_[idx] # 0: outside the array it may read anything.
LoadIsNonZero(i) ==
    IF i \in DOMAIN queues THEN {queues[i].load # 0} ELSE BOOLEAN

SubscriptAlarm(i) == IF i \in DOMAIN queues THEN {} ELSE {"bad subscript"}

\* A thread does not close a queue of which it is executing a work itself.
InsideQueue(t, q) == \E i \in DOMAIN stack[t] : wq[stack[t][i]] = q

MayClose(t, q, all) ==
    LET i == IndexOf(q) IN
    /\ t \in Removers
    /\ pc[t] = "run"
    /\ q # 0
    /\ i # 0
    /\ ~queues[i].closing
    /\ all => queues[i].type # "Manual"
    /\ ~InsideQueue(t, q)

CallEmptyQueue(t, q, all) ==
    /\ MayClose(t, q, all)
    /\ op' = [op EXCEPT ![t] = [NoCall EXCEPT !.q = q, !.all = all]]
    /\ pc' = [pc EXCEPT ![t] = "empty"]
    /\ UNCHANGED <<poolVars, workerVars, workVars, stack, cur, waiters, alarms>>

\* The first critical section of removeQueue: the index is kept.
CallRemoveQueue(t, q, all) ==
    /\ MayClose(t, q, all)
    /\ queues' = [queues EXCEPT ![IndexOf(q)].closing = TRUE]
    /\ op' = [op EXCEPT ![t] = [NoCall EXCEPT !.q = q, !.idx = IndexOf(q),
                                              !.all = all, !.remove = TRUE]]
    /\ pc' = [pc EXCEPT ![t] = "empty"]
    /\ UNCHANGED <<freeid, workload, freethreads, erased, workerVars, workVars,
                   stack, cur, waiters, alarms>>

AfterEmptyQueue(t) ==
    /\ pc' = [pc EXCEPT ![t] = IF op[t].remove THEN "remove" ELSE "run"]
    /\ op' = [op EXCEPT ![t] = IF op[t].remove THEN @ ELSE NoCall]

\* emptyQueue( q, true ): wait until nothing is pending or being done.
EmptyQueueFinish(t) ==
    LET q == op[t].q
        i == IndexOf(q)
    IN  /\ pc[t] = "empty"
        /\ op[t].all
        /\ t \notin waiters
        /\ \E busy \in LoadIsNonZero(i) :
             IF busy \/ HasPending(q)
             THEN waiters' = waiters \cup {t} /\ UNCHANGED <<pc, op>>
             ELSE AfterEmptyQueue(t) /\ UNCHANGED waiters
        /\ alarms' = alarms \cup SubscriptAlarm(i)
        /\ UNCHANGED <<poolVars, workerVars, workVars, stack, cur>>

\* emptyQueue( q, false ): what is pending is destroyed, without callbacks.
EmptyQueueDrop(t) ==
    LET q == op[t].q
        i == IndexOf(q)
        kept == {w \in ToSet(workload) : wq[w] # q}
    IN  /\ pc[t] = "empty"
        /\ ~op[t].all
        /\ workload' \in {s \in SetToSeqs(kept) :
              \A a, b \in DOMAIN s : a < b =>
                 \E c, d \in DOMAIN workload :
                    c < d /\ workload[c] = s[a] /\ workload[d] = s[b]}
        /\ wst' = [w \in Works |-> IF w \in ToSet(workload) /\ wq[w] = q
                                   THEN "destroyed" ELSE wst[w]]
        /\ waiters' = IF i # 0 /\ queues[i].closing THEN {} ELSE waiters
        /\ alarms' = alarms \cup SubscriptAlarm(i)
        /\ AfterEmptyQueue(t)
        /\ UNCHANGED <<queues, freeid, freethreads, erased, workerVars, wq, to,
                       ok, batch, exec, stack, cur>>

\* The last critical section of removeQueue.  The first test of the loop uses
\* the index that was read before emptyQueue; after a wait it is looked up.
RemoveQueue(t) ==
    LET q == op[t].q
        i == IF pc[t] = "remove" THEN op[t].idx ELSE IndexOf(q)
        k == IndexOf(q)
    IN  /\ pc[t] \in {"remove", "rewait"}
        /\ t \notin waiters
        /\ \E busy \in LoadIsNonZero(i) :
             IF busy
             THEN /\ waiters' = waiters \cup {t}
                  /\ pc' = [pc EXCEPT ![t] = "rewait"]
                  /\ alarms' = alarms \cup SubscriptAlarm(i)
                  /\ UNCHANGED <<queues, op>>
             ELSE /\ queues' = IF k = 0 THEN queues ELSE RemoveAt(queues, k)
                  /\ pc' = [pc EXCEPT ![t] =
                              IF op[t].down THEN "shutdown" ELSE "run"]
                  /\ op' = [op EXCEPT ![t] = [NoCall EXCEPT !.down = op[t].down]]
                  /\ alarms' = alarms \cup SubscriptAlarm(i)
                                      \cup SubscriptAlarm(k)
                  /\ UNCHANGED waiters
        /\ UNCHANGED <<freeid, workload, freethreads, erased, workerVars,
                       workVars, stack, cur>>

-----------------------------------------------------------------------------
(***************************************************************************)
(* shutdown: every queue is removed, then every thread is deleted          *)
(***************************************************************************)
Shutdown(t) ==
    /\ t \in Shutters
    /\ pc[t] = "run"
    /\ stack[t] = <<>>
    /\ \A u \in Threads : ~op[u].down
    /\ op' = [op EXCEPT ![t] = [NoCall EXCEPT !.down = TRUE]]
    /\ pc' = [pc EXCEPT ![t] = "shutdown"]
    /\ UNCHANGED <<poolVars, workerVars, workVars, stack, cur, waiters, alarms>>

\* removeQueue( queueids_[0], false ): the first critical section of it
ShutdownQueue(t) ==
    /\ pc[t] = "shutdown"
    /\ IF queues = <<>>
       THEN /\ pc' = [pc EXCEPT ![t] = "erase"]
            /\ UNCHANGED <<queues, op>>
       ELSE /\ queues' = [queues EXCEPT ![1].closing = TRUE]
            /\ op' = [op EXCEPT ![t] = [NoCall EXCEPT !.q = queues[1].id,
                                   !.idx = 1, !.remove = TRUE, !.down = TRUE]]
            /\ pc' = [pc EXCEPT ![t] = "empty"]
    /\ UNCHANGED <<freeid, workload, freethreads, erased, workerVars, workVars,
                   stack, cur, waiters, alarms>>

\* ~WorkThread, one thread after the other, each waited for
EraseThread(t, x) ==
    /\ pc[t] = "erase"
    /\ \A y \in Workers : exitflag[y] => pc[y] = "exited"
    /\ ~exitflag[x]
    /\ pc[x] \notin {"report", "idle"}
    /\ exitflag' = [exitflag EXCEPT ![x] = TRUE]
    /\ UNCHANGED <<poolVars, task, workVars, threadVars, waiters, alarms>>

EraseDone(t) ==
    /\ pc[t] = "erase"
    /\ \A y \in Workers : pc[y] = "exited"
    /\ erased' = TRUE
    /\ pc' = [pc EXCEPT ![t] = "run"]
    /\ UNCHANGED <<queues, freeid, workload, freethreads, workerVars, workVars,
                   stack, cur, op, waiters, alarms>>

-----------------------------------------------------------------------------
Batches == UNION {{s \in [1..n -> Works] :
                     \A i, j \in 1..n : s[i] = s[j] => i = j} : n \in 1..MaxBatch}

QueueIds == 0..MaxQueues-1

\* The calls a thread may make while it executes code of the application.
Calls(t) ==
    \/ \E w \in Works, q \in QueueIds, firstinline, nodup \in BOOLEAN :
          \E force \in ForceChoices :
             AddWork(t, w, q, firstinline, nodup, force)
    \/ \E w \in Works : RemoveWork(t, w)
    \/ \E s \in Batches, q \in QueueIds, firstinline \in BOOLEAN :
          ExecuteWork(t, s, q, firstinline)
    \/ \E type \in QueueTypes : AddQueue(t, type)
    \/ \E q \in QueueIds : ExecuteQueue(t, q)
    \/ \E q \in QueueIds, all \in BOOLEAN : CallEmptyQueue(t, q, all)
    \/ \E q \in QueueIds, all \in BOOLEAN : CallRemoveQueue(t, q, all)
    \/ Shutdown(t)

\* The steps a thread makes inside the calls, and the end of every work.
Steps(t) ==
    \/ AssignTask(t)
    \/ InlineDone(t)
    \/ DirectDone(t)
    \/ ExecuteWorkAdd(t)
    \/ ExecuteWorkFirst(t)
    \/ FirstDone(t)
    \/ ExecuteWorkReturn(t)
    \/ SerialDone(t)
    \/ ManualDone(t)
    \/ EmptyQueueFinish(t)
    \/ EmptyQueueDrop(t)
    \/ RemoveQueue(t)
    \/ ShutdownQueue(t)
    \/ \E x \in Workers : EraseThread(t, x)
    \/ EraseDone(t)

\* WorkThread::doWork
DoWork(x) ==
    \/ TakeTask(x)
    \/ TaskDone(x)
    \/ ReportIdle(x)
    \/ ReportNext(x)
    \/ GoIdle(x)
    \/ Exit(x)

\* Nobody is inside a call and no pool thread has anything to do.
AtRest ==
    /\ \A t \in Users : pc[t] = "run" /\ stack[t] = <<>>
    /\ \A x \in Workers : pc[x] = "wait" \/ pc[x] = "exited"
    /\ UNCHANGED vars

Next ==
    \/ \E t \in Threads : Calls(t) \/ Steps(t)
    \/ \E x \in Workers : DoWork(x)
    \/ AtRest

\* Every thread is scheduled, and every work that is executed ends; nobody is
\* obliged to call anything.
Fairness ==
    /\ \A t \in Threads : WF_vars(Steps(t))
    /\ \A x \in Workers : WF_vars(DoWork(x))

Spec == Init /\ [][Next]_vars

FairSpec == Spec /\ Fairness

-----------------------------------------------------------------------------
(***************************************************************************)
(* Properties                                                              *)
(***************************************************************************)

PCs == {"run", "assign", "exec", "execwait", "empty", "remove", "rewait",
        "shutdown", "erase", "wait", "report", "idle", "exited"}

Alarms == {"existing task", "invalid index", "bad subscript"}

\* The type of every variable.
TypeOK ==
    /\ queues \in Seq(Queue)
    /\ freeid \in Nat
    /\ workload \in Seq(Works)
    /\ freethreads \in Seq(Workers)
    /\ erased \in BOOLEAN
    /\ task \in [Workers -> Works \cup {None}]
    /\ exitflag \in [Workers -> BOOLEAN]
    /\ wst \in [Works -> WorkStates]
    /\ wq \in [Works -> Nat]
    /\ to \in [Works -> Workers \cup {None}]
    /\ ok \in [Works -> BOOLEAN]
    /\ batch \in [Works -> Works \cup {None}]
    /\ exec \in [Works -> Batch]
    /\ pc \in [Threads -> PCs]
    /\ stack \in [Threads -> Seq(Works)]
    /\ cur \in [Threads -> Works \cup {None}]
    /\ op \in [Threads -> Call]
    /\ waiters \subseteq Threads
    /\ alarms \subseteq Alarms

\* The works a queue counts.
Working(q) == {w \in Works : wst[w] \in Busy /\ wq[w] = q}

\* queueworkload_, "Nr threads working on it" (threadwork.h:144), is that
\* number for every queue, whoever adds, finishes, drops or removes work.
LoadCount ==
    \A i \in DOMAIN queues : queues[i].load = Cardinality(Working(queues[i].id))

\* At no time do two threads work on the same SingleThread queue: the counter
\* that addWork and reportFinishedAndAskForMore test is enough to exclude it.
SingleThreadExclusive ==
    \A i \in DOMAIN queues : queues[i].type = "SingleThread" =>
        \A v, w \in Working(queues[i].id) : v = w

\* A thread taken from freethreads_ gets exactly one work before it reports
\* back, although it is given the work after workloadcond_ was released.
AssignedOnce ==
    /\ \A v, w \in Works :
         wst[v] = "assigned" /\ wst[w] = "assigned" /\ to[v] = to[w] => v = w
    /\ \A w \in Works : wst[w] = "assigned" =>
         /\ to[w] \notin ToSet(freethreads)
         /\ task[to[w]] \in {None, w}
    /\ "existing task" \notin alarms

\* No work of a SingleThread queue was done by the thread that wanted to add it.
\* (A work on which the pool put no thread was done by its caller.)
NeverInline ==
    \A w \in Works :
        to[w] = None /\ wst[w] \in {"inline", "done"} /\ wq[w] < freeid =>
            \E k \in DOMAIN queues :
                queues[k].id = wq[w] /\ queues[k].type # "SingleThread"

\* The works of a SingleThread queue start in the order in which they wait, also
\* when addWork hands a new one to a free thread at once: it may do so only if
\* none of the queue waits.  The storers and loaders that use such a queue force
\* a different thread (seisstorer.cc:700, seisloader.cc:528).  Without that a
\* work done by the adding thread lowers the counter (threadwork.cc:573) with
\* works waiting, and the next addWork lets its own work overtake them.
SingleThreadInOrder ==
    [][\A w \in Works, k \in DOMAIN queues :
         /\ wst[w] \notin Busy
         /\ wst'[w] \in Busy
         /\ queues[k].id = wq'[w]
         /\ queues[k].type = "SingleThread"
         /\ NeverInline'
         => \A i \in DOMAIN workload : wq[workload[i]] = queues[k].id =>
              \E j \in 1..i : workload[j] = w]_vars

\* No thread is free while a work of a MultiThread queue waits.
MultiThreadNeverWaits ==
    \A i \in DOMAIN workload, k \in DOMAIN queues :
        queues[k].id = wq[workload[i]] /\ queues[k].type = "MultiThread"
            => freethreads = <<>>

\* A queue is removed only when none of its works is pending or being done,
\* so that nobody reports back to a queue that is gone.
RemovedQueueIsQuiet ==
    \A w \in Works : wst[w] \in Busy \cup {"pending"} =>
        \E i \in DOMAIN queues : queues[i].id = wq[w]

\* The arrays of the queues are never read or written outside their bounds, and
\* the queue for which reduceWorkload is called exists: it says "Invalid index
\* found" otherwise (threadwork.cc:408).
SubscriptsAreValid == alarms \cap {"bad subscript", "invalid index"} = {}

\* When executeWork stops waiting, every work of the call has been executed and
\* the result it returns is TRUE exactly if all of them returned true.
ResultIsComplete ==
    \A t \in Threads :
        pc[t] = "execwait" /\ exec[cur[t]].nrfinished = exec[cur[t]].nrtasks =>
            LET b == cur[t]
                all == {b} \cup {w \in Works : batch[w] = b}
            IN  /\ \A w \in all : wst[w] \in {"reporting", "done"}
                /\ ExecuteWorkResult(b) <=> \A w \in all : ok[w]

\* No work is given to a thread that shutdown has ended.
ShutdownLosesNothing ==
    \A x \in Workers : pc[x] = "exited" =>
        task[x] = None /\ \A w \in Works : wst[w] = "assigned" => to[w] # x

\* executeWork returns.
ExecuteWorkReturns ==
    \A t \in Threads : pc[t] = "execwait" ~> pc[t] # "execwait"

\* A work that is pending on a queue that is not Manual is started or dropped.
PendingIsTaken ==
    \A w \in Works :
        (/\ wst[w] = "pending"
         /\ IndexOf(wq[w]) # 0 => queues[IndexOf(wq[w])].type # "Manual")
            ~> wst[w] # "pending"

\* emptyQueue and removeQueue return.
RemoveQueueReturns ==
    \A t \in Threads : pc[t] \in {"empty", "remove", "rewait"}
                            ~> pc[t] \notin {"empty", "remove", "rewait"}

\* shutdown ends every pool thread.
ShutdownCompletes ==
    \A t \in Users : pc[t] = "shutdown" ~> erased

\* The works and the queues as a user of the pool sees them.
SeenStatus == [w \in Works |->
                 CASE wst[w] = "pending" -> "waiting"
                   [] wst[w] \in Busy -> "running"
                   [] wst[w] = "done" -> "done"
                   [] wst[w] \in {"destroyed", "ignored"} -> "dropped"
                   [] OTHER -> "new"]

SeenHome == [w \in Works |->
               IF wst[w] \in Busy \cup {"pending"} THEN wq[w] ELSE 0]

SeenKind == [q \in {queues[i].id : i \in DOMAIN queues} |->
               queues[IndexOf(q)].type]

SeenClosing == {queues[i].id : i \in {k \in DOMAIN queues : queues[k].closing}}

Pool == INSTANCE WorkPool WITH
    status <- SeenStatus,
    home <- SeenHome,
    kind <- SeenKind,
    closing <- SeenClosing

\* The thread pool keeps the promises of WorkPool.
ImplementsWorkPool == Pool!Spec
=============================================================================
