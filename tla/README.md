# OpendTect: specifications and proofs

OpendTect is a seismic interpretation system in C++. Most of its code base is
geometry, numerical processing, file formats and user interface. What can go
wrong between threads, processes and crashes sits in a small part of it, in
`src/Basic`, `src/MMProc` and `src/Seis`; that part is what this project models.
Paths below are relative to the root of the repository.

## 1. Inventory

| Component | State it keeps | Operations | Hard behaviour | What makes it correct |
|---|---|---|---|---|
| **Thread pool** `Threads::WorkManager`, `WorkThread`, `WorkResultManager` (`src/Basic/threadwork.cc`) | queues with a counter of working threads, one list of pending works, the list of free threads; per thread its task and exit flag; per `executeWork` the counts of its works | `addWork`, `removeWork`, `executeWork`, `addQueue`, `executeQueue`, `emptyQueue`, `removeQueue`, `shutdown`; `doWork` of each thread | every operation from every thread, pool threads included; a hand-over after the unlock; one condition variable with several conditions; removal while work is under way | counters count; a thread has one work; one work at a time and in order on a SingleThread queue; nothing is lost; calls return |
| **Locks** `ReadWriteLock`, `Locker`, `Barrier`, `ConditionVar` (`src/Basic/thread.cc`) | `status_` and `nrreaders_`; threads waiting at the barrier | read, write, permissive locking and the conversions between them; `waitForAll` | conversions that release in between; wake-ups; reuse of the barrier | exclusion; no waiter is forgotten |
| **Parallel tasks** `Task`, `ParallelTask`, `Executor` (`src/Basic/task.cc`) | the number done, the control state, per sub task its range | `execute`, `doWork`, `controlWork` | sub tasks that wait for each other in a pool that may not run them all; stop against barriers; remainders of a division | every iteration once; the call returns |
| **Crash-safe files** `SafeFileIO` (`src/Basic/safefileio.cc`) | on the disk: the file, its new and backup versions, the lock file; per object a stream | `open` to read or write, `closeSuccess`, `closeFail`, `remove` | several processes, none of which sees the others' steps; a crash or a failure between two renames; a lock file that nobody removes | a reader gets a whole version, not older than what was committed; a commit succeeds whatever was left before it; calls end |
| **Rollback of a file** `SafeWriteHelper` (same source) | the file that is written under a name of its own | `commit`, `rollback` | a failure between two renames | its part of SafeFileIO's commit |
| **Reference counts, weak pointers** (`src/Basic/refcount.cc`) | the count, the observers | `ref`, `unRef`, `tryRef`, observer set and clear | a weak pointer read while the last reference goes | nobody obtains a deleted object |
| **Callbacks, notifiers** `CallBacker`, `NotifierAccess`, `CallBackSet`, `QCallBackEventReceiver` (`src/Basic/callback.cc`) | per notifier its callbacks and who is to be told of its end; per object the notifiers it is attached to; per event loop what is posted and what is being called | `attachCB`, `detachCB`, `detachAllNotifiers`, `trigger`, the two destructors, `addToThread`, `removeFromThreadCalls` | both sides may end first, in two threads, each with a lock that the other needs; calls from a copy of the list | nobody touches what is gone; an object that has detached itself is not called; no lock is kept; what is posted is called |
| **Monitorable objects** (`src/Basic/monitor.cc`) | the data, its lock, the change counters | set with notification, copy | the lock is dropped before the notification | each change is notified once |
| **Distributed jobs** `JobRunner`, `JobIOMgr` (`src/MMProc`) | jobs with their state, hosts with their failures, messages of the jobs | `assignJob`, `startJob`, `updateJobInfo`, `failedJob`, `removeHost`, … | hosts and processes that fail, late messages, time-outs | every job is done or reported failed, on one host at a time |
| **Sequential storage** `Seis::SequentialStorer` (`src/Seis/seisstorer.cc`) | the buffer of traces, the keys in order, the store queue | `submitTrace`, `iterateBuffer` | the producers wait for the pool that they run in | traces are written in order, all of them |
| Batch programs, sockets, data packs, auto-save, the domain libraries, the user interface | | | process start, Qt, plain sequential code | not modelled, see "Not modelled" |

How they interact. The pool is at the bottom: `ParallelTask` and `Executor` give
it their parts with `executeWork`, the storers and display code add to queues of
their own with `addWork`, and the callbacks of finished works run in the pool's
threads. Locks and notifiers are used by everything. A
`ParallelTask` whose sub tasks meet at a `Barrier`, or hand traces to a
`SequentialStorer`, puts three of these components in one wait. The job runner is one
thread with timers; it talks to processes over sockets and files.

## 2. Plan

Modules in order of importance. All but the last group are built.

1. `WorkManager` — the pool, in full; `WorkPool` — what it promises, abstractly;
   `MCWorkManager` — instances; `WorkManager_proofs` (typing, counters, hand-over,
   exclusion) and `WorkManagerPool_proofs` (the refinement of `WorkPool` and what users
   are promised).
2. `ReadWriteLock` — the lock with its conversions, and `Locker` on top of it;
   `MCReadWriteLock`; `ReadWriteLock_proofs` (a writer is alone).
3. `SafeFileIO` — processes that read, write and remove one file, the lock file, a
   crash or a failure at any file operation; `MCSafeFileIO`; `SafeFileIO_proofs` (what
   readers get, that commits succeed, what a crash leaves).
4. `JobRunner` — jobs, hosts, processes, time-outs, late messages, retries; `MCJobRunner`;
   `JobRunner_proofs` (starts are bounded, what counts as completed was done, who works on
   what).
5. `Barrier` and `SequentialStorer`, each without a thread of its own, and `ParallelTask`,
   which composes both with the pool that `executeParallel` sees; `MCParallelTask`;
   `Barrier_proofs` (rounds are separate), `ParallelTask_proofs` (a task is a user of the
   barrier, so the same holds in every task; traces are stored in order; a task that has
   returned is complete).
6. `EventReceiver` and `CallBacks` — objects that attach, detach and end against notifiers
   that trigger and end, and the event loop of the main thread; `MCCallBacks`;
   `CallBacks_proofs` (nothing dangles, attachments are mutual, nobody is called after its
   end).
7. Left: `RefCount` — a weak pointer against the last reference — and the observers of the
   monitorable objects.
8. Proofs to add: none of a property that a run checks, apart from those that need fairness;
   the parts of point 7 once they are modelled.

## 3. The thread pool as modelled

One action of `WorkManager.tla` is one critical section of
`WorkManager::workloadcond_`, or one step outside of it that other threads can
observe. Who runs what is a stack per thread, as a work may call the pool itself.

| Code | In the model |
|---|---|
| `queueids_`, `queuetypes_`, `queueworkload_`, `queueisclosing_` (four parallel arrays) | `queues`, a sequence of records; `IndexOf` is `queueids_.indexOf`, with 0 for its -1 |
| `workload_`, `callbacks_`, `workqueueid_` | `workload` with `batch` (only `executeWork`'s own callback has an effect on the pool) and `wq` |
| `freethreads_`, `threads_` | `freethreads`, `erased` |
| `WorkThread::task_`, `exitflag_` | `task`, `exitflag` |
| `WorkResultManager` and the locals of `executeWork` | `exec[b]`, with `b` the first work of the call; the calls of one thread nest, the innermost one is `cur` |
| `workloadcond_.wait()` / `signal(true)` | `waiters`, a set that a signal empties |
| `WorkThread::controlcond_` | held by its thread while `pc` is `report` or `idle`: `AssignTask` and `EraseThread` wait for it |
| `pErrMsg` and subscripts | `alarms`; a subscript outside an array may read anything |
| — | `wst`, `to`, `ok`: history of each work, used by the properties |

`Busy` are the states of a work in which `queueworkload_` counts it: from the
moment a thread is chosen for it, before the thread knows of it, until that
thread has reported back.

`addWork` has six outcomes (`Submit…`): run directly after shutdown, rejected,
ignored as a duplicate, given to a free thread, done by the calling pool thread,
or queued. Handing the work to the thread is an action of its own
(`AssignTask`), because the code unlocks before it (threadwork.cc:560-562).
`emptyQueue` and `removeQueue` are the sections between their waits. In
`removeQueue` the index is looked up before `emptyQueue` and used after it; the
model keeps it in `op[t].idx`. `shutdown` removes the queues from the front and
then sets the exit flag of one thread after the other.

What the environment does. The callers follow what every caller in the tree does,
and these are the only preconditions:

- `executeWork` is called on `MultiThread` queues (`ExecuteWork`);
- a queue is closed by one thread, which is not at that time in a work of the queue;
  a `Manual` queue is not emptied with `finishall` (`MayClose`);
- `removeWork` is called by those who added works, with their own works
  (`RemoveWork`);
- `shutdown` is called by a thread outside every work, once, and no queue is added
  during it.

The sets `Adders`, `Executors`, `Runners`, `Removers` and `Shutters` say which
threads make which calls in a run; a thread in none of them just works.

## 4. The abstract specification of the pool

`WorkPool.tla` is the pool without threads, locks, counters and indexes: a work is
new, waiting, running, done or dropped; a SingleThread queue has one running work;
a queue that closes accepts nothing and goes when it is empty. `WorkManager` maps to
it with `Pool == INSTANCE WorkPool WITH …`: the status of a work from `wst`, its
queue from `wq`, the queues from `queues`. One step of the pool is one step of
`WorkPool` or none. `FinishAndStart` is there because a pool thread ends a work and takes
the next one in one critical section. `executeWork`'s own works count as new until
they reach a queue.

## 5. The locks as modelled

One action of `ReadWriteLock.tla` is one critical section of `statuscond_`. `status`
and `nrreaders` are the members of the class; `waiters` are the threads asleep in
`statuscond_.wait()`, of which `signal(false)` wakes one and `signal(true)` all;
`pc[t]` is the call a thread is in, so that a woken thread goes round the loop of that
call again. `convReadToWriteLock` is two critical sections and a `writeLock` if the
thread is not the only reader.

Two variables are not in the class. `holds[t]` is what the calls that have returned
entitle the thread to: it is what the properties are about. `release[t]` is how
the thread will unlock. For a caller of the lock itself the two go together; a
`Locker` only remembers `isread_`, and `convertToWriteLock` does not change it.

No lock in the tree is used with all the operations. `use`, chosen once, is the set of
operations made on the lock of a behaviour, and `Uses` the sets a run considers. Two steps
make the lock forget a holder, whatever else is mixed: the last reader leaves while a thread
has the permissive lock (section 12), and a `Locker` that reads is asked to convert
(`rw_locker`). `NobodyForgotten` of `ReadWriteLock_proofs` excludes these two steps and
nothing else. Where a use has no reading, or neither the permissive lock nor
`convertToWriteLock` (`Sound`), they cannot occur; the run `rw_lock` has such uses.

*The barrier.* `Barrier.tla` is `Threads::Barrier` in the same manner: an action is one
stretch of a call during which `condvar_` is held. `nrthreads`, `threadcount`, `dorelease`
and `immediaterelease` are the members; `asleep` are the callers inside
`condvar_.wait()`; `where[w]` says how far caller `w` is (behind the gate of the previous
round, counted, leading without having released the others, or back with the mutex, for
`waitForAll(false)`). `arrived`, `passed` and `firsts` are history. The module is open: it
has actions and no idea of what its callers do otherwise; `BarrierSpec` lets any set of
callers come as they like.

## 6. The crash-safe file as modelled

One action of `SafeFileIO.tla` is one call to the file system with the tests that follow
it in the same process. Between any two of them other processes run, or the process
ends (`Crash`) and leaves everything on the disk as it is.

| Code | In the model |
|---|---|
| the names `filenm_`, `bakfnm_`, `newfnm_` | `main`, `bak`, `new`: the version that the name is bound to, or `None` |
| what is in a file | `content[v]` of version `v`: `empty`, `part`, `full`, or `mixed` when two streams have written to it |
| `lockfnm_` | `lock`; the lock file says whose it is, but no code reads that |
| `strm_` | `strm[p]`: a version, not a name, as an open stream outlives a rename |
| `locked_` and the set-up variables | `setup[p]`, of the objects that a process makes for this file; the objects of one program that are set up differently are two processes |
| `idx` in `waitForLock` | `tries[p]` |
| an object closed with `keeplock` | `kept[p]`: the next call is `open( false, true )` |
| where a process is in `openRead`, `openWrite`, `commitWrite`, `remove` | `pc[p]` |
| — | history: `committed`, the last version that became the main file; `since[p]`, what that was when the process called `openRead`; `clean[p]`, no operation of this call has failed |

`File::rename` is Qt's: it fails if there is nothing to rename and if the target exists
(`filesystemaccess.cc:448`). `OpenNew` truncates a file that exists. `Works` says of an
operation that it is done or fails and changes nothing; the code goes on after a
failing `remove` or backup rename, and so does the model. `DirectoryFails` is the early
return that leaves the lock file behind (`safefileio.cc:84`, `151`). `RmLock` removes the
lock file whoever made it, as the code does. A call of `remove()` that gives up
waiting goes on all the same.

The user of the class writes in any number of pieces (`WritePart`), then calls
`closeSuccess`, also without having written anything, or `closeFail`.

## 7. The distributed jobs as modelled

`JobRunner.tla` is the master (`jobrunner.cc`), the part of `jobiomgr.cc` that answers the
processes, and the processes' side of the conversation (`jobcommunic.cc`). The master is one
thread, so the interleaving is between its calls and the processes: a message arrives when
`pc` is `idle`, that is between two calls, and the master reads it in its next cycle.

| Code | In the model |
|---|---|
| `jobinfos_`, `failedjobs_`, `hostinfo_` | the same, as sequences of jobs and hosts and a set |
| `JobInfo`, `HostNFailInfo` | the records `job[j]`, `host[h]`; the time stamps of a host are the flag `ontime` |
| `jobhostresps_` of `JobIOHandler` | `resps[<<j, h>>]`, a sequence, as entries for one job and host may pile up |
| `statusqueue_` | `statusqueue` |
| a process of the program that does the job | `proc[<<j, n>>]`, started by the `n`-th start of job `j` |
| `doCycle` | `handleStatusInfo`, `TimeOut(i)`, `PutHostToWork`, then the actions of `assignJob`, then `handleJobPausing` |
| `assignJob` with `startJob` | `JobBad`, `StartJob`, `StartFails`, one for each job that the loop does something with, and `NothingAssigned` |
| `addHost`, `removeHost`, `stopAll`; the pause policy of `uiMMBatchJobDispatcher` | the actions of these names; `SetPause` |
| `socketCB` and `JobCommunic::sendMsg` | `Say`: the message, the answer, and what the process does with it |

A process that does not hear an answer says the same again, so a message may arrive twice;
one whose `resps` entry is gone is told to stop (`mRSP_STOP`) and its message is not kept.
What is kept stays in `statusqueue_`, though the job may fail before it is read: `late`
is set when the master handles a message of a process it had given up. Several
properties have the proviso `~late`; section 12 says what happens without it.

`worked` is history: the jobs whose work a process has finished. `MaxStarts` follows from
the limits on failures, and is what `RetriesAreBounded` justifies.

## 8. Parallel tasks and the sequential storer as modelled

`SequentialStorer.tla`: one action for each critical section of `lock_`. Traces are
numbered as they are announced. `iterateBuffer` is part of `submitTrace`; what it gives to
the pool goes into `workload`, a queue that the composing module shares. `writing` is the
trace being stored: `emptyQueue` counts it and `queueSize` does not.

`ParallelTask.tla` is `ParallelTask::executeParallel` and the part of the pool that the
call sees: `free` and `others` count pool threads, `workload` holds what waits. It
EXTENDS `Barrier` and `SequentialStorer` and gives their callers a life: work `w` of the task
is caller `w` of the barrier and of the storer. `addWork` has the three outcomes that
`WorkManager` has for `executeWork`'s works: a free thread, the calling pool thread itself,
the queue. The works are one of

- `tiles` — `HorizonTileRenderPreparer::doWork`: all works come to the barrier a fixed
  number of times, also when the task has been stopped;
- `cubes` — `MarchingCubes2Implicit::doWork`: a work leaves as soon as
  `shouldContinue()` is false;
- `store` — `VolumeConverter::doWork` and its like: announce a trace under a lock, compute,
  submit it, wait while the buffer is full.

`calculateThreadSize` and `Divided` are the division of the iterations, with the order
in which the code gives the parts to the works (the index runs downwards while the
start runs upwards).

## 9. Callbacks as modelled

`EventReceiver.tla` is `QCallBackEventReceiver` of the main thread: `posted` is `cbs_`, what
waits for an event; `queue` is `queue_`, the copy the event loop works on; `toremove` the
objects that have something to take back. `removeBy` is two actions, since it sleeps while
one of the object's callbacks is in `queue`, and keeps `cb_rcvrs_lock_` (taken by its
caller) meanwhile.

`CallBacks.tla` EXTENDS it with `CallBacker`, `NotifierAccess` and `CallBackSet`. A callback is
known by its object, as `removeWith`, `willCall` and `removeBy` know it. A thread is at
`pc` in the call it makes; `frames` are the triggers and events it is in, the last first,
each with the copy of the callbacks that `doCall` works on and the place in it. The body of a
callback is any sequence of the calls in `Calls`, so a callback may attach, detach, end
objects and trigger again. The locks `attachednotifierslock_` and `shutdownsubscriberlock_`
are kept over several steps (`alock`, `slock`); `cbs_.lock_` and `receiverlock_` are not, and
each of their critical sections is one action. A try to get a lock (`wait` is `false`) may
fail also when the variable says that the lock is free: somebody may hold it within an action. So
`RemoveWithFails`, `UnsubscribeFails`, `NotifyShutdownFails` and `DetachSleeps` have no guard
on the lock.

| Code | Actions |
|---|---|
| `attachCB` | `AttachCB` (`notify`), `AddShutdownSubscription`, `AttachEnds` |
| `detachCB` | `DetachCB`, `RemoveCB`, `WillCall`, then `DetachEnds`, or `DetachSleeps` and `DetachRetries` |
| `detachAllNotifiers` | `EndObject`, `RemoveFromThreadCalls`, `WaitForQueue`, then passes: `StartPass`, `RemoveWith`, `Unsubscribe` |
| `~CallBacker`, its members first | `EndMember`, `DestroyObject` |
| `~NotifierAccess` | `EndNotifier` or `EndMember`, then `StartShutdown`, `NotifyShutdown` |
| `trigger`, `CallBackSet::doCall` | `Trigger`, `NextCall` (the test), `StartCall`, `CallReturns`, `LoopEnds` |
| `addToThread`, `event` | `Post`, `Event`, and the same loop |

What the application has to see to is in guards and assumptions. A notifier is used only
while it and the object it is part of exist (`Usable`), and it or its object is not destroyed
under a thread that triggers it or attaches to it (`NotifierIsFree`, `ObjectIsFree`): nothing in
the class could. An object is attached, detached and destroyed in one thread
(`OneUserAssumption`). Nothing restricts which of an object and a notifier ends first, nor
when.

## 10. Runs

| Run | Instance | Question | Result |
|---|---|---|---|
| `pool_execute` | 2 pool threads, 1 application thread, 3 works, one may fail; every thread calls `addWork` and `executeWork` | `AssignedOnce`; `executeWork` gives the right result and returns | holds |
| `pool_queues` | 2 pool threads, 2 application threads, 3 works of which two refer to one object, one SingleThread or Manual queue beside the default one, closing and shutdown | `LoadCount`, exclusion and order on SingleThread queues, (also against a work that `addWork` hands over at once), no idle thread beside pending MultiThread work, quiet removal, valid subscripts, shutdown loses nothing, `ImplementsWorkPool` | holds |
| `pool_close` | 1 pool thread, 2 application threads of which one closes queues and one adds works and calls `executeWork`, 2 works; fairness | pending work is taken, `emptyQueue`, `removeQueue` and `shutdown` return | holds |
| `pool_lost_wakeup` | a pool thread, inside a work, closes a queue that another pool thread adds to | `removeQueue` returns | violated |
| `rw_lock` | 3 threads, 3 locking calls each, the three sound ways to use the lock; fairness | `WriterIsAlone`, `LockKnowsHolders`, `PermissiveIsAlone`; every call returns | holds |
| `rw_locker` | 3 threads with `Locker`s that read, write and convert | `WriterIsAlone` | violated |
| `file_recovery` | a process that reads, writes and removes, a second one that reads; 2 calls of `open( false )`; 2 failures or crashes; four set-ups, with and without `ignorelock`; fairness | what readers get, what is left on the disk, lock files; a commit succeeds; calls end | holds |
| `jobs_hosts` | 2 jobs, 2 hosts, a job may be started twice; 3 calls of `addHost`, `removeHost`, `stopAll`; time-outs at any cycle | starts are bounded; which host has which job; whom the master listens to; ended jobs stay ended | holds |
| `jobs_faults` | 1 job, 1 host; a program that does not start, a process that dies, an answer that is lost, all messages, pausing; fairness | a completed job has been done; no job stays assigned for ever | holds |
| `parallel` | 3 processors; tasks of 1, 2, 3 and 5 iterations, with 2 rounds at the barrier or 3 traces and a buffer of 2; every number of free pool threads; stop, failing writes; fairness | rounds are separate; traces are stored in order; everything is done when the call returns; it returns | holds |
| `callbacks` | 2 threads, 2 objects, a notifier of its own and one that is a member of an object; 5 calls; a trigger or an event, not one in the other; fairness | nobody touches what is gone; attachments are mutual; no call after the end; no lock is kept for ever; what is posted is called | holds |
| `callbacks_chaos` | a thread that triggers, one that attaches and ends the object | no call after the end | violated |

Bounds. Each work is submitted once, so the number of works bounds a behaviour; with three,
one can run, one can be handed over and one wait, or one `executeWork`
has two works in others' hands. Two pool threads are the least for which the code
takes its parallel path (`executeWork` is sequential with one) and for which a
work can be done inline by one while the other is busy. `MaxQueues` bounds the ids
ever given: two, the default queue and another. In `pool_close` one pool thread is enough, since every
property is about who wakes whom, and liveness with two is beyond five minutes. Pool threads are
interchangeable, so `pool_queues` uses symmetry in them, and `jobs_hosts` in the hosts; the
runs with liveness use none.

Fairness. `WF_vars(Steps(t))` and `WF_vars(DoWork(x))`: the operating system schedules every
thread, and every work that is executed ends. Nobody is obliged to make a call
(`Calls` has no fairness). The steps of a thread are disabled while it waits for a
signal or for another thread's mutex. The mutex of a pool thread is held only for
a step that is itself fair, so weak fairness is enough.
A wait for a signal that never comes disables the thread for ever: this is how
the lost wake-up shows.

In `pool_close` the thread that closes a queue is an application thread. A work that
ends without a signal (threadwork.cc:569-574) is then inside a work of a pool
thread, and the last such work does signal when it reports back. `pool_lost_wakeup` has
a pool thread close the queue, from inside a work of the default queue: that queue's
counter cannot reach zero, and nobody signals.

The lock: with three threads one can hold it while two wait, which is the least for
which `signal(false)` can wake the wrong one, and one can read while two convert. Three
calls let a thread lock, convert and come back. Fairness: `WF_vars` of the steps of
a thread that is inside a call, and of unlocking (`Lockers` unlock when they go out of
scope). The bound on the calls matters for `CallsReturn`: nothing in the code keeps
readers that come and go for ever from starving a writer, so what is shown
is that no wake-up is lost, not that the lock is fair.

The file: `MaxWrites` 2 lets one version be committed over another, or a write follow one
that was interrupted; `MaxFaults` 2 lets a crash be followed by a failure of the call
that finds what it left. `LockRetries` is 10 in the code and 1 in the runs: the model goes
on counting with either, and one retry already separates the first test of the lock file,
a later one, and giving up. The four set-ups are the ones in the tree: the defaults
without lock (settings, object lists), with lock (`posinfo2dsurv.cc`, `hostdata.cc`),
readers without and writers with lock (`rockphysics.cc`, `stratlevel.cc`), and without
backup (`EventPatchWriter`). Fairness: `WF_vars(Step(p))`, the operating system
runs every process and a user who has opened a file closes it; nobody has to make a
call, and nobody has to crash. The deadlock check is on in `file_recovery`: a process that
is idle can always read.

The jobs: `jobs_hosts` has two of each because its properties are about a job on one
host and a late process, or another job, on another; a message can wait while the master does
anything else, so a queue of one already lets it be late. Its limits let a job be started
again after the host has failed, and be given up after the second time. `jobs_faults` has every fault once, on one job: liveness with
two jobs is beyond five minutes. Fairness: the timer runs and the loops go on (`WF`);
`PutHostToWork` and `handleJobPausing` are disabled while messages are handled, hence `SF`;
a process that lives reports and goes on at some time, though other processes keep the
master busy in between; a job whose process is gone exceeds its time-out some day
(`Silence`). A job whose process lives may time out too, but need not.

Parallel tasks: three threads at a barrier are the least for which one can have left a
round, one be leaving it and one come to the next; two rounds suffice, as nothing
distinguishes the second from later ones (`Barrier_proofs` has no bound).
`maxqueuesize` 2 with three traces lets the buffer be full with a trace missing in the
middle. The sizes 1, 2 and 5 give one work, fewer works than processors, and a remainder;
`MinThreadSize` is 1. Other work of the pool is taken to end (`WF_vars(OtherEnds)`):
several tasks that each wait at a barrier with some of their works queued behind the
others' are left out, see section 12. The deadlock check is off, as a behaviour ends
when the call has returned.

The callbacks: in `callbacks` the guest belongs to the main thread, which triggers the
notifier `hall`; the host and its member `door` belong to the worker, which also
ends `hall`. Five calls are the least for attach, attach, trigger, and the ends of both sides,
or for post, post, detach and two ends. An object that a trigger calls ends in the
thread that triggers; without that, `callbacks_chaos` shows what happens. A callback of
the event loop may attach and detach (`QueuedCalls`); one that posts or ends an object is the
deadlock of section 12. Fairness: `WF_vars` of the steps of each thread inside a call, so
that threads run and callbacks return; of `Event`, the main thread's loop delivers; `SF_vars(DetachEnds(t))`,
a `detachCB` that finds the lock of the notifier free again and again gets it once. Nothing
makes the two retry loops of the destructors (`callback.cc:271-287`, `655-669`) end: two threads
may miss each other's locks in step for ever, each with a sleep of the same
length. So what is claimed is that no lock is kept (`LocksAreReleased`), not that
the destructors return. The deadlock check is off: the bound on the calls ends a behaviour.

## 11. Proofs

Everything below is checked by TLAPS for every value of the constants, from
the named assumptions of the module alone: any number of threads (the pool threads and the
works finite, where a counter counts them), queues, calls.

*The pool, typing* (`WorkManager_proofs`). `TypeCorrect` is `Spec => []TypeOK`. `TypeOK`
alone is not inductive: `cur[t]` may be `None`, and the steps that hand over or add a
work index functions of works with it. `TypeInv` adds `CurOK`: a thread inside
`addWork` or `executeWork` has a work in `cur`.

*The pool, counters and hand-over* (same module). `LoadCount`, `AssignedOnce`
and `SingleThreadExclusive` are not inductive: that a counter is still right after a
thread has taken, finished or reported a work depends on the state that work was in,
hence on where works can be. The invariant `IInv` is `TypeInv` with three groups:

- `KeptInv` — works that no thread has: `workload_` holds works that are pending, each
  once (`PendingInv`); what a call of `executeWork` has still to add is held and belongs to
  that call (`TodoInv`); its first work stays with the call (`LeaderInv`);
- `HandInv` — works that a thread has or is to get: the task of a thread was given to
  that thread (`TaskInv`), a free thread has none and is free once (`FreeInv`), who is about
  to assign a task has taken the thread off the list, alone (`AssignInv`, `ApartInv`), and an
  assigned work reaches its thread (`KnownInv`), which had no task (`NoClash`: the
  code's "Trying to set existing task" never happens);
- `LoadInv` — the ids of the queues are distinct and not yet given out again, and every
  counter is the number of the busy works of its queue.

There is a frame lemma for each part (what an action must leave alone to keep it), one
lemma per action, and `IInvInit`, `IInvStep`. The theorems are
`LoadCountCorrect`, `AssignedOnceCorrect` and `SingleThreadCorrect`. The last one adds that
the counter of a SingleThread queue is at most 1 (`SingleLoadStep`: every place that
raises it tests it for zero in the same critical section); as the counter is right, the
queue has at most one busy work.

*The pool, what its users are promised* (`WorkManagerPool_proofs`). One classification
carries these proofs. Seen from outside, a step of the pool does one of few things, listed
in `Kind`: a work is accepted, starts, is fetched from `workload_`, ends (and its thread
starts the next), is refused or dropped, or a queue is added, closed or removed.
`KindOfStep` shows that of each action once, from the invariant `Base`: `IInv`, the
counter of a SingleThread queue being at most 1, that `workload_` holds every pending work
(`ListInv`), and where each call of `executeWork` stands (`PlaceInv`): in the loop that adds
works, in one `addWork`, below a work its own thread does, below its first work, or in the wait,
in one place of one thread. Each property is then shown kind by kind:

- `MultiThreadNeverWaitsCorrect` adds `WaitInv`, that a pending work of a MultiThread queue
  means no free thread, and that no work waits for a queue still to be added;
- `SingleThreadInOrderCorrect` is about every start of a work, the hand-over of a new work to a free
  thread included. A fetch looks from the front; for the hand-over `Order` says that a
  work of a SingleThread queue on which nobody works waits only if no thread is free. It
  needs `WaitInv` (when the last work of such a queue ends, nothing else that may be taken waits
  beside a free thread, so the thread takes a work of that queue) and `HandedInv` (a
  work that a thread was chosen for is done by that thread). It holds
  as long as `NeverInline` does, which the property has as its premise: section 12 says why;
- `ResultIsCompleteCorrect` adds `BatchInv`: as long as a call of `executeWork` that is not
  serial has not returned, it has counted each of its parts that has ended, has an error
  exactly if one of them failed, and waits for as many as it has. The count reaches the number
  of parts only when every part has ended, as the ended ones are a subset of as many elements.
  `PlaceInv` is needed here: were a call in two places, it could return and count on.

Four theorems are about closing, by any number of threads, and assume of the steps
`[][ClosersApart]_vars`: no step removes a queue that another thread is emptying or
removing, or one that stands before the index another `removeQueue` has kept over the unlock
and still uses (up to the first test of its loop, `threadwork.cc:468`; after a wait it is
looked up). The code does not prevent such a step (section 12), and with two threads that
remove queues TLC violates `SubscriptsAreValid` without the condition and nothing with it;
so these steps are the whole cause. `OneCloserIsApart` derives the condition where one
thread makes all `addQueue`, `emptyQueue`, `removeQueue` and `shutdown` calls. `CloseInv`
joins `CallInv` (a queue that is being emptied exists, is closing if it is to be removed,
has nothing pending once it was emptied, and stands where a kept index says), `ExitInv` (a
pool thread is told to end only when no queue is left) and the two properties
`RemovedQueueIsQuiet` and `SubscriptsAreValid`, which need each other: a queue that is
removed is quiet because the counter that was read was its own.
`ShutdownLosesNothingCorrect` follows. `ImplementsWorkPoolCorrect` is the refinement:
`PoolInit` and `PoolStep` map the initial states and every step through `SeenStatus`,
`SeenHome`, `SeenKind` and `SeenClosing` to a step of `WorkPool` or to none, one lemma per
kind.

*The lock* (`ReadWriteLock_proofs`). `WriterIsAloneCorrect`, `LockKnowsHoldersCorrect`,
`PermissiveIsAloneCorrect` and `LockTypeCorrect` hold for every mixture of operations,
readers beside a permissive holder included, under `[][NobodyForgotten]_vars` (section 5).
`SoundForgetsNobody` derives it where every use is `Sound`, so it covers `rw_lock` for any
number of threads and calls. The inductive invariant joins the three properties with
`ThreadInv`: what a thread holds, how it will unlock and the call it is in go together.
`LockSays` reads off what the counters imply for the other threads; `MoveKeepsInv` says
which changes of one thread's mode keep the invariant, and every action is shown to be such
a move. Neither conjunct of `NobodyForgotten` can go: `rw_locker` is a counterexample
without the one, a permissive lock beside one reader without the other.

*The file* (`SafeFileIO_proofs`). `FileTypeCorrect` and `NoLockIsLeftCorrect` hold for any
processes. The latter's invariant `LockInv` says that as long as nothing has failed
a lock file has an owner: a process that locks and is between `mkLock` and `rmLock`, or has
kept the lock.

`ReadsAreWholeCorrect` assumes `OneWriter` (at most one process calls `open( false )`; two
break it even with the lock, see section 12), any number of readers and any
process that removes. The invariant `AllInv`: `RoleInv`, a process inside a call is one
that may make it; `NamesWhole`, main and backup are whole; `NewIsApart`, no other name and
no reader's stream shares the version in the new file; `CommitsWhole`, from the end of
`commitWrite`'s first test on the new version is whole. The class does not need the lock
for this: a reader keeps its version because a rename does not touch an open file.

`CommitSucceedsCorrect` and `ReadsAreRecentCorrect` assume `OneChanger` (writing and removing are
one process). `CommitInv` is what a commit whose operations all worked knows at each
rename. `RecentInv` is why the fall-back on the backup is right: if there is no main file,
the backup is the last committed version or nothing, and it can only be replaced by
a newer one before the reader opens it.

`AVersionRemainsCorrect` assumes `OneChanger` too. It adds `RemainsInv` to those invariants: who is about
to rename has its new file, and who removes the old backup has a main file (`LeftInv`);
while nothing has failed, the main file is the last version committed except between the two
renames, when the backup is (`MainInv`); and after one failure either name exists unless a
commit stands between its renames, whose new file exists, and one more failure would
be needed to leave it there (`SomeInv`).

*The barrier* (`Barrier_proofs`). `RoundsAreSeparateCorrect` holds for any finite set of
callers. `BarrierInv` is `RoundInv` with the type of `unlocks`. `RoundInv` says that only members
come to the barrier (`OnlyMembers`), that `threadcount` is the number of those who are counted
and have not returned (`CountIsWaiting`), for each of them how its number of calls and returns
stands to the round (`RoundOf`), that who leads is alone in that (`LeadIsAlone`), and that
a round that fills lacks somebody (`SomebodyIsMissing`). The step that needs care is a caller
that comes back while others have not left: `PreviousRoundIsOut` keeps it at the gate.

*Parallel tasks* (`ParallelTask_proofs`). `TaskUsesBarrier` is `Spec => BarrierSpec`: each
action of a task is a step of the barrier or leaves its variables alone; so
`TaskRoundsAreSeparate` follows from the theorem about the barrier alone.

`WrittenInOrderCorrect` is about tasks whose works store traces. `StoreInv` follows a trace from its
announcement to the disk: `announced` always holds the last consecutive traces
(`AnnouncedInv`); what has gone to the queue was announced before those and waits
in order (`QueuedInv`), behind the trace that is being stored and those that have been
(`StoringInv`, `OrderInv`); as long as nothing has failed none is missing (`CompleteInv`). What
makes the order hold in the pool is `IdleInv`: while a thread is free nothing waits
except behind a trace that is being stored, so that a trace that `addWork` gives to a free
thread at once overtakes none.

`DoneWhenReturnedCorrect` is about every task, and adds `DoneInv` to `StoreInv`: the works were
divided once, into parts that a processor may have (`DivisionInv`); the caller has begun them in
order and does the first one itself (`CallerInv`); what waits in the queue are works that
have not begun, each once (`WaitingInv`); who holds a trace is a work that is running (`HeldInv`),
and unless something has failed each trace in `announced` has been submitted or is held, so that
nothing is waited for once all works have ended (`TracesInv`); after the return nothing of it goes on (`ReturnedInv`). `EachIterationOnce` is the arithmetic
of `TaskWorkManager`'s division: the parts are disjoint and leave no iteration out, for any size
and number of parts.

*The jobs* (`JobRunner_proofs`). `IInv` adds to `TypeOK`: a job that may be started has one
failure counted for each start (`JobsInv`); a state, a message in the queue or a process
that says that the work is done tells the truth (`JobsInv`, `QueueInv`, `ProcInv`); a
living process has a host, and `assignJob` is called for one (`TargetInv`). It is needed
because both properties are about the job, and a message that was sent long before changes
it. `JobMoveKeeps` says which changes of one job's information keep `JobsInv`, and
every action is shown to make such a change or none. `RetriesAreBoundedCorrect` and
`CompletedIsDoneCorrect` hold without any proviso on late messages.

`UsedHostHasJobCorrect`, `OneJobPerHostCorrect`, `ListensToAssignedCorrect` and
`EndedStaysEndedCorrect` rest on a second invariant, `UseInv`. Its first part holds always: a listed
host that is marked has a job (`UsedInv`), `assignJob` is called for a host that is not
marked (`FreshInv`), and a job is listed once, and never again after it has been given up
(`ListInv`); every place where a job stops being assigned is shown to release its
host in the same step. The second part holds until a message comes from a process that had
been given up: each assigned job is still listed and has a listed, marked host to itself
(`AssignedInv`), and one answer waits for its process and none for another
(`HeardInv`). The first part must not use the second, as `UsedHostHasJob` has no proviso.

*The callbacks* (`CallBacks_proofs`). `NothingDanglesCorrect` and `AttachmentIsMutualCorrect`
hold for any threads, objects, notifiers and calls of which `OneUserAssumption` is true:
`attachCB`, `detachCB` and the destructor of one object are called in one thread (the
notifiers of other objects may end in any). `TypeInv` is `TypeOK` with what a call is about at each of its steps
(`PlaceOK`). The inductive invariant is `EndsInv`, for the first theorem, with `OwnInv`,
`CallInv` and `UncalledInv`, for the second:

- the two ends: how far the object and the notifier of a call have come (`StageInv`), by one
  thread each (`UserInv`, `OnceInv`);
- the locks: what a thread has read under the lock of its object, that it is attached to the
  notifier, or under that of its notifier, that somebody is subscribed, stays true while it
  has the lock (`LockInv`);
- the two lists: a notifier in `attachednotifiers_` will tell the object of its end
  (`TellsInv`), and who is in `shutdownsubscribers_` is attached or about to be (`ToldInv`). Neither
  holds for what is being set up, nor between an object and its own notifiers, which need no
  subscription as `detachAllNotifiers` comes first; `MemberInv` says that;
- so nobody is left on the lists of a notifier that goes (`GoneInv`), which is what makes a
  retry with only the object's lock safe.

One lemma per action keeps the types (`...Types`), another one the invariant (`...Inv`).

`NoCallAfterEndCorrect` has two hypotheses about the application, since `doCall` calls with no lock
held. `CalledAtHome`: an object that a trigger may call ends in the thread that triggers;
`callbacks_chaos` is the counterexample without it. `[][NoneEndsItsCaller]_vars`: no callback ends the
notifier that calls it, nor the object that one is a member of. Without that the property fails too:
who is told of the notifier's end forgets it, then ends without taking its callback out of the
`CallBackSet` that the trigger still works on, and is found present there (TLC
shows it once the main thread may end `hall`). The calls of the run `callbacks` meet both. `HomeInv`
is kept by the steps and not by one action at a time, so it has lemmas that say what any step may
do to a lifetime (`LifeMoves`, `NotifierMoves`), a list (`ListMoves`, `AttachedMoves`, `ReceiverMoves`), a
place (`PlaceMoves`) or the frames (`FramesMoves`). Its parts: a callback in the list of a living
notifier belongs to an object that still lives or is attached still (`ListedInv`); an object that ends has taken its
callbacks out of the event loop's two lists before it goes on (`PostedInv`); a notifier stays usable as
long as a frame triggers it, and only the top frame of a thread is not in a callback
(`FramesInv`); and who was found present stays alive or ending until it is called (`TurnInv`).

*Only model-checked.* What needs fairness (`ExecuteWorkReturns`, `PendingIsTaken`,
`RemoveQueueReturns`, `ShutdownCompletes`, `CallsReturn`, `CallsEnd`, `AssignedEnds`,
`ExecuteReturns`, `LocksAreReleased`, `PostedIsCalled`) is out of the prover's reach.
Every safety property of the runs that pass has a theorem.

## 12. What the checks found

| Where | What | Run |
|---|---|---|
| `threadwork.cc:573` | a work done inside `addWork` ends without a signal (so does `removeWork`); who waits for the queue to be finished is not woken | `pool_lost_wakeup` |
| `thread.cc:168` | `Locker::convertToWriteLock` tests `isread_` the wrong way round: it returns true without converting, and the caller writes with a read lock | `rw_locker` |
| `callback.cc:553` | `doCall` tests whether a callback is still there, releases the lock, and calls it; an object that detaches itself in its destructor in another thread in between is called after its end | `callbacks_chaos` |

Found with TLC on instances that are not among the runs, by giving these modules other constants
or callers:

- *A host that idles* (`jobrunner.cc:202`). `assignJob` takes its turn, for `startwaittime_`,
  before it knows whether there is a job for the host. A host whose only job failed on it
  takes the turn in every cycle, and the host behind it that could run the job is never
  asked: one job and two hosts suffice, under the fairness of `jobs_faults`.
- *A task with a barrier in a pool thread* (`task.cc:470`). If some, but too few, threads are
  free, `addWork` runs one work inside the caller (`threadwork.cc:564`); that work waits at the
  barrier for the one the caller was to do afterwards (`:715`). `ExecuteReturns` fails with three
  processors if `Scenarios` has a task of the kind `tiles` and size 3 that the pool calls.
- *Stale index* (`threadwork.cc:457`, `468`). `removeQueue` tests the counter with an
  index from before `emptyQueue` released the lock. With two threads that remove queues it
  looks at another queue or past the end, may remove a queue that is worked on, and
  `reduceWorkload` then gets -1 (`:408`). Runs have one closer; `ClosersApart` (section 11)
  is what several need.
- *Stranded `executeWork`* (`threadwork.cc:537-543`, `435-446`, `717-719`). A work of
  `executeWork` that is refused or dropped because its queue closes never calls back, and
  `executeWork` waits for ever. Runs close no queue that `executeWork` was called on.
- *Two closers of one queue* (`threadwork.cc:448`). `emptyQueue` without `finishall`
  signals only if the queue is closing; a second thread that waits for the same queue may
  not be woken.
- *Permissive lock* (`thread.cc:545-549`). The last reader to leave sets the status to
  free, and so drops the permissive lock of another thread; and `permissiveWriteUnLock`
  does not signal (`:637`), hence the exemption in `CallsReturn`. Apart from that step and
  `thread.cc:168` the lock is right also with readers beside a permissive holder (section 11).
- *Overtaking on a SingleThread queue* (`threadwork.cc:564-573`). When no thread is free, `addWork`
  without `forcedifferentthread` may do the work itself, and then lowers the counter of the queue
  with works waiting. A thread that becomes free meanwhile could not take them; the
  next `addWork` finds the counter at zero, does not look at `workload_`, and hands its own work to
  that thread first. It takes five works and two pool threads, more than `pool_queues` has; with
  `NeverInline` as a premise `SingleThreadInOrder` holds on that instance too (2.1 million
  states). The users of SingleThread queues in the tree that rely on the order force a
  different thread (`seisstorer.cc:700`, `seisloader.cc:528`, `:1106`, `seisstatscalc.cc:155`), and
  no comment promises it otherwise.
- *Lock file* (`safefileio.cc:252-287`). It is tested and made in two steps: two writers
  both get it, and one commits what the other has half written.
- *Late messages* (`jobrunner.cc`, `updateJobInfo`). Nothing removes the messages of a
  process from `statusqueue_` when its job fails. Read later, they set the state of the job
  whatever it is: without the proviso `~late`, a job that has failed or is completed becomes
  Working or Paused again, also on a host that is no longer in the list, and two
  jobs can be assigned to one host.
- *Stopping at a barrier* (`marchingcubes.cc:721-740`). Works that see the stop leave, and
  the others wait for them at the barrier. `ExecuteReturns` exempts a task that the user
  stops unless it is of the kind `tiles`; without the exemption TLC finds the call waiting
  for ever, and the same for works that store (next list).

What else modelling brought up:

- Callbacks. `removeFromThreadCalls` waits, with `cb_rcvrs_lock_`, for the queued callbacks of
  its object (`callback.cc:125`, `505`); a queued callback that posts or destroys any
  `CallBacker` needs that lock, and one that destroys its own object waits for itself. An
  event loop inside a queued callback overwrites and erases `queue_` under the outer one
  ("Queue should be empty", `:46-58`), and the calls left in it are lost. A callback that
  destroys the notifier that calls it, and then another object that is attached to it, leaves that
  object in the callbacks of the trigger, which still calls it: `~NotifierAccess` leaves `cbs_`
  as it is, and the destructor of the object does not know the notifier any more. `attachCB` and
  `detachCB` of one object in two threads may leave it attached without being
  told of the notifier's end (`:357-366`; `OneUserAssumption` excludes it). `callInMainThread` in the main
  thread queues and returns false (`:494`), where `callback.h:99` promises a direct
  call. `transferCBSTo` takes two locks in the order of its arguments (`:742`).
- The pool and tasks. Several tasks with barriers on one pool can each hold threads that
  the others need. `ParallelSorter` sets the number of threads of its barrier while it holds
  the barrier's mutex (`sorting.h:545`). The second pass of the variance
  (`statparallelcalc.h:251`) and the seeds of `MarchingCubes2Implicit`
  (`marchingcubes.cc:748`) divide without the remainder. The division in `task.cc:489` casts
  to `int`. `HorizonTileRenderPreparer` may return true though it was stopped in its last
  loop.
- The storer. If two traces are announced at one position, the second announcement is
  never matched (`seisstorer.cc:678-702`). A work that leaves after a stop without submitting
  the trace it announced leaves the others asleep on a full buffer unless they were
  woken for another reason. `found` in `iterateBuffer` is never true where it is tested
  (`:712`), which does no harm, as `reportWrite` signals. `VolumeConverter` drops its
  provider after the first trace (`velocityvolumeconversion.cc:237`) and submits a null
  trace when a conversion fails.
- The jobs. A time-out of a job that wraps up leaves its entry in `jobhostresps_`.
  `jobrunner.h:40` says of the failures of a host "Reset to 0 at every success", and nothing
  resets them but `addHost`. When a job is given up, the loop of `assignJob` passes over
  the job behind it (`JobBad`), until the next cycle.
- The file. `AVersionRemains` stops at one failure, as the code does. After a crash between
  the two renames of a commit the backup is the only finished version under a name that
  is read. The next `commitWrite` starts by removing it (`safefileio.cc:188`); a second
  crash then leaves the new file only, which no reader looks at and the next
  `openWrite` removes. If `remove()` cannot remove the backup, the version in it comes back
  for the next reader once the main file is gone. `remove()` returns
  `File::exists(filenm_)`, that is false when it has worked (`:220`). An `open` that fails
  in `checkDirectory` leaves its lock file behind (`:84`, `151`): `NoLockIsLeft` holds only
  while nothing fails.

## 13. Not modelled

- In the pool: `cancelWork` with `cancelflag_`, which nothing calls; the `Kill` answer of a
  process that exits (`WorkThread::exitWork`), which ends the program; `setQueueName`
  and the queries, which change nothing; callbacks of `addWork` other than those of
  `executeWork`, which do not touch the pool unless they call it.
- `Mutex`, `ConditionVar` and `Thread` are Qt's. They appear as critical sections, sets of
  waiting threads and scheduling. No spurious wake-up is modelled: every wait of the
  modelled code is in a loop, so one could only hide a lost signal.
- Of the file: the tests `isReadable` and `isWritable`, which change nothing, what `mkLock`
  writes in the lock file, which nobody reads, and `SafeWriteHelper`, a sequential subset.
- Of the jobs: the test mode, a master that cannot listen, the text of errors and the log
  file whose time counts as a sign of life. A program is started in less than
  `startwaittime_`.
- Of parallel tasks: pausing, the progress counters, and `Executor` and `TaskGroup`, which are
  loops over their parts in one thread. Of the storer: several traces at one position, and
  what a caller does after an announcement that failed.
- Callbacks: disabling and `NotifyStopper`, `transferCBSTo`, static callbacks and capsules,
  the receivers of threads other than the main one, and an event loop inside a callback.
  Calls that change nothing are left out: `attachCB` with `onlyifnew` for a callback that is
  there, `detachCB` of a notifier that is not attached.
- Reference counts: a weak pointer can still be read between the count becoming invalid and
  `clearAllObservers` (`refcount.cc:81`); what makes it safe is `tryRef` (`:167`), a
  compare-and-set that a model would have to take apart, with the list of observers.
- Monitorable objects and auto-saving are built on the two above.
- Not planned: batch programs and remote commands (process start and command lines),
  sockets (a layer over Qt), data packs (a registry under one lock), auto-saving, the
  libraries for seismic data, attributes, volumes, horizons and wells (numerical
  algorithms and file formats), the user interface and visualisation.
