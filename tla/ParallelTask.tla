----------------------------- MODULE ParallelTask -----------------------------
(***************************************************************************)
(* ParallelTask::executeParallel on the pool of WorkManager: a task is cut *)
(* into works, one for the calling thread and one for each of several pool *)
(* threads, and the call returns when all are done.  What the works do     *)
(* together is the composition of this module with Barrier and             *)
(* SequentialStorer:                                                       *)
(*   tiles   HorizonTileRenderPreparer: every work comes to the barrier    *)
(*           the same number of times, stopped or not                      *)
(*   cubes   MarchingCubes2Implicit: works that leave when told to stop    *)
(*   store   works that make traces for a SequentialStorer                 *)
(*                                                                         *)
(* The pool is that of WorkManager.tla seen from one caller: the number of *)
(* free threads, the number busy for others, and workload_ in order.  A    *)
(* caller that is itself a pool thread is "pool", otherwise "app".         *)
(***************************************************************************)
EXTENDS Barrier, SequentialStorer

CONSTANTS
    Scenarios,      \* use, caller and size of the task that is run
    MinThreadSize   \* minThreadSize()

NrProcs == Cardinality(Callers)   \* Threads::getNrProcessors()

ASSUME ParallelAssumption ==
    /\ Callers = 0..NrProcs - 1
    /\ Submitters = Callers
    /\ NrProcs > 1
    /\ MinThreadSize \in Nat \ {0}
    /\ Scenarios \subseteq [use : {"tiles", "cubes", "store"},
                            caller : {"app", "pool"},
                            size : Nat \ {0}]

VARIABLES
    scenario,
    cpc,      \* the caller: start, add, inline, own, wait, returned
    next,     \* the next work to be added
    status,   \* of every work: new, queued, running, done
    free,     \* freethreads_.size()
    others,   \* the pool threads with other work
    control,  \* control_
    failed,   \* whether a doWork has returned false
    result    \* what executeParallel has returned

parallelVars == <<scenario, cpc, next, status, free, others, control, failed,
                  result>>
vars == <<parallelVars, barrierVars, storerVars>>

PoolSize == 2 * NrProcs

Init ==
    /\ scenario \in Scenarios
    /\ BarrierInit
    /\ scenario.use = "store" => immediaterelease
    /\ StorerInit
    /\ cpc = "start"
    /\ next = 1
    /\ status = [w \in Callers |-> "new"]
    /\ free \in 0..(IF scenario.caller = "pool" THEN PoolSize - 1 ELSE PoolSize)
    /\ others = (IF scenario.caller = "pool" THEN PoolSize - 1 ELSE PoolSize)
                    - free
    /\ control = "Run"
    /\ failed = FALSE
    /\ result = FALSE

-----------------------------------------------------------------------------
(***************************************************************************)
(* How the iterations 0..size-1 are divided                                *)
(***************************************************************************)

Least(a, b) == IF a < b THEN a ELSE b

calculateThreadSize(total, n, idx) ==
    LET ideal == total \div n
        per == IF ideal < MinThreadSize THEN MinThreadSize ELSE ideal
        start == idx * per
        nextstart == IF idx = n - 1 THEN total ELSE Least(start + per, total)
    IN  CASE n = 1 -> total
          [] n # 1 /\ nextstart <= start -> 0
          [] OTHER -> nextstart - start

\* runners[k] gets the k-th part, counted from 0, of idx = n-1, n-2, ..., 0,
\* and tasks[k] runs runners[idx].
Divided(total, n) ==
    FoldLeft(LAMBDA acc, idx :
                 LET size == calculateThreadSize(total, n, idx) IN
                 IF acc.start >= total \/ size = 0 THEN acc
                 ELSE [start   |-> acc.start + size,
                       runners |-> Append(acc.runners,
                                          acc.start..acc.start + size - 1),
                       tasks   |-> Append(acc.tasks, idx + 1)],
             [start |-> 0, runners |-> <<>>, tasks |-> <<>>],
             [k \in 1..n |-> n - k])

\* The iterations that work w of n does.
Iterations(total, n, w) ==
    LET d == Divided(total, n) IN d.runners[d.tasks[w + 1]]

MaxNrThreads(total) == Least(total \div MinThreadSize, NrProcs)

-----------------------------------------------------------------------------
(***************************************************************************)
(* The pool                                                                *)
(***************************************************************************)

\* What a thread may take: of the storer's queue one at a time.
Takeable(load, busy) ==
    {i \in DOMAIN load : IsWrite(load[i]) => busy = 0}

\* reportFinishedAndAskForMore, with the trace being stored after the report.
AskForMore(load, busy, st) ==
    LET can == Takeable(load, busy)
        i == CHOOSE j \in can : \A k \in can : j <= k
    IN  IF can = {}
        THEN /\ free' = free + 1
             /\ workload' = load
             /\ writing' = busy
             /\ status' = st
        ELSE /\ workload' = RemoveAt(load, i)
             /\ writing' = IF IsWrite(load[i]) THEN load[i][2] ELSE busy
             /\ status' = IF IsWrite(load[i]) THEN st
                          ELSE [st EXCEPT ![load[i][2]] = "running"]
             /\ UNCHANGED free

\* Other work of the application comes to the pool and ends.
OtherStarts ==
    /\ cpc # "returned"
    /\ free > 0
    /\ free' = free - 1
    /\ others' = others + 1
    /\ UNCHANGED <<scenario, cpc, next, status, control, failed, result,
                   barrierVars, storerVars>>

OtherEnds ==
    /\ others > 0
    /\ others' = others - 1
    /\ AskForMore(workload, writing, status)
    /\ UNCHANGED <<scenario, cpc, next, control, failed, result, barrierVars,
                   nexttrace, hold, announced, outputs, reported, written,
                   uirv, blocked, sleeping>>

\* The thread that has stored a trace.
WriteEnds ==
    /\ reported
    /\ reported' = FALSE
    /\ AskForMore(workload, 0, status)
    /\ UNCHANGED <<scenario, cpc, next, others, control, failed, result,
                   barrierVars, nexttrace, hold, announced, outputs, written,
                   uirv, blocked, sleeping>>

-----------------------------------------------------------------------------
(***************************************************************************)
(* executeParallel and executeWork                                         *)
(***************************************************************************)

\* A pool thread without a free colleague does all by itself.
NrThreads ==
    IF scenario.caller = "pool" /\ free = 0 THEN 1
    ELSE IF MaxNrThreads(scenario.size) < 1 THEN 1
    ELSE MaxNrThreads(scenario.size)

executeParallel ==
    /\ cpc = "start"
    /\ setNrThreads(0..NrThreads - 1)
    /\ cpc' = "add"
    /\ UNCHANGED <<scenario, next, status, free, others, control, failed,
                   result, storerVars>>

\* executeWork adds work 1, 2, ...: to a free thread; or, called from a pool
\* thread, the caller does it by itself; or it is queued.
addWork ==
    /\ cpc = "add"
    /\ next < nrthreads
    /\ next' = next + 1
    /\ \/ /\ free > 0
          /\ free' = free - 1
          /\ status' = [status EXCEPT ![next] = "running"]
          /\ UNCHANGED <<cpc, workload>>
       \/ /\ free = 0
          /\ scenario.caller = "pool"
          /\ cpc' = "inline"
          /\ status' = [status EXCEPT ![next] = "running"]
          /\ UNCHANGED <<free, workload>>
       \/ /\ free = 0
          /\ scenario.caller = "app"
          /\ workload' = Append(workload, <<"work", next>>)
          /\ status' = [status EXCEPT ![next] = "queued"]
          /\ UNCHANGED <<cpc, free>>
    /\ UNCHANGED <<scenario, others, control, failed, result, barrierVars,
                   nexttrace, hold, announced, outputs, writing, reported,
                   written, uirv, blocked, sleeping>>

\* ... and then does work 0 itself.
RunOwn ==
    /\ cpc = "add"
    /\ next = nrthreads
    /\ cpc' = "own"
    /\ status' = [status EXCEPT ![0] = "running"]
    /\ UNCHANGED <<scenario, next, free, others, control, failed, result,
                   barrierVars, storerVars>>

ByCaller(w) == w = 0 \/ (cpc = "inline" /\ w = next - 1)

\* ParallelTaskRunner::doRun: doWork has returned res.
EndRun(w, res) ==
    /\ control' = IF res THEN control ELSE "Stop"
    /\ failed' = (failed \/ ~res)
    /\ IF ByCaller(w)
       THEN /\ status' = [status EXCEPT ![w] = "done"]
            /\ cpc' = IF w = 0 THEN "wait" ELSE "add"
            /\ UNCHANGED <<free, workload, writing>>
       ELSE /\ AskForMore(workload, writing, [status EXCEPT ![w] = "done"])
            /\ UNCHANGED cpc
    /\ UNCHANGED <<scenario, next, others, result, nexttrace, announced,
                   outputs, reported, written, uirv, blocked, sleeping>>

\* Mistake (AllFinished): imFinished counts one too many.
AllButOneFinished ==
    Cardinality({w \in 1..nrthreads - 1 : status[w] # "done"}) <= 1

AllFinished == \A w \in 1..nrthreads - 1 : status[w] = "done"

\* executeWork returns, and doFinish.
Finish ==
    /\ cpc = "wait"
    /\ AllFinished
    /\ cpc' = "returned"
    /\ IF scenario.use = "store"
       THEN finishWrite /\ result' = (~failed /\ uirv)
       ELSE UNCHANGED storerVars /\ result' = ~failed
    /\ UNCHANGED <<scenario, next, status, free, others, control, failed,
                   barrierVars>>

\* The user stops the task.
Stop ==
    /\ cpc \notin {"start", "returned"}
    /\ control = "Run"
    /\ control' = "Stop"
    /\ UNCHANGED <<scenario, cpc, next, status, free, others, failed, result,
                   barrierVars, storerVars>>

-----------------------------------------------------------------------------
(***************************************************************************)
(* doWork                                                                  *)
(***************************************************************************)

\* A step at the barrier.
AtBarrier(w) ==
    /\ scenario.use \in {"tiles", "cubes"}
    /\ status[w] = "running"
    /\ BarrierStep(w)
    /\ UNCHANGED <<parallelVars, storerVars>>

\* doWork returns: "tiles" false if it finds itself stopped after the last
\* barrier, "cubes" true as soon as shouldContinue is false.
EndAtBarrier(w) ==
    /\ scenario.use \in {"tiles", "cubes"}
    /\ status[w] = "running"
    /\ where[w] = "out"
    /\ \/ arrived[w] = MaxRounds
       \/ scenario.use = "cubes" /\ control = "Stop"
    /\ \E res \in BOOLEAN :
          /\ ~res => scenario.use = "tiles" /\ control = "Stop"
          /\ EndRun(w, res)
    /\ UNCHANGED <<hold, barrierVars>>

Announce(w) ==
    /\ scenario.use = "store"
    /\ status[w] = "running"
    /\ announceTrace(w)
    /\ UNCHANGED <<parallelVars, barrierVars>>

\* shouldContinue was true when the work began with the trace.
Submit(w) ==
    /\ status[w] = "running"
    /\ LET now == free > 0 /\ writing = 0
                  /\ Ready(outputs \cup {hold[w]}) # <<>> IN
       /\ submitTrace(w, now)
       /\ free' = IF now THEN free - 1 ELSE free
    /\ UNCHANGED <<scenario, cpc, next, status, others, control, failed,
                   result, barrierVars>>

Resume(w) ==
    /\ ResumeSubmit(w)
    /\ UNCHANGED <<parallelVars, barrierVars>>

Store(isok) ==
    /\ execute(isok)
    /\ UNCHANGED <<parallelVars, barrierVars>>

\* The input is at its end, or the task is being stopped: then the trace the
\* thread has announced is never submitted.
EndStore(w) ==
    /\ scenario.use = "store"
    /\ status[w] = "running"
    /\ w \notin blocked
    /\ \/ hold[w] = 0 /\ nexttrace > NrTraces /\ EndRun(w, TRUE)
       \/ hold[w] # 0 /\ control = "Stop" /\ EndRun(w, FALSE)
    /\ hold' = [hold EXCEPT ![w] = 0]
    /\ UNCHANGED barrierVars

DoWork(w) ==
    \/ AtBarrier(w) \/ EndAtBarrier(w)
    \/ Announce(w) \/ Submit(w) \/ Resume(w) \/ EndStore(w)

Next ==
    \/ executeParallel \/ addWork \/ RunOwn \/ Finish \/ Stop
    \/ OtherStarts \/ OtherEnds \/ WriteEnds
    \/ \E isok \in BOOLEAN : Store(isok)
    \/ \E w \in Callers : DoWork(w)

Spec == Init /\ [][Next]_vars

\* Threads run, other work of the pool ends, and the Storer comes back.
Fairness ==
    /\ WF_vars(executeParallel \/ addWork \/ RunOwn \/ Finish)
    /\ WF_vars(OtherEnds)
    /\ WF_vars(WriteEnds)
    /\ WF_vars(\E isok \in BOOLEAN : Store(isok))
    /\ \A w \in Callers : WF_vars(DoWork(w))

FairSpec == Spec /\ Fairness

-----------------------------------------------------------------------------
\* executeParallel returns true only if each iteration has been done by exactly
\* one work, and what the works have made is stored: every trace of the input,
\* as long as nobody has stopped the task.
DoneWhenReturned ==
    cpc = "returned" /\ result /\ control = "Run" =>
        /\ \A i \in 0..scenario.size - 1 :
              Cardinality({w \in members : status[w] = "done"
                   /\ i \in Iterations(scenario.size, nrthreads, w)}) = 1
        /\ scenario.use = "store" =>
              written = [i \in 1..NrTraces |-> i]

\* executeParallel returns, if every work comes to the barrier whatever happens
\* or nobody stops the task (executeWork "Returns when finished with all",
\* threadwork.h:83).
ExecuteReturns ==
    (scenario.use = "tiles" \/ [](control = "Run")) => <>(cpc = "returned")
=============================================================================
