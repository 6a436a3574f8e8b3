----------------------- MODULE WorkManagerPool_proofs -----------------------
(***************************************************************************)
(* What a user of the pool is promised, for every number of threads, works *)
(* and queues: that the pool implements WorkPool, that a queue is removed  *)
(* only when nothing of it is left, that nothing waits while a thread is   *)
(* free, and that executeWork returns the result of all its works.         *)
(*                                                                         *)
(* The proofs go through one classification.  Whatever the action, a step  *)
(* of the pool does one of a few things to the works and the queues        *)
(* (Kind): a work is accepted, starts, ends, is refused or dropped, or a   *)
(* queue is added, closed or removed.  Each action is shown to be of one   *)
(* kind, and each property is shown kind by kind.                          *)
(***************************************************************************)
EXTENDS WorkManager_proofs

-----------------------------------------------------------------------------
(***************************************************************************)
(* The calls of executeWork.  A call is known by its first work b, and it  *)
(* is at one place at a time: in the loop that adds the others, in the     *)
(* addWork of one of them, below a work that its thread does itself, below *)
(* b, or in the wait for the others.  Place 0 of a thread is what pc says, *)
(* place i the i-th work on its stack.                                     *)
(***************************************************************************)
InPlace(t, b) ==
    \/ pc[t] \in {"exec", "execwait"} /\ cur[t] = b
    \/ pc[t] = "assign" /\ batch[cur[t]] = b

Below(w, b) ==
    \/ wst[w] \in {"inline", "direct"} /\ batch[w] = b
    \/ wst[w] = "first" /\ w = b

At(t, i, b) ==
    \/ i = 0 /\ InPlace(t, b)
    \/ i \in DOMAIN stack[t] /\ Below(stack[t][i], b)

OnceInv ==
    \A b \in Works : \A t, u \in Threads : \A i, j \in Nat :
        At(t, i, b) /\ At(u, j, b) => t = u /\ i = j

\* How far the call is with its first work.
StageOf(t) ==
    /\ pc[t] = "exec" => wst[cur[t]] = "held"
    /\ pc[t] = "assign" /\ batch[cur[t]] # None => wst[batch[cur[t]]] = "held"
    /\ pc[t] = "execwait" => wst[cur[t]] = "done"
    /\ \A i \in DOMAIN stack[t] :
         /\ wst[stack[t][i]] \notin {"new", "held"}
         /\ wst[stack[t][i]] \in {"inline", "direct"} /\ batch[stack[t][i]] # None
              => wst[batch[stack[t][i]]] = "held"

StageInv == \A t \in Threads : StageOf(t)

PlaceInv == OnceInv /\ StageInv

LEMMA StackFacts ==
    ASSUME TypeInv, NEW t \in Threads
    PROVE  /\ stack[t] \in Seq(Works)
           /\ Len(stack[t]) \in Nat
           /\ DOMAIN stack[t] = 1..Len(stack[t])
           /\ \A i \in DOMAIN stack[t] : stack[t][i] \in Works
<1>1. stack[t] \in Seq(Works)
  BY DEF TypeInv, TypeOK
<1> QED  BY <1>1, LenProperties, ElementOfSeq

LEMMA PushStack ==
    ASSUME TypeInv, NEW t \in Threads, NEW w \in Works, Push(t, w)
    PROVE  /\ \A u \in Threads \ {t} : stack'[u] = stack[u]
           /\ DOMAIN stack'[t] = 1..Len(stack[t]) + 1
           /\ \A i \in DOMAIN stack[t] : stack'[t][i] = stack[t][i]
           /\ stack'[t][Len(stack[t]) + 1] = w
<1>1. /\ stack[t] \in Seq(Works) /\ Len(stack[t]) \in Nat
      /\ DOMAIN stack[t] = 1..Len(stack[t])
  BY StackFacts
<1>2. /\ Append(stack[t], w) \in Seq(Works)
      /\ Len(Append(stack[t], w)) = Len(stack[t]) + 1
      /\ \A i \in 1..Len(stack[t]) : Append(stack[t], w)[i] = stack[t][i]
      /\ Append(stack[t], w)[Len(stack[t]) + 1] = w
  BY <1>1, AppendProperties
<1>3. DOMAIN Append(stack[t], w) = 1..Len(stack[t]) + 1
  BY <1>2, LenProperties
<1>4. stack'[t] = Append(stack[t], w) /\ \A u \in Threads \ {t} : stack'[u] = stack[u]
  BY DEF Push, TypeInv, TypeOK
<1> QED  BY <1>1, <1>2, <1>3, <1>4

LEMMA PopStack ==
    ASSUME TypeInv, NEW t \in Threads, stack[t] # <<>>, Pop(t)
    PROVE  /\ \A u \in Threads \ {t} : stack'[u] = stack[u]
           /\ DOMAIN stack'[t] = 1..Len(stack[t]) - 1
           /\ \A i \in 1..Len(stack[t]) - 1 : stack'[t][i] = stack[t][i]
           /\ Len(stack[t]) \in DOMAIN stack[t]
           /\ stack[t][Len(stack[t])] = Top(t)
<1>1. /\ stack[t] \in Seq(Works) /\ Len(stack[t]) \in Nat
      /\ DOMAIN stack[t] = 1..Len(stack[t])
  BY StackFacts
<1>2. /\ Front(stack[t]) \in Seq(Works)
      /\ Len(Front(stack[t])) = Len(stack[t]) - 1
      /\ \A j \in 1..Len(stack[t])-1 : Front(stack[t])[j] = stack[t][j]
  BY <1>1, FrontProperties
<1>3. DOMAIN Front(stack[t]) = 1..Len(stack[t]) - 1
  BY <1>2, LenProperties
<1>4. stack'[t] = Front(stack[t]) /\ \A u \in Threads \ {t} : stack'[u] = stack[u]
  BY DEF Pop, TypeInv, TypeOK
<1>5. Len(stack[t]) \in 1..Len(stack[t])
  BY <1>1, EmptySeq
<1> QED  BY <1>1, <1>2, <1>3, <1>4, <1>5 DEF Top

\* A call that does not move is where it was, or has ended.
LEMMA OnceShrinks ==
    ASSUME OnceInv,
           \A b \in Works : \A t \in Threads : \A i \in Nat : At(t, i, b)' => At(t, i, b)
    PROVE  OnceInv'
BY DEF OnceInv

\* One call moves, from place i to place j of its thread.
LEMMA OnceMoves ==
    ASSUME OnceInv, NEW t \in Threads, NEW i \in Nat, NEW j \in Nat,
           \A b \in Works : \A u \in Threads : \A k \in Nat :
              At(u, k, b)' => /\ ~(u = t /\ k = i)
                              /\ At(u, k, b) \/ (u = t /\ k = j /\ At(t, i, b))
    PROVE  OnceInv'
<1> SUFFICES ASSUME NEW b \in Works, NEW u \in Threads, NEW v \in Threads,
                    NEW k \in Nat, NEW m \in Nat, At(u, k, b)', At(v, m, b)'
             PROVE  u = v /\ k = m
  BY DEF OnceInv
<1>1. /\ ~(u = t /\ k = i)
      /\ At(u, k, b) \/ (u = t /\ k = j /\ At(t, i, b))
  OBVIOUS
<1>2. /\ ~(v = t /\ m = i)
      /\ At(v, m, b) \/ (v = t /\ m = j /\ At(t, i, b))
  OBVIOUS
<1> QED  BY <1>1, <1>2 DEF OnceInv

\* The steps in which no call moves.
Unmoved(u) ==
    \/ pc'[u] = pc[u] /\ cur'[u] = cur[u]
    \/ pc'[u] \notin {"exec", "assign", "execwait"}
    \/ /\ pc[u] = "assign" /\ pc'[u] = "exec"
       /\ batch[cur[u]] # None /\ cur'[u] = batch[cur[u]]

UnmovedStack(u) ==
    \A i \in DOMAIN stack'[u] :
        \/ i \in DOMAIN stack[u] /\ stack'[u][i] = stack[u][i]
        \/ stack'[u][i] \in Works /\ wst'[stack'[u][i]] \in {"task", "manual", "serial"}

UnmovedWork(w) ==
    \/ wst'[w] = wst[w]
    \/ /\ wst'[w] \notin {"new", "held", "inline", "direct", "first"}
       /\ wst[w] # "done"
       /\ wst[w] = "held" => batch[w] # None

LEMMA PlaceFrame ==
    ASSUME TypeInv, KeptInv, PlaceInv, batch' = batch,
           \A u \in Threads : Unmoved(u) /\ UnmovedStack(u),
           \A w \in Works : UnmovedWork(w)
    PROVE  PlaceInv'
<1>1. \A u \in Threads : \A i \in DOMAIN stack[u] : stack[u][i] \in Works
  BY StackFacts
<1>2. \A u \in Threads : /\ cur[u] \in Works \cup {None}
                         /\ pc[u] \in {"exec", "assign", "execwait"} => cur[u] \in Works
  BY DEF TypeInv, TypeOK, CurOK
<1>3. \A w \in Works : batch[w] # None => batch[w] \in Works /\ batch[batch[w]] = None
  BY DEF KeptInv, LeaderInv, Leader
<1>4. \A w \in Works : /\ wst'[w] \in {"inline", "direct", "first", "new", "held"}
                               => wst'[w] = wst[w]
                       /\ wst[w] = "done" => wst'[w] = "done"
                       /\ wst[w] = "held" /\ batch[w] = None => wst'[w] = "held"
  BY DEF UnmovedWork
<1>5. \A u \in Threads : pc[u] \in {"exec", "execwait"} => batch[cur[u]] = None
  BY DEF KeptInv, LeaderInv, Leader
<1>6. OnceInv'
  <2>1. ASSUME NEW b \in Works, NEW t \in Threads, NEW i \in Nat, At(t, i, b)'
        PROVE  At(t, i, b)
    <3>1. CASE i = 0 /\ InPlace(t, b)'
      <4>1. InPlace(t, b)
        BY <1>2, <3>1, ConstantAssumption DEF InPlace, Unmoved
      <4> QED  BY <3>1, <4>1 DEF At
    <3>2. CASE i \in DOMAIN stack'[t] /\ Below(stack[t][i], b)'
      <4>1. i \in DOMAIN stack[t] /\ stack'[t][i] = stack[t][i]
        BY <3>2 DEF UnmovedStack, Below
      <4>2. Below(stack[t][i], b)
        BY <1>1, <1>4, <3>2, <4>1 DEF Below
      <4> QED  BY <4>1, <4>2 DEF At
    <3> QED  BY <2>1, <3>1, <3>2 DEF At
  <2> QED  BY <2>1, OnceShrinks DEF PlaceInv
<1>7. ASSUME NEW t \in Threads
      PROVE  StageOf(t)'
  <2>1. StageOf(t) /\ Unmoved(t) /\ UnmovedStack(t)
    BY DEF PlaceInv, StageInv
  <2>2. ASSUME pc'[t] = "exec"
        PROVE  wst'[cur'[t]] = "held"
    <3>1. CASE pc'[t] = pc[t] /\ cur'[t] = cur[t]
      BY <1>2, <1>4, <1>5, <2>1, <2>2, <3>1 DEF StageOf
    <3>2. CASE /\ pc[t] = "assign" /\ batch[cur[t]] # None
               /\ cur'[t] = batch[cur[t]]
      BY <1>2, <1>3, <1>4, <2>1, <3>2 DEF StageOf
    <3> QED  BY <2>1, <2>2, <3>1, <3>2 DEF Unmoved
  <2>3. pc'[t] = "assign" /\ batch'[cur'[t]] # None => wst'[batch'[cur'[t]]] = "held"
    BY <1>2, <1>3, <1>4, <2>1 DEF StageOf, Unmoved
  <2>4. pc'[t] = "execwait" => wst'[cur'[t]] = "done"
    BY <1>2, <1>4, <2>1 DEF StageOf, Unmoved
  <2>5. ASSUME NEW i \in DOMAIN stack'[t]
        PROVE  /\ wst'[stack'[t][i]] \notin {"new", "held"}
               /\ wst'[stack'[t][i]] \in {"inline", "direct"} /\ batch'[stack'[t][i]] # None
                    => wst'[batch'[stack'[t][i]]] = "held"
    <3>1. CASE i \in DOMAIN stack[t] /\ stack'[t][i] = stack[t][i]
      BY <1>1, <1>3, <1>4, <2>1, <3>1 DEF StageOf
    <3>2. CASE wst'[stack'[t][i]] \in {"task", "manual", "serial"}
      BY <3>2
    <3> QED  BY <2>1, <3>1, <3>2 DEF UnmovedStack
  <2> QED  BY <2>2, <2>3, <2>4, <2>5 DEF StageOf
<1> QED  BY <1>6, <1>7 DEF PlaceInv, StageInv

\* The thread that acts leaves addWork for its call, or is in no such call.
LEMMA UnmovedThreads ==
    ASSUME TypeInv, NEW t \in Threads, NEW p \in PCs, pc' = [pc EXCEPT ![t] = p],
           \/ p \notin {"exec", "assign", "execwait"} /\ \A u \in Threads \ {t} : cur'[u] = cur[u]
           \/ p = pc[t] /\ cur' = cur
    PROVE  \A u \in Threads : Unmoved(u)
BY DEF Unmoved, TypeInv, TypeOK

LEMMA UnmovedStacks ==
    ASSUME TypeInv, stack' = stack
    PROVE  \A u \in Threads : UnmovedStack(u)
BY StackFacts DEF UnmovedStack

\* The stack of one thread now holds one work, or none.
LEMMA UnmovedReset ==
    ASSUME TypeInv, NEW t \in Threads, NEW w \in Works, NEW s,
           stack' = [stack EXCEPT ![t] = s],
           s = <<>> \/ (s = <<w>> /\ wst'[w] \in {"task", "manual", "serial"})
    PROVE  \A u \in Threads : UnmovedStack(u)
<1>1. stack'[t] = s /\ \A u \in Threads \ {t} : stack'[u] = stack[u]
  BY DEF TypeInv, TypeOK
<1>2. \A u \in Threads \ {t} : UnmovedStack(u)
  BY <1>1 DEF UnmovedStack
<1>3. CASE s = <<>>
  BY <1>1, <1>2, <1>3 DEF UnmovedStack
<1>4. CASE s = <<w>> /\ wst'[w] \in {"task", "manual", "serial"}
  BY <1>1, <1>2, <1>4 DEF UnmovedStack
<1> QED  BY <1>3, <1>4

LEMMA AssignTaskPlace ==
    ASSUME IInv, PlaceInv, NEW t \in Threads, AssignTask(t)
    PROVE  PlaceInv'
<1>1. TypeInv /\ KeptInv /\ HandInv
  BY DEF IInv
<1>2. pc[t] = "assign" /\ cur[t] \in Works
  BY <1>1 DEF AssignTask, TypeInv, CurOK
<1>3. task[to[cur[t]]] = None
  BY <1>1, <1>2 DEF HandInv, AssignInv, Assigning
<1>4. /\ wst' = wst /\ batch' = batch /\ stack' = stack
      /\ ReturnAfter(t, cur[t])
  BY <1>3 DEF AssignTask
<1>5. ASSUME NEW u \in Threads
      PROVE  Unmoved(u)
  <2>1. CASE u = t
    BY <1>1, <1>2, <1>4, <2>1 DEF ReturnAfter, Unmoved, TypeInv, TypeOK
  <2>2. CASE u # t
    BY <1>1, <1>4, <2>2 DEF ReturnAfter, Unmoved, TypeInv, TypeOK
  <2> QED  BY <2>1, <2>2
<1>6. \A u \in Threads : UnmovedStack(u)
  BY <1>1, <1>4, UnmovedStacks
<1> QED  BY <1>1, <1>4, <1>5, <1>6, PlaceFrame DEF UnmovedWork

\* A work that changes without a call of executeWork being concerned.
LEMMA UnmovedOne ==
    ASSUME TypeInv, NEW w \in Works, NEW s, wst' = [wst EXCEPT ![w] = s],
           s \notin {"new", "held", "inline", "direct", "first"},
           wst[w] \notin {"held", "done"}
    PROVE  /\ \A v \in Works : UnmovedWork(v)
           /\ wst'[w] = s
BY DEF UnmovedWork, TypeInv, TypeOK

LEMMA RemoveWorkPlace ==
    ASSUME IInv, PlaceInv, NEW t \in Threads, NEW w \in Works, RemoveWork(t, w)
    PROVE  PlaceInv'
<1>1. TypeInv /\ KeptInv
  BY DEF IInv
<1>2. PICK i \in DOMAIN workload : wst' = [wst EXCEPT ![workload[i]] = "destroyed"]
  BY DEF RemoveWork
<1>3. workload[i] \in Works /\ wst[workload[i]] = "pending"
  BY <1>1, WorkloadElement DEF KeptInv, PendingInv, TypeInv
<1>4. batch' = batch /\ UNCHANGED <<pc, cur, stack>>
  BY DEF RemoveWork, threadVars
<1>5. \A v \in Works : UnmovedWork(v)
  BY <1>1, <1>2, <1>3, UnmovedOne
<1>6. \A u \in Threads : Unmoved(u)
  BY <1>4 DEF Unmoved
<1>7. \A u \in Threads : UnmovedStack(u)
  BY <1>1, <1>4, UnmovedStacks
<1> QED  BY <1>1, <1>4, <1>5, <1>6, <1>7, PlaceFrame

\* The steps of a pool thread.
LEMMA DoWorkPlace ==
    ASSUME IInv, PlaceInv, NEW x \in Workers, DoWork(x)
    PROVE  PlaceInv'
<1>1. TypeInv /\ KeptInv /\ HandInv /\ x \in Threads
  BY DEF IInv, Threads
<1>2. TaskOf(x) /\ (task[x] # None => task[x] \in Works)
  BY <1>1 DEF HandInv, TaskInv, TypeInv, TypeOK
<1>3. CASE TakeTask(x)
  <2>1. /\ task[x] \in Works /\ wst[task[x]] = "assigned"
        /\ wst' = [wst EXCEPT ![task[x]] = "task"]
        /\ stack' = [stack EXCEPT ![x] = <<task[x]>>]
        /\ pc' = [pc EXCEPT ![x] = "run"] /\ cur' = cur /\ batch' = batch
    BY <1>2, <1>3 DEF TakeTask, HasTask, TaskOf
  <2>2. (\A v \in Works : UnmovedWork(v)) /\ wst'[task[x]] = "task"
    BY <1>1, <2>1, UnmovedOne
  <2>3. \A u \in Threads : UnmovedStack(u)
    BY <1>1, <2>1, <2>2, UnmovedReset
  <2>4. \A u \in Threads : Unmoved(u)
    BY <1>1, <2>1, UnmovedThreads DEF PCs
  <2> QED  BY <1>1, <2>1, <2>2, <2>3, <2>4, PlaceFrame
<1>4. CASE TaskDone(x)
  <2> DEFINE w == task[x]
  <2>1. /\ w \in Works /\ wst[w] = "task"
        /\ wst' = [wst EXCEPT ![w] = "reporting"]
        /\ pc' = [pc EXCEPT ![x] = "report"] /\ cur' = cur /\ batch' = batch
        /\ stack' = stack
    <3>1. PICK good \in Outcomes(w) :
            /\ Executing(x, w, "task")
            /\ wst' = [wst EXCEPT ![w] = "reporting"]
            /\ pc' = [pc EXCEPT ![x] = "report"] /\ cur' = cur /\ batch' = batch
            /\ stack' = stack
      BY <1>4 DEF TaskDone
    <3>2. w = Top(x) /\ wst[w] = "task" /\ stack[x] # <<>>
      BY <3>1 DEF Executing
    <3>3. w \in Works
      BY <1>1, <3>2, StackPop DEF TypeInv
    <3> QED  BY <3>1, <3>2, <3>3
  <2> HIDE DEF w
  <2>2. \A v \in Works : UnmovedWork(v)
    BY <1>1, <2>1, UnmovedOne
  <2>3. \A u \in Threads : UnmovedStack(u)
    BY <1>1, <2>1, UnmovedStacks
  <2>4. \A u \in Threads : Unmoved(u)
    BY <1>1, <2>1, UnmovedThreads DEF PCs
  <2> QED  BY <1>1, <2>1, <2>2, <2>3, <2>4, PlaceFrame
<1>5. CASE ReportIdle(x)
  <2>1. /\ task[x] \in Works /\ wst[task[x]] = "reporting"
        /\ wst' = [wst EXCEPT ![task[x]] = "done"]
        /\ stack' = [stack EXCEPT ![x] = <<>>]
        /\ pc' = [pc EXCEPT ![x] = "idle"] /\ cur' = cur /\ batch' = batch
    BY <1>2, <1>5 DEF ReportIdle, TaskOf
  <2>2. \A v \in Works : UnmovedWork(v)
    BY <1>1, <2>1, UnmovedOne
  <2>3. \A u \in Threads : UnmovedStack(u)
    BY <1>1, <2>1, UnmovedReset
  <2>4. \A u \in Threads : Unmoved(u)
    BY <1>1, <2>1, UnmovedThreads DEF PCs
  <2> QED  BY <1>1, <2>1, <2>2, <2>3, <2>4, PlaceFrame
<1>6. CASE ReportNext(x)
  <2>1. PICK i \in DOMAIN workload :
          /\ wst' = [wst EXCEPT ![task[x]] = "done", ![workload[i]] = "task"]
          /\ stack' = [stack EXCEPT ![x] = <<workload[i]>>]
    BY <1>6 DEF ReportNext
  <2>2. /\ task[x] \in Works /\ wst[task[x]] = "reporting"
        /\ workload[i] \in Works /\ wst[workload[i]] = "pending"
    BY <1>1, <1>2, <1>6, WorkloadElement
    DEF ReportNext, TaskOf, KeptInv, PendingInv, TypeInv
  <2>3. wst'[workload[i]] = "task" /\ \A v \in Works : UnmovedWork(v)
    BY <1>1, <2>1, <2>2 DEF UnmovedWork, TypeInv, TypeOK
  <2>4. \A u \in Threads : UnmovedStack(u)
    BY <1>1, <2>1, <2>2, <2>3, UnmovedReset
  <2>5. /\ \E p \in {"exited", "run"} : pc' = [pc EXCEPT ![x] = p]
        /\ cur' = cur /\ batch' = batch
    BY <1>6 DEF ReportNext
  <2>6. \A u \in Threads : Unmoved(u)
    BY <1>1, <2>5, UnmovedThreads DEF PCs
  <2> QED  BY <1>1, <2>3, <2>4, <2>5, <2>6, PlaceFrame
<1>7. CASE GoIdle(x) \/ Exit(x)
  <2>1. /\ \E p \in {"wait", "exited"} : pc' = [pc EXCEPT ![x] = p]
        /\ cur' = cur /\ batch' = batch /\ stack' = stack /\ wst' = wst
    BY <1>7 DEF GoIdle, Exit, workVars
  <2>2. \A u \in Threads : Unmoved(u)
    BY <1>1, <2>1, UnmovedThreads DEF PCs
  <2>3. \A u \in Threads : UnmovedStack(u)
    BY <1>1, <2>1, UnmovedStacks
  <2> QED  BY <1>1, <2>1, <2>2, <2>3, PlaceFrame DEF UnmovedWork
<1> QED  BY <1>3, <1>4, <1>5, <1>6, <1>7 DEF DoWork

\* What a thread does while it closes queues, and the other short steps.
LEMMA ClosePlace ==
    ASSUME IInv, PlaceInv, NEW t \in Threads,
           \/ \E type \in QueueTypes : AddQueue(t, type)
           \/ \E q \in QueueIds, all \in BOOLEAN :
                 CallEmptyQueue(t, q, all) \/ CallRemoveQueue(t, q, all)
           \/ Shutdown(t) \/ ShutdownQueue(t) \/ RemoveQueue(t)
           \/ EmptyQueueFinish(t) \/ EmptyQueueDrop(t)
           \/ (\E x \in Workers : EraseThread(t, x)) \/ EraseDone(t)
           \/ ExecuteWorkReturn(t)
    PROVE  PlaceInv'
<1>1. TypeInv /\ KeptInv
  BY DEF IInv
<1>2. batch' = batch /\ stack' = stack
  BY DEF AddQueue, CallEmptyQueue, CallRemoveQueue, Shutdown, ShutdownQueue,
     RemoveQueue, EmptyQueueFinish, EmptyQueueDrop, EraseThread, EraseDone,
     ExecuteWorkReturn, workVars, threadVars
<1>3. ASSUME NEW u \in Threads
      PROVE  Unmoved(u)
  <2>1. CASE pc' = pc /\ cur' = cur
    BY <2>1 DEF Unmoved
  <2>2. CASE /\ \E p \in PCs \ {"exec", "assign", "execwait"} : pc' = [pc EXCEPT ![t] = p]
             /\ \A v \in Threads \ {t} : cur'[v] = cur[v]
    BY <1>1, <2>2, UnmovedThreads
  <2>3. CASE \/ \E type \in QueueTypes : AddQueue(t, type)
             \/ \E x \in Workers : EraseThread(t, x)
    BY <2>1, <2>3 DEF AddQueue, EraseThread, threadVars
  <2>4. CASE \/ \E q \in QueueIds, all \in BOOLEAN :
                   CallEmptyQueue(t, q, all) \/ CallRemoveQueue(t, q, all)
             \/ Shutdown(t) \/ EraseDone(t)
    BY <2>2, <2>4 DEF CallEmptyQueue, CallRemoveQueue, Shutdown, EraseDone, PCs
  <2>5. CASE ShutdownQueue(t) \/ RemoveQueue(t)
    <3>1. cur' = cur
      BY <2>5 DEF ShutdownQueue, RemoveQueue
    <3>2. \E p \in {"empty", "erase", "rewait", "shutdown", "run"} :
             pc' = [pc EXCEPT ![t] = p]
      BY <2>5 DEF ShutdownQueue, RemoveQueue
    <3> QED  BY <2>2, <3>1, <3>2 DEF PCs
  <2>6. CASE EmptyQueueFinish(t) \/ EmptyQueueDrop(t)
    <3>1. cur' = cur
      BY <2>6 DEF EmptyQueueFinish, EmptyQueueDrop
    <3>2. pc' = pc \/ AfterEmptyQueue(t)
      BY <2>6 DEF EmptyQueueFinish, EmptyQueueDrop
    <3>3. AfterEmptyQueue(t) => \E p \in {"remove", "run"} : pc' = [pc EXCEPT ![t] = p]
      BY DEF AfterEmptyQueue
    <3> QED  BY <2>1, <2>2, <3>1, <3>2, <3>3 DEF PCs
  <2>7. CASE ExecuteWorkReturn(t)
    <3>1. pc' = [pc EXCEPT ![t] = "run"] /\ cur' = [cur EXCEPT ![t] = None]
      BY <2>7 DEF ExecuteWorkReturn
    <3>2. \A v \in Threads \ {t} : cur'[v] = cur[v]
      BY <1>1, <3>1 DEF TypeInv, TypeOK
    <3> QED  BY <2>2, <3>1, <3>2 DEF PCs
  <2> QED  BY <2>3, <2>4, <2>5, <2>6, <2>7
<1>4. \A u \in Threads : UnmovedStack(u)
  BY <1>1, <1>2, UnmovedStacks
<1>5. ASSUME NEW w \in Works
      PROVE  UnmovedWork(w)
  <2>1. CASE EmptyQueueDrop(t)
    <3>1. wst' = [v \in Works |-> IF v \in ToSet(workload) /\ wq[v] = op[t].q
                                  THEN "destroyed" ELSE wst[v]]
      BY <2>1 DEF EmptyQueueDrop
    <3>2. w \in ToSet(workload) => wst[w] = "pending"
      BY <1>1 DEF ToSet, KeptInv, PendingInv
    <3> QED  BY <3>1, <3>2 DEF UnmovedWork
  <2>2. CASE wst' = wst
    BY <2>2 DEF UnmovedWork
  <2>3. EmptyQueueDrop(t) \/ wst' = wst
    BY DEF AddQueue, CallEmptyQueue, CallRemoveQueue, Shutdown, ShutdownQueue,
     RemoveQueue, EmptyQueueFinish, EraseThread, EraseDone, ExecuteWorkReturn,
     workVars
  <2> QED  BY <2>1, <2>2, <2>3
<1> QED  BY <1>1, <1>2, <1>3, <1>4, <1>5, PlaceFrame

\* A work is pushed on, or replaces the top of, the stack of its thread.
LEMMA UnmovedPush ==
    ASSUME TypeInv, NEW t \in Threads, NEW w \in Works, Push(t, w),
           wst'[w] \in {"task", "manual", "serial"}
    PROVE  \A u \in Threads : UnmovedStack(u)
<1>1. /\ \A u \in Threads \ {t} : stack'[u] = stack[u]
      /\ DOMAIN stack'[t] = 1..Len(stack[t]) + 1
      /\ \A i \in DOMAIN stack[t] : stack'[t][i] = stack[t][i]
      /\ stack'[t][Len(stack[t]) + 1] = w
  BY PushStack
<1>2. Len(stack[t]) \in Nat /\ DOMAIN stack[t] = 1..Len(stack[t])
  BY StackFacts
<1>3. \A i \in DOMAIN stack'[t] : i \in DOMAIN stack[t] \/ i = Len(stack[t]) + 1
  BY <1>1, <1>2
<1>4. UnmovedStack(t)
  BY <1>1, <1>3 DEF UnmovedStack
<1> QED  BY <1>1, <1>4 DEF UnmovedStack

LEMMA UnmovedPop ==
    ASSUME TypeInv, NEW t \in Threads, stack[t] # <<>>, Pop(t)
    PROVE  \A u \in Threads : UnmovedStack(u)
<1>1. /\ \A u \in Threads \ {t} : stack'[u] = stack[u]
      /\ DOMAIN stack'[t] = 1..Len(stack[t]) - 1
      /\ \A i \in 1..Len(stack[t]) - 1 : stack'[t][i] = stack[t][i]
  BY PopStack
<1>2. Len(stack[t]) \in Nat /\ DOMAIN stack[t] = 1..Len(stack[t])
  BY StackFacts
<1>3. 1..Len(stack[t]) - 1 \subseteq DOMAIN stack[t]
  BY <1>2
<1>4. UnmovedStack(t)
  BY <1>1, <1>3 DEF UnmovedStack
<1> QED  BY <1>1, <1>4 DEF UnmovedStack

LEMMA UnmovedSwap ==
    ASSUME TypeInv, NEW t \in Threads, NEW w \in Works, stack[t] # <<>>,
           stack' = [stack EXCEPT ![t] = Append(Front(@), w)],
           wst'[w] \in {"task", "manual", "serial"}
    PROVE  \A u \in Threads : UnmovedStack(u)
<1>1. /\ stack[t] \in Seq(Works) /\ Len(stack[t]) \in Nat
      /\ DOMAIN stack[t] = 1..Len(stack[t])
  BY StackFacts
<1> DEFINE f == Front(stack[t])
           a == Append(f, w)
<1>2. /\ f \in Seq(Works)
      /\ Len(f) = Len(stack[t]) - 1
      /\ \A j \in 1..Len(stack[t])-1 : f[j] = stack[t][j]
  BY <1>1, FrontProperties
<1>3. stack'[t] = a /\ \A u \in Threads \ {t} : stack'[u] = stack[u]
  BY DEF TypeInv, TypeOK
<1> HIDE DEF f
<1>4. /\ a \in Seq(Works)
      /\ Len(a) = Len(f) + 1
      /\ \A i \in 1..Len(f) : a[i] = f[i]
      /\ a[Len(f) + 1] = w
  BY <1>2, AppendProperties
<1>5. DOMAIN a = 1..Len(f) + 1
  BY <1>4, LenProperties
<1> HIDE DEF a
<1>6. Len(f) \in Nat
  BY <1>2, LenProperties
<1>7. \A i \in DOMAIN a : i \in 1..Len(f) \/ i = Len(f) + 1
  BY <1>5, <1>6
<1>8. 1..Len(f) = 1..Len(stack[t]) - 1 /\ 1..Len(f) \subseteq DOMAIN stack[t]
  BY <1>1, <1>2
<1>9. UnmovedStack(t)
  BY <1>2, <1>3, <1>4, <1>7, <1>8 DEF UnmovedStack
<1> QED  BY <1>3, <1>9 DEF UnmovedStack

LEMMA ManualPlace ==
    ASSUME IInv, PlaceInv, NEW t \in Threads,
           (\E q \in QueueIds : ExecuteQueue(t, q)) \/ ManualDone(t)
    PROVE  PlaceInv'
<1>1. TypeInv /\ KeptInv
  BY DEF IInv
<1>2. CASE \E q \in QueueIds : ExecuteQueue(t, q)
  <2>1. PICK i \in DOMAIN workload :
          /\ wst' = [wst EXCEPT ![workload[i]] = "manual"]
          /\ Push(t, workload[i])
          /\ pc' = pc /\ cur' = cur /\ batch' = batch
    BY <1>2 DEF ExecuteQueue
  <2>2. workload[i] \in Works /\ wst[workload[i]] = "pending"
    BY <1>1, WorkloadElement DEF KeptInv, PendingInv, TypeInv
  <2>3. wst'[workload[i]] = "manual" /\ \A v \in Works : UnmovedWork(v)
    BY <1>1, <2>1, <2>2, UnmovedOne
  <2>4. \A u \in Threads : UnmovedStack(u)
    BY <1>1, <2>1, <2>2, <2>3, UnmovedPush
  <2>5. \A u \in Threads : Unmoved(u)
    BY <2>1 DEF Unmoved
  <2> QED  BY <1>1, <2>1, <2>3, <2>4, <2>5, PlaceFrame
<1>3. CASE ManualDone(t)
  <2>1. PICK w \in Works :
          /\ Executing(t, w, "manual")
          /\ pc' = pc /\ cur' = cur /\ batch' = batch
          /\ \/ \E i \in DOMAIN workload :
                  /\ wst' = [wst EXCEPT ![w] = "done", ![workload[i]] = "manual"]
                  /\ stack' = [stack EXCEPT ![t] = Append(Front(@), workload[i])]
             \/ wst' = [wst EXCEPT ![w] = "done"] /\ Pop(t)
    BY <1>3 DEF ManualDone
  <2>2. stack[t] # <<>> /\ wst[w] = "manual"
    BY <2>1 DEF Executing
  <2>3. \A u \in Threads : Unmoved(u)
    BY <2>1 DEF Unmoved
  <2>4. ASSUME NEW i \in DOMAIN workload,
               wst' = [wst EXCEPT ![w] = "done", ![workload[i]] = "manual"],
               stack' = [stack EXCEPT ![t] = Append(Front(@), workload[i])]
        PROVE  PlaceInv'
    <3>1. workload[i] \in Works /\ wst[workload[i]] = "pending"
      BY <1>1, WorkloadElement DEF KeptInv, PendingInv, TypeInv
    <3>2. wst'[workload[i]] = "manual" /\ \A v \in Works : UnmovedWork(v)
      BY <1>1, <2>2, <2>4, <3>1 DEF UnmovedWork, TypeInv, TypeOK
    <3>3. \A u \in Threads : UnmovedStack(u)
      BY <1>1, <2>2, <2>4, <3>1, <3>2, UnmovedSwap
    <3> QED  BY <1>1, <2>1, <2>3, <3>2, <3>3, PlaceFrame
  <2>5. ASSUME wst' = [wst EXCEPT ![w] = "done"], Pop(t)
        PROVE  PlaceInv'
    <3>1. \A v \in Works : UnmovedWork(v)
      BY <1>1, <2>2, <2>5, UnmovedOne
    <3>2. \A u \in Threads : UnmovedStack(u)
      BY <1>1, <2>2, <2>5, UnmovedPop
    <3> QED  BY <1>1, <2>1, <2>3, <3>1, <3>2, PlaceFrame
  <2> QED  BY <2>1, <2>4, <2>5
<1> QED  BY <1>2, <1>3

LEMMA SerialDonePlace ==
    ASSUME IInv, PlaceInv, NEW t \in Threads, SerialDone(t)
    PROVE  PlaceInv'
<1>1. TypeInv /\ KeptInv
  BY DEF IInv
<1>2. PICK w \in Works, good \in BOOLEAN :
        LET b == IF batch[w] = None THEN w ELSE batch[w]
            more == good /\ exec[b].todo # <<>>
        IN  /\ Executing(t, w, "serial")
            /\ wst' = IF more
                      THEN [wst EXCEPT ![w] = "done",
                                       ![Head(exec[b].todo)] = "serial"]
                      ELSE [wst EXCEPT ![w] = "done"]
            /\ stack' = [stack EXCEPT ![t] = IF more
                            THEN Append(Front(@), Head(exec[b].todo))
                            ELSE Front(@)]
            /\ pc' = pc /\ cur' = cur /\ batch' = batch
  BY OutcomesType DEF SerialDone
<1> DEFINE b == IF batch[w] = None THEN w ELSE batch[w]
           more == good /\ exec[b].todo # <<>>
           h == Head(exec[b].todo)
<1>3. stack[t] # <<>> /\ wst[w] = "serial"
  BY <1>2 DEF Executing
<1>4. \A u \in Threads : Unmoved(u)
  BY <1>2 DEF Unmoved
<1>5. b \in Works
  BY <1>1 DEF KeptInv, LeaderInv, Leader
<1>6. CASE more
  <2>1. h \in Works /\ wst[h] = "held" /\ batch[h] = b
    <3>1. exec[b].todo \in Seq(Works) /\ exec[b].todo # <<>>
      BY <1>1, <1>5, <1>6, TodoElement DEF TypeInv
    <3>2. 1 \in DOMAIN exec[b].todo /\ h = exec[b].todo[1] /\ h \in Works
      <4> HIDE DEF b
      <4> QED  BY <3>1, HeadTailProperties, EmptySeq, LenProperties, ElementOfSeq
    <3> QED  BY <1>1, <1>5, <3>2 DEF KeptInv, TodoInv
  <2>2. /\ wst' = [wst EXCEPT ![w] = "done", ![h] = "serial"]
        /\ stack' = [stack EXCEPT ![t] = Append(Front(@), h)]
    BY <1>2, <1>6
  <2>3. b # None
    BY <1>5, ConstantAssumption
  <2> HIDE DEF h, b
  <2>4. wst'[h] = "serial" /\ \A v \in Works : UnmovedWork(v)
    BY <1>1, <1>3, <2>1, <2>2, <2>3 DEF UnmovedWork, TypeInv, TypeOK
  <2>5. \A u \in Threads : UnmovedStack(u)
    BY <1>1, <1>3, <2>1, <2>2, <2>4, UnmovedSwap
  <2> QED  BY <1>1, <1>2, <1>4, <2>4, <2>5, PlaceFrame
<1>7. CASE ~more
  <2>1. wst' = [wst EXCEPT ![w] = "done"] /\ Pop(t)
    BY <1>2, <1>7 DEF Pop
  <2>2. \A v \in Works : UnmovedWork(v)
    BY <1>1, <1>3, <2>1, UnmovedOne
  <2>3. \A u \in Threads : UnmovedStack(u)
    BY <1>1, <1>3, <2>1, UnmovedPop
  <2> QED  BY <1>1, <1>2, <1>4, <2>2, <2>3, PlaceFrame
<1> QED  BY <1>6, <1>7

\* What is staged, and what is not: the first work of a call is in no stack
\* before it runs, and it is none of the works the pool deals with.
LEMMA PlaceFacts ==
    ASSUME TypeInv, KeptInv, PlaceInv
    PROVE  /\ \A t \in Threads : \A i \in DOMAIN stack[t] :
                 stack[t][i] \in Works /\ wst[stack[t][i]] \notin {"new", "held"}
           /\ \A t \in Threads : pc[t] \in {"exec", "assign", "execwait"} => cur[t] \in Works
           /\ \A b \in Works, t \in Threads, i \in Nat :
                 At(t, i, b) => batch[b] = None /\ wst[b] \in {"held", "first", "done"}
<1>1. \A t \in Threads : \A i \in DOMAIN stack[t] :
          stack[t][i] \in Works /\ wst[stack[t][i]] \notin {"new", "held"}
  BY StackFacts DEF PlaceInv, StageInv, StageOf
<1>2. \A t \in Threads : pc[t] \in {"exec", "assign", "execwait"} => cur[t] \in Works
  BY DEF TypeInv, CurOK
<1>3. ASSUME NEW b \in Works, NEW t \in Threads, NEW i \in Nat, At(t, i, b)
      PROVE  batch[b] = None /\ wst[b] \in {"held", "first", "done"}
  <2>1. StageOf(t) /\ b # None
    BY ConstantAssumption DEF PlaceInv, StageInv
  <2>2. /\ \A v \in Works : wst[v] = "first" => batch[v] = None
        /\ \A v \in Works : batch[v] # None => batch[batch[v]] = None
        /\ \A u \in Threads : pc[u] \in {"exec", "execwait"} => batch[cur[u]] = None
    BY DEF KeptInv, LeaderInv, Leader
  <2>3. CASE InPlace(t, b)
    BY <1>2, <2>1, <2>2, <2>3 DEF InPlace, StageOf
  <2>4. CASE i \in DOMAIN stack[t] /\ Below(stack[t][i], b)
    BY <1>1, <2>1, <2>2, <2>4 DEF Below, StageOf
  <2> QED  BY <1>3, <2>3, <2>4 DEF At
<1> QED  BY <1>1, <1>2, <1>3

LEMMA SubmitPlace ==
    ASSUME IInv, PlaceInv, NEW t \in Threads, NEW w \in Works, NEW q \in Nat,
           NEW firstinline, NEW nodup, NEW force,
           Submit(t, w, q, firstinline, nodup, force), batch' = batch,
           \/ pc[t] = "run" /\ wst[w] = "new"
           \/ pc[t] = "exec" /\ wst[w] = "held" /\ batch[w] = cur[t]
    PROVE  PlaceInv'
<1>1. TypeInv /\ KeptInv
  BY DEF IInv
<1>2. batch[w] = None \/ (pc[t] = "exec" /\ batch[w] = cur[t] /\ InPlace(t, batch[w]))
  BY <1>1 DEF KeptInv, LeaderInv, InPlace
<1>3. \A u \in Threads : \A i \in DOMAIN stack[u] : stack[u][i] \in Works /\ stack[u][i] # w
  BY <1>1, PlaceFacts
<1>4. \A b \in Works : \A u \in Threads, i \in Nat : At(u, i, b) => b # w
  <2>1. wst[w] = "new" \/ batch[w] \in Works
    BY <1>1 DEF TypeInv, CurOK
  <2>2. batch[w] # None \/ wst[w] = "new"
    BY <2>1, ConstantAssumption
  <2> QED  BY <1>1, <2>2, PlaceFacts
<1>5. \A v \in Works : v # w => wst'[v] = wst[v]
  BY <1>1 DEF Submit, SubmitDirect, SubmitRejected, SubmitIgnored,
     SubmitToFreeThread, SubmitInline, SubmitQueued, TypeInv, TypeOK
<1>6. \A b \in Works : b # None
  BY ConstantAssumption
<1>7. \A v \in Works : batch[v] = None \/ batch[v] \in Works
  BY <1>1 DEF TypeInv, TypeOK
<1>8. \A u \in Threads \ {t} : pc'[u] = pc[u] /\ cur'[u] = cur[u]
  BY <1>1 DEF Submit, SubmitDirect, SubmitRejected, SubmitIgnored,
     SubmitToFreeThread, SubmitInline, SubmitQueued, ReturnAfter, TypeInv, TypeOK
<1>9. /\ \A u \in Threads : pc[u] = "exec" => cur[u] # w
      /\ \A u \in Threads : pc[u] = "execwait" => cur[u] # w
      /\ \A v \in Works : \A u \in Threads :
            pc[u] = "assign" /\ cur[u] = v /\ batch[v] # None => batch[v] # w
      /\ \A u \in Threads : \A i \in DOMAIN stack[u] :
            wst[stack[u][i]] \in {"inline", "direct"} => batch[stack[u][i]] # w
  <2>1. \A u \in Threads : InPlace(u, w) => At(u, 0, w)
    BY DEF At
  <2>2. \A u \in Threads : ~InPlace(u, w)
    BY <1>4, <2>1
  <2>3. \A u \in Threads : \A i \in DOMAIN stack[u] : ~Below(stack[u][i], w)
    <3>1. \A u \in Threads : \A i \in DOMAIN stack[u] : i \in Nat
      BY <1>1, StackFacts
    <3>2. \A u \in Threads : \A i \in DOMAIN stack[u] :
             Below(stack[u][i], w) => At(u, i, w)
      BY DEF At
    <3> QED  BY <1>4, <3>1, <3>2
  <2> QED  BY <2>2, <2>3 DEF InPlace, Below
<1>10. CASE /\ stack' = stack
            /\ \/ ReturnAfter(t, w)
               \/ /\ pc' = [pc EXCEPT ![t] = "assign"]
                  /\ cur' = [cur EXCEPT ![t] = w]
  <2>1. \/ pc'[t] = "run"
        \/ pc'[t] = "exec" /\ batch[w] # None /\ cur'[t] = batch[w]
        \/ pc'[t] = "assign" /\ cur'[t] = w
    BY <1>1, <1>10 DEF ReturnAfter, TypeInv, TypeOK
  <2>2. ASSUME NEW b \in Works, NEW u \in Threads, NEW i \in Nat, At(u, i, b)'
        PROVE  At(u, i, b)
    <3>1. CASE i = 0 /\ InPlace(u, b)'
      <4>1. InPlace(u, b)
        BY <1>2, <1>6, <1>8, <2>1, <3>1 DEF InPlace
      <4> QED  BY <3>1, <4>1 DEF At
    <3>2. CASE i \in DOMAIN stack[u] /\ Below(stack[u][i], b)'
      <4>1. Below(stack[u][i], b)
        BY <1>3, <1>5, <1>10, <3>2 DEF Below
      <4> QED  BY <3>2, <4>1 DEF At
    <3> QED  BY <1>10, <2>2, <3>1, <3>2 DEF At
  <2>3. OnceInv'
    BY <2>2, OnceShrinks DEF PlaceInv
  <2>4. ASSUME NEW u \in Threads
        PROVE  StageOf(u)'
    <3>1. StageOf(u)
      BY DEF PlaceInv, StageInv
    <3>2. \A i \in DOMAIN stack[u] :
            /\ wst'[stack[u][i]] \notin {"new", "held"}
            /\ wst'[stack[u][i]] \in {"inline", "direct"} /\ batch[stack[u][i]] # None
                 => wst'[batch[stack[u][i]]] = "held"
      BY <1>3, <1>5, <1>7, <1>9, <3>1 DEF StageOf
    <3>3. CASE u # t
      <4>1. pc[u] \in {"exec", "assign", "execwait"} => cur[u] \in Works
        BY <1>1, PlaceFacts
      <4> QED  BY <1>5, <1>7, <1>8, <1>9, <1>10, <3>1, <3>2, <3>3, <4>1 DEF StageOf
    <3>4. CASE u = t
      <4>1. batch[w] # None => batch[w] \in Works /\ wst'[batch[w]] = "held"
        <5>1. batch[w] # None => pc[t] = "exec" /\ batch[w] = cur[t]
          BY <1>2
        <5> QED  BY <1>5, <1>7, <1>9, <3>1, <3>4, <5>1 DEF StageOf
      <4> QED  BY <1>10, <2>1, <3>2, <3>4, <4>1 DEF StageOf
    <3> QED  BY <3>3, <3>4
  <2> QED  BY <2>3, <2>4 DEF PlaceInv, StageInv
<1>11. CASE /\ Push(t, w)
            /\ pc' = [pc EXCEPT ![t] = "run"]
            /\ cur' = cur
            /\ wst'[w] \in {"inline", "direct"}
  <2> DEFINE n == Len(stack[t]) + 1
  <2>1. /\ \A u \in Threads \ {t} : stack'[u] = stack[u]
        /\ DOMAIN stack'[t] = 1..n
        /\ \A i \in DOMAIN stack[t] : stack'[t][i] = stack[t][i]
        /\ stack'[t][n] = w
    BY <1>1, <1>11, PushStack
  <2>2. n \in Nat /\ n # 0 /\ \A i \in 1..n : i \in DOMAIN stack[t] \/ i = n
    BY <1>1, StackFacts
  <2> HIDE DEF n
  <2>3. pc'[t] = "run"
    BY <1>1, <1>11 DEF TypeInv, TypeOK
  <2>4. ASSUME NEW b \in Works, NEW u \in Threads, NEW i \in Nat, At(u, i, b)'
        PROVE  /\ ~(u = t /\ i = 0)
               /\ At(u, i, b) \/ (u = t /\ i = n /\ At(t, 0, b))
    <3>1. CASE i = 0 /\ InPlace(u, b)'
      <4>1. u # t
        BY <2>3, <3>1 DEF InPlace
      <4>2. InPlace(u, b)
        BY <1>8, <3>1, <4>1 DEF InPlace
      <4> QED  BY <3>1, <4>1, <4>2 DEF At
    <3>2. CASE i \in DOMAIN stack'[u] /\ Below(stack[u][i], b)'
      <4>1. CASE i \in DOMAIN stack[u] /\ stack'[u][i] = stack[u][i]
        <5>1. Below(stack[u][i], b)
          BY <1>3, <1>5, <3>2, <4>1 DEF Below
        <5>2. i # 0
          BY <1>1, <4>1, StackFacts
        <5> QED  BY <4>1, <5>1, <5>2 DEF At
      <4>2. CASE u = t /\ i = n
        <5>1. batch[w] = b
          BY <1>11, <2>1, <3>2, <4>2 DEF Below
        <5>2. At(t, 0, b)
          BY <1>2, <1>6, <5>1 DEF At
        <5> QED  BY <2>2, <4>2, <5>2
      <4> QED  BY <2>1, <2>2, <3>2, <4>1, <4>2
    <3> QED  BY <2>4, <3>1, <3>2 DEF At
  <2>5. OnceInv'
    <3>1. 0 \in Nat
      OBVIOUS
    <3> QED  BY <2>2, <2>4, <3>1, OnceMoves DEF PlaceInv
  <2>6. ASSUME NEW u \in Threads
        PROVE  StageOf(u)'
    <3>1. StageOf(u)
      BY DEF PlaceInv, StageInv
    <3>2. \A i \in DOMAIN stack[u] :
            /\ wst'[stack[u][i]] \notin {"new", "held"}
            /\ wst'[stack[u][i]] \in {"inline", "direct"} /\ batch[stack[u][i]] # None
                 => wst'[batch[stack[u][i]]] = "held"
      BY <1>3, <1>5, <1>7, <1>9, <3>1 DEF StageOf
    <3>3. CASE u # t
      <4>1. pc[u] \in {"exec", "assign", "execwait"} => cur[u] \in Works
        BY <1>1, PlaceFacts
      <4> QED  BY <1>5, <1>7, <1>8, <1>9, <2>1, <3>1, <3>2, <3>3, <4>1 DEF StageOf
    <3>4. CASE u = t
      <4>1. batch[w] # None => batch[w] \in Works /\ wst'[batch[w]] = "held"
        <5>1. batch[w] # None => pc[t] = "exec" /\ batch[w] = cur[t]
          BY <1>2
        <5> QED  BY <1>5, <1>7, <1>9, <3>1, <3>4, <5>1 DEF StageOf
      <4>2. \A i \in 1..n :
            /\ wst'[stack'[t][i]] \notin {"new", "held"}
            /\ wst'[stack'[t][i]] \in {"inline", "direct"} /\ batch[stack'[t][i]] # None
                 => wst'[batch[stack'[t][i]]] = "held"
        <5>1. \A i \in DOMAIN stack[t] :
              /\ wst'[stack'[t][i]] \notin {"new", "held"}
              /\ wst'[stack'[t][i]] \in {"inline", "direct"} /\ batch[stack'[t][i]] # None
                   => wst'[batch[stack'[t][i]]] = "held"
          BY <2>1, <3>2, <3>4
        <5> QED  BY <1>11, <2>1, <2>2, <4>1, <5>1
      <4> QED  BY <2>1, <2>3, <3>4, <4>2 DEF StageOf
    <3> QED  BY <3>3, <3>4
  <2> QED  BY <2>5, <2>6 DEF PlaceInv, StageInv
<1>12. \/ /\ stack' = stack
          /\ \/ ReturnAfter(t, w)
             \/ /\ pc' = [pc EXCEPT ![t] = "assign"]
                /\ cur' = [cur EXCEPT ![t] = w]
       \/ /\ Push(t, w)
          /\ pc' = [pc EXCEPT ![t] = "run"]
          /\ cur' = cur
          /\ wst'[w] \in {"inline", "direct"}
  <2>1. CASE SubmitRejected(t, w, q) \/ SubmitIgnored(t, w, q) \/ SubmitQueued(t, w, q, firstinline, force)
    BY <2>1 DEF SubmitRejected, SubmitIgnored, SubmitQueued
  <2>2. CASE SubmitToFreeThread(t, w, q)
    BY <2>2 DEF SubmitToFreeThread
  <2>3. CASE SubmitDirect(t, w) \/ SubmitInline(t, w, q)
    BY <1>1, <2>3 DEF SubmitDirect, SubmitInline, TypeInv, TypeOK
  <2> QED  BY <2>1, <2>2, <2>3 DEF Submit
<1> QED  BY <1>10, <1>11, <1>12

LEMMA AddPlace ==
    ASSUME IInv, PlaceInv, NEW t \in Threads,
           \/ \E w \in Works, q \in QueueIds, firstinline, nodup \in BOOLEAN :
                 \E force \in ForceChoices : AddWork(t, w, q, firstinline, nodup, force)
           \/ ExecuteWorkAdd(t)
    PROVE  PlaceInv'
<1>1. CASE ExecuteWorkAdd(t)
  <2> DEFINE b == cur[t]
             s == exec[b].todo
             w == Head(s)
  <2>1. /\ TypeInv /\ KeptInv /\ b \in Works /\ wq[b] \in Nat
        /\ s \in Seq(Works) /\ s # <<>>
    BY <1>1, TodoElement DEF IInv, ExecuteWorkAdd, TypeInv, TypeOK, CurOK
  <2>2. /\ Submit(t, w, wq[b], exec[b].firstinline, FALSE, FALSE)
        /\ pc[t] = "exec" /\ batch' = batch
    BY <1>1 DEF ExecuteWorkAdd
  <2>3. w \in Works /\ wst[w] = "held" /\ batch[w] = b
    <3>1. 1 \in DOMAIN s /\ w = s[1] /\ w \in Works
      <4> HIDE DEF b
      <4> QED  BY <2>1, HeadTailProperties, EmptySeq, LenProperties, ElementOfSeq
    <3> QED  BY <2>1, <3>1 DEF KeptInv, TodoInv
  <2> HIDE DEF w
  <2> QED  BY <2>1, <2>2, <2>3, SubmitPlace
<1>2. ASSUME NEW w \in Works, NEW q \in QueueIds, NEW firstinline, NEW nodup, NEW force,
             AddWork(t, w, q, firstinline, nodup, force)
      PROVE  PlaceInv'
  <2>1. /\ pc[t] = "run" /\ wst[w] = "new" /\ batch' = batch
        /\ Submit(t, w, q, firstinline, nodup, force)
    BY <1>2 DEF AddWork
  <2>2. q \in Nat
    BY ConstantAssumption DEF QueueIds
  <2> QED  BY <2>1, <2>2, SubmitPlace
<1> QED  BY <1>1, <1>2

\* The work on top of the stack is done, and its thread goes back to the call.
LEMMA PopPlace ==
    ASSUME IInv, PlaceInv, NEW t \in Threads, NEW w \in Works,
           pc[t] = "run", stack[t] # <<>>, w = Top(t),
           wst[w] \in {"inline", "direct", "first"},
           wst' = [wst EXCEPT ![w] = "done"], Pop(t), batch' = batch,
           \A u \in Threads \ {t} : pc'[u] = pc[u] /\ cur'[u] = cur[u],
           \/ pc'[t] = "run"
           \/ /\ pc'[t] = "exec" /\ wst[w] \in {"inline", "direct"}
              /\ batch[w] # None /\ cur'[t] = batch[w]
           \/ pc'[t] = "execwait" /\ wst[w] = "first" /\ cur'[t] = w
    PROVE  PlaceInv'
<1> DEFINE n == Len(stack[t])
<1>1. TypeInv /\ KeptInv
  BY DEF IInv
<1>2. /\ \A u \in Threads \ {t} : stack'[u] = stack[u]
      /\ DOMAIN stack'[t] = 1..n - 1
      /\ \A i \in 1..n - 1 : stack'[t][i] = stack[t][i]
      /\ n \in DOMAIN stack[t] /\ stack[t][n] = w
  BY <1>1, PopStack
<1>3. n \in Nat /\ n # 0 /\ 1..n-1 \subseteq DOMAIN stack[t] /\ n \notin 1..n-1
  BY <1>1, <1>2, StackFacts
<1> HIDE DEF n
<1>4. /\ wst'[w] = "done" /\ \A v \in Works : v # w => wst'[v] = wst[v]
      /\ \A v \in Works : batch[v] = None \/ batch[v] \in Works
  BY <1>1 DEF TypeInv, TypeOK
<1>5. /\ \A u \in Threads : \A i \in DOMAIN stack[u] : stack[u][i] \in Works
      /\ \A u \in Threads : pc[u] \in {"exec", "assign", "execwait"} => cur[u] \in Works
  BY <1>1, PlaceFacts
<1>6. \A u \in Threads : \A i \in DOMAIN stack'[u] :
         i \in DOMAIN stack[u] /\ stack'[u][i] = stack[u][i]
  BY <1>2, <1>3
<1>7. \A b \in Works : b # None
  BY ConstantAssumption
<1>8. ASSUME NEW b \in Works, NEW u \in Threads, NEW i \in Nat, At(u, i, b)'
      PROVE  /\ ~(u = t /\ i = n)
             /\ At(u, i, b) \/ (u = t /\ i = 0 /\ At(t, n, b))
  <2>1. CASE i = 0 /\ InPlace(u, b)' /\ u # t
    <3>1. InPlace(u, b)
      BY <2>1 DEF InPlace
    <3> QED  BY <2>1, <3>1 DEF At
  <2>2. CASE i = 0 /\ InPlace(u, b)' /\ u = t
    <3>1. Below(w, b)
      BY <2>2 DEF InPlace, Below
    <3> QED  BY <1>2, <1>3, <2>2, <3>1 DEF At
  <2>3. CASE i \in DOMAIN stack'[u] /\ Below(stack[u][i], b)'
    <3>1. Below(stack[u][i], b)
      BY <1>4, <1>5, <1>6, <2>3 DEF Below
    <3> QED  BY <1>2, <1>3, <1>6, <2>3, <3>1 DEF At
  <2> QED  BY <1>8, <2>1, <2>2, <2>3 DEF At
<1>9. OnceInv'
  <2>1. 0 \in Nat
    OBVIOUS
  <2> QED  BY <1>3, <1>8, <2>1, OnceMoves DEF PlaceInv
<1>10. ASSUME NEW u \in Threads
       PROVE  StageOf(u)'
  <2>1. StageOf(u) /\ StageOf(t)
    BY DEF PlaceInv, StageInv
  <2>2. \A i \in DOMAIN stack'[u] :
            /\ wst'[stack'[u][i]] \notin {"new", "held"}
            /\ wst'[stack'[u][i]] \in {"inline", "direct"} /\ batch[stack'[u][i]] # None
                 => wst'[batch[stack'[u][i]]] = "held"
    BY <1>4, <1>5, <1>6, <2>1 DEF StageOf
  <2>3. CASE u # t
    BY <1>4, <1>5, <2>1, <2>2, <2>3 DEF StageOf
  <2>4. CASE u = t
    <3>1. wst[w] \in {"inline", "direct"} /\ batch[w] # None => wst'[batch[w]] = "held"
      BY <1>2, <1>4, <2>1 DEF StageOf
    <3> QED  BY <1>4, <2>2, <2>4, <3>1 DEF StageOf
  <2> QED  BY <2>3, <2>4
<1> QED  BY <1>9, <1>10 DEF PlaceInv, StageInv

LEMMA DonePlace ==
    ASSUME IInv, PlaceInv, NEW t \in Threads,
           InlineDone(t) \/ DirectDone(t) \/ FirstDone(t)
    PROVE  PlaceInv'
<1>1. TypeInv
  BY DEF IInv
<1>2. CASE InlineDone(t) \/ DirectDone(t)
  <2>1. PICK w \in Works, s \in {"inline", "direct"} :
          /\ Executing(t, w, s)
          /\ wst' = [wst EXCEPT ![w] = "done"]
          /\ Pop(t) /\ ReturnAfter(t, w) /\ batch' = batch
    BY <1>2 DEF InlineDone, DirectDone
  <2>2. pc[t] = "run" /\ stack[t] # <<>> /\ w = Top(t) /\ wst[w] \in {"inline", "direct"}
    BY <2>1 DEF Executing
  <2>3. \A u \in Threads \ {t} : pc'[u] = pc[u] /\ cur'[u] = cur[u]
    BY <1>1, <2>1 DEF ReturnAfter, TypeInv, TypeOK
  <2>4. pc'[t] = "run" \/ (pc'[t] = "exec" /\ batch[w] # None /\ cur'[t] = batch[w])
    BY <1>1, <2>1 DEF ReturnAfter, TypeInv, TypeOK
  <2> QED  BY <2>1, <2>2, <2>3, <2>4, PopPlace
<1>3. CASE FirstDone(t)
  <2>1. PICK w \in Works :
          /\ Executing(t, w, "first")
          /\ wst' = [wst EXCEPT ![w] = "done"]
          /\ Pop(t) /\ batch' = batch
          /\ pc' = [pc EXCEPT ![t] = "execwait"]
          /\ cur' = [cur EXCEPT ![t] = w]
    BY <1>3 DEF FirstDone
  <2>2. pc[t] = "run" /\ stack[t] # <<>> /\ w = Top(t) /\ wst[w] = "first"
    BY <2>1 DEF Executing
  <2>3. /\ \A u \in Threads \ {t} : pc'[u] = pc[u] /\ cur'[u] = cur[u]
        /\ pc'[t] = "execwait" /\ cur'[t] = w
    BY <1>1, <2>1 DEF TypeInv, TypeOK
  <2> QED  BY <2>1, <2>2, <2>3, PopPlace
<1> QED  BY <1>2, <1>3

LEMMA ExecuteWorkFirstPlace ==
    ASSUME IInv, PlaceInv, NEW t \in Threads, ExecuteWorkFirst(t)
    PROVE  PlaceInv'
<1> DEFINE w == cur[t]
           n == Len(stack[t]) + 1
<1>1. TypeInv /\ KeptInv
  BY DEF IInv
<1>2. /\ pc[t] = "exec" /\ w \in Works
      /\ wst' = [wst EXCEPT ![w] = "first"]
      /\ Push(t, w) /\ batch' = batch /\ cur' = cur
      /\ pc' = [pc EXCEPT ![t] = "run"]
  BY <1>1 DEF ExecuteWorkFirst, TypeInv, CurOK
<1>3. wst[w] = "held" /\ batch[w] = None /\ At(t, 0, w)
  BY <1>1, <1>2 DEF PlaceInv, StageInv, StageOf, KeptInv, LeaderInv, Leader, At, InPlace
<1> HIDE DEF w
<1>4. /\ \A u \in Threads \ {t} : stack'[u] = stack[u]
      /\ DOMAIN stack'[t] = 1..n
      /\ \A i \in DOMAIN stack[t] : stack'[t][i] = stack[t][i]
      /\ stack'[t][n] = w
  BY <1>1, <1>2, PushStack
<1>5. n \in Nat /\ n # 0 /\ \A i \in 1..n : i \in DOMAIN stack[t] \/ i = n
  BY <1>1, StackFacts
<1> HIDE DEF n
<1>6. /\ wst'[w] = "first" /\ \A v \in Works : v # w => wst'[v] = wst[v]
      /\ \A v \in Works : batch[v] = None \/ batch[v] \in Works
      /\ pc'[t] = "run" /\ \A u \in Threads \ {t} : pc'[u] = pc[u]
  BY <1>1, <1>2 DEF TypeInv, TypeOK
<1>7. /\ \A u \in Threads : \A i \in DOMAIN stack[u] :
            stack[u][i] \in Works /\ stack[u][i] # w /\ i \in Nat /\ i # 0
      /\ \A u \in Threads : pc[u] \in {"exec", "assign", "execwait"} => cur[u] \in Works
  BY <1>1, <1>3, PlaceFacts, StackFacts
<1>8. /\ \A u \in Threads \ {t} : ~InPlace(u, w)
      /\ \A u \in Threads : \A i \in DOMAIN stack[u] : ~Below(stack[u][i], w)
  <2>1. \A u \in Threads, i \in Nat : At(u, i, w) => u = t /\ i = 0
    BY <1>2, <1>3 DEF PlaceInv, OnceInv
  <2>2. \A u \in Threads \ {t} : ~InPlace(u, w)
    BY <2>1 DEF At
  <2>3. \A u \in Threads : \A i \in DOMAIN stack[u] : ~Below(stack[u][i], w)
    <3>1. \A u \in Threads : \A i \in DOMAIN stack[u] : Below(stack[u][i], w) => At(u, i, w)
      BY DEF At
    <3> QED  BY <1>7, <2>1, <3>1
  <2> QED  BY <2>2, <2>3
<1>9. ASSUME NEW b \in Works, NEW u \in Threads, NEW i \in Nat, At(u, i, b)'
      PROVE  /\ ~(u = t /\ i = 0)
             /\ At(u, i, b) \/ (u = t /\ i = n /\ At(t, 0, b))
  <2>1. CASE i = 0 /\ InPlace(u, b)'
    <3>1. u # t
      BY <1>6, <2>1 DEF InPlace
    <3>2. InPlace(u, b)
      BY <1>2, <1>6, <2>1, <3>1 DEF InPlace
    <3> QED  BY <2>1, <3>1, <3>2 DEF At
  <2>2. CASE i \in DOMAIN stack'[u] /\ Below(stack[u][i], b)'
    <3>1. CASE i \in DOMAIN stack[u] /\ stack'[u][i] = stack[u][i]
      <4>1. Below(stack[u][i], b)
        BY <1>2, <1>6, <1>7, <2>2, <3>1 DEF Below
      <4> QED  BY <1>7, <3>1, <4>1 DEF At
    <3>2. CASE u = t /\ i = n
      <4>1. b = w
        BY <1>2, <1>4, <1>6, <2>2, <3>2 DEF Below
      <4> QED  BY <1>3, <1>5, <3>2, <4>1
    <3> QED  BY <1>4, <1>5, <2>2, <3>1, <3>2
  <2> QED  BY <1>9, <2>1, <2>2 DEF At
<1>10. OnceInv'
  <2>1. 0 \in Nat
    OBVIOUS
  <2> QED  BY <1>5, <1>9, <2>1, OnceMoves DEF PlaceInv
<1>11. ASSUME NEW u \in Threads
       PROVE  StageOf(u)'
  <2>1. StageOf(u)
    BY DEF PlaceInv, StageInv
  <2>2. \A i \in DOMAIN stack[u] :
            /\ wst'[stack[u][i]] \notin {"new", "held"}
            /\ wst'[stack[u][i]] \in {"inline", "direct"} /\ batch[stack[u][i]] # None
                 => wst'[batch[stack[u][i]]] = "held"
    BY <1>6, <1>7, <1>8, <2>1 DEF StageOf, Below
  <2>3. CASE u # t
    BY <1>2, <1>4, <1>6, <1>7, <1>8, <2>1, <2>2, <2>3 DEF StageOf, InPlace
  <2>4. CASE u = t
    <3>1. \A i \in DOMAIN stack'[t] :
            /\ wst'[stack'[t][i]] \notin {"new", "held"}
            /\ wst'[stack'[t][i]] \in {"inline", "direct"} /\ batch[stack'[t][i]] # None
                 => wst'[batch[stack'[t][i]]] = "held"
      BY <1>4, <1>5, <1>6, <2>2, <2>4
    <3> QED  BY <1>2, <1>6, <2>4, <3>1 DEF StageOf
  <2> QED  BY <2>3, <2>4
<1> QED  BY <1>10, <1>11 DEF PlaceInv, StageInv

\* The works of a new call: the first one and the others.
LEMMA ExecuteWorkFacts ==
    ASSUME TypeInv, NEW t \in Threads, NEW s \in Batches, NEW q \in Nat,
           NEW firstinline \in BOOLEAN, ExecuteWork(t, s, q, firstinline)
    PROVE  /\ Head(s) \in Works /\ wst[Head(s)] = "new"
           /\ \A w \in ToSet(Tail(s)) : w \in Works /\ wst[w] = "new" /\ w # Head(s)
           /\ \A w : w \in ToSet(s) <=> (w = Head(s) \/ w \in ToSet(Tail(s)))
           /\ Tail(s) \in Seq(Works)
           /\ Len(Tail(s)) = Len(s) - 1
           /\ \A i, j \in DOMAIN Tail(s) : Tail(s)[i] = Tail(s)[j] => i = j
<1> DEFINE r == Tail(s)
<1>1. /\ s \in Seq(Works) /\ s # <<>> /\ DOMAIN s = 1..Len(s)
      /\ \A i, j \in DOMAIN s : s[i] = s[j] => i = j
  BY BatchesProperties
<1>2. /\ Len(s) \in Nat /\ Len(s) >= 1
      /\ \A i \in DOMAIN s : s[i] \in Works /\ wst[s[i]] = "new"
  BY <1>1, LenProperties, EmptySeq, ElementOfSeq DEF ExecuteWork
<1>3. Head(s) = s[1] /\ 1 \in DOMAIN s
  BY <1>1, <1>2, HeadTailProperties
<1>4. /\ r \in Seq(Works) /\ Len(r) = Len(s) - 1
      /\ DOMAIN r = 1..Len(s)-1
      /\ \A i \in 1..Len(s)-1 : r[i] = s[i+1]
  BY <1>1, HeadTailProperties, LenProperties
<1> HIDE DEF r
<1>5. /\ \A i \in 1..Len(s)-1 : i+1 \in DOMAIN s /\ i+1 # 1
      /\ \A i \in 1..Len(s) : i = 1 \/ (i-1 \in 1..Len(s)-1 /\ (i-1)+1 = i)
      /\ \A i, j \in 1..Len(s)-1 : i+1 = j+1 => i = j
  BY <1>1, <1>2
<1>6. \A w : w \in ToSet(r) <=> \E i \in 1..Len(s)-1 : w = s[i+1]
  BY <1>4 DEF ToSet
<1>7. \A w : w \in ToSet(s) <=> \E i \in 1..Len(s) : w = s[i]
  BY <1>1 DEF ToSet
<1>8. \A w \in ToSet(r) : w \in Works /\ wst[w] = "new" /\ w # Head(s)
  BY <1>1, <1>2, <1>3, <1>5, <1>6
<1>9. \A w : w \in ToSet(s) <=> (w = Head(s) \/ w \in ToSet(r))
  <2> SUFFICES ASSUME NEW w
               PROVE  w \in ToSet(s) <=> (w = Head(s) \/ w \in ToSet(r))
    OBVIOUS
  <2>1. ASSUME w \in ToSet(s)
        PROVE  w = Head(s) \/ w \in ToSet(r)
    <3>1. PICK i \in 1..Len(s) : w = s[i]
      BY <1>7, <2>1
    <3>2. CASE i = 1
      BY <1>3, <3>1, <3>2
    <3>3. CASE i - 1 \in 1..Len(s)-1 /\ (i-1)+1 = i
      BY <1>6, <3>1, <3>3
    <3> QED  BY <1>5, <3>2, <3>3
  <2>2. ASSUME w = Head(s) \/ w \in ToSet(r)
        PROVE  w \in ToSet(s)
    BY <1>1, <1>3, <1>5, <1>6, <1>7, <2>2
  <2> QED  BY <2>1, <2>2
<1>10. \A i, j \in DOMAIN r : r[i] = r[j] => i = j
  <2> SUFFICES ASSUME NEW i \in 1..Len(s)-1, NEW j \in 1..Len(s)-1, r[i] = r[j]
               PROVE  i = j
    BY <1>4
  <2>1. s[i+1] = s[j+1] /\ i+1 \in DOMAIN s /\ j+1 \in DOMAIN s
    BY <1>4, <1>5
  <2>2. i+1 = j+1
    BY <1>1, <2>1
  <2> QED  BY <1>5, <2>2
<1> QED  BY <1>2, <1>3, <1>4, <1>8, <1>9, <1>10 DEF r

LEMMA ExecuteWorkPlace ==
    ASSUME IInv, PlaceInv, NEW t \in Threads, NEW s \in Batches, NEW q \in Nat,
           NEW firstinline \in BOOLEAN, ExecuteWork(t, s, q, firstinline)
    PROVE  PlaceInv'
<1> DEFINE w == Head(s)
           r == ToSet(Tail(s))
<1>1. TypeInv /\ KeptInv /\ HandInv
  BY DEF IInv
<1>2. /\ w \in Works /\ wst[w] = "new"
      /\ \A v \in r : v \in Works /\ wst[v] = "new" /\ v # w
      /\ \A v : v \in ToSet(s) <=> (v = w \/ v \in r)
  BY <1>1, ExecuteWorkFacts
<1>3. /\ pc[t] = "run"
      /\ batch' = [v \in Works |-> IF v \in r THEN w ELSE batch[v]]
      /\ wst' = [v \in Works |-> IF v = w /\ Serial THEN "serial"
                                 ELSE IF v \in ToSet(s) THEN "held" ELSE wst[v]]
      /\ pc' = [pc EXCEPT ![t] = IF Serial THEN "run" ELSE "exec"]
      /\ cur' = [cur EXCEPT ![t] = IF Serial THEN None ELSE w]
      /\ IF Serial THEN Push(t, w) ELSE stack' = stack
  BY DEF ExecuteWork
<1> HIDE DEF w, r
<1>4. /\ \A v \in Works : wst[v] # "new" => wst'[v] = wst[v] /\ batch'[v] = batch[v]
      /\ \A v \in Works : wst'[v] = "first" => wst[v] = "first"
      /\ \A v \in Works : batch[v] = None \/ batch[v] \in Works
      /\ wst'[w] = IF Serial THEN "serial" ELSE "held"
      /\ batch'[w] = batch[w]
  BY <1>1, <1>2, <1>3 DEF TypeInv, TypeOK
<1>5. /\ \A u \in Threads : \A i \in DOMAIN stack[u] :
            stack[u][i] \in Works /\ wst[stack[u][i]] # "new"
      /\ \A u \in Threads : pc[u] \in {"exec", "assign", "execwait"} =>
            cur[u] \in Works /\ wst[cur[u]] # "new"
  <2>1. \A u \in Threads : pc[u] = "assign" => wst[cur[u]] = "assigned"
    BY <1>1 DEF HandInv, AssignInv, Assigning
  <2>2. \A u \in Threads : /\ pc[u] = "exec" => wst[cur[u]] = "held"
                           /\ pc[u] = "execwait" => wst[cur[u]] = "done"
    BY DEF PlaceInv, StageInv, StageOf
  <2> QED  BY <1>1, <2>1, <2>2, PlaceFacts
<1>6. \A u \in Threads \ {t} : pc'[u] = pc[u] /\ cur'[u] = cur[u]
  BY <1>1, <1>3 DEF TypeInv, TypeOK
<1>7. \/ Serial /\ pc'[t] = "run" /\ Push(t, w)
      \/ ~Serial /\ pc'[t] = "exec" /\ cur'[t] = w /\ stack' = stack
  BY <1>1, <1>3 DEF TypeInv, TypeOK
<1> DEFINE n == Len(stack[t]) + 1
<1>8. /\ Serial => /\ \A u \in Threads \ {t} : stack'[u] = stack[u]
                   /\ DOMAIN stack'[t] = 1..n
                   /\ \A i \in DOMAIN stack[t] : stack'[t][i] = stack[t][i]
                   /\ stack'[t][n] = w
      /\ \A i \in 1..n : i \in DOMAIN stack[t] \/ i = n
  BY <1>1, <1>2, <1>7, PushStack, StackFacts
<1> HIDE DEF n
<1>9. \A u \in Threads : \A i \in DOMAIN stack'[u] :
         \/ i \in DOMAIN stack[u] /\ stack'[u][i] = stack[u][i]
         \/ u = t /\ stack'[u][i] = w /\ wst'[w] = "serial"
  BY <1>4, <1>7, <1>8
<1>10. \A u \in Threads, i \in Nat : ~At(u, i, w)
  BY <1>1, <1>2, PlaceFacts
<1>11. ASSUME NEW b \in Works, NEW u \in Threads, NEW i \in Nat, At(u, i, b)'
       PROVE  At(u, i, b) \/ (b = w /\ u = t /\ i = 0)
  <2>1. CASE i = 0 /\ InPlace(u, b)' /\ u = t
    BY <1>7, <2>1 DEF InPlace
  <2>2. CASE i = 0 /\ InPlace(u, b)' /\ u # t
    <3>1. InPlace(u, b)
      BY <1>4, <1>5, <1>6, <2>2 DEF InPlace
    <3> QED  BY <2>2, <3>1 DEF At
  <2>3. CASE i \in DOMAIN stack'[u] /\ Below(stack[u][i], b)'
    <3>1. i \in DOMAIN stack[u] /\ stack'[u][i] = stack[u][i]
      BY <1>9, <2>3 DEF Below
    <3>2. Below(stack[u][i], b)
      BY <1>4, <1>5, <2>3, <3>1 DEF Below
    <3> QED  BY <3>1, <3>2 DEF At
  <2> QED  BY <1>11, <2>1, <2>2, <2>3 DEF At
<1>12. OnceInv'
  <2> SUFFICES ASSUME NEW b \in Works, NEW u \in Threads, NEW v \in Threads,
                      NEW i \in Nat, NEW j \in Nat, At(u, i, b)', At(v, j, b)'
               PROVE  u = v /\ i = j
    BY DEF OnceInv
  <2>1. CASE b = w
    BY <1>10, <1>11, <2>1
  <2>2. CASE b # w
    BY <1>11, <2>2 DEF PlaceInv, OnceInv
  <2> QED  BY <2>1, <2>2
<1>13. ASSUME NEW u \in Threads
       PROVE  StageOf(u)'
  <2>1. StageOf(u)
    BY DEF PlaceInv, StageInv
  <2>2. \A i \in DOMAIN stack'[u] :
            /\ wst'[stack'[u][i]] \notin {"new", "held"}
            /\ wst'[stack'[u][i]] \in {"inline", "direct"} /\ batch'[stack'[u][i]] # None
                 => wst'[batch'[stack'[u][i]]] = "held"
    <3> SUFFICES ASSUME NEW i \in DOMAIN stack'[u]
                 PROVE  /\ wst'[stack'[u][i]] \notin {"new", "held"}
                        /\ wst'[stack'[u][i]] \in {"inline", "direct"} /\ batch'[stack'[u][i]] # None
                             => wst'[batch'[stack'[u][i]]] = "held"
      OBVIOUS
    <3>1. CASE i \in DOMAIN stack[u] /\ stack'[u][i] = stack[u][i]
      BY <1>4, <1>5, <2>1, <3>1 DEF StageOf
    <3>2. CASE stack'[u][i] = w /\ wst'[w] = "serial"
      BY <3>2
    <3> QED  BY <1>9, <3>1, <3>2
  <2>3. CASE u # t
    BY <1>4, <1>5, <1>6, <2>1, <2>2, <2>3 DEF StageOf
  <2>4. CASE u = t
    BY <1>4, <1>7, <2>2, <2>4 DEF StageOf
  <2> QED  BY <2>3, <2>4
<1> QED  BY <1>12, <1>13 DEF PlaceInv, StageInv

LEMMA PlaceInit == Init => PlaceInv
<1> SUFFICES ASSUME Init
             PROVE  PlaceInv
  OBVIOUS
<1>1. \A t \in Threads : /\ pc[t] \in {"wait", "run"}
                         /\ stack[t] = <<>> /\ DOMAIN stack[t] = {}
  BY DEF Init
<1>2. \A t \in Threads, i \in Nat, b \in Works : ~At(t, i, b)
  BY <1>1 DEF At, InPlace
<1> QED  BY <1>1, <1>2 DEF PlaceInv, OnceInv, StageInv, StageOf

LEMMA PlaceStep == IInv /\ PlaceInv /\ [Next]_vars => PlaceInv'
<1> SUFFICES ASSUME IInv, PlaceInv, [Next]_vars
             PROVE  PlaceInv'
  OBVIOUS
<1>1. ASSUME NEW t \in Threads, Calls(t)
      PROVE  PlaceInv'
  <2>1. CASE \E s \in Batches, q \in QueueIds, firstinline \in BOOLEAN :
                ExecuteWork(t, s, q, firstinline)
    <3>1. QueueIds \subseteq Nat
      BY ConstantAssumption DEF QueueIds
    <3> QED  BY <2>1, <3>1, ExecuteWorkPlace
  <2>2. CASE \E w \in Works : RemoveWork(t, w)
    BY <2>2, RemoveWorkPlace
  <2>3. CASE \E q \in QueueIds : ExecuteQueue(t, q)
    BY <2>3, ManualPlace
  <2> QED  BY <1>1, <2>1, <2>2, <2>3, AddPlace, ClosePlace DEF Calls
<1>2. ASSUME NEW t \in Threads, Steps(t)
      PROVE  PlaceInv'
  BY <1>2, AssignTaskPlace, AddPlace, DonePlace, ExecuteWorkFirstPlace,
     SerialDonePlace, ManualPlace, ClosePlace DEF Steps
<1>3. CASE UNCHANGED vars
  BY <1>3 DEF vars, workVars, threadVars, PlaceInv, OnceInv, StageInv, StageOf, At,
     InPlace, Below
<1> QED  BY <1>1, <1>2, <1>3, DoWorkPlace DEF Next, AtRest

-----------------------------------------------------------------------------
(***************************************************************************)
(* Every pending work is in workload_.                                     *)
(***************************************************************************)
ListInv ==
    \A w \in Works : wst[w] = "pending" => \E i \in DOMAIN workload : workload[i] = w

\* No work becomes pending, and workload_ stays.
LEMMA ListFrame ==
    ASSUME ListInv, workload' = workload,
           \A w \in Works : wst'[w] = "pending" => wst[w] = "pending"
    PROVE  ListInv'
BY DEF ListInv

\* One work is taken from workload_.
LEMMA ListRemoved ==
    ASSUME TypeInv, ListInv, NEW i \in DOMAIN workload,
           workload' = RemoveAt(workload, i),
           \A w \in Works : wst'[w] = "pending" => wst[w] = "pending" /\ w # workload[i]
    PROVE  ListInv'
<1> DEFINE n == Len(workload)
<1>1. /\ workload \in Seq(Works) /\ n \in Nat /\ i \in 1..n /\ DOMAIN workload = 1..n
  BY WorkloadElement, LenProperties DEF TypeInv, TypeOK
<1>2. /\ workload' \in Seq(Works)
      /\ Len(workload') = n - 1
      /\ \A j \in 1..n-1 : workload'[j] = IF j < i THEN workload[j] ELSE workload[j+1]
  BY <1>1, RemoveAtProperties
<1>3. DOMAIN workload' = 1..n-1
  BY <1>2, LenProperties
<1> HIDE DEF n
<1>4. ASSUME NEW w \in Works, wst'[w] = "pending"
      PROVE  \E j \in DOMAIN workload' : workload'[j] = w
  <2>1. wst[w] = "pending" /\ w # workload[i]
    BY <1>4
  <2>2. PICK j \in 1..n : workload[j] = w
    BY <1>1, <2>1 DEF ListInv
  <2>3. CASE j < i
    <3>1. j \in 1..n-1
      BY <1>1, <2>3
    <3> QED  BY <1>2, <1>3, <2>2, <2>3, <3>1
  <2>4. CASE j > i
    <3>1. j-1 \in 1..n-1 /\ ~(j-1 < i) /\ (j-1)+1 = j
      BY <1>1, <2>4
    <3>2. workload'[j-1] = workload[(j-1)+1]
      BY <1>2, <3>1
    <3> QED  BY <1>3, <2>2, <3>1, <3>2
  <2> QED  BY <1>1, <2>1, <2>2, <2>3, <2>4
<1> QED  BY <1>4 DEF ListInv

LEMMA SubmitList ==
    ASSUME TypeInv, ListInv, NEW t \in Threads, NEW w \in Works, NEW q \in Nat,
           NEW firstinline, NEW nodup, NEW force,
           Submit(t, w, q, firstinline, nodup, force)
    PROVE  ListInv'
<1>1. CASE SubmitQueued(t, w, q, firstinline, force)
  <2> DEFINE n == Len(workload)
  <2>1. /\ workload \in Seq(Works) /\ n \in Nat /\ DOMAIN workload = 1..n
    BY LenProperties DEF TypeInv, TypeOK
  <2>2. \A v \in Works : wst'[v] = IF v = w THEN "pending" ELSE wst[v]
    BY <1>1 DEF SubmitQueued, TypeInv, TypeOK
  <2>3. /\ DOMAIN workload' = 1..n+1
        /\ \E i \in 1..n+1 : workload'[i] = w
        /\ \A i \in 1..n : \E j \in 1..n+1 : workload'[j] = workload[i]
    <3>1. CASE firstinline
      <4>1. workload' = Cons(w, workload)
        BY <1>1, <3>1 DEF SubmitQueued
      <4>2. /\ workload' \in Seq(Works)
            /\ Len(workload') = n + 1
            /\ \A i \in 1..n+1 : workload'[i] = IF i = 1 THEN w ELSE workload[i-1]
        <5>1. /\ Cons(w, workload) \in Seq(Works)
              /\ Len(Cons(w, workload)) = Len(workload) + 1
              /\ \A i \in 1..Len(workload)+1 :
                    Cons(w, workload)[i] = IF i = 1 THEN w ELSE workload[i-1]
          BY ConsProperties DEF TypeInv, TypeOK
        <5> QED  BY <4>1, <5>1
      <4>3. DOMAIN workload' = 1..n+1
        BY <4>2, LenProperties
      <4> HIDE DEF n
      <4>4. workload'[1] = w /\ 1 \in 1..n+1
        BY <2>1, <4>2
      <4>5. \A i \in 1..n : i+1 \in 1..n+1 /\ i+1 # 1 /\ (i+1)-1 = i
        BY <2>1
      <4>6. \A i \in 1..n : workload'[i+1] = workload[(i+1)-1]
        BY <4>2, <4>5
      <4> QED  BY <4>3, <4>4, <4>5, <4>6
    <3>2. CASE ~firstinline
      <4>1. workload' = Append(workload, w)
        BY <1>1, <3>2 DEF SubmitQueued
      <4>2. /\ workload' \in Seq(Works)
            /\ Len(workload') = n + 1
            /\ \A i \in 1..n : workload'[i] = workload[i]
            /\ workload'[n+1] = w
        BY <2>1, <4>1, AppendProperties
      <4>3. DOMAIN workload' = 1..n+1
        BY <4>2, LenProperties
      <4> HIDE DEF n
      <4>4. n+1 \in 1..n+1 /\ \A i \in 1..n : i \in 1..n+1
        BY <2>1
      <4> QED  BY <4>2, <4>3, <4>4
    <3> QED  BY <3>1, <3>2
  <2> HIDE DEF n
  <2>4. ASSUME NEW v \in Works, wst'[v] = "pending"
        PROVE  \E j \in DOMAIN workload' : workload'[j] = v
    BY <2>1, <2>2, <2>3, <2>4 DEF ListInv
  <2> QED  BY <2>4 DEF ListInv
<1>2. CASE /\ workload' = workload
           /\ \E s \in WorkStates \ {"pending"} : wst' = [wst EXCEPT ![w] = s]
  <2>1. \A v \in Works : wst'[v] = "pending" => wst[v] = "pending"
    BY <1>2 DEF TypeInv, TypeOK
  <2> QED  BY <1>2, <2>1, ListFrame
<1>3. \/ SubmitQueued(t, w, q, firstinline, force)
      \/ /\ workload' = workload
         /\ \E s \in {"direct", "destroyed", "ignored", "assigned", "inline"} :
               wst' = [wst EXCEPT ![w] = s]
  BY DEF Submit, SubmitDirect, SubmitRejected, SubmitIgnored, SubmitToFreeThread,
     SubmitInline, poolVars
<1> QED  BY <1>1, <1>2, <1>3 DEF WorkStates, Busy

\* What addWork is given, by its caller or by executeWork.
LEMMA Submitted ==
    ASSUME IInv, NEW t \in Threads,
           \/ \E w \in Works, q \in QueueIds, firstinline, nodup \in BOOLEAN :
                 \E force \in ForceChoices : AddWork(t, w, q, firstinline, nodup, force)
           \/ ExecuteWorkAdd(t)
    PROVE  \E w \in Works, q \in Nat, firstinline, nodup, force \in BOOLEAN :
              /\ Submit(t, w, q, firstinline, nodup, force)
              /\ Fresh(w) /\ pc[t] \in {"run", "exec"}
<1>1. CASE ExecuteWorkAdd(t)
  <2> DEFINE b == cur[t]
             s == exec[b].todo
             w == Head(s)
  <2>1. /\ TypeInv /\ KeptInv /\ b \in Works /\ wq[b] \in Nat
        /\ s \in Seq(Works) /\ s # <<>> /\ exec[b].firstinline \in BOOLEAN
    BY <1>1, TodoElement DEF IInv, ExecuteWorkAdd, TypeInv, TypeOK, CurOK, Batch
  <2>2. Submit(t, w, wq[b], exec[b].firstinline, FALSE, FALSE) /\ pc[t] = "exec"
    BY <1>1 DEF ExecuteWorkAdd
  <2>3. w \in Works /\ wst[w] = "held" /\ batch[w] = b
    <3>1. 1 \in DOMAIN s /\ w = s[1] /\ w \in Works
      <4> HIDE DEF b
      <4> QED  BY <2>1, HeadTailProperties, EmptySeq, LenProperties, ElementOfSeq
    <3> QED  BY <2>1, <3>1 DEF KeptInv, TodoInv
  <2>4. Fresh(w)
    BY <2>1, <2>3, ConstantAssumption DEF Fresh
  <2> HIDE DEF w, b
  <2> QED  BY <2>1, <2>2, <2>3, <2>4 
<1>2. ASSUME NEW w \in Works, NEW q \in QueueIds, NEW firstinline \in BOOLEAN,
             NEW nodup \in BOOLEAN, NEW force \in ForceChoices,
             AddWork(t, w, q, firstinline, nodup, force)
      PROVE  \E v \in Works, r \in Nat, x, y, z \in BOOLEAN :
                Submit(t, v, r, x, y, z) /\ Fresh(v) /\ pc[t] \in {"run", "exec"}
  <2>1. Fresh(w) /\ Submit(t, w, q, firstinline, nodup, force) /\ pc[t] = "run"
    BY <1>2 DEF AddWork, Fresh
  <2>2. q \in Nat /\ force \in BOOLEAN
    BY ConstantAssumption DEF QueueIds
  <2> QED  BY <2>1, <2>2
<1> QED  BY <1>1, <1>2

\* emptyQueue keeps all of workload_ that is not of its queue.
LEMMA EmptyQueueDropList ==
    ASSUME IInv, ListInv, NEW t \in Threads, EmptyQueueDrop(t)
    PROVE  ListInv'
<1> DEFINE kept == {w \in ToSet(workload) : wq[w] # op[t].q}
           n == Cardinality(kept)
<1>1. /\ workload' \in SetToSeqs(kept)
      /\ wst' = [w \in Works |-> IF w \in ToSet(workload) /\ wq[w] = op[t].q
                                 THEN "destroyed" ELSE wst[w]]
  BY DEF EmptyQueueDrop
<1>2. \A w \in Works : wst'[w] = "pending" => w \in kept
  BY <1>1 DEF ListInv, ToSet
<1>3. kept \subseteq Works
  BY WorkloadElement DEF ToSet, IInv, TypeInv
<1>4. /\ workload' \in [1..n -> kept]
      /\ \A i, j \in 1..n : i # j => workload'[i] # workload'[j]
  BY <1>1 DEF SetToSeqs
<1>5. IsFiniteSet(kept) /\ n \in Nat
  BY <1>3, FS_Subset, FS_CardinalityType, ConstantAssumption
<1> HIDE DEF kept
<1>6. IsFiniteSet(1..n) /\ Cardinality(1..n) = n
  BY <1>5, FS_Interval
<1>7. workload' \in Injection(1..n, kept)
  BY <1>4 DEF Injection, IsInjective
<1>8. workload' \in Surjection(1..n, kept)
  BY <1>5, <1>6, <1>7, FS_Injection
<1>9. \A w \in kept : \E i \in DOMAIN workload' : workload'[i] = w
  BY <1>4, <1>8 DEF Surjection
<1> QED  BY <1>2, <1>9 DEF ListInv

LEMMA ListInit == Init => ListInv
BY DEF Init, ListInv

\* A step that takes nothing from workload_.
LEMMA ListQuiet ==
    ASSUME TypeInv, ListInv, NEW t \in Threads,
           \/ \E s \in Batches, q \in QueueIds, firstinline \in BOOLEAN :
                 ExecuteWork(t, s, q, firstinline)
           \/ \E type \in QueueTypes : AddQueue(t, type)
           \/ \E q \in QueueIds, all \in BOOLEAN :
                 CallEmptyQueue(t, q, all) \/ CallRemoveQueue(t, q, all)
           \/ Shutdown(t) \/ ShutdownQueue(t) \/ RemoveQueue(t)
           \/ EmptyQueueFinish(t)
           \/ (\E x \in Workers : EraseThread(t, x)) \/ EraseDone(t)
           \/ AssignTask(t) \/ ExecuteWorkFirst(t) \/ ExecuteWorkReturn(t)
    PROVE  ListInv'
<1>1. CASE \/ AssignTask(t) \/ ExecuteWorkFirst(t) \/ ExecuteWorkReturn(t)
           \/ \E s \in Batches, q \in QueueIds, firstinline \in BOOLEAN :
                 ExecuteWork(t, s, q, firstinline)
  <2>1. workload' = workload
    BY <1>1 DEF AssignTask, ExecuteWorkFirst, ExecuteWorkReturn, ExecuteWork, poolVars
  <2>2. CASE AssignTask(t)
    <3>1. wst' = wst \/ wst' = [wst EXCEPT ![cur[t]] = "destroyed"]
      BY <2>2 DEF AssignTask
    <3>2. \A w \in Works : wst'[w] = "pending" => wst[w] = "pending"
      BY <3>1 DEF TypeInv, TypeOK
    <3> QED  BY <2>1, <3>2, ListFrame
  <2>3. CASE ExecuteWorkFirst(t)
    <3>1. wst' = [wst EXCEPT ![cur[t]] = "first"]
      BY <2>3 DEF ExecuteWorkFirst
    <3>2. \A w \in Works : wst'[w] = "pending" => wst[w] = "pending"
      BY <3>1 DEF TypeInv, TypeOK
    <3> QED  BY <2>1, <3>2, ListFrame
  <2>4. CASE ExecuteWorkReturn(t)
    BY <2>1, <2>4, ListFrame DEF ExecuteWorkReturn
  <2>5. CASE \E s \in Batches, q \in QueueIds, firstinline \in BOOLEAN :
                ExecuteWork(t, s, q, firstinline)
    <3>1. PICK s \in Batches :
            wst' = [w \in Works |-> IF w = Head(s) /\ Serial THEN "serial"
                                    ELSE IF w \in ToSet(s) THEN "held" ELSE wst[w]]
      BY <2>5 DEF ExecuteWork
    <3> QED  BY <2>1, <3>1, ListFrame
  <2> QED  BY <1>1, <2>2, <2>3, <2>4, <2>5
<1>2. CASE UNCHANGED <<workload, wst>>
  BY <1>2, ListFrame
<1> QED
  BY <1>1, <1>2 DEF AddQueue, CallEmptyQueue, CallRemoveQueue, Shutdown,
     ShutdownQueue, RemoveQueue, EmptyQueueFinish, EraseThread, EraseDone,
     poolVars, workVars

\* The end of a work.
LEMMA ListDone ==
    ASSUME TypeInv, KeptInv, ListInv, NEW t \in Threads,
           InlineDone(t) \/ DirectDone(t) \/ FirstDone(t) \/ SerialDone(t) \/ ManualDone(t)
    PROVE  ListInv'
<1>1. CASE InlineDone(t) \/ DirectDone(t) \/ FirstDone(t)
  <2>1. /\ workload' = workload
        /\ \E w \in Works : wst' = [wst EXCEPT ![w] = "done"]
    BY <1>1 DEF InlineDone, DirectDone, FirstDone, poolVars
  <2> QED  BY <2>1, ListFrame
<1>2. CASE SerialDone(t)
  <2>1. workload' = workload
    BY <1>2 DEF SerialDone, poolVars
  <2>2. \E w, v : \/ wst' = [wst EXCEPT ![w] = "done", ![v] = "serial"]
                 \/ wst' = [wst EXCEPT ![w] = "done"]
    BY <1>2 DEF SerialDone
  <2>3. \A w \in Works : wst'[w] = "pending" => wst[w] = "pending"
    BY <2>2 DEF TypeInv, TypeOK
  <2> QED  BY <2>1, <2>3, ListFrame
<1>3. CASE ManualDone(t)
  <2>1. PICK w \in Works :
          \/ \E i \in DOMAIN workload :
               /\ workload' = RemoveAt(workload, i)
               /\ wst' = [wst EXCEPT ![w] = "done", ![workload[i]] = "manual"]
          \/ workload' = workload /\ wst' = [wst EXCEPT ![w] = "done"]
    BY <1>3 DEF ManualDone
  <2>2. ASSUME NEW i \in DOMAIN workload, workload' = RemoveAt(workload, i),
               wst' = [wst EXCEPT ![w] = "done", ![workload[i]] = "manual"]
        PROVE  ListInv'
    <3>1. \A v \in Works : wst'[v] = "pending" => wst[v] = "pending" /\ v # workload[i]
      BY <2>2, WorkloadElement DEF TypeInv, TypeOK
    <3> QED  BY <2>2, <3>1, ListRemoved
  <2>3. ASSUME workload' = workload, wst' = [wst EXCEPT ![w] = "done"]
        PROVE  ListInv'
    <3>1. \A v \in Works : wst'[v] = "pending" => wst[v] = "pending"
      BY <2>3 DEF TypeInv, TypeOK
    <3> QED  BY <2>3, <3>1, ListFrame
  <2> QED  BY <2>1, <2>2, <2>3
<1> QED  BY <1>1, <1>2, <1>3

LEMMA ListStep == IInv /\ ListInv /\ [Next]_vars => ListInv'
<1> SUFFICES ASSUME IInv, ListInv, [Next]_vars
             PROVE  ListInv'
  OBVIOUS
<1>1. TypeInv /\ KeptInv
  BY DEF IInv
<1>2. ASSUME NEW i \in DOMAIN workload, workload' = RemoveAt(workload, i),
             NEW s, s # "pending", wst' = [wst EXCEPT ![workload[i]] = s]
      PROVE  ListInv'
  <2>1. \A v \in Works : wst'[v] = "pending" => wst[v] = "pending" /\ v # workload[i]
    BY <1>1, <1>2, WorkloadElement DEF TypeInv, TypeOK
  <2> QED  BY <1>1, <1>2, <2>1, ListRemoved
<1>3. ASSUME NEW t \in Threads, Calls(t)
      PROVE  ListInv'
  <2>1. CASE \E w \in Works : RemoveWork(t, w)
    <3>1. \E i \in DOMAIN workload : /\ workload' = RemoveAt(workload, i)
                                     /\ wst' = [wst EXCEPT ![workload[i]] = "destroyed"]
      BY <2>1 DEF RemoveWork
    <3> QED  BY <1>2, <3>1
  <2>2. CASE \E q \in QueueIds : ExecuteQueue(t, q)
    <3>1. \E i \in DOMAIN workload : /\ workload' = RemoveAt(workload, i)
                                     /\ wst' = [wst EXCEPT ![workload[i]] = "manual"]
      BY <2>2 DEF ExecuteQueue
    <3> QED  BY <1>2, <3>1
  <2>3. CASE \E w \in Works, q \in QueueIds, firstinline, nodup \in BOOLEAN :
                \E force \in ForceChoices : AddWork(t, w, q, firstinline, nodup, force)
    <3>1. \E w \in Works, q \in Nat, firstinline, nodup, force \in BOOLEAN :
             Submit(t, w, q, firstinline, nodup, force)
      BY <2>3, Submitted
    <3> QED  BY <1>1, <3>1, SubmitList
  <2> QED  BY <1>1, <1>3, <2>1, <2>2, <2>3, ListQuiet DEF Calls
<1>4. ASSUME NEW t \in Threads, Steps(t)
      PROVE  ListInv'
  <2>1. CASE ExecuteWorkAdd(t)
    <3>1. \E w \in Works, q \in Nat, firstinline, nodup, force \in BOOLEAN :
             Submit(t, w, q, firstinline, nodup, force)
      BY <2>1, Submitted
    <3> QED  BY <1>1, <3>1, SubmitList
  <2> QED  BY <1>1, <1>4, <2>1, ListQuiet, ListDone, EmptyQueueDropList DEF Steps
<1>5. ASSUME NEW x \in Workers, DoWork(x)
      PROVE  ListInv'
  <2>1. CASE ReportNext(x)
    <3>1. PICK i \in DOMAIN workload :
            /\ workload' = RemoveAt(workload, i)
            /\ wst' = [wst EXCEPT ![task[x]] = "done", ![workload[i]] = "task"]
      BY <2>1 DEF ReportNext
    <3>2. \A v \in Works : wst'[v] = "pending" => wst[v] = "pending" /\ v # workload[i]
      BY <1>1, <3>1, WorkloadElement DEF TypeInv, TypeOK
    <3> QED  BY <1>1, <3>1, <3>2, ListRemoved
  <2>2. CASE ~ReportNext(x)
    <3>1. /\ workload' = workload
          /\ \E w, s : s # "pending" /\ (wst' = wst \/ wst' = [wst EXCEPT ![w] = s])
      BY <1>5, <2>2 DEF DoWork, TakeTask, TaskDone, ReportIdle, GoIdle, Exit, poolVars,
         workVars
    <3>2. \A v \in Works : wst'[v] = "pending" => wst[v] = "pending"
      BY <1>1, <3>1 DEF TypeInv, TypeOK
    <3> QED  BY <3>1, <3>2, ListFrame
  <2> QED  BY <2>1, <2>2
<1>6. CASE UNCHANGED vars
  BY <1>6, ListFrame DEF vars, poolVars, workVars
<1> QED  BY <1>3, <1>4, <1>5, <1>6 DEF Next, AtRest

\* What a user sees of the state of a work.
Seen(s) ==
    IF s = "pending" THEN "waiting"
    ELSE IF s \in Busy THEN "running"
    ELSE IF s = "done" THEN "done"
    ELSE IF s \in {"destroyed", "ignored"} THEN "dropped"
    ELSE "new"

Aside == {"new", "held", "first", "serial", "direct"}

LEMMA SeenFacts ==
    ASSUME NEW s \in WorkStates
    PROVE  /\ Seen(s) = "waiting" <=> s = "pending"
           /\ Seen(s) = "running" <=> s \in Busy
           /\ Seen(s) = "done" <=> s = "done"
           /\ Seen(s) = "dropped" <=> s \in {"destroyed", "ignored"}
           /\ Seen(s) = "new" <=> s \in Aside
BY DEF Seen, WorkStates, Busy, Aside

\* A work that waits or is under way belongs to a queue.
Live == Busy \cup {"pending"}

Base == IInv /\ SingleLoad /\ PlaceInv /\ ListInv

-----------------------------------------------------------------------------
(***************************************************************************)
(* The kinds of a step                                                     *)
(***************************************************************************)

\* A user sees no change of the works outside S.
Keeps(S) ==
    \A w \in Works \ S : /\ Seen(wst'[w]) = Seen(wst[w])
                         /\ wst[w] \in Live => wq'[w] = wq[w]

\* The counters apart, the queues stay as they are.
SameQueues ==
    /\ freeid' = freeid
    /\ DOMAIN queues' = DOMAIN queues
    /\ \A k \in DOMAIN queues : /\ queues'[k].id = queues[k].id
                                /\ queues'[k].type = queues[k].type
                                /\ queues'[k].closing = queues[k].closing

NoMoreFree == freethreads' # <<>> => freethreads # <<>>

\* No work of the same queue stands before w in workload_.
FirstOfItsQueue(w) ==
    \E i \in DOMAIN workload :
        /\ workload[i] = w
        /\ \A j \in 1..i-1 : wq[workload[j]] # wq[w]

\* No work of a MultiThread queue waits.
NothingToDo ==
    \A w \in Works, k \in DOMAIN queues :
        wst[w] = "pending" /\ queues[k].id = wq[w] => queues[k].type # "MultiThread"

\* No work of a SingleThread queue waits for v alone.
NothingBehind(v) ==
    \A w \in Works, k \in DOMAIN queues :
        wst[w] = "pending" /\ queues[k].id = wq[w] /\ queues[k].type = "SingleThread"
            => ~(Working(wq[w]) \subseteq {v})

Nothing == Keeps({}) /\ SameQueues /\ NoMoreFree

Accepted(w, q) ==
    /\ Seen(wst[w]) = "new"
    /\ Open(q)
    /\ wst'[w] = "pending"
    /\ wq'[w] = q
    /\ CanStart(q) => freethreads' = <<>>
    /\ Keeps({w}) /\ SameQueues /\ NoMoreFree

Started(w, q) ==
    /\ Seen(wst[w]) = "new"
    /\ Open(q)
    /\ CanStart(q)
    /\ Seen(wst'[w]) = "running"
    /\ freethreads = <<>> => wst'[w] = "inline"
    /\ wq'[w] = q
    /\ Keeps({w}) /\ SameQueues /\ NoMoreFree

Fetched(w) ==
    /\ wst[w] = "pending" /\ FirstOfItsQueue(w)
    /\ \A k \in DOMAIN queues : queues[k].id = wq[w] => queues[k].type = "Manual"
    /\ Seen(wst'[w]) = "running"
    /\ wq'[w] = wq[w]
    /\ Keeps({w}) /\ SameQueues /\ NoMoreFree

Finished(w) ==
    /\ Seen(wst[w]) = "running"
    /\ wst'[w] = "done"
    /\ Keeps({w}) /\ SameQueues
    /\ \/ NoMoreFree /\ wst[w] \in {"inline", "manual"}
       \/ NothingToDo /\ NothingBehind(w)

FinishedAndStarted(v, w) ==
    /\ Seen(wst[v]) = "running"
    /\ wst[w] = "pending" /\ FirstOfItsQueue(w)
    /\ \A k \in DOMAIN queues :
         queues[k].id = wq[w] /\ queues[k].type = "SingleThread"
            => Working(wq[w]) \subseteq {v}
    /\ \E k \in DOMAIN queues :
         queues[k].id = wq[w] /\ (queues[k].type = "Manual" => wq[v] = wq[w])
    /\ wst'[v] = "done"
    /\ Seen(wst'[w]) = "running"
    /\ wq'[w] = wq[w]
    /\ Keeps({v, w}) /\ SameQueues /\ NoMoreFree

Refused(w) ==
    /\ Seen(wst[w]) = "new"
    /\ Seen(wst'[w]) = "dropped"
    /\ Keeps({w}) /\ SameQueues /\ NoMoreFree

DoneByCaller(w) ==
    /\ Seen(wst[w]) = "new"
    /\ wst'[w] = "done"
    /\ Keeps({w}) /\ SameQueues /\ NoMoreFree

\* One work, or all that wait in a queue that some thread is emptying.
Dropped(S) ==
    /\ \A w \in S : wst[w] = "pending" /\ wst'[w] = "destroyed"
    /\ \/ \E w \in Works : S = {w}
       \/ \E t \in Threads : /\ pc[t] = "empty"
                             /\ S = {w \in Works : wst[w] = "pending" /\ wq[w] = op[t].q}
    /\ Keeps(S) /\ SameQueues /\ NoMoreFree

OfQueues(t) ==
    /\ Keeps({}) /\ NoMoreFree
    /\ \/ \E type \in QueueTypes : AddQueue(t, type)
       \/ \E q \in QueueIds, all \in BOOLEAN : CallRemoveQueue(t, q, all)
       \/ ShutdownQueue(t)
       \/ RemoveQueue(t)

Kind ==
    \/ Nothing
    \/ \E w \in Works, q \in Nat : Accepted(w, q) \/ Started(w, q)
    \/ \E w \in Works : Fetched(w) \/ Finished(w) \/ Refused(w) \/ DoneByCaller(w)
    \/ \E v, w \in Works : FinishedAndStarted(v, w)
    \/ \E S \in SUBSET Works : Dropped(S)
    \/ \E t \in Threads : OfQueues(t)

-----------------------------------------------------------------------------
(***************************************************************************)
(* The kind of each action                                                 *)
(***************************************************************************)

\* The works and the queues stay as they are.
LEMMA NothingKind ==
    ASSUME \A w \in Works : Seen(wst'[w]) = Seen(wst[w]),
           \A w \in Works : wst[w] \in Live => wq'[w] = wq[w],
           queues' = queues, freeid' = freeid, freethreads' = freethreads
    PROVE  Kind
BY DEF Kind, Nothing, Keeps, SameQueues, NoMoreFree

LEMMA SameQueuesAddLoad ==
    ASSUME TypeInv, freeid' = freeid, NEW i, NEW d \in Int, queues' = AddLoad(i, d)
    PROVE  SameQueues
BY AddLoadProperties DEF SameQueues, TypeInv, TypeOK

LEMMA SameQueuesReduced ==
    ASSUME TypeInv, freeid' = freeid, NEW q, queues' = Reduced(q)
    PROVE  SameQueues
<1>1. CASE IndexOf(q) = 0
  BY <1>1 DEF Reduced, SameQueues
<1>2. CASE IndexOf(q) # 0
  BY <1>2, SameQueuesAddLoad DEF Reduced
<1> QED  BY <1>1, <1>2

\* Only the state of w changes.
LEMMA KeepsOne ==
    ASSUME TypeInv, NEW w \in Works, NEW s, wst' = [wst EXCEPT ![w] = s],
           \A v \in Works \ {w} : wq'[v] = wq[v]
    PROVE  Keeps({w}) /\ wst'[w] = s
BY DEF Keeps, TypeInv, TypeOK

LEMMA SubmitKind ==
    ASSUME TypeInv, NEW t \in Threads, NEW w \in Works, NEW q \in Nat,
           NEW firstinline, NEW nodup, NEW force,
           Submit(t, w, q, firstinline, nodup, force), Fresh(w)
    PROVE  Kind
<1>1. wst[w] \in WorkStates /\ Seen(wst[w]) = "new"
  BY DEF TypeInv, TypeOK, Fresh, Seen, Busy
<1>2. wq' = [wq EXCEPT ![w] = q]
  BY DEF Submit
<1>3. wq'[w] = q /\ \A v \in Works \ {w} : wq'[v] = wq[v]
  BY <1>2 DEF TypeInv, TypeOK
<1>4. CASE SubmitDirect(t, w)
  <2>1. wst' = [wst EXCEPT ![w] = "direct"]
    BY <1>4 DEF SubmitDirect
  <2>2. Keeps({w}) /\ wst'[w] = "direct"
    BY <1>3, <2>1, KeepsOne
  <2>3. Keeps({})
    BY <1>1, <2>2, SeenFacts DEF Keeps, Live, Seen, Busy
  <2>4. UNCHANGED <<queues, freeid, freethreads>>
    BY <1>4 DEF SubmitDirect, poolVars
  <2> QED  BY <2>3, <2>4 DEF Kind, Nothing, SameQueues, NoMoreFree
<1>5. CASE SubmitRejected(t, w, q) \/ SubmitIgnored(t, w, q)
  <2>1. PICK s \in {"destroyed", "ignored"} : wst' = [wst EXCEPT ![w] = s]
    BY <1>5 DEF SubmitRejected, SubmitIgnored
  <2>2. Keeps({w}) /\ Seen(wst'[w]) = "dropped"
    BY <1>3, <2>1, KeepsOne DEF Seen, Busy
  <2>3. UNCHANGED <<queues, freeid, freethreads>>
    BY <1>5 DEF SubmitRejected, SubmitIgnored, poolVars
  <2>4. Refused(w)
    BY <1>1, <2>2, <2>3 DEF Refused, SameQueues, NoMoreFree
  <2> QED  BY <2>4 DEF Kind
<1>6. CASE SubmitToFreeThread(t, w, q) \/ SubmitInline(t, w, q)
  <2>1. PICK s \in {"assigned", "inline"} : wst' = [wst EXCEPT ![w] = s]
    BY <1>6 DEF SubmitToFreeThread, SubmitInline
  <2>2. Keeps({w}) /\ Seen(wst'[w]) = "running"
    BY <1>3, <2>1, KeepsOne DEF Seen, Busy
  <2>6. freethreads = <<>> => wst'[w] = "inline"
    BY <1>6 DEF SubmitToFreeThread, SubmitInline, TypeInv, TypeOK
  <2>3. /\ Open(q) /\ CanStart(q)
        /\ queues' = AddLoad(IndexOf(q), 1) /\ freeid' = freeid
        /\ NoMoreFree
    BY <1>6 DEF SubmitToFreeThread, SubmitInline, Accepts, NoMoreFree
  <2>4. SameQueues
    BY <2>3, SameQueuesAddLoad
  <2>5. Started(w, q)
    BY <1>1, <1>3, <2>2, <2>3, <2>4, <2>6 DEF Started
  <2> QED  BY <2>5 DEF Kind
<1>7. CASE SubmitQueued(t, w, q, firstinline, force)
  <2>1. wst' = [wst EXCEPT ![w] = "pending"]
    BY <1>7 DEF SubmitQueued
  <2>2. Keeps({w}) /\ wst'[w] = "pending"
    BY <1>3, <2>1, KeepsOne
  <2>3. /\ Open(q)
        /\ CanStart(q) => freethreads' = <<>>
        /\ UNCHANGED <<queues, freeid, freethreads>>
    BY <1>7 DEF SubmitQueued, Accepts
  <2>4. Accepted(w, q)
    BY <1>1, <1>3, <2>2, <2>3 DEF Accepted, SameQueues, NoMoreFree
  <2> QED  BY <2>4 DEF Kind
<1> QED  BY <1>4, <1>5, <1>6, <1>7 DEF Submit

\* One work is done while the threads and the queues stay, or its queue counts
\* one less.
LEMMA DoneKind ==
    ASSUME TypeInv, NEW t \in Threads, InlineDone(t) \/ DirectDone(t) \/ FirstDone(t)
    PROVE  Kind
<1>1. PICK w \in Works :
        /\ wst[w] \in {"inline", "direct", "first"}
        /\ wst' = [wst EXCEPT ![w] = "done"]
        /\ UNCHANGED <<wq, freeid, freethreads>>
        /\ queues' = queues \/ (wst[w] = "inline" /\ queues' = Reduced(wq[w]))
        /\ wst[w] = "inline" => queues' = Reduced(wq[w])
  BY DEF InlineDone, DirectDone, FirstDone, Executing, Reduced, poolVars
<1>2. Keeps({w}) /\ wst'[w] = "done"
  BY <1>1, KeepsOne
<1>3. CASE wst[w] = "inline"
  <2>1. SameQueues
    BY <1>1, <1>3, SameQueuesReduced
  <2>2. Finished(w)
    BY <1>1, <1>2, <1>3, <2>1 DEF Finished, NoMoreFree, Seen, Busy
  <2> QED  BY <2>2 DEF Kind
<1>4. CASE wst[w] # "inline"
  <2>1. DoneByCaller(w)
    BY <1>1, <1>2, <1>4 DEF DoneByCaller, SameQueues, NoMoreFree, Seen, Busy
  <2> QED  BY <2>1 DEF Kind
<1> QED  BY <1>3, <1>4

LEMMA SerialDoneKind ==
    ASSUME IInv, NEW t \in Threads, SerialDone(t)
    PROVE  Kind
<1>1. TypeInv /\ KeptInv
  BY DEF IInv
<1>2. PICK w \in Works, good \in BOOLEAN :
        LET b == IF batch[w] = None THEN w ELSE batch[w]
            more == good /\ exec[b].todo # <<>>
        IN  /\ Executing(t, w, "serial")
            /\ wst' = IF more
                      THEN [wst EXCEPT ![w] = "done",
                                       ![Head(exec[b].todo)] = "serial"]
                      ELSE [wst EXCEPT ![w] = "done"]
            /\ UNCHANGED <<wq, queues, freeid, freethreads>>
  BY OutcomesType DEF SerialDone, poolVars
<1> DEFINE b == IF batch[w] = None THEN w ELSE batch[w]
           more == good /\ exec[b].todo # <<>>
           h == Head(exec[b].todo)
<1>3. wst[w] = "serial"
  BY <1>2 DEF Executing
<1>4. b \in Works
  BY <1>1 DEF KeptInv, LeaderInv, Leader
<1>5. /\ wst'[w] = "done"
      /\ \A v \in Works \ {w} : Seen(wst'[v]) = Seen(wst[v])
      /\ \A v \in Works : wst[v] = "pending" => wst'[v] = "pending"
  <2>1. CASE more
    <3>1. h \in Works /\ wst[h] = "held"
      <4>1. exec[b].todo \in Seq(Works) /\ exec[b].todo # <<>>
        BY <1>1, <1>4, <2>1, TodoElement DEF TypeInv
      <4>2. 1 \in DOMAIN exec[b].todo /\ h = exec[b].todo[1] /\ h \in Works
        <5> HIDE DEF b
        <5> QED  BY <4>1, HeadTailProperties, EmptySeq, LenProperties, ElementOfSeq
      <4> QED  BY <1>1, <1>4, <4>2 DEF KeptInv, TodoInv
    <3>2. wst' = [wst EXCEPT ![w] = "done", ![h] = "serial"]
      BY <1>2, <2>1
    <3> HIDE DEF h, b
    <3> QED  BY <1>1, <1>3, <3>1, <3>2 DEF Seen, Busy, TypeInv, TypeOK
  <2>2. CASE ~more
    <3>1. wst' = [wst EXCEPT ![w] = "done"]
      BY <1>2, <2>2
    <3> QED  BY <1>1, <1>3, <3>1 DEF Seen, Busy, TypeInv, TypeOK
  <2> QED  BY <2>1, <2>2
<1>6. DoneByCaller(w)
  BY <1>2, <1>3, <1>5 DEF DoneByCaller, Keeps, SameQueues, NoMoreFree, Seen, Busy
<1> QED  BY <1>6 DEF Kind

\* A counter that goes down changes nothing else.
LEMMA ReducedSame ==
    ASSUME TypeInv, NEW q
    PROVE  /\ DOMAIN Reduced(q) = DOMAIN queues
           /\ \A k \in DOMAIN queues : /\ Reduced(q)[k] \in Queue
                                       /\ Reduced(q)[k].id = queues[k].id
                                       /\ Reduced(q)[k].type = queues[k].type
                                       /\ Reduced(q)[k].closing = queues[k].closing
<1>1. queues \in Seq(Queue) /\ \A k \in DOMAIN queues : queues[k] \in Queue
  BY LenProperties, ElementOfSeq DEF TypeInv, TypeOK
<1>2. CASE IndexOf(q) = 0
  BY <1>1, <1>2 DEF Reduced
<1>3. CASE IndexOf(q) # 0
  <2> DEFINE r == AddLoad(IndexOf(q), -1)
  <2>1. /\ r \in Seq(Queue) /\ DOMAIN r = DOMAIN queues
        /\ \A k \in DOMAIN queues : /\ r[k].id = queues[k].id
                                    /\ r[k].type = queues[k].type
                                    /\ r[k].closing = queues[k].closing
    BY <1>1, AddLoadProperties
  <2>2. r = Reduced(q)
    BY <1>3 DEF Reduced
  <2> HIDE DEF r
  <2>3. \A k \in DOMAIN queues : r[k] \in Queue
    BY <2>1, LenProperties, ElementOfSeq
  <2> QED  BY <2>1, <2>2, <2>3
<1> QED  BY <1>2, <1>3

\* What a counter of at most one says of the works it counts.
LEMMA CountedOnce ==
    ASSUME LoadInv, NEW k \in DOMAIN queues, NEW v \in Works,
           v \in Working(queues[k].id), queues[k].load <= 1
    PROVE  Working(queues[k].id) \subseteq {v}
<1> DEFINE S == Working(queues[k].id)
<1>1. IsFiniteSet(S) /\ Cardinality(S) \in Nat /\ Cardinality(S) <= 1 /\ v \in S
  BY WorkingFinite DEF LoadInv, LoadCount
<1> HIDE DEF S
<1>2. IsFiniteSet(S \ {v}) /\ Cardinality(S \ {v}) = Cardinality(S) - 1
  BY <1>1, FS_RemoveElement
<1>3. Cardinality(S \ {v}) \in Nat
  BY <1>2, FS_CardinalityType
<1>4. Cardinality(S \ {v}) = 0
  BY <1>1, <1>2, <1>3
<1>5. S \ {v} = {}
  BY <1>2, <1>4, FS_EmptySet
<1> QED  BY <1>5 DEF S

LEMMA CountedNone ==
    ASSUME LoadInv, NEW k \in DOMAIN queues, queues[k].load = 0
    PROVE  Working(queues[k].id) = {}
BY WorkingFinite, FS_EmptySet DEF LoadInv, LoadCount

\* The pool thread that reports back.
LEMMA ReportIdleKind ==
    ASSUME Base, NEW x \in Workers, ReportIdle(x)
    PROVE  Kind
<1>1. TypeInv /\ KeptInv /\ HandInv /\ ListInv /\ LoadInv /\ QueueInv
  BY DEF Base, IInv, LoadInv
<1>2. task[x] \in Works /\ wst[task[x]] = "reporting"
  BY <1>1 DEF ReportIdle, HandInv, TaskInv, TaskOf, TypeInv, TypeOK
<1>3. /\ wst' = [wst EXCEPT ![task[x]] = "done"]
      /\ wq' = wq /\ freeid' = freeid /\ queues' = Reduced(wq[task[x]])
      /\ \A i \in DOMAIN workload : ~Takeable(Reduced(wq[task[x]]), workload[i])
  BY DEF ReportIdle
<1>4. Keeps({task[x]}) /\ wst'[task[x]] = "done"
  BY <1>1, <1>2, <1>3, KeepsOne
<1>5. SameQueues
  BY <1>1, <1>3, SameQueuesReduced
<1>6. NothingToDo
  <2> SUFFICES ASSUME NEW w \in Works, NEW k \in DOMAIN queues,
                      wst[w] = "pending", queues[k].id = wq[w]
               PROVE  queues[k].type # "MultiThread"
    BY DEF NothingToDo
  <2> DEFINE r == Reduced(wq[task[x]])
  <2>1. ~Takeable(r, w)
    BY <1>1, <1>3 DEF ListInv
  <2>2. DOMAIN r = DOMAIN queues /\ r[k].id = queues[k].id /\ r[k].type = queues[k].type
    BY <1>1, ReducedSame
  <2> HIDE DEF r
  <2> QED  BY <2>1, <2>2 DEF Takeable
<1>7. NothingBehind(task[x])
  <2> DEFINE v == task[x]
             r == Reduced(wq[v])
  <2> SUFFICES ASSUME NEW w \in Works, NEW k \in DOMAIN queues,
                      wst[w] = "pending", queues[k].id = wq[w],
                      queues[k].type = "SingleThread", Working(wq[w]) \subseteq {v}
               PROVE  FALSE
    BY DEF NothingBehind
  <2>1. ~Takeable(r, w) /\ v \in Works /\ wst[v] = "reporting"
    BY <1>1, <1>2, <1>3 DEF ListInv
  <2> HIDE DEF v
  <2>2. /\ DOMAIN r = DOMAIN queues
        /\ r[k].id = queues[k].id /\ r[k].type = queues[k].type
        /\ r[k].load = IF queues[k].id = wq[v] THEN queues[k].load - 1
                       ELSE queues[k].load
    BY <1>1, ReducedSame, ReducedLoads
  <2> HIDE DEF r
  <2>3. r[k].load # 0
    BY <2>1, <2>2 DEF Takeable
  <2>4. queues[k].load = Cardinality(Working(wq[w]))
    BY <1>1 DEF LoadInv, LoadCount
  <2>5. CASE wq[w] = wq[v]
    <3>1. Working(wq[w]) = {v}
      BY <2>1, <2>5 DEF Working, Busy
    <3> QED  BY <2>2, <2>3, <2>4, <2>5, <3>1, FS_Singleton
  <2>6. CASE wq[w] # wq[v]
    <3>1. Working(wq[w]) = {}
      BY <2>6 DEF Working
    <3> QED  BY <2>2, <2>3, <2>4, <2>6, <3>1, FS_EmptySet
  <2> QED  BY <2>5, <2>6
<1>8. Finished(task[x])
  BY <1>2, <1>4, <1>5, <1>6, <1>7 DEF Finished, Seen, Busy
<1> QED  BY <1>2, <1>8 DEF Kind

LEMMA KeepsTwo ==
    ASSUME TypeInv, NEW v \in Works, NEW w \in Works, v # w, NEW s,
           wst' = [wst EXCEPT ![v] = "done", ![w] = s], wq' = wq
    PROVE  Keeps({v, w}) /\ wst'[v] = "done" /\ wst'[w] = s
BY DEF Keeps, TypeInv, TypeOK

LEMMA ReportNextKind ==
    ASSUME Base, NEW x \in Workers, ReportNext(x)
    PROVE  Kind
<1> DEFINE v == task[x]
           r == Reduced(wq[v])
<1>1. TypeInv /\ KeptInv /\ HandInv /\ QueueInv /\ LoadInv
  BY DEF Base, IInv, LoadInv
<1>2. v \in Works /\ wst[v] = "reporting"
  BY <1>1 DEF ReportNext, HandInv, TaskInv, TaskOf, TypeInv, TypeOK
<1>3. PICK i \in DOMAIN workload :
        /\ IsNext(r, i)
        /\ queues' = [k \in DOMAIN queues |->
                        IF queues[k].id = wq[workload[i]]
                        THEN [r[k] EXCEPT !.load = @ + 1]
                        ELSE r[k]]
        /\ wst' = [wst EXCEPT ![v] = "done", ![workload[i]] = "task"]
  BY DEF ReportNext
<1>4. wq' = wq /\ freeid' = freeid /\ freethreads' = freethreads
  BY DEF ReportNext
<1> DEFINE w == workload[i]
<1>5. w \in Works /\ wst[w] = "pending"
  BY <1>1, WorkloadElement DEF KeptInv, PendingInv, TypeInv
<1>6. /\ DOMAIN r = DOMAIN queues
      /\ \A k \in DOMAIN queues : /\ r[k] \in Queue
                                  /\ r[k].id = queues[k].id
                                  /\ r[k].type = queues[k].type
                                  /\ r[k].closing = queues[k].closing
                                  /\ r[k].load = IF queues[k].id = wq[v]
                                                 THEN queues[k].load - 1
                                                 ELSE queues[k].load
  <2> HIDE DEF v
  <2> QED  BY <1>1, ReducedSame, ReducedLoads
<1> HIDE DEF r, v, w
<1>7. Keeps({v, w}) /\ wst'[v] = "done" /\ wst'[w] = "task"
  <2>1. wst' = [wst EXCEPT ![v] = "done", ![w] = "task"]
    BY <1>3 DEF w
  <2>2. v # w
    BY <1>2, <1>5
  <2> QED  BY <1>1, <1>2, <1>4, <1>5, <2>1, <2>2, KeepsTwo
<1>8. SameQueues
  <2>1. \A e \in Queue : /\ [e EXCEPT !.load = @ + 1].id = e.id
                         /\ [e EXCEPT !.load = @ + 1].type = e.type
                         /\ [e EXCEPT !.load = @ + 1].closing = e.closing
    BY DEF Queue
  <2>2. /\ DOMAIN queues' = DOMAIN queues
        /\ \A k \in DOMAIN queues :
             queues'[k] = IF queues[k].id = wq[w] THEN [r[k] EXCEPT !.load = @ + 1]
                          ELSE r[k]
    BY <1>3 DEF w
  <2>3. ASSUME NEW k \in DOMAIN queues
        PROVE  /\ queues'[k].id = queues[k].id
               /\ queues'[k].type = queues[k].type
               /\ queues'[k].closing = queues[k].closing
    <3>1. CASE queues[k].id = wq[w]
      <4>1. queues'[k] = [r[k] EXCEPT !.load = @ + 1] /\ r[k] \in Queue
        BY <1>6, <2>2, <3>1
      <4>2. /\ queues'[k].id = r[k].id
            /\ queues'[k].type = r[k].type
            /\ queues'[k].closing = r[k].closing
        BY <2>1, <4>1
      <4> QED  BY <1>6, <4>2
    <3>2. CASE queues[k].id # wq[w]
      BY <1>6, <2>2, <3>2
    <3> QED  BY <3>1, <3>2
  <2> QED  BY <1>4, <2>2, <2>3 DEF SameQueues
<1>9. ASSUME NEW k \in DOMAIN queues, queues[k].id = wq[w],
             queues[k].type = "SingleThread"
      PROVE  Working(wq[w]) \subseteq {v}
  <2>1. PICK j \in DOMAIN r : /\ r[j].id = wq[w]
                              /\ r[j].type = "SingleThread" => r[j].load = 0
    BY <1>3 DEF IsNext, Takeable, w
  <2>2. j = k /\ r[k].load = 0
    BY <1>1, <1>6, <1>9, <2>1 DEF QueueInv
  <2>3. queues[k].load \in Nat
    BY <1>1, WorkingFinite DEF LoadInv, LoadCount
  <2>4. CASE wq[w] = wq[v]
    <3>1. v \in Working(queues[k].id)
      BY <1>2, <1>9, <2>4 DEF Working, Busy
    <3>2. queues[k].load <= 1
      BY <1>6, <1>9, <2>2, <2>3, <2>4
    <3> QED  BY <1>1, <1>2, <1>9, <3>1, <3>2, CountedOnce
  <2>5. CASE wq[w] # wq[v]
    BY <1>1, <1>6, <1>9, <2>2, <2>5, CountedNone
  <2> QED  BY <2>4, <2>5
<1>10. FirstOfItsQueue(w)
  <2>1. \A j \in 1..i-1 : wq[workload[j]] # wq[workload[i]]
    BY <1>3 DEF IsNext, Takeable
  <2> QED  BY <2>1 DEF FirstOfItsQueue, w
<1>11. \E k \in DOMAIN queues : queues[k].id = wq[w] /\ queues[k].type # "Manual"
  <2>1. \E k \in DOMAIN r : r[k].id = wq[w] /\ r[k].type # "Manual"
    BY <1>3 DEF IsNext, Takeable, w
  <2> QED  BY <1>6, <2>1
<1>12. FinishedAndStarted(v, w)
  BY <1>2, <1>4, <1>5, <1>7, <1>8, <1>9, <1>10, <1>11 DEF FinishedAndStarted, NoMoreFree, Seen, Busy
<1> QED  BY <1>2, <1>5, <1>12 DEF Kind

\* executeQueue.
LEMMA ManualKind ==
    ASSUME Base, NEW t \in Threads,
           (\E q \in QueueIds : ExecuteQueue(t, q)) \/ ManualDone(t)
    PROVE  Kind
<1>1. TypeInv /\ KeptInv /\ QueueInv /\ LoadInv /\ SingleLoad
  BY DEF Base, IInv, LoadInv
<1>2. ASSUME NEW i \in DOMAIN workload
      PROVE  workload[i] \in Works /\ wst[workload[i]] = "pending"
  BY <1>1, WorkloadElement DEF KeptInv, PendingInv, TypeInv
<1>3. ASSUME NEW q, ExecuteQueue(t, q)
      PROVE  Kind
  <2>1. PICK i \in DOMAIN workload :
          IsFirstOf(q, i) /\ wst' = [wst EXCEPT ![workload[i]] = "manual"]
    BY <1>3 DEF ExecuteQueue
  <2>2. /\ IndexOf(q) # 0 /\ queues[IndexOf(q)].type = "Manual"
        /\ queues' = AddLoad(IndexOf(q), 1)
        /\ UNCHANGED <<wq, freeid, freethreads>>
    BY <1>3 DEF ExecuteQueue
  <2>3. \A k \in DOMAIN queues : queues[k].id = q => queues[k].type = "Manual"
    BY <1>1, <2>2, IndexOfProperties DEF QueueInv, TypeInv, TypeOK
  <2> DEFINE w == workload[i]
  <2>4. w \in Works /\ wst[w] = "pending"
    BY <1>2
  <2> HIDE DEF w
  <2>5. wst' = [wst EXCEPT ![w] = "manual"] /\ wq[w] = q /\ FirstOfItsQueue(w)
    BY <2>1 DEF w, IsFirstOf, FirstOfItsQueue
  <2>6. Keeps({w}) /\ wst'[w] = "manual"
    BY <1>1, <2>2, <2>4, <2>5, KeepsOne
  <2>7. SameQueues
    BY <1>1, <2>2, SameQueuesAddLoad
  <2>8. Fetched(w)
    BY <2>2, <2>3, <2>4, <2>5, <2>6, <2>7 DEF Fetched, NoMoreFree, Seen, Busy
  <2> QED  BY <2>4, <2>8 DEF Kind
<1>4. CASE ManualDone(t)
  <2>1. PICK v \in Works :
          /\ wst[v] = "manual"
          /\ UNCHANGED <<wq, freeid, freethreads>>
          /\ \/ \E i \in DOMAIN workload :
                  /\ IndexOf(wq[v]) # 0
                  /\ IsFirstOf(wq[v], i)
                  /\ queues' = queues
                  /\ wst' = [wst EXCEPT ![v] = "done", ![workload[i]] = "manual"]
             \/ queues' = Reduced(wq[v]) /\ wst' = [wst EXCEPT ![v] = "done"]
    BY <1>4 DEF ManualDone, Executing
  <2>2. ASSUME queues' = Reduced(wq[v]), wst' = [wst EXCEPT ![v] = "done"]
        PROVE  Kind
    <3>1. Keeps({v}) /\ wst'[v] = "done"
      BY <1>1, <2>1, <2>2, KeepsOne
    <3>2. SameQueues
      BY <1>1, <2>1, <2>2, SameQueuesReduced
    <3>3. Finished(v)
      BY <2>1, <3>1, <3>2 DEF Finished, NoMoreFree, Seen, Busy
    <3> QED  BY <3>3 DEF Kind
  <2>3. ASSUME NEW i \in DOMAIN workload, IndexOf(wq[v]) # 0,
               IsFirstOf(wq[v], i), queues' = queues,
               wst' = [wst EXCEPT ![v] = "done", ![workload[i]] = "manual"]
        PROVE  Kind
    <3> DEFINE w == workload[i]
    <3>1. w \in Works /\ wst[w] = "pending"
      BY <1>2
    <3> HIDE DEF w
    <3>2. /\ wst' = [wst EXCEPT ![v] = "done", ![w] = "manual"]
          /\ wq[w] = wq[v] /\ v # w /\ FirstOfItsQueue(w)
      BY <2>1, <2>3, <3>1 DEF w, IsFirstOf, FirstOfItsQueue
    <3>3. Keeps({v, w}) /\ wst'[v] = "done" /\ wst'[w] = "manual"
      <4>1. wst' = [wst EXCEPT ![v] = "done", ![w] = "manual"] /\ wq' = wq /\ v # w
        BY <2>1, <3>2
      <4> QED  BY <1>1, <3>1, <4>1, KeepsTwo
    <3>4. ASSUME NEW k \in DOMAIN queues, queues[k].id = wq[w],
                 queues[k].type = "SingleThread"
          PROVE  Working(wq[w]) \subseteq {v}
      <4>1. v \in Working(queues[k].id) /\ queues[k].load <= 1
        BY <1>1, <2>1, <3>2, <3>4 DEF Working, Busy, SingleLoad
      <4> QED  BY <1>1, <3>4, <4>1, CountedOnce
    <3>5. \E k \in DOMAIN queues : queues[k].id = wq[w]
      BY <1>1, <2>3, <3>2, IndexOfProperties DEF TypeInv, TypeOK
    <3>6. FinishedAndStarted(v, w)
      BY <2>1, <2>3, <3>1, <3>2, <3>3, <3>4, <3>5
      DEF FinishedAndStarted, SameQueues, NoMoreFree, Seen, Busy
    <3> QED  BY <3>1, <3>6 DEF Kind
  <2> QED  BY <2>1, <2>2, <2>3
<1> QED  BY <1>3, <1>4

\* What drops pending works.
LEMMA DropKind ==
    ASSUME Base, NEW t \in Threads,
           (\E w \in Works : RemoveWork(t, w)) \/ EmptyQueueDrop(t)
    PROVE  Kind
<1>1. TypeInv /\ KeptInv /\ ListInv
  BY DEF Base, IInv
<1>2. \A i \in DOMAIN workload : workload[i] \in Works /\ wst[workload[i]] = "pending"
  BY <1>1, WorkloadElement DEF KeptInv, PendingInv, TypeInv
<1>3. CASE \E w \in Works : RemoveWork(t, w)
  <2>1. PICK i \in DOMAIN workload : wst' = [wst EXCEPT ![workload[i]] = "destroyed"]
    BY <1>3 DEF RemoveWork
  <2>2. UNCHANGED <<wq, queues, freeid, freethreads>>
    BY <1>3 DEF RemoveWork
  <2>3. Keeps({workload[i]}) /\ wst'[workload[i]] = "destroyed"
    BY <1>1, <1>2, <2>1, <2>2, KeepsOne
  <2>4. Dropped({workload[i]})
    BY <1>2, <2>2, <2>3 DEF Dropped, SameQueues, NoMoreFree
  <2> QED  BY <1>2, <2>4 DEF Kind
<1>4. CASE EmptyQueueDrop(t)
  <2> DEFINE S == {w \in Works : wst[w] = "pending" /\ wq[w] = op[t].q}
  <2>1. /\ wst' = [w \in Works |-> IF w \in ToSet(workload) /\ wq[w] = op[t].q
                                   THEN "destroyed" ELSE wst[w]]
        /\ UNCHANGED <<wq, queues, freeid, freethreads>>
        /\ pc[t] = "empty"
    BY <1>4 DEF EmptyQueueDrop
  <2>2. \A w \in Works : w \in ToSet(workload) <=> wst[w] = "pending"
    BY <1>1, <1>2 DEF ListInv, ToSet
  <2>3. \A w \in Works : wst'[w] = IF w \in S THEN "destroyed" ELSE wst[w]
    BY <2>1, <2>2
  <2>4. Dropped(S)
    BY <2>1, <2>3 DEF Dropped, Keeps, SameQueues, NoMoreFree
  <2> QED  BY <2>4 DEF Kind
<1> QED  BY <1>3, <1>4

\* The steps of which a user sees nothing.
LEMMA QuietKind ==
    ASSUME Base, NEW t \in Threads,
           \/ AssignTask(t) \/ ExecuteWorkFirst(t) \/ ExecuteWorkReturn(t)
           \/ (\E q \in QueueIds, all \in BOOLEAN : CallEmptyQueue(t, q, all))
           \/ EmptyQueueFinish(t) \/ Shutdown(t)
           \/ (\E x \in Workers : EraseThread(t, x)) \/ EraseDone(t)
    PROVE  Kind
<1>1. TypeInv /\ HandInv /\ PlaceInv
  BY DEF Base, IInv
<1>2. CASE AssignTask(t)
  <2>1. task[to[cur[t]]] = None
    BY <1>1, <1>2 DEF AssignTask, HandInv, AssignInv, Assigning
  <2>2. UNCHANGED <<wst, wq, queues, freeid, freethreads>>
    BY <1>2, <2>1 DEF AssignTask, poolVars
  <2> QED  BY <2>2, NothingKind
<1>3. CASE ExecuteWorkFirst(t)
  <2>1. /\ wst' = [wst EXCEPT ![cur[t]] = "first"] /\ wst[cur[t]] = "held"
        /\ UNCHANGED <<wq, queues, freeid, freethreads>>
    BY <1>1, <1>3 DEF ExecuteWorkFirst, PlaceInv, StageInv, StageOf, poolVars
  <2>2. \A w \in Works : Seen(wst'[w]) = Seen(wst[w])
    BY <1>1, <2>1 DEF Seen, Busy, TypeInv, TypeOK
  <2> QED  BY <2>1, <2>2, NothingKind
<1>4. CASE UNCHANGED <<wst, wq, queues, freeid, freethreads>>
  BY <1>4, NothingKind
<1> QED
  BY <1>2, <1>3, <1>4 DEF ExecuteWorkReturn, CallEmptyQueue, EmptyQueueFinish,
     Shutdown, EraseThread, EraseDone, poolVars, workVars

LEMMA ExecuteWorkKind ==
    ASSUME IInv, NEW t \in Threads, NEW s \in Batches, NEW q \in Nat,
           NEW firstinline \in BOOLEAN, ExecuteWork(t, s, q, firstinline)
    PROVE  Kind
<1>1. TypeInv
  BY DEF IInv
<1>2. \A w \in ToSet(s) : w \in Works /\ wst[w] = "new"
  BY <1>1, ExecuteWorkFacts
<1>3. Head(s) \in ToSet(s)
  BY <1>1, ExecuteWorkFacts
<1>4. /\ wst' = [w \in Works |-> IF w = Head(s) /\ Serial THEN "serial"
                                 ELSE IF w \in ToSet(s) THEN "held" ELSE wst[w]]
      /\ wq' = [w \in Works |-> IF w \in ToSet(s) THEN q ELSE wq[w]]
      /\ UNCHANGED <<queues, freeid, freethreads>>
  BY DEF ExecuteWork, poolVars
<1>5. \A w \in Works : Seen(wst'[w]) = Seen(wst[w])
  BY <1>2, <1>3, <1>4 DEF Seen, Busy
<1>6. \A w \in Works : wst[w] \in Live => wq'[w] = wq[w]
  BY <1>2, <1>4 DEF Live, Busy
<1> QED  BY <1>4, <1>5, <1>6, NothingKind

LEMMA OfQueuesKind ==
    ASSUME NEW t \in Threads,
           \/ \E type \in QueueTypes : AddQueue(t, type)
           \/ \E q \in QueueIds, all \in BOOLEAN : CallRemoveQueue(t, q, all)
           \/ ShutdownQueue(t) \/ RemoveQueue(t)
    PROVE  Kind
<1>1. UNCHANGED <<wst, wq, freethreads>>
  BY DEF AddQueue, CallRemoveQueue, ShutdownQueue, RemoveQueue, workVars
<1>2. OfQueues(t)
  BY <1>1 DEF OfQueues, Keeps, NoMoreFree
<1> QED  BY <1>2 DEF Kind

\* Each step is of one kind.
LEMMA KindOfStep == Base /\ [Next]_vars => Kind
<1> SUFFICES ASSUME Base, [Next]_vars
             PROVE  Kind
  OBVIOUS
<1>1. IInv /\ TypeInv /\ HandInv
  BY DEF Base, IInv
<1>2. ASSUME NEW t \in Threads,
             \/ \E w \in Works, q \in QueueIds, firstinline, nodup \in BOOLEAN :
                   \E force \in ForceChoices : AddWork(t, w, q, firstinline, nodup, force)
             \/ ExecuteWorkAdd(t)
      PROVE  Kind
  BY <1>1, <1>2, Submitted, SubmitKind
<1>3. ASSUME NEW t \in Threads, Calls(t)
      PROVE  Kind
  <2>1. CASE \E s \in Batches, q \in QueueIds, firstinline \in BOOLEAN :
                ExecuteWork(t, s, q, firstinline)
    <3>1. QueueIds \subseteq Nat
      BY ConstantAssumption DEF QueueIds
    <3> QED  BY <1>1, <2>1, <3>1, ExecuteWorkKind
  <2> QED  BY <1>2, <1>3, <2>1, ManualKind, DropKind, QuietKind, OfQueuesKind DEF Calls
<1>4. ASSUME NEW t \in Threads, Steps(t)
      PROVE  Kind
  BY <1>1, <1>2, <1>4, DoneKind, SerialDoneKind, ManualKind, DropKind, QuietKind,
     OfQueuesKind DEF Steps
<1>5. ASSUME NEW x \in Workers, DoWork(x)
      PROVE  Kind
  <2>1. TaskOf(x) /\ (task[x] # None => task[x] \in Works)
    BY <1>1 DEF HandInv, TaskInv, TypeInv, TypeOK
  <2>2. CASE TakeTask(x)
    <3>1. /\ wst[task[x]] = "assigned" /\ wst' = [wst EXCEPT ![task[x]] = "task"]
          /\ UNCHANGED <<wq, queues, freeid, freethreads>>
      BY <2>1, <2>2 DEF TakeTask, HasTask, TaskOf, poolVars
    <3>2. \A w \in Works : Seen(wst'[w]) = Seen(wst[w])
      BY <1>1, <3>1 DEF Seen, Busy, TypeInv, TypeOK
    <3> QED  BY <3>1, <3>2, NothingKind
  <2>3. CASE TaskDone(x)
    <3>1. /\ wst[task[x]] = "task" /\ wst' = [wst EXCEPT ![task[x]] = "reporting"]
          /\ UNCHANGED <<wq, queues, freeid, freethreads>>
      BY <2>3 DEF TaskDone, Executing, poolVars
    <3>2. \A w \in Works : Seen(wst'[w]) = Seen(wst[w])
      BY <1>1, <3>1 DEF Seen, Busy, TypeInv, TypeOK
    <3> QED  BY <3>1, <3>2, NothingKind
  <2>4. CASE GoIdle(x) \/ Exit(x)
    BY <2>4, NothingKind DEF GoIdle, Exit, poolVars, workVars
  <2> QED  BY <1>5, <2>2, <2>3, <2>4, ReportIdleKind, ReportNextKind DEF DoWork
<1>6. CASE UNCHANGED vars
  BY <1>6, NothingKind DEF vars, poolVars, workVars
<1> QED  BY <1>3, <1>4, <1>5, <1>6 DEF Next, AtRest

LEMMA BaseInit == Init => Base
<1>1. Init => SingleLoad
  BY DEF Init, DefaultQueue, SingleLoad
<1> QED  BY <1>1, IInvInit, PlaceInit, ListInit DEF Base

LEMMA BaseStep == Base /\ [Next]_vars => Base'
BY IInvStep, SingleLoadStep, PlaceStep, ListStep DEF Base

-----------------------------------------------------------------------------
(***************************************************************************)
(* What becomes of the queues                                              *)
(***************************************************************************)

LEMMA QueuesFacts ==
    ASSUME TypeInv
    PROVE  /\ queues \in Seq(Queue)
           /\ Len(queues) \in Nat /\ DOMAIN queues = 1..Len(queues)
           /\ \A k \in DOMAIN queues : queues[k] \in Queue
           /\ freeid \in Nat
           /\ queues = <<>> <=> DOMAIN queues = {}
           /\ queues # <<>> => 1 \in DOMAIN queues
<1>1. queues \in Seq(Queue) /\ freeid \in Nat
  BY DEF TypeInv, TypeOK
<1>2. Len(queues) \in Nat /\ DOMAIN queues = 1..Len(queues)
  BY <1>1, LenProperties
<1>3. \A k \in DOMAIN queues : queues[k] \in Queue
  BY <1>1, <1>2, ElementOfSeq
<1>4. queues = <<>> <=> Len(queues) = 0
  BY <1>1, EmptySeq
<1>5. \A n \in Nat : (n = 0 <=> 1..n = {}) /\ (n # 0 => 1 \in 1..n)
  <2>1. ASSUME NEW n \in Nat
        PROVE  n # 0 => 1 \in 1..n
    OBVIOUS
  <2>2. 1..0 = {}
    OBVIOUS
  <2> QED  BY <2>1, <2>2
<1> QED  BY <1>1, <1>2, <1>3, <1>4, <1>5

LEMMA QueueAdded ==
    ASSUME TypeInv, NEW t, NEW type \in QueueTypes, AddQueue(t, type)
    PROVE  /\ freeid' = freeid + 1
           /\ \A k \in DOMAIN queues : queues'[k] = queues[k]
           /\ \E m : /\ DOMAIN queues' = DOMAIN queues \cup {m}
                     /\ queues'[m] = [id |-> freeid, type |-> type, load |-> 0,
                                      closing |-> FALSE]
<1> DEFINE n == Len(queues)
           e == [id |-> freeid, type |-> type, load |-> 0, closing |-> FALSE]
<1>1. queues \in Seq(Queue) /\ n \in Nat /\ DOMAIN queues = 1..n /\ freeid \in Nat
  BY QueuesFacts
<1>2. e \in Queue
  BY <1>1, ConstantAssumption DEF Queue
<1>3. queues' = Append(queues, e) /\ freeid' = freeid + 1
  BY DEF AddQueue
<1> HIDE DEF e
<1>4. /\ Append(queues, e) \in Seq(Queue)
      /\ Len(Append(queues, e)) = n + 1
      /\ \A i \in 1..n : Append(queues, e)[i] = queues[i]
      /\ Append(queues, e)[n+1] = e
  BY <1>1, <1>2, AppendProperties
<1>5. DOMAIN queues' = 1..n+1
  BY <1>3, <1>4, LenProperties
<1> HIDE DEF n
<1>6. 1..n+1 = 1..n \cup {n+1}
  BY <1>1
<1> QED  BY <1>1, <1>3, <1>4, <1>5, <1>6 DEF e

LEMMA QueueClosed ==
    ASSUME TypeInv, NEW i \in DOMAIN queues,
           queues' = [queues EXCEPT ![i].closing = TRUE]
    PROVE  /\ DOMAIN queues' = DOMAIN queues
           /\ \A k \in DOMAIN queues : /\ queues'[k].id = queues[k].id
                                       /\ queues'[k].type = queues[k].type
                                       /\ queues'[k].closing <=> queues[k].closing \/ k = i
<1>1. \A e \in Queue : /\ [e EXCEPT !.closing = TRUE].id = e.id
                       /\ [e EXCEPT !.closing = TRUE].type = e.type
                       /\ [e EXCEPT !.closing = TRUE].closing = TRUE
  BY DEF Queue
<1>2. \A k \in DOMAIN queues : queues[k] \in Queue /\ queues[k].closing \in BOOLEAN
  BY QueuesFacts DEF Queue
<1>3. /\ DOMAIN queues' = DOMAIN queues
      /\ \A k \in DOMAIN queues : queues'[k] =
            IF k = i THEN [queues[k] EXCEPT !.closing = TRUE] ELSE queues[k]
  OBVIOUS
<1>4. ASSUME NEW k \in DOMAIN queues
      PROVE  /\ queues'[k].id = queues[k].id
             /\ queues'[k].type = queues[k].type
             /\ queues'[k].closing <=> queues[k].closing \/ k = i
  <2>1. CASE k = i
    <3>1. queues'[k] = [queues[k] EXCEPT !.closing = TRUE]
      BY <1>3, <2>1
    <3> QED  BY <1>1, <1>2, <2>1, <3>1
  <2>2. CASE k # i
    BY <1>2, <1>3, <2>2
  <2> QED  BY <2>1, <2>2
<1> QED  BY <1>3, <1>4

LEMMA QueueRemoved ==
    ASSUME TypeInv, NEW k \in DOMAIN queues, queues' = RemoveAt(queues, k)
    PROVE  /\ \A j \in DOMAIN queues' :
                 \E m \in DOMAIN queues : m # k /\ queues'[j] = queues[m]
           /\ \A m \in DOMAIN queues :
                 m # k => \E j \in DOMAIN queues' : queues'[j] = queues[m]
           /\ \A m \in DOMAIN queues :
                 m < k => m \in DOMAIN queues' /\ queues'[m] = queues[m]
           /\ queues' # queues
<1> DEFINE n == Len(queues)
<1>1. queues \in Seq(Queue) /\ n \in Nat /\ DOMAIN queues = 1..n /\ k \in 1..n
  BY QueuesFacts
<1>2. /\ RemoveAt(queues, k) \in Seq(Queue)
      /\ Len(RemoveAt(queues, k)) = n - 1
      /\ \A j \in 1..n-1 : RemoveAt(queues, k)[j] =
                              IF j < k THEN queues[j] ELSE queues[j+1]
  BY <1>1, RemoveAtProperties
<1>3. DOMAIN queues' = 1..n-1
  BY <1>2, LenProperties
<1> HIDE DEF n
<1>4. ASSUME NEW j \in DOMAIN queues'
      PROVE  \E m \in DOMAIN queues : m # k /\ queues'[j] = queues[m]
  <2>1. j \in 1..n /\ j+1 \in 1..n
    BY <1>1, <1>3
  <2>2. CASE j < k
    BY <1>1, <1>2, <1>3, <2>1, <2>2
  <2>3. CASE ~(j < k)
    <3>1. j + 1 # k
      BY <1>1, <1>3, <2>3
    <3> QED  BY <1>1, <1>2, <1>3, <2>1, <2>3, <3>1
  <2> QED  BY <2>2, <2>3
<1>5. ASSUME NEW m \in DOMAIN queues, m # k
      PROVE  \E j \in DOMAIN queues' : queues'[j] = queues[m]
  <2>1. CASE m < k
    <3>1. m \in 1..n-1
      BY <1>1, <2>1
    <3> QED  BY <1>2, <1>3, <2>1, <3>1
  <2>2. CASE m > k
    <3>1. m-1 \in 1..n-1 /\ ~(m-1 < k) /\ (m-1)+1 = m
      BY <1>1, <2>2
    <3>2. queues'[m-1] = queues[(m-1)+1]
      BY <1>2, <3>1
    <3> QED  BY <1>3, <3>1, <3>2
  <2> QED  BY <1>1, <1>5, <2>1, <2>2
<1>6. \A m \in DOMAIN queues : m < k => m \in DOMAIN queues' /\ queues'[m] = queues[m]
  <2>1. \A m \in DOMAIN queues : m < k => m \in 1..n-1
    BY <1>1
  <2> QED  BY <1>2, <1>3, <2>1
<1>7. queues' # queues
  <2>1. n \in DOMAIN queues /\ n \notin DOMAIN queues'
    BY <1>1, <1>3
  <2> QED  BY <2>1
<1> QED  BY <1>4, <1>5, <1>6, <1>7

\* The queue that MayClose lets a thread close.
LEMMA MayCloseFacts ==
    ASSUME TypeInv, NEW t, NEW q, NEW all, MayClose(t, q, all)
    PROVE  /\ IndexOf(q) \in DOMAIN queues
           /\ queues[IndexOf(q)].id = q
           /\ ~queues[IndexOf(q)].closing
           /\ t \in Removers /\ pc[t] = "run"
BY QueuesFacts, IndexOfProperties DEF MayClose

\* With distinct ids, a queue is where IndexOf says.
LEMMA IndexIs ==
    ASSUME TypeInv, QueueInv, NEW k \in DOMAIN queues
    PROVE  IndexOf(queues[k].id) = k
BY QueuesFacts, IndexOfProperties DEF QueueInv

\* A work outside S that a user sees alive before a step is so after it.
LEMMA KeepsLive ==
    ASSUME NEW S, Keeps(S), NEW w \in Works, w \notin S
    PROVE  /\ wst'[w] \in Live <=> wst[w] \in Live
           /\ wst'[w] = "pending" <=> wst[w] = "pending"
           /\ wst'[w] \in Busy <=> wst[w] \in Busy
           /\ wst[w] \in Live => wq'[w] = wq[w]
BY DEF Keeps, Live, Seen, Busy

\* A work comes alive only in a queue that is open.
LEMMA KindLive ==
    ASSUME Kind, \A t \in Threads : ~OfQueues(t)
    PROVE  /\ SameQueues
           /\ \A w \in Works : wst'[w] \in Live =>
                \/ wst[w] \in Live /\ wq'[w] = wq[w]
                \/ Open(wq'[w])
           /\ \A w \in Works : wst'[w] = "pending" =>
                \/ wst[w] = "pending" /\ wq'[w] = wq[w]
                \/ Open(wq'[w])
<1> DEFINE Part(S) ==
        /\ Keeps(S) /\ SameQueues
        /\ \A w \in S : \/ /\ wst'[w] \in Live /\ wst[w] \in Live /\ wq'[w] = wq[w]
                           /\ wst'[w] # "pending"
                        \/ wst'[w] \notin Live
                        \/ Open(wq'[w])
<1>1. PICK S \in SUBSET Works : Part(S)
  <2>1. CASE Nothing
    <3>1. {} \in SUBSET Works /\ Part({})
      BY <2>1 DEF Nothing
    <3> QED  BY <3>1
  <2>2. ASSUME NEW w \in Works, NEW q \in Nat, Accepted(w, q) \/ Started(w, q)
        PROVE  Part({w})
    BY <2>2 DEF Accepted, Started
  <2>3. ASSUME NEW w \in Works, Fetched(w) \/ Finished(w) \/ Refused(w) \/ DoneByCaller(w)
        PROVE  Part({w})
    BY <2>3 DEF Fetched, Finished, Refused, DoneByCaller, Live, Seen, Busy
  <2>4. ASSUME NEW v \in Works, NEW w \in Works, FinishedAndStarted(v, w)
        PROVE  Part({v, w})
    BY <2>4 DEF FinishedAndStarted, Live, Seen, Busy
  <2>5. ASSUME NEW S \in SUBSET Works, Dropped(S)
        PROVE  Part(S)
    BY <2>5 DEF Dropped, Live, Busy
  <2> HIDE DEF Part
  <2>6. ASSUME NEW w \in Works, Part({w})
        PROVE  \E S \in SUBSET Works : Part(S)
    BY <2>6
  <2>7. ASSUME NEW v \in Works, NEW w \in Works, Part({v, w})
        PROVE  \E S \in SUBSET Works : Part(S)
    BY <2>7
  <2> QED  BY <2>1, <2>2, <2>3, <2>4, <2>5, <2>6, <2>7 DEF Kind
<1>2. \A w \in Works \ S : /\ wst'[w] \in Live <=> wst[w] \in Live
                           /\ wst'[w] = "pending" <=> wst[w] = "pending"
                           /\ wst[w] \in Live => wq'[w] = wq[w]
  BY <1>1, KeepsLive
<1> QED  BY <1>1, <1>2 DEF Live

-----------------------------------------------------------------------------
(***************************************************************************)
(* Nothing waits while a thread is free                                    *)
(***************************************************************************)

\* No thread is free while a work of a MultiThread queue is pending, and no
\* pending work belongs to a queue that is still to be added.
WaitInv ==
    /\ \A w \in Works : wst[w] = "pending" => wq[w] < freeid
    /\ \A w \in Works, k \in DOMAIN queues :
         wst[w] = "pending" /\ queues[k].id = wq[w] /\ queues[k].type = "MultiThread"
            => freethreads = <<>>

\* No work outside S becomes pending, and the queues stay.
LEMMA WaitSame ==
    ASSUME WaitInv, SameQueues, NEW S, Keeps(S),
           NoMoreFree \/ NothingToDo,
           \A w \in Works \cap S : wst'[w] # "pending"
    PROVE  WaitInv'
<1>1. \A w \in Works : wst'[w] = "pending" => wst[w] = "pending" /\ wq'[w] = wq[w]
  BY DEF Keeps, Seen, Busy, Live
<1>2. (\A w \in Works : wst[w] = "pending" => wq[w] < freeid)'
  BY <1>1 DEF WaitInv, SameQueues
<1>3. ASSUME NEW w \in Works, NEW k \in DOMAIN queues', wst'[w] = "pending",
             queues'[k].id = wq'[w], queues'[k].type = "MultiThread"
      PROVE  freethreads' = <<>>
  <2>1. /\ k \in DOMAIN queues /\ wst[w] = "pending"
        /\ queues[k].id = wq[w] /\ queues[k].type = "MultiThread"
    BY <1>1, <1>3 DEF SameQueues
  <2> QED  BY <2>1 DEF WaitInv, NoMoreFree, NothingToDo
<1> QED  BY <1>2, <1>3 DEF WaitInv

\* The work accepted now has to wait only if no thread is free.
LEMMA WaitAccepted ==
    ASSUME Base, WaitInv, NEW v \in Works, NEW q \in Nat, Accepted(v, q)
    PROVE  WaitInv'
<1>1. TypeInv /\ QueueInv
  BY DEF Base, IInv, LoadInv
<1>2. \A w \in Works : wst'[w] = "pending" =>
         \/ w = v /\ wq'[w] = q
         \/ wst[w] = "pending" /\ wq'[w] = wq[w]
  BY DEF Accepted, Keeps, Seen, Busy, Live
<1>3. q < freeid'
  BY <1>1 DEF Accepted, Open, QueueInv, SameQueues
<1>4. \A k \in DOMAIN queues :
         queues[k].id = q /\ queues[k].type = "MultiThread" => freethreads' = <<>>
  <2>1. \A k \in DOMAIN queues : queues[k].id = q => k = IndexOf(q)
    BY <1>1, IndexOfProperties DEF QueueInv, TypeInv, TypeOK
  <2> QED  BY <2>1 DEF Accepted, CanStart
<1>5. (\A w \in Works : wst[w] = "pending" => wq[w] < freeid)'
  BY <1>2, <1>3 DEF Accepted, WaitInv, SameQueues
<1>6. ASSUME NEW w \in Works, NEW k \in DOMAIN queues', wst'[w] = "pending",
             queues'[k].id = wq'[w], queues'[k].type = "MultiThread"
      PROVE  freethreads' = <<>>
  <2>1. k \in DOMAIN queues /\ queues[k].id = wq'[w] /\ queues[k].type = "MultiThread"
    BY <1>6 DEF Accepted, SameQueues
  <2>2. CASE w = v /\ wq'[w] = q
    BY <1>4, <2>1, <2>2
  <2>3. CASE wst[w] = "pending" /\ wq'[w] = wq[w]
    BY <2>1, <2>3 DEF WaitInv, Accepted, NoMoreFree
  <2> QED  BY <1>2, <1>6, <2>2, <2>3
<1> QED  BY <1>5, <1>6 DEF WaitInv

\* The queues after a step: those there were, or one with a new id.
LEMMA QueuesAfter ==
    ASSUME TypeInv, NEW t \in Threads, OfQueues(t)
    PROVE  /\ freeid' \in Nat /\ freeid' >= freeid
           /\ \A k \in DOMAIN queues' :
                \/ queues'[k].id = freeid
                \/ \E j \in DOMAIN queues : /\ queues'[k].id = queues[j].id
                                            /\ queues'[k].type = queues[j].type
<1> DEFINE After ==
        /\ freeid' \in Nat /\ freeid' >= freeid
        /\ \A k \in DOMAIN queues' :
             \/ queues'[k].id = freeid
             \/ \E j \in DOMAIN queues : /\ queues'[k].id = queues[j].id
                                         /\ queues'[k].type = queues[j].type
<1>1. freeid \in Nat
  BY QueuesFacts
<1>2. ASSUME NEW i \in DOMAIN queues,
             queues' = [queues EXCEPT ![i].closing = TRUE], freeid' = freeid
      PROVE  After
  BY <1>1, <1>2, QueueClosed
<1>3. ASSUME NEW q, NEW all, CallRemoveQueue(t, q, all)
      PROVE  After
  <2>1. IndexOf(q) \in DOMAIN queues
    BY <1>3, MayCloseFacts DEF CallRemoveQueue
  <2> QED  BY <1>2, <1>3, <2>1 DEF CallRemoveQueue
<1>4. CASE ShutdownQueue(t)
  <2>1. /\ freeid' = freeid
        /\ \/ queues' = queues
           \/ queues # <<>> /\ queues' = [queues EXCEPT ![1].closing = TRUE]
    BY <1>4 DEF ShutdownQueue
  <2>2. CASE queues' = queues
    BY <1>1, <2>1, <2>2
  <2> QED  BY <1>2, <2>1, <2>2, QueuesFacts
<1>5. ASSUME NEW type \in QueueTypes, AddQueue(t, type)
      PROVE  After
  <2>1. /\ freeid' = freeid + 1
        /\ \A k \in DOMAIN queues : queues'[k] = queues[k]
    BY <1>5, QueueAdded
  <2>2. PICK m : /\ DOMAIN queues' = DOMAIN queues \cup {m}
                 /\ queues'[m] = [id |-> freeid, type |-> type, load |-> 0,
                                  closing |-> FALSE]
    BY <1>5, QueueAdded
  <2> QED  BY <1>1, <2>1, <2>2
<1>6. CASE RemoveQueue(t)
  <2> DEFINE k == IndexOf(op[t].q)
  <2>1. freeid' = freeid /\ (queues' = queues \/ (k # 0 /\ queues' = RemoveAt(queues, k)))
    BY <1>6 DEF RemoveQueue
  <2>2. k # 0 => k \in DOMAIN queues
    BY QueuesFacts, IndexOfProperties
  <2> HIDE DEF k
  <2>3. CASE queues' = queues
    BY <1>1, <2>1, <2>3
  <2>4. CASE k # 0 /\ queues' = RemoveAt(queues, k)
    <3>1. \A j \in DOMAIN queues' : \E m \in DOMAIN queues : queues'[j] = queues[m]
      BY <2>2, <2>4, QueueRemoved
    <3> QED  BY <1>1, <2>1, <3>1
  <2> QED  BY <2>1, <2>3, <2>4
<1> QED  BY <1>3, <1>4, <1>5, <1>6 DEF OfQueues

\* A queue that is added has a new id, and to close or remove one gives the
\* others no work.
LEMMA WaitOfQueues ==
    ASSUME Base, WaitInv, NEW t \in Threads, OfQueues(t)
    PROVE  WaitInv'
<1>1. TypeInv /\ freeid \in Nat
  BY QueuesFacts DEF Base, IInv
<1>2. \A w \in Works : wst'[w] = "pending" =>
         wst[w] = "pending" /\ wq'[w] = wq[w] /\ wq'[w] < freeid
  BY KeepsLive DEF OfQueues, Live, WaitInv
<1>3. \A w \in Works : wst'[w] = "pending" => wq'[w] \in Nat
  BY <1>1, <1>2 DEF TypeInv, TypeOK
<1>4. freeid' \in Nat /\ freeid' >= freeid
  BY <1>1, QueuesAfter
<1>5. (\A w \in Works : wst[w] = "pending" => wq[w] < freeid)'
  BY <1>1, <1>2, <1>3, <1>4
<1>6. ASSUME NEW w \in Works, NEW k \in DOMAIN queues', wst'[w] = "pending",
             queues'[k].id = wq'[w], queues'[k].type = "MultiThread"
      PROVE  freethreads' = <<>>
  <2>1. queues'[k].id # freeid
    BY <1>1, <1>2, <1>3, <1>6
  <2>2. PICK j \in DOMAIN queues : /\ queues'[k].id = queues[j].id
                                   /\ queues'[k].type = queues[j].type
    BY <1>1, <2>1, QueuesAfter
  <2> QED  BY <1>2, <1>6, <2>2 DEF WaitInv, OfQueues, NoMoreFree
<1> QED  BY <1>5, <1>6 DEF WaitInv

LEMMA WaitStep == Base /\ WaitInv /\ [Next]_vars => WaitInv'
<1> SUFFICES ASSUME Base, WaitInv, [Next]_vars
             PROVE  WaitInv'
  OBVIOUS
<1>1. Kind
  BY KindOfStep
<1>2. CASE Nothing
  BY <1>2, WaitSame DEF Nothing
<1>3. ASSUME NEW w \in Works, NEW q \in Nat, Accepted(w, q) \/ Started(w, q)
      PROVE  WaitInv'
  <2>1. CASE Accepted(w, q)
    BY <2>1, WaitAccepted
  <2>2. CASE Started(w, q)
    BY <2>2, WaitSame DEF Started, Seen, Busy
  <2> QED  BY <1>3, <2>1, <2>2
<1>4. ASSUME NEW w \in Works, Fetched(w) \/ Finished(w) \/ Refused(w) \/ DoneByCaller(w)
      PROVE  WaitInv'
  <2>1. /\ Keeps({w}) /\ SameQueues /\ (NoMoreFree \/ NothingToDo)
        /\ wst'[w] # "pending"
    BY <1>4 DEF Fetched, Finished, Refused, DoneByCaller, Seen, Busy
  <2> QED  BY <2>1, WaitSame
<1>5. ASSUME NEW v \in Works, NEW w \in Works, FinishedAndStarted(v, w)
      PROVE  WaitInv'
  <2>1. /\ Keeps({v, w}) /\ SameQueues /\ NoMoreFree
        /\ wst'[v] # "pending" /\ wst'[w] # "pending"
    BY <1>5 DEF FinishedAndStarted, Seen, Busy
  <2> QED  BY <2>1, WaitSame
<1>6. ASSUME NEW S \in SUBSET Works, Dropped(S)
      PROVE  WaitInv'
  <2>1. Keeps(S) /\ SameQueues /\ NoMoreFree /\ \A w \in S : wst'[w] # "pending"
    BY <1>6 DEF Dropped
  <2> QED  BY <2>1, WaitSame
<1> QED  BY <1>1, <1>2, <1>3, <1>4, <1>5, <1>6, WaitOfQueues DEF Kind

\* Nothing of a MultiThread queue waits while a thread is free, however works
\* are added, finished, moved to the front or dropped, and although the thread
\* that addWork takes from freethreads_ gets its work only after the unlock.
\* reportFinishedAndAskForMore frees a thread only after it has looked at all
\* of workload_, and addWork queues a work only when it finds no free thread,
\* both in the same critical section (threadwork.cc).
THEOREM MultiThreadNeverWaitsCorrect == Spec => []MultiThreadNeverWaits
<1>1. Init => WaitInv
  BY DEF Init, WaitInv
<1>2. Spec => [](Base /\ WaitInv)
  BY <1>1, BaseInit, BaseStep, WaitStep, PTL DEF Spec
<1>3. Base /\ WaitInv => MultiThreadNeverWaits
  <2> SUFFICES ASSUME Base, WaitInv
               PROVE  MultiThreadNeverWaits
    OBVIOUS
  <2>1. \A i \in DOMAIN workload : workload[i] \in Works /\ wst[workload[i]] = "pending"
    BY WorkloadElement DEF Base, IInv, KeptInv, PendingInv, TypeInv
  <2> QED  BY <2>1 DEF WaitInv, MultiThreadNeverWaits
<1> QED  BY <1>2, <1>3, PTL

-----------------------------------------------------------------------------
(***************************************************************************)
(* The order of the works of a SingleThread queue                          *)
(***************************************************************************)

\* No thread was chosen for these.
Unhanded == {"new", "held", "pending", "inline", "manual"}

HandedInv == \A w \in Works : wst[w] \in Unhanded => to[w] = None

\* What a step does to a work without a thread, and to one that is done.
Handed(w) ==
    /\ wst'[w] \in Unhanded => wst[w] \in Unhanded /\ to'[w] = to[w]
    /\ wst[w] \in {"inline", "manual"} => wst'[w] \in {wst[w], "done"}
    /\ wst[w] = "done" => wst'[w] = "done"
    /\ wst[w] \in {"inline", "manual", "done"} => to'[w] = to[w] /\ wq'[w] = wq[w]

\* One work changes, which is neither done nor done by a caller before.
LEMMA HandedOne ==
    ASSUME TypeInv, NEW w \in Works, NEW s, wst' = [wst EXCEPT ![w] = s],
           wst[w] \notin {"inline", "manual", "done"},
           s \in Unhanded => wst[w] \in Unhanded,
           \A v \in Works \ {w} : to'[v] = to[v] /\ wq'[v] = wq[v],
           s \in Unhanded => to'[w] = to[w]
    PROVE  \A v \in Works : Handed(v)
<1>1. \A v \in Works : wst'[v] = IF v = w THEN s ELSE wst[v]
  BY DEF TypeInv, TypeOK
<1> QED  BY <1>1 DEF Handed

LEMMA HandedSubmit ==
    ASSUME TypeInv, NEW t \in Threads, NEW w \in Works, NEW q \in Nat,
           NEW firstinline, NEW nodup, NEW force,
           Submit(t, w, q, firstinline, nodup, force), Fresh(w)
    PROVE  \A v \in Works : Handed(v)
<1>1. wst[w] \in {"new", "held"}
  BY DEF Fresh
<1>2. \A v \in Works \ {w} : wq'[v] = wq[v]
  BY DEF Submit, TypeInv, TypeOK
<1>3. CASE SubmitToFreeThread(t, w, q)
  <2>1. /\ wst' = [wst EXCEPT ![w] = "assigned"]
        /\ \A v \in Works \ {w} : to'[v] = to[v]
    BY <1>3 DEF SubmitToFreeThread, TypeInv, TypeOK
  <2> QED  BY <1>1, <1>2, <2>1, HandedOne DEF Unhanded
<1>4. CASE SubmitAlone(t, w)
  <2>1. PICK s : wst' = [wst EXCEPT ![w] = s]
    BY <1>4 DEF SubmitAlone
  <2> QED  BY <1>1, <1>2, <1>4, <2>1, HandedOne DEF SubmitAlone, Unhanded
<1> QED  BY <1>3, <1>4, SubmitCases

\* The end of a work that its caller has done.
LEMMA HandedDone ==
    ASSUME IInv, NEW t \in Threads,
           InlineDone(t) \/ DirectDone(t) \/ FirstDone(t) \/ SerialDone(t) \/ ManualDone(t)
    PROVE  \A v \in Works : Handed(v)
<1>1. TypeInv /\ KeptInv /\ to' = to /\ wq' = wq
  BY DEF IInv, InlineDone, DirectDone, FirstDone, SerialDone, ManualDone
<1>2. ASSUME NEW w \in Works, wst' = [wst EXCEPT ![w] = "done"]
      PROVE  \A v \in Works : Handed(v)
  <2>1. \A v \in Works : wst'[v] = IF v = w THEN "done" ELSE wst[v]
    BY <1>1, <1>2 DEF TypeInv, TypeOK
  <2> QED  BY <1>1, <2>1 DEF Handed, Unhanded
<1>3. ASSUME NEW w \in Works, NEW h \in Works, NEW s, w # h,
             wst' = [wst EXCEPT ![w] = "done", ![h] = s],
             wst[h] \in {"held", "pending"}, s \in {"serial", "manual"}
      PROVE  \A v \in Works : Handed(v)
  <2>1. \A v \in Works : wst'[v] = IF v = h THEN s ELSE IF v = w THEN "done" ELSE wst[v]
    BY <1>1, <1>3 DEF TypeInv, TypeOK
  <2>2. Handed(h)
    BY <1>1, <1>3, <2>1 DEF Handed, Unhanded
  <2>3. \A v \in Works \ {h} : Handed(v)
    BY <1>1, <2>1 DEF Handed, Unhanded
  <2> QED  BY <2>2, <2>3
<1>4. CASE InlineDone(t) \/ DirectDone(t) \/ FirstDone(t)
  BY <1>2, <1>4 DEF InlineDone, DirectDone, FirstDone
<1>5. CASE SerialDone(t)
  <2>1. PICK w \in Works, good \in BOOLEAN :
          LET b == IF batch[w] = None THEN w ELSE batch[w]
              more == good /\ exec[b].todo # <<>>
          IN  /\ wst[w] = "serial"
              /\ wst' = IF more
                        THEN [wst EXCEPT ![w] = "done",
                                         ![Head(exec[b].todo)] = "serial"]
                        ELSE [wst EXCEPT ![w] = "done"]
    BY <1>5, OutcomesType DEF SerialDone, Executing
  <2> DEFINE b == IF batch[w] = None THEN w ELSE batch[w]
             more == good /\ exec[b].todo # <<>>
             h == Head(exec[b].todo)
  <2>2. CASE ~more
    <3>1. wst' = [wst EXCEPT ![w] = "done"]
      BY <2>1, <2>2
    <3> QED  BY <1>2, <3>1
  <2>3. CASE more
    <3>1. b \in Works
      BY <1>1 DEF KeptInv, LeaderInv, Leader
    <3>2. h \in Works /\ wst[h] = "held"
      <4>1. exec[b].todo \in Seq(Works) /\ exec[b].todo # <<>>
        BY <1>1, <2>3, <3>1, TodoElement DEF TypeInv
      <4>2. 1 \in DOMAIN exec[b].todo /\ h = exec[b].todo[1] /\ h \in Works
        <5> HIDE DEF b
        <5> QED  BY <4>1, HeadTailProperties, EmptySeq, LenProperties, ElementOfSeq
      <4> QED  BY <1>1, <3>1, <4>2 DEF KeptInv, TodoInv
    <3>3. wst' = [wst EXCEPT ![w] = "done", ![h] = "serial"] /\ w # h
      BY <2>1, <2>3, <3>2
    <3> HIDE DEF h, b, more
    <3> QED  BY <1>3, <3>2, <3>3
  <2> QED  BY <2>2, <2>3
<1>6. CASE ManualDone(t)
  <2>1. PICK w \in Works :
          /\ wst[w] = "manual"
          /\ \/ \E i \in DOMAIN workload :
                  wst' = [wst EXCEPT ![w] = "done", ![workload[i]] = "manual"]
             \/ wst' = [wst EXCEPT ![w] = "done"]
    BY <1>6 DEF ManualDone, Executing
  <2>2. ASSUME NEW i \in DOMAIN workload,
               wst' = [wst EXCEPT ![w] = "done", ![workload[i]] = "manual"]
        PROVE  \A v \in Works : Handed(v)
    <3>1. workload[i] \in Works /\ wst[workload[i]] = "pending"
      BY <1>1, WorkloadElement DEF KeptInv, PendingInv, TypeInv
    <3> QED  BY <1>3, <2>1, <2>2, <3>1
  <2> QED  BY <1>2, <2>1, <2>2
<1> QED  BY <1>4, <1>5, <1>6

\* What a pool thread does to the works.
LEMMA HandedWorker ==
    ASSUME IInv, NEW x \in Workers, DoWork(x)
    PROVE  \A v \in Works : Handed(v)
<1>1. TypeInv /\ KeptInv /\ TaskOf(x) /\ (task[x] # None => task[x] \in Works)
  BY DEF IInv, HandInv, TaskInv, TypeInv, TypeOK
<1>2. CASE TakeTask(x) \/ TaskDone(x) \/ ReportIdle(x)
  <2>1. /\ task[x] \in Works
        /\ wst[task[x]] \in {"assigned", "task", "reporting"}
        /\ UNCHANGED <<wq, to>>
    <3>1. CASE TakeTask(x)
      BY <1>1, <3>1 DEF TakeTask, HasTask, TaskOf
    <3>2. CASE TaskDone(x)
      <4>1. wst[task[x]] = "task" /\ task[x] \in Works
        BY <1>1, <3>2, StackPop DEF TaskDone, Executing, TypeInv, Threads
      <4> QED  BY <3>2, <4>1 DEF TaskDone
    <3>3. CASE ReportIdle(x)
      BY <1>1, <3>3 DEF ReportIdle, TaskOf
    <3> QED  BY <1>2, <3>1, <3>2, <3>3
  <2>2. PICK s \in {"task", "reporting", "done"} : wst' = [wst EXCEPT ![task[x]] = s]
    BY <1>2 DEF TakeTask, TaskDone, ReportIdle
  <2>3. wst[task[x]] \notin {"inline", "manual", "done"} /\ s \notin Unhanded
    BY <2>1, <2>2 DEF Unhanded
  <2> QED  BY <1>1, <2>1, <2>2, <2>3, HandedOne
<1>3. CASE ReportNext(x)
  <2>1. PICK i \in DOMAIN workload :
          /\ wst' = [wst EXCEPT ![task[x]] = "done", ![workload[i]] = "task"]
          /\ to' = [to EXCEPT ![workload[i]] = x]
    BY <1>3 DEF ReportNext
  <2> DEFINE w == workload[i]
  <2>2. w \in Works /\ wst[w] = "pending" /\ wq' = wq
    BY <1>1, <1>3, WorkloadElement DEF KeptInv, PendingInv, TypeInv, ReportNext
  <2>3. task[x] \in Works /\ wst[task[x]] = "reporting"
    BY <1>1, <1>3 DEF ReportNext, TaskOf
  <2> HIDE DEF w
  <2>4. \A v \in Works : /\ wst'[v] = IF v = w THEN "task"
                                     ELSE IF v = task[x] THEN "done" ELSE wst[v]
                         /\ v # w => to'[v] = to[v]
    BY <1>1, <2>1, <2>2, <2>3 DEF w, TypeInv, TypeOK
  <2> QED  BY <2>2, <2>3, <2>4 DEF Handed, Unhanded
<1>4. CASE GoIdle(x) \/ Exit(x)
  BY <1>4 DEF GoIdle, Exit, workVars, Handed
<1> QED  BY <1>2, <1>3, <1>4 DEF DoWork

LEMMA HandedStep ==
    ASSUME Base, [Next]_vars
    PROVE  \A v \in Works : Handed(v)
<1>1. IInv /\ TypeInv /\ KeptInv /\ HandInv /\ PlaceInv
  BY DEF Base, IInv
<1>2. ASSUME UNCHANGED <<wst, to, wq>>
      PROVE  \A v \in Works : Handed(v)
  BY <1>2 DEF Handed
<1>3. ASSUME NEW t \in Threads,
             \/ \E w \in Works, q \in QueueIds, firstinline, nodup \in BOOLEAN :
                   \E force \in ForceChoices : AddWork(t, w, q, firstinline, nodup, force)
             \/ ExecuteWorkAdd(t)
      PROVE  \A v \in Works : Handed(v)
  BY <1>1, <1>3, Submitted, HandedSubmit
<1>4. ASSUME NEW S, \A w \in S : wst[w] = "pending",
             NEW s \in {"destroyed", "manual"}, UNCHANGED <<to, wq>>,
             \A w \in Works : wst'[w] = IF w \in S THEN s ELSE wst[w]
      PROVE  \A v \in Works : Handed(v)
  BY <1>4 DEF Handed, Unhanded
<1>5. \A i \in DOMAIN workload : workload[i] \in Works /\ wst[workload[i]] = "pending"
  BY <1>1, WorkloadElement DEF KeptInv, PendingInv, TypeInv
<1>6. ASSUME NEW t \in Threads, Calls(t)
      PROVE  \A v \in Works : Handed(v)
  <2>1. CASE \/ \E w \in Works : RemoveWork(t, w)
             \/ \E q \in QueueIds : ExecuteQueue(t, q)
    <3>1. PICK i \in DOMAIN workload, s \in {"destroyed", "manual"} :
            wst' = [wst EXCEPT ![workload[i]] = s]
      BY <2>1 DEF RemoveWork, ExecuteQueue
    <3>2. UNCHANGED <<to, wq>>
      BY <2>1 DEF RemoveWork, ExecuteQueue
    <3>3. \A w \in Works : wst'[w] = IF w \in {workload[i]} THEN s ELSE wst[w]
      BY <1>1, <3>1 DEF TypeInv, TypeOK
    <3> QED  BY <1>4, <1>5, <3>2, <3>3
  <2>2. ASSUME NEW s \in Batches, NEW q \in QueueIds, NEW firstinline \in BOOLEAN,
               ExecuteWork(t, s, q, firstinline)
        PROVE  \A v \in Works : Handed(v)
    <3>1. \A w \in ToSet(s) : w \in Works /\ wst[w] = "new"
      <4>1. q \in Nat
        BY ConstantAssumption DEF QueueIds
      <4> QED  BY <1>1, <2>2, <4>1, ExecuteWorkFacts
    <3>2. Head(s) \in ToSet(s)
      <4>1. q \in Nat
        BY ConstantAssumption DEF QueueIds
      <4> QED  BY <1>1, <2>2, <4>1, ExecuteWorkFacts
    <3>3. /\ to' = to
          /\ wst' = [w \in Works |-> IF w = Head(s) /\ Serial THEN "serial"
                                     ELSE IF w \in ToSet(s) THEN "held" ELSE wst[w]]
          /\ wq' = [w \in Works |-> IF w \in ToSet(s) THEN q ELSE wq[w]]
      BY <2>2 DEF ExecuteWork
    <3> QED  BY <3>1, <3>2, <3>3 DEF Handed, Unhanded
  <2>3. CASE \/ \E type \in QueueTypes : AddQueue(t, type)
             \/ \E q \in QueueIds, all \in BOOLEAN :
                   CallEmptyQueue(t, q, all) \/ CallRemoveQueue(t, q, all)
             \/ Shutdown(t)
    <3>1. UNCHANGED <<wst, to, wq>>
      BY <2>3 DEF AddQueue, CallEmptyQueue, CallRemoveQueue, Shutdown, workVars
    <3> QED  BY <1>2, <3>1
  <2> QED  BY <1>3, <1>6, <2>1, <2>2, <2>3 DEF Calls
<1>7. ASSUME NEW t \in Threads, Steps(t)
      PROVE  \A v \in Works : Handed(v)
  <2>1. CASE AssignTask(t)
    <3>1. task[to[cur[t]]] = None
      BY <1>1, <2>1 DEF AssignTask, HandInv, AssignInv, Assigning
    <3>2. UNCHANGED <<wst, to, wq>>
      BY <2>1, <3>1 DEF AssignTask
    <3> QED  BY <1>2, <3>2
  <2>2. CASE ExecuteWorkFirst(t)
    <3>1. /\ wst' = [wst EXCEPT ![cur[t]] = "first"] /\ wst[cur[t]] = "held"
          /\ UNCHANGED <<to, wq>>
      BY <1>1, <2>2 DEF ExecuteWorkFirst, PlaceInv, StageInv, StageOf
    <3>2. \A w \in Works : wst'[w] = IF w = cur[t] THEN "first" ELSE wst[w]
      BY <1>1, <3>1 DEF TypeInv, TypeOK
    <3> QED  BY <3>1, <3>2 DEF Handed, Unhanded
  <2>3. CASE EmptyQueueDrop(t)
    <3> DEFINE S == {w \in Works : w \in ToSet(workload) /\ wq[w] = op[t].q}
    <3>1. \A w \in S : wst[w] = "pending"
      BY <1>5 DEF ToSet
    <3>2. /\ \A w \in Works : wst'[w] = IF w \in S THEN "destroyed" ELSE wst[w]
          /\ UNCHANGED <<to, wq>>
      BY <2>3 DEF EmptyQueueDrop
    <3> HIDE DEF S
    <3> QED  BY <1>4, <3>1, <3>2
  <2>4. CASE \/ ExecuteWorkReturn(t) \/ EmptyQueueFinish(t) \/ RemoveQueue(t)
             \/ ShutdownQueue(t) \/ (\E x \in Workers : EraseThread(t, x))
             \/ EraseDone(t)
    <3>1. UNCHANGED <<wst, to, wq>>
      BY <2>4 DEF ExecuteWorkReturn, EmptyQueueFinish, RemoveQueue, ShutdownQueue,
         EraseThread, EraseDone, workVars
    <3> QED  BY <1>2, <3>1
  <2> QED  BY <1>1, <1>3, <1>7, <2>1, <2>2, <2>3, <2>4, HandedDone DEF Steps
<1>8. CASE UNCHANGED vars
  BY <1>2, <1>8 DEF vars, workVars
<1> QED  BY <1>1, <1>6, <1>7, <1>8, HandedWorker DEF Next, AtRest

LEMMA HandedInvStep == Base /\ HandedInv /\ [Next]_vars => HandedInv'
BY HandedStep DEF HandedInv, Handed

-----------------------------------------------------------------------------
\* A work of a SingleThread queue that nobody works on waits only if no thread
\* is free.  It holds as long as no caller has done a work of such a queue.
Order ==
    \A w \in Works, k \in DOMAIN queues :
        /\ wst[w] = "pending"
        /\ queues[k].id = wq[w]
        /\ queues[k].type = "SingleThread"
        /\ Working(wq[w]) = {}
        => freethreads = <<>>

OrderInv == NeverInline => Order

\* What a caller has done stays known as long as the queue does.
LEMMA InlineStays ==
    ASSUME Base, [Next]_vars, NeverInline'
    PROVE  NeverInline
<1>1. TypeInv /\ freeid \in Nat
  BY QueuesFacts DEF Base, IInv
<1>2. /\ freeid' \in Nat /\ freeid' >= freeid
      /\ \A k \in DOMAIN queues' :
           \/ queues'[k].id = freeid
           \/ \E j \in DOMAIN queues : /\ queues'[k].id = queues[j].id
                                       /\ queues'[k].type = queues[j].type
  <2>1. CASE \E t \in Threads : OfQueues(t)
    BY <1>1, <2>1, QueuesAfter
  <2>2. CASE \A t \in Threads : ~OfQueues(t)
    <3>1. SameQueues
      BY <2>2, KindOfStep, KindLive
    <3> QED  BY <1>1, <3>1 DEF SameQueues
  <2> QED  BY <2>1, <2>2
<1>3. ASSUME NEW w \in Works, to[w] = None, wst[w] \in {"inline", "done"}, wq[w] < freeid
      PROVE  \E j \in DOMAIN queues : queues[j].id = wq[w] /\ queues[j].type # "SingleThread"
  <2>1. wst'[w] \in {"inline", "done"} /\ to'[w] = to[w] /\ wq'[w] = wq[w]
    BY <1>3, HandedStep DEF Handed
  <2>2. wq[w] \in Nat
    BY <1>1 DEF TypeInv, TypeOK
  <2>3. wq'[w] < freeid'
    BY <1>1, <1>2, <1>3, <2>1, <2>2
  <2>4. PICK k \in DOMAIN queues' :
          queues'[k].id = wq'[w] /\ queues'[k].type # "SingleThread"
    BY <1>3, <2>1, <2>3 DEF NeverInline
  <2>5. queues'[k].id # freeid
    BY <1>1, <1>3, <2>1, <2>2, <2>4
  <2> QED  BY <1>2, <2>1, <2>4, <2>5
<1> QED  BY <1>3 DEF NeverInline

\* No queue loses a work that is being done, and no work comes to wait.
LEMMA OrderSame ==
    ASSUME Order, SameQueues, NoMoreFree, NEW S, Keeps(S),
           \A w \in Works \cap S :
              /\ wst'[w] # "pending"
              /\ wst[w] \in Busy => wst'[w] \in Busy /\ wq'[w] = wq[w]
    PROVE  Order'
<1>1. \A w \in Works : wst'[w] = "pending" => wst[w] = "pending" /\ wq'[w] = wq[w]
  BY DEF Keeps, Seen, Busy, Live
<1>2. \A w \in Works : wst[w] \in Busy => wst'[w] \in Busy /\ wq'[w] = wq[w]
  BY KeepsLive DEF Live
<1> SUFFICES ASSUME NEW w \in Works, NEW k \in DOMAIN queues', wst'[w] = "pending",
                    queues'[k].id = wq'[w], queues'[k].type = "SingleThread",
                    \A x \in Works : ~(wst'[x] \in Busy /\ wq'[x] = wq'[w])
             PROVE  freethreads' = <<>>
  BY DEF Order, Working
<1>4. /\ k \in DOMAIN queues /\ wst[w] = "pending" /\ wq'[w] = wq[w]
      /\ queues[k].id = wq[w] /\ queues[k].type = "SingleThread"
  BY <1>1 DEF SameQueues
<1>5. Working(wq[w]) = {}
  BY <1>2, <1>4 DEF Working
<1> QED  BY <1>4, <1>5 DEF Order, NoMoreFree

\* addWork lets a work wait.
LEMMA OrderAccepted ==
    ASSUME Base, Order, NEW v \in Works, NEW q \in Nat, Accepted(v, q)
    PROVE  Order'
<1>1. TypeInv /\ QueueInv /\ LoadInv
  BY DEF Base, IInv, LoadInv
<1>2. v \notin {x \in Works : wst[x] \in Busy} /\ wst'[v] = "pending" /\ wq'[v] = q
  BY DEF Accepted, Seen
<1>3. \A w \in Works : wst[w] \in Busy => wst'[w] \in Busy /\ wq'[w] = wq[w]
  BY <1>2, KeepsLive DEF Accepted, Live
<1> SUFFICES ASSUME NEW w \in Works, NEW k \in DOMAIN queues', wst'[w] = "pending",
                    queues'[k].id = wq'[w], queues'[k].type = "SingleThread",
                    \A x \in Works : ~(wst'[x] \in Busy /\ wq'[x] = wq'[w])
             PROVE  freethreads' = <<>>
  BY DEF Order, Working
<1>5. /\ k \in DOMAIN queues /\ queues[k].id = wq'[w]
      /\ queues[k].type = "SingleThread"
  BY DEF Accepted, SameQueues
<1>6. CASE w = v
  <2>1. Working(queues[k].id) = {}
    <3>1. \A x \in Works : ~(wst[x] \in Busy /\ wq[x] = wq'[w])
      BY <1>3
    <3> QED  BY <1>5, <3>1 DEF Working
  <2>2. queues[k].load = 0
    <3>1. queues[k].load = Cardinality(Working(queues[k].id))
      BY <1>1, <1>5 DEF LoadInv, LoadCount
    <3> QED  BY <2>1, <3>1, FS_EmptySet
  <2>3. IndexOf(q) = k
    BY <1>1, <1>2, <1>5, <1>6, IndexIs
  <2> QED  BY <1>5, <2>2, <2>3 DEF Accepted, CanStart
<1>7. CASE w # v
  <2>1. wst[w] = "pending" /\ wq'[w] = wq[w]
    BY <1>7, KeepsLive DEF Accepted, Live
  <2>2. Working(wq[w]) = {}
    BY <1>3, <2>1 DEF Working
  <2> QED  BY <1>5, <2>1, <2>2 DEF Order, Accepted, NoMoreFree
<1> QED  BY <1>6, <1>7

\* A work is done.  Either the thread that did it has looked for another one, or
\* its caller did it, and then it was not of a SingleThread queue.
LEMMA OrderFinished ==
    ASSUME Base, HandedInv, Order, [Next]_vars, NEW v \in Works, Finished(v),
           NeverInline'
    PROVE  Order'
<1>1. TypeInv /\ QueueInv
  BY DEF Base, IInv, LoadInv
<1>2. wst[v] \in Busy /\ wst'[v] = "done"
  BY DEF Finished, Seen, Busy
<1> SUFFICES ASSUME NEW w \in Works, NEW k \in DOMAIN queues', wst'[w] = "pending",
                    queues'[k].id = wq'[w], queues'[k].type = "SingleThread",
                    \A x \in Works : ~(wst'[x] \in Busy /\ wq'[x] = wq'[w])
             PROVE  freethreads' = <<>>
  BY DEF Order, Working
<1>3. /\ k \in DOMAIN queues /\ w # v /\ wst[w] = "pending" /\ wq'[w] = wq[w]
      /\ queues[k].id = wq[w] /\ queues[k].type = "SingleThread"
  <2>1. w # v
    BY <1>2
  <2> QED  BY <2>1, KeepsLive DEF Finished, Live, SameQueues
<1>4. Working(wq[w]) \subseteq {v}
  <2>1. \A x \in Works : x # v /\ wst[x] \in Busy => wst'[x] \in Busy /\ wq'[x] = wq[x]
    BY KeepsLive DEF Finished, Live
  <2> QED  BY <1>3, <2>1 DEF Working
<1>5. CASE NoMoreFree /\ wst[v] \in {"inline", "manual"}
  <2>1. CASE wq[v] = wq[w]
    <3>1. to'[v] = None /\ wq'[v] = wq[v] /\ wq'[v] < freeid'
      BY <1>1, <1>2, <1>5, HandedStep
      DEF Handed, HandedInv, Unhanded, QueueInv, Finished, SameQueues
    <3>2. PICK j \in DOMAIN queues' :
            queues'[j].id = wq'[v] /\ queues'[j].type # "SingleThread"
      BY <1>2, <3>1 DEF NeverInline
    <3>3. /\ j \in DOMAIN queues /\ queues[j].id = queues[k].id
          /\ queues[j].type # "SingleThread"
      BY <1>3, <2>1, <3>1, <3>2 DEF Finished, SameQueues
    <3>4. j = k
      BY <1>1, <1>3, <3>3 DEF QueueInv
    <3> QED  BY <1>3, <3>3, <3>4
  <2>2. CASE wq[v] # wq[w]
    <3>1. Working(wq[w]) = {}
      BY <1>4, <2>2 DEF Working
    <3> QED  BY <1>3, <1>5, <3>1 DEF Order, NoMoreFree
  <2> QED  BY <2>1, <2>2
<1>6. CASE NothingBehind(v)
  BY <1>3, <1>4, <1>6 DEF NothingBehind
<1> QED  BY <1>5, <1>6 DEF Finished

\* A thread goes on with another work.  If there is a free thread besides it,
\* nothing may be taken but what waited for the work it has done.
LEMMA OrderGoesOn ==
    ASSUME Base, WaitInv, Order, NEW v \in Works, NEW u \in Works,
           FinishedAndStarted(v, u)
    PROVE  Order'
<1>1. TypeInv /\ QueueInv
  BY DEF Base, IInv, LoadInv
<1>2. /\ wst[v] \in Busy /\ wst'[v] = "done"
      /\ wst[u] = "pending" /\ wst'[u] \in Busy /\ wq'[u] = wq[u]
  BY DEF FinishedAndStarted, Seen, Busy
<1> SUFFICES ASSUME NEW w \in Works, NEW k \in DOMAIN queues', wst'[w] = "pending",
                    queues'[k].id = wq'[w], queues'[k].type = "SingleThread",
                    \A x \in Works : ~(wst'[x] \in Busy /\ wq'[x] = wq'[w]),
                    freethreads' # <<>>
             PROVE  FALSE
  BY DEF Order, Working
<1>3. /\ k \in DOMAIN queues /\ wst[w] = "pending" /\ wq'[w] = wq[w]
      /\ queues[k].id = wq[w] /\ queues[k].type = "SingleThread"
      /\ freethreads # <<>>
  <2>1. w # v /\ w # u
    BY <1>2 DEF Busy
  <2> QED  BY <2>1, KeepsLive DEF FinishedAndStarted, Live, SameQueues, NoMoreFree
<1>4. \A x \in Works : x # v /\ wst[x] \in Busy => wst'[x] \in Busy /\ wq'[x] = wq[x]
  BY <1>2, KeepsLive DEF FinishedAndStarted, Live, Busy
<1>5. wq[u] # wq[w]
  <2>1. ~(wst'[u] \in Busy /\ wq'[u] = wq'[w])
    OBVIOUS
  <2> QED  BY <1>2, <1>3, <2>1
<1>6. wq[v] = wq[w]
  <2>1. Working(wq[w]) # {}
    BY <1>3 DEF Order
  <2> QED  BY <1>3, <1>4, <2>1 DEF Working
<1>7. PICK j \in DOMAIN queues :
        queues[j].id = wq[u] /\ (queues[j].type = "Manual" => wq[v] = wq[u])
  BY DEF FinishedAndStarted
<1>8. queues[j].type = "SingleThread"
  <2>1. queues[j].type \in {"MultiThread", "SingleThread", "Manual"}
    BY <1>1, QueuesFacts DEF Queue
  <2> QED  BY <1>2, <1>3, <1>5, <1>6, <1>7, <2>1 DEF WaitInv
<1>9. Working(wq[u]) \subseteq {v} /\ Working(wq[u]) # {}
  BY <1>2, <1>3, <1>7, <1>8 DEF FinishedAndStarted, Order
<1> QED  BY <1>5, <1>6, <1>9 DEF Working

LEMMA OrderOfQueues ==
    ASSUME Base, WaitInv, Order, NEW t \in Threads, OfQueues(t)
    PROVE  Order'
<1>1. TypeInv /\ freeid \in Nat
  BY QueuesFacts DEF Base, IInv
<1>2. \A w \in Works : /\ wst'[w] = "pending" => wst[w] = "pending" /\ wq'[w] = wq[w]
                       /\ wst[w] \in Busy => wst'[w] \in Busy /\ wq'[w] = wq[w]
  BY KeepsLive DEF OfQueues, Live
<1> SUFFICES ASSUME NEW w \in Works, NEW k \in DOMAIN queues', wst'[w] = "pending",
                    queues'[k].id = wq'[w], queues'[k].type = "SingleThread",
                    \A x \in Works : ~(wst'[x] \in Busy /\ wq'[x] = wq'[w])
             PROVE  freethreads' = <<>>
  BY DEF Order, Working
<1>3. wst[w] = "pending" /\ wq'[w] = wq[w] /\ wq[w] < freeid /\ wq[w] \in Nat
  BY <1>1, <1>2 DEF WaitInv, TypeInv, TypeOK
<1>4. PICK j \in DOMAIN queues : /\ queues'[k].id = queues[j].id
                                 /\ queues'[k].type = queues[j].type
  BY <1>1, <1>3, QueuesAfter
<1>5. Working(wq[w]) = {}
  BY <1>2, <1>3 DEF Working
<1> QED  BY <1>3, <1>4, <1>5 DEF Order, OfQueues, NoMoreFree

LEMMA OrderStep ==
    Base /\ WaitInv /\ HandedInv /\ OrderInv /\ [Next]_vars => OrderInv'
<1> SUFFICES ASSUME Base, WaitInv, HandedInv, OrderInv, [Next]_vars, NeverInline'
             PROVE  Order'
  BY DEF OrderInv
<1>1. Order
  BY InlineStays DEF OrderInv
<1>2. CASE Nothing
  BY <1>1, <1>2, OrderSame DEF Nothing
<1>3. ASSUME NEW w \in Works, NEW q \in Nat, Accepted(w, q) \/ Started(w, q)
      PROVE  Order'
  <2>1. CASE Started(w, q)
    <3>1. wst[w] \notin Busy /\ wst'[w] # "pending"
      BY <2>1 DEF Started, Seen, Busy
    <3> QED  BY <1>1, <2>1, <3>1, OrderSame DEF Started
  <2> QED  BY <1>1, <1>3, <2>1, OrderAccepted
<1>4. ASSUME NEW w \in Works, Fetched(w) \/ Finished(w) \/ Refused(w) \/ DoneByCaller(w)
      PROVE  Order'
  <2>1. CASE Finished(w)
    BY <1>1, <2>1, OrderFinished
  <2>2. CASE Fetched(w) \/ Refused(w) \/ DoneByCaller(w)
    <3>1. /\ Keeps({w}) /\ SameQueues /\ NoMoreFree
          /\ wst[w] \notin Busy /\ wst'[w] # "pending"
      BY <2>2 DEF Fetched, Refused, DoneByCaller, Seen, Busy
    <3> QED  BY <1>1, <3>1, OrderSame
  <2> QED  BY <1>4, <2>1, <2>2
<1>5. ASSUME NEW v \in Works, NEW w \in Works, FinishedAndStarted(v, w)
      PROVE  Order'
  BY <1>1, <1>5, OrderGoesOn
<1>6. ASSUME NEW S \in SUBSET Works, Dropped(S)
      PROVE  Order'
  <2>1. /\ Keeps(S) /\ SameQueues /\ NoMoreFree
        /\ \A w \in S : wst'[w] # "pending" /\ wst[w] \notin Busy
    BY <1>6 DEF Dropped, Busy
  <2> QED  BY <1>1, <2>1, OrderSame
<1>7. ASSUME NEW t \in Threads, OfQueues(t)
      PROVE  Order'
  BY <1>1, <1>7, OrderOfQueues
<1> QED  BY <1>2, <1>3, <1>4, <1>5, <1>6, <1>7, KindOfStep DEF Kind

\* The works of a SingleThread queue start in the order in which they wait, as
\* long as no work of such a queue was done by the thread that wanted to add it.
\* A pending work starts only if no other of its queue stands before it: the two
\* loops that start one, in reportFinishedAndAskForMore and in executeQueue,
\* look from the front.  A new work starts at once, on a free thread, only if
\* none of its queue waits: when the last thread of a queue reports back while a
\* thread is free, it takes a work of that queue itself, because nothing else
\* that may be taken can be waiting beside a free thread.
THEOREM SingleThreadInOrderCorrect == Spec => SingleThreadInOrder
<1> DEFINE InOrder ==
        \A w \in Works, k \in DOMAIN queues :
            /\ wst[w] \notin Busy
            /\ wst'[w] \in Busy
            /\ queues[k].id = wq'[w]
            /\ queues[k].type = "SingleThread"
            /\ NeverInline'
            => \A i \in DOMAIN workload : wq[workload[i]] = queues[k].id =>
                 \E j \in 1..i : workload[j] = w
           Inv == Base /\ WaitInv /\ HandedInv /\ OrderInv
<1>1. ASSUME Inv, [Next]_vars
      PROVE  InOrder
  <2> SUFFICES ASSUME NEW w \in Works, NEW k \in DOMAIN queues,
                      wst[w] \notin Busy, wst'[w] \in Busy,
                      queues[k].id = wq'[w], queues[k].type = "SingleThread",
                      NeverInline',
                      NEW i \in DOMAIN workload, wq[workload[i]] = queues[k].id
               PROVE  \E j \in 1..i : workload[j] = w
    OBVIOUS
  <2>1. TypeInv /\ QueueInv /\ LoadInv
    BY <1>1 DEF Base, IInv, LoadInv
  <2>2. workload[i] \in Works /\ wst[workload[i]] = "pending"
    BY <1>1, WorkloadElement DEF Base, IInv, KeptInv, PendingInv, TypeInv
  <2>3. CASE wst[w] = "pending"
    <3>1. FirstOfItsQueue(w) /\ wq'[w] = wq[w]
      <4>1. \A S : Keeps(S) => w \in S
        BY <2>3 DEF Keeps, Seen, Busy
      <4>2. Kind
        BY <1>1, KindOfStep
      <4>3. \A q : ~Accepted(w, q) /\ ~Started(w, q)
        BY <2>3 DEF Accepted, Started, Seen, Busy
      <4>4. ~Finished(w) /\ ~Refused(w) /\ ~DoneByCaller(w)
        BY <2>3 DEF Finished, Refused, DoneByCaller, Seen, Busy
      <4>5. \A v \in Works : /\ \A q : ~Accepted(v, q) /\ ~Started(v, q)
                             /\ ~Finished(v) /\ ~Refused(v) /\ ~DoneByCaller(v)
        BY <4>1, <4>3, <4>4 DEF Accepted, Started, Finished, Refused, DoneByCaller
      <4>6. \A S : ~Dropped(S)
        BY <4>1 DEF Dropped, Busy
      <4>7. ~Nothing /\ \A t \in Threads : ~OfQueues(t)
        BY <4>1 DEF Nothing, OfQueues
      <4>8. \A v \in Works : Fetched(v) => v = w
        BY <4>1 DEF Fetched
      <4>9. \A v, u \in Works : FinishedAndStarted(v, u) => u = w
        BY <2>3, <4>1 DEF FinishedAndStarted, Seen, Busy
      <4> QED  BY <4>2, <4>5, <4>6, <4>7, <4>8, <4>9 DEF Kind, Fetched, FinishedAndStarted
    <3>2. PICK m \in DOMAIN workload :
            workload[m] = w /\ \A j \in 1..m-1 : wq[workload[j]] # wq[w]
      BY <3>1 DEF FirstOfItsQueue
    <3>3. DOMAIN workload = 1..Len(workload) /\ Len(workload) \in Nat
      BY <2>1, LenProperties DEF TypeInv, TypeOK
    <3>4. i \notin 1..m-1
      BY <3>1, <3>2
    <3>5. m \in 1..i
      BY <3>3, <3>4
    <3> QED  BY <3>2, <3>5
  <2>4. CASE wst[w] # "pending"
    <3>1. Started(w, wq'[w])
      <4>1. \A S : Keeps(S) => w \in S
        BY <2>4, KeepsLive
      <4>2. Kind
        BY <1>1, KindOfStep
      <4>3. \A v \in Works : Fetched(v) \/ Finished(v) \/ Refused(v) \/ DoneByCaller(v)
                                => w = v
        BY <4>1 DEF Fetched, Finished, Refused, DoneByCaller
      <4>4. ~Fetched(w) /\ ~Finished(w) /\ ~Refused(w) /\ ~DoneByCaller(w)
        BY <2>4 DEF Fetched, Finished, Refused, DoneByCaller, Seen, Busy
      <4>5. \A v, u \in Works : ~FinishedAndStarted(v, u)
        BY <2>4, <4>1 DEF FinishedAndStarted, Seen, Busy
      <4>6. \A S : ~Dropped(S)
        BY <2>4, <4>1 DEF Dropped
      <4>7. ~Nothing /\ \A t \in Threads : ~OfQueues(t)
        BY <4>1 DEF Nothing, OfQueues
      <4>8. \A v \in Works, q \in Nat : Accepted(v, q) \/ Started(v, q) => v = w
        BY <4>1 DEF Accepted, Started
      <4>9. \A q \in Nat : ~Accepted(w, q)
        BY DEF Accepted, Busy
      <4>10. \E q \in Nat : Started(w, q)
        BY <4>2, <4>3, <4>4, <4>5, <4>6, <4>7, <4>8, <4>9 DEF Kind
      <4> QED  BY <4>10 DEF Started
    <3>2. IndexOf(wq'[w]) = k
      BY <2>1, IndexIs
    <3>3. Working(wq[workload[i]]) = {}
      BY <2>1, <3>1, <3>2, CountedNone DEF Started, CanStart
    <3>4. freethreads = <<>>
      BY <1>1, <2>2, <3>3, InlineStays DEF OrderInv, Order
    <3>5. wst'[w] = "inline" /\ to'[w] = None
      BY <1>1, <3>1, <3>4, HandedStep DEF Started, Handed, HandedInv, Unhanded
    <3>6. wq'[w] < freeid'
      BY <2>1, <3>1 DEF QueueInv, Started, SameQueues
    <3>7. PICK j \in DOMAIN queues' :
            queues'[j].id = wq'[w] /\ queues'[j].type # "SingleThread"
      BY <3>5, <3>6 DEF NeverInline
    <3>8. j = k
      BY <2>1, <3>1, <3>7 DEF QueueInv, Started, SameQueues
    <3> QED  BY <3>1, <3>7, <3>8 DEF Started, SameQueues
  <2> QED  BY <2>3, <2>4
<1>2. Init => Inv
  <2>1. Init => WaitInv /\ HandedInv /\ OrderInv
    BY DEF Init, WaitInv, HandedInv, OrderInv, Order
  <2> QED  BY <2>1, BaseInit
<1>3. Inv /\ [Next]_vars => Inv'
  BY BaseStep, WaitStep, HandedInvStep, OrderStep
<1> HIDE DEF Inv
<1>4. Spec => []Inv
  BY <1>2, <1>3, PTL DEF Spec
<1>5. Spec => [][InOrder]_vars
  BY <1>1, <1>4, PTL DEF Spec
<1> QED  BY <1>5 DEF SingleThreadInOrder

-----------------------------------------------------------------------------
(***************************************************************************)
(* Queues that are closed.  removeQueue keeps, between its two critical    *)
(* sections, the index of its queue; another removeQueue in between may    *)
(* move that index, or remove the queue that an emptyQueue is looking at.  *)
(* What follows holds for any number of threads that add, empty and remove *)
(* queues and shut down, as long as no queue goes in the wrong moment.     *)
(***************************************************************************)
InClose == {"empty", "remove", "rewait"}
InShutdown == {"shutdown", "erase"}

NoQueue == DOMAIN queues = {}

\* No step removes a queue that another thread is still emptying or removing,
\* or one that stands before the queue of which another removeQueue has the
\* index.  The index is used for the last time in the first test of the loop of
\* removeQueue (threadwork.cc:468); after a wait it is looked up.
ClosersApart ==
    \A t \in Threads : RemoveQueue(t) /\ queues' # queues =>
        \A u \in Threads \ {t} : pc[u] \in InClose =>
            /\ op[u].q # op[t].q
            /\ op[u].remove /\ pc[u] # "rewait" => op[u].idx < IndexOf(op[t].q)

\* One thread does all of it.
OneCloser == \A t, u \in Removers \cup Shutters : t = u

\* Where a thread is that closes a queue: the queue exists, nothing of it is
\* pending once it has been emptied, and a removeQueue holds its index.
CallOf(t) ==
    /\ pc[t] \in InClose \cup InShutdown \/ op[t].remove \/ op[t].down
         => t \in Removers \cup Shutters
    /\ pc[t] \in InClose =>
         \E i \in DOMAIN queues : /\ queues[i].id = op[t].q
                                  /\ op[t].remove => queues[i].closing
    /\ op[t].remove => pc[t] \in InClose
    /\ op[t].remove /\ pc[t] # "rewait" =>
         op[t].idx \in DOMAIN queues /\ queues[op[t].idx].id = op[t].q
    /\ pc[t] \in {"remove", "rewait"} =>
         /\ op[t].remove
         /\ \A w \in Works : ~(wst[w] = "pending" /\ wq[w] = op[t].q)
    /\ op[t].down /\ pc[t] \in InClose => op[t].remove
    /\ pc[t] \in InShutdown => op[t].down
    /\ op[t].down /\ pc[t] \notin InClose \cup {"shutdown"} => NoQueue

CallInv == \A t \in Threads : CallOf(t)

\* A pool thread is told to exit when no queue is left, and only then exits.
ExitInv ==
    \A x \in Workers : /\ exitflag[x] => NoQueue /\ \E u \in Threads : op[u].down
                       /\ pc[x] = "exited" => exitflag[x]

CloseInv == CallInv /\ ExitInv /\ RemovedQueueIsQuiet /\ SubscriptsAreValid

\* A queue keeps its index.
Stays(i) ==
    /\ i \in DOMAIN queues'
    /\ queues'[i].id = queues[i].id
    /\ queues[i].closing => queues'[i].closing

\* A thread is where it was, while another one closes a queue.
LEMMA CallOfOther ==
    ASSUME NEW u \in Threads, CallOf(u), pc'[u] = pc[u], op'[u] = op[u],
           \A w \in Works : wst'[w] = "pending" => wst[w] = "pending" /\ wq'[w] = wq[w],
           op[u].down /\ NoQueue => NoQueue',
           pc[u] \in InClose => \A i \in DOMAIN queues : queues[i].id = op[u].q =>
              /\ \E j \in DOMAIN queues' : /\ queues'[j].id = op[u].q
                                           /\ queues[i].closing => queues'[j].closing
              /\ op[u].remove /\ pc[u] # "rewait" /\ i = op[u].idx => Stays(i)
    PROVE  CallOf(u)'
<1>1. pc'[u] \in InClose =>
        \E i \in DOMAIN queues' : /\ queues'[i].id = op'[u].q
                                  /\ op'[u].remove => queues'[i].closing
  BY DEF CallOf
<1>2. op'[u].remove /\ pc'[u] # "rewait" =>
        op'[u].idx \in DOMAIN queues' /\ queues'[op'[u].idx].id = op'[u].q
  BY DEF CallOf, Stays
<1>3. pc'[u] \in {"remove", "rewait"} =>
        /\ op'[u].remove
        /\ \A w \in Works : ~(wst'[w] = "pending" /\ wq'[w] = op'[u].q)
  BY DEF CallOf
<1>4. op'[u].down /\ pc'[u] \notin InClose \cup {"shutdown"} => NoQueue'
  BY DEF CallOf
<1> QED  BY <1>1, <1>2, <1>3, <1>4 DEF CallOf, InClose, InShutdown

\* One of the closers acts, and every queue keeps its index.
LEMMA CallOfCloser ==
    ASSUME CallInv, NEW t \in Threads,
           \A u \in Threads \ {t} : pc'[u] = pc[u] /\ op'[u] = op[u],
           \A w \in Works : wst'[w] = "pending" => wst[w] = "pending" /\ wq'[w] = wq[w],
           \A i \in DOMAIN queues : Stays(i),
           (\E u \in Threads : op[u].down) => DOMAIN queues' = DOMAIN queues,
           CallOf(t)'
    PROVE  CallInv'
<1>1. ASSUME NEW u \in Threads, u # t
      PROVE  CallOf(u)'
  <2>1. CallOf(u) /\ pc'[u] = pc[u] /\ op'[u] = op[u]
    BY <1>1 DEF CallInv
  <2>2. op[u].down /\ NoQueue => NoQueue'
    BY DEF NoQueue
  <2>3. \A i \in DOMAIN queues : queues[i].id = op[u].q =>
          /\ \E j \in DOMAIN queues' : /\ queues'[j].id = op[u].q
                                       /\ queues[i].closing => queues'[j].closing
          /\ Stays(i)
    BY DEF Stays
  <2> QED  BY <2>1, <2>2, <2>3, CallOfOther
<1> QED  BY <1>1 DEF CallInv

LEMMA SameQueuesStay ==
    ASSUME queues' = queues
    PROVE  (\A i \in DOMAIN queues : Stays(i)) /\ DOMAIN queues' = DOMAIN queues
BY DEF Stays

LEMMA ClosedQueueStays ==
    ASSUME TypeInv, NEW k \in DOMAIN queues, queues' = [queues EXCEPT ![k].closing = TRUE]
    PROVE  /\ \A i \in DOMAIN queues : Stays(i)
           /\ DOMAIN queues' = DOMAIN queues
BY QueueClosed DEF Stays

\* Somebody else acts, or the closer in between.
Elsewhere ==
    /\ op' = op
    /\ \A u \in Threads : \/ pc'[u] = pc[u]
                          \/ pc[u] \notin InClose \cup InShutdown
                             /\ pc'[u] \notin InClose \cup InShutdown
    /\ \A x \in Workers : pc'[x] = "exited" => pc[x] = "exited" \/ exitflag[x]

LEMMA CallElsewhere ==
    ASSUME Base, CallInv, SameQueues, Elsewhere,
           \A w \in Works : wst'[w] = "pending" =>
              (wst[w] = "pending" /\ wq'[w] = wq[w]) \/ Open(wq'[w])
    PROVE  CallInv'
<1> SUFFICES ASSUME NEW t \in Threads
             PROVE  CallOf(t)'
  BY DEF CallInv
<1>1. QueueInv
  BY DEF Base, IInv, LoadInv
<1>2. CallOf(t) /\ op'[t] = op[t]
  BY DEF CallInv, Elsewhere
<1>3. op[t].remove => ~Open(op[t].q)
  BY <1>1, <1>2 DEF CallOf, Open, QueueInv
<1>4. NoQueue' <=> NoQueue
  BY DEF NoQueue, SameQueues
<1>5. CASE pc'[t] = pc[t]
  <2>1. pc'[t] \in InClose =>
          \E i \in DOMAIN queues' : /\ queues'[i].id = op'[t].q
                                    /\ op'[t].remove => queues'[i].closing
    BY <1>2, <1>5 DEF CallOf, SameQueues
  <2>2. pc'[t] \in {"remove", "rewait"} =>
          /\ op'[t].remove
          /\ \A w \in Works : ~(wst'[w] = "pending" /\ wq'[w] = op'[t].q)
    BY <1>2, <1>3, <1>5 DEF CallOf
  <2>3. op'[t].remove /\ pc'[t] # "rewait" =>
          op'[t].idx \in DOMAIN queues' /\ queues'[op'[t].idx].id = op'[t].q
    BY <1>2, <1>5 DEF CallOf, SameQueues
  <2> QED  BY <1>2, <1>4, <1>5, <2>1, <2>2, <2>3 DEF CallOf
<1>6. CASE pc[t] \notin InClose \cup InShutdown /\ pc'[t] \notin InClose \cup InShutdown
  BY <1>2, <1>4, <1>6 DEF CallOf, InClose, InShutdown
<1> QED  BY <1>5, <1>6 DEF Elsewhere

\* The actions that are elsewhere.
LEMMA AddElsewhere ==
    ASSUME TypeInv, NEW t \in Threads,
           \/ \E w \in Works, q \in Nat, firstinline, nodup, force \in BOOLEAN :
                 Submit(t, w, q, firstinline, nodup, force) /\ pc[t] \in {"run", "exec"}
           \/ \E s \in Batches, q \in QueueIds, firstinline \in BOOLEAN :
                 ExecuteWork(t, s, q, firstinline)
           \/ (\E w \in Works : RemoveWork(t, w))
           \/ (\E q \in QueueIds : ExecuteQueue(t, q))
           \/ AssignTask(t) \/ InlineDone(t) \/ DirectDone(t) \/ ExecuteWorkFirst(t)
           \/ FirstDone(t) \/ ExecuteWorkReturn(t) \/ SerialDone(t) \/ ManualDone(t)
    PROVE  Elsewhere
<1> DEFINE Away == {"run", "exec", "assign", "execwait"}
<1>1. ASSUME op' = op, pc' = pc \/ (pc[t] \in Away /\ \E p \in Away : pc' = [pc EXCEPT ![t] = p])
      PROVE  Elsewhere
  BY <1>1 DEF Elsewhere, InClose, InShutdown, TypeInv, TypeOK, Threads
<1>2. \A w : ReturnAfter(t, w) => \E p \in Away : pc' = [pc EXCEPT ![t] = p]
  BY DEF ReturnAfter
<1>3. ASSUME NEW w \in Works, NEW q \in Nat, NEW firstinline, NEW nodup, NEW force,
             Submit(t, w, q, firstinline, nodup, force), pc[t] \in {"run", "exec"}
      PROVE  Elsewhere
  <2>1. op' = op
    BY <1>3 DEF Submit
  <2>2. \/ \E p \in Away : pc' = [pc EXCEPT ![t] = p]
        \/ ReturnAfter(t, w)
    BY <1>3 DEF Submit, SubmitDirect, SubmitRejected, SubmitIgnored, SubmitToFreeThread,
       SubmitInline, SubmitQueued
  <2> QED  BY <1>1, <1>2, <1>3, <2>1, <2>2
<1>4. CASE \E s \in Batches, q \in QueueIds, firstinline \in BOOLEAN :
             ExecuteWork(t, s, q, firstinline)
  <2>1. /\ op' = op /\ pc[t] = "run"
        /\ pc' = [pc EXCEPT ![t] = IF Serial THEN "run" ELSE "exec"]
    BY <1>4 DEF ExecuteWork
  <2> QED  BY <1>1, <2>1
<1>5. CASE \/ (\E w \in Works : RemoveWork(t, w))
           \/ (\E q \in QueueIds : ExecuteQueue(t, q))
           \/ SerialDone(t) \/ ManualDone(t)
  <2>1. op' = op /\ pc' = pc
    BY <1>5 DEF RemoveWork, ExecuteQueue, SerialDone, ManualDone, threadVars
  <2> QED  BY <1>1, <2>1
<1>6. CASE AssignTask(t)
  <2>1. op' = op /\ pc[t] = "assign" /\ ReturnAfter(t, cur[t])
    BY <1>6 DEF AssignTask
  <2> QED  BY <1>1, <1>2, <2>1
<1>7. CASE InlineDone(t) \/ DirectDone(t)
  <2>1. op' = op /\ pc[t] = "run" /\ \E w \in Works : ReturnAfter(t, w)
    BY <1>7 DEF InlineDone, DirectDone, Executing
  <2> QED  BY <1>1, <1>2, <2>1
<1>8. CASE ExecuteWorkFirst(t) \/ FirstDone(t) \/ ExecuteWorkReturn(t)
  <2>1. /\ op' = op /\ pc[t] \in Away
        /\ \E p \in Away : pc' = [pc EXCEPT ![t] = p]
    BY <1>8 DEF ExecuteWorkFirst, FirstDone, ExecuteWorkReturn, Executing
  <2> QED  BY <1>1, <2>1
<1> QED  BY <1>3, <1>4, <1>5, <1>6, <1>7, <1>8

LEMMA DoWorkElsewhere ==
    ASSUME TypeInv, NEW x \in Workers, DoWork(x)
    PROVE  Elsewhere
<1>1. x \in Threads
  BY DEF Threads
<1>2. /\ op' = op
      /\ pc[x] \in {"wait", "run", "report", "idle"}
      /\ \E p \in {"wait", "run", "report", "idle", "exited"} :
            pc' = [pc EXCEPT ![x] = p] /\ (p = "exited" => exitflag[x])
  BY DEF DoWork, TakeTask, TaskDone, ReportIdle, ReportNext, GoIdle, Exit, Executing
<1> QED  BY <1>1, <1>2 DEF Elsewhere, InClose, InShutdown, TypeInv, TypeOK, Threads

\* A thread starts to close a queue.
LEMMA CallStarts ==
    ASSUME Base, CallInv, NEW t \in Threads, NEW q, NEW all,
           CallEmptyQueue(t, q, all) \/ CallRemoveQueue(t, q, all)
    PROVE  CallInv'
<1> DEFINE i == IndexOf(q)
<1>1. TypeInv
  BY DEF Base, IInv
<1>2. /\ i \in DOMAIN queues /\ queues[i].id = q
      /\ t \in Removers /\ pc[t] = "run"
  BY <1>1, MayCloseFacts DEF CallEmptyQueue, CallRemoveQueue
<1>3. wst' = wst /\ wq' = wq
  BY DEF CallEmptyQueue, CallRemoveQueue, workVars
<1>4. /\ pc'[t] = "empty" /\ op'[t].q = q /\ ~op'[t].down
      /\ \A u \in Threads \ {t} : pc'[u] = pc[u] /\ op'[u] = op[u]
  <2>1. /\ pc'[t] = "empty"
        /\ \A u \in Threads \ {t} : pc'[u] = pc[u] /\ op'[u] = op[u]
    BY <1>1 DEF CallEmptyQueue, CallRemoveQueue, TypeInv, TypeOK
  <2>2. \/ op'[t] = [NoCall EXCEPT !.q = q, !.all = all]
        \/ op'[t] = [NoCall EXCEPT !.q = q, !.idx = i, !.all = all, !.remove = TRUE]
    BY <1>1 DEF CallEmptyQueue, CallRemoveQueue, TypeInv, TypeOK
  <2> HIDE DEF i
  <2>3. op'[t].q = q /\ ~op'[t].down
    BY <2>2 DEF NoCall
  <2> QED  BY <2>1, <2>3
<1>5. CASE CallEmptyQueue(t, q, all)
  <2>1. ~op'[t].remove
    BY <1>1, <1>5 DEF CallEmptyQueue, NoCall, TypeInv, TypeOK
  <2>2. queues' = queues
    BY <1>5 DEF CallEmptyQueue, poolVars
  <2>3. CallOf(t)'
    BY <1>2, <1>4, <2>1, <2>2 DEF CallOf, InClose, InShutdown
  <2> QED  BY <1>3, <1>4, <2>2, <2>3, SameQueuesStay, CallOfCloser
<1>6. CASE CallRemoveQueue(t, q, all)
  <2>1. op'[t].remove /\ op'[t].idx = i
    BY <1>1, <1>6 DEF CallRemoveQueue, NoCall, TypeInv, TypeOK
  <2>2. queues' = [queues EXCEPT ![i].closing = TRUE]
    BY <1>6 DEF CallRemoveQueue
  <2> HIDE DEF i
  <2>3. i \in DOMAIN queues' /\ queues'[i].id = q /\ queues'[i].closing
    BY <1>1, <1>2, <2>2, QueueClosed
  <2>4. CallOf(t)'
    BY <1>2, <1>4, <2>1, <2>3 DEF CallOf, InClose, InShutdown
  <2> QED  BY <1>1, <1>2, <1>3, <1>4, <2>2, <2>4, ClosedQueueStays, CallOfCloser
<1> QED  BY <1>5, <1>6

LEMMA AddQueueCall ==
    ASSUME Base, CallInv, NEW t \in Threads, NEW type \in QueueTypes,
           AddQueue(t, type)
    PROVE  CallInv'
<1>1. /\ TypeInv /\ t \in Removers /\ pc[t] = "run" /\ ~op[t].down
      /\ pc' = pc /\ op' = op /\ wst' = wst /\ wq' = wq
      /\ \A u \in Threads : ~op[u].down
  BY DEF AddQueue, threadVars, workVars, Base, IInv
<1>2. ~op[t].remove
  BY <1>1 DEF CallInv, CallOf, InClose
<1>3. CallOf(t)'
  BY <1>1, <1>2 DEF CallOf, InClose, InShutdown
<1>4. \A i \in DOMAIN queues : Stays(i)
  BY <1>1, QueueAdded DEF Stays
<1> QED  BY <1>1, <1>3, <1>4, CallOfCloser

\* emptyQueue has found its queue empty, or has emptied it.
LEMMA CallEmptied ==
    ASSUME Base, CallInv, NEW t \in Threads, pc[t] = "empty",
           AfterEmptyQueue(t), queues' = queues,
           \A w \in Works : wst'[w] = "pending" => wst[w] = "pending" /\ wq'[w] = wq[w],
           \A w \in Works : ~(wst'[w] = "pending" /\ wq'[w] = op[t].q)
    PROVE  CallInv' /\ op'[t].down = op[t].down
<1>1. TypeInv /\ CallOf(t)
  BY DEF Base, IInv, CallInv
<1>2. t \in Removers \cup Shutters
  BY <1>1 DEF CallOf, InClose
<1>3. \A u \in Threads \ {t} : pc'[u] = pc[u] /\ op'[u] = op[u]
  BY <1>1 DEF AfterEmptyQueue, TypeInv, TypeOK
<1>4. CASE op[t].remove
  <2>1. pc'[t] = "remove" /\ op'[t] = op[t]
    BY <1>1, <1>4 DEF AfterEmptyQueue, TypeInv, TypeOK
  <2>2. CallOf(t)'
    BY <1>1, <1>2, <1>4, <2>1 DEF CallOf, InClose, InShutdown
  <2> QED  BY <1>3, <2>1, <2>2, SameQueuesStay, CallOfCloser
<1>5. CASE ~op[t].remove
  <2>1. pc'[t] = "run" /\ op'[t] = NoCall
    BY <1>1, <1>5 DEF AfterEmptyQueue, TypeInv, TypeOK
  <2>2. ~op[t].down /\ ~NoCall.remove /\ ~NoCall.down
    BY <1>1, <1>5 DEF CallOf, InClose, NoCall
  <2>3. CallOf(t)'
    BY <2>1, <2>2 DEF CallOf, InClose, InShutdown
  <2>4. op'[t].down = op[t].down
    <3>1. op[t] \in Call /\ op[t].down \in BOOLEAN
      BY <1>1 DEF TypeInv, TypeOK, Call
    <3>2. op[t].down = FALSE /\ NoCall.down = FALSE
      BY <2>2, <3>1 DEF NoCall
    <3> QED  BY <2>1, <3>2
  <2> QED  BY <1>3, <2>3, <2>4, SameQueuesStay, CallOfCloser
<1> QED  BY <1>4, <1>5

LEMMA EmptyQueueCall ==
    ASSUME Base, CallInv, NEW t \in Threads,
           EmptyQueueFinish(t) \/ EmptyQueueDrop(t)
    PROVE  CallInv' /\ op'[t].down = op[t].down /\ \A u \in Threads \ {t} : op'[u] = op[u]
<1>1. TypeInv /\ ListInv /\ PendingInv
  BY DEF Base, IInv, KeptInv
<1>2. pc[t] = "empty" /\ queues' = queues
  BY DEF EmptyQueueFinish, EmptyQueueDrop, poolVars
<1>3. CASE UNCHANGED <<pc, op, wst, wq>>
  BY <1>2, <1>3 DEF CallInv, CallOf, NoQueue
<1>4. CASE AfterEmptyQueue(t) /\ wst' = wst /\ wq' = wq /\ ~HasPending(op[t].q)
  <2>1. \A w \in Works : ~(wst'[w] = "pending" /\ wq'[w] = op[t].q)
    BY <1>1, <1>4 DEF HasPending, ListInv
  <2>2. \A u \in Threads \ {t} : op'[u] = op[u]
    BY <1>1, <1>4 DEF AfterEmptyQueue, TypeInv, TypeOK
  <2> QED  BY <1>2, <1>4, <2>1, <2>2, CallEmptied
<1>5. CASE EmptyQueueDrop(t)
  <2>1. /\ wst' = [w \in Works |-> IF w \in ToSet(workload) /\ wq[w] = op[t].q
                                   THEN "destroyed" ELSE wst[w]]
        /\ wq' = wq /\ AfterEmptyQueue(t)
    BY <1>5 DEF EmptyQueueDrop
  <2>2. \A w \in Works : ~(wst'[w] = "pending" /\ wq'[w] = op[t].q)
    BY <1>1, <2>1 DEF ListInv, ToSet
  <2>3. \A u \in Threads \ {t} : op'[u] = op[u]
    BY <1>1, <2>1 DEF AfterEmptyQueue, TypeInv, TypeOK
  <2>4. \A w \in Works : wst'[w] = "pending" => wst[w] = "pending" /\ wq'[w] = wq[w]
    BY <2>1
  <2> QED  BY <1>2, <2>1, <2>2, <2>3, <2>4, CallEmptied
<1> QED  BY <1>3, <1>4, <1>5 DEF EmptyQueueFinish, workVars

\* The index that removeQueue kept is that of its queue, which counts nothing
\* when it is removed, and nobody is left that could add to it.
LEMMA RemoveQueueFacts ==
    ASSUME Base, CallInv, NEW t \in Threads, RemoveQueue(t)
    PROVE  LET k == IndexOf(op[t].q) IN
           /\ t \in Removers \cup Shutters
           /\ k \in DOMAIN queues /\ queues[k].id = op[t].q /\ queues[k].closing
           /\ alarms' = alarms
           /\ \/ UNCHANGED <<queues, op>> /\ pc' = [pc EXCEPT ![t] = "rewait"]
              \/ /\ queues' = RemoveAt(queues, k)
                 /\ pc' = [pc EXCEPT ![t] = IF op[t].down THEN "shutdown" ELSE "run"]
                 /\ op' = [op EXCEPT ![t] = [NoCall EXCEPT !.down = op[t].down]]
                 /\ Working(op[t].q) = {}
                 /\ \A w \in Works : ~(wst[w] = "pending" /\ wq[w] = op[t].q)
<1> DEFINE k == IndexOf(op[t].q)
           i == IF pc[t] = "remove" THEN op[t].idx ELSE k
<1>1. TypeInv /\ QueueInv /\ LoadInv /\ CallOf(t)
  BY DEF Base, IInv, LoadInv, CallInv
<1>2. pc[t] \in {"remove", "rewait"} /\ op[t].remove
  BY <1>1 DEF RemoveQueue, CallOf
<1>3. /\ t \in Removers \cup Shutters
      /\ \A w \in Works : ~(wst[w] = "pending" /\ wq[w] = op[t].q)
      /\ pc[t] = "remove" =>
           op[t].idx \in DOMAIN queues /\ queues[op[t].idx].id = op[t].q
  BY <1>1, <1>2 DEF CallOf
<1>4. PICK m \in DOMAIN queues : queues[m].id = op[t].q /\ queues[m].closing
  BY <1>1, <1>2 DEF CallOf, InClose
<1>5. i = k /\ k \in DOMAIN queues /\ queues[k].id = op[t].q /\ queues[k].closing
  <2>1. k = m
    BY <1>1, <1>4, IndexIs
  <2>2. pc[t] = "remove" => op[t].idx = k
    BY <1>1, <1>3, IndexIs
  <2> QED  BY <1>4, <2>1, <2>2
<1>6. k # 0
  BY <1>1, <1>5, QueuesFacts
<1>7. SubscriptAlarm(k) = {} /\ LoadIsNonZero(k) = {queues[k].load # 0}
  BY <1>5 DEF SubscriptAlarm, LoadIsNonZero
<1>8. PICK busy \in LoadIsNonZero(i) :
        IF busy
        THEN /\ pc' = [pc EXCEPT ![t] = "rewait"]
             /\ alarms' = alarms \cup SubscriptAlarm(i)
             /\ UNCHANGED <<queues, op>>
        ELSE /\ queues' = IF k = 0 THEN queues ELSE RemoveAt(queues, k)
             /\ pc' = [pc EXCEPT ![t] = IF op[t].down THEN "shutdown" ELSE "run"]
             /\ op' = [op EXCEPT ![t] = [NoCall EXCEPT !.down = op[t].down]]
             /\ alarms' = alarms \cup SubscriptAlarm(i) \cup SubscriptAlarm(k)
  BY DEF RemoveQueue
<1>9. ~busy => Working(op[t].q) = {}
  <2>1. busy \in LoadIsNonZero(k)
    BY <1>5, <1>8
  <2>2. busy = (queues[k].load # 0)
    BY <1>7, <2>1
  <2>3. ~busy => queues[k].load = 0
    BY <2>2
  <2> QED  BY <1>1, <1>5, <2>3, CountedNone
<1> HIDE DEF k, i
<1>10. alarms' = alarms
  BY <1>5, <1>7, <1>8
<1> QED  BY <1>3, <1>5, <1>6, <1>8, <1>9, <1>10 DEF k

\* Only what ClosersApart excludes would spoil the call of another thread.
LEMMA RemoveQueueCall ==
    ASSUME ClosersApart, Base, CallInv, NEW t \in Threads, RemoveQueue(t)
    PROVE  CallInv' /\ op'[t].down = op[t].down /\ \A u \in Threads \ {t} : op'[u] = op[u]
<1> DEFINE k == IndexOf(op[t].q)
<1>1. TypeInv /\ CallOf(t) /\ pc[t] \in {"remove", "rewait"} /\ UNCHANGED <<wst, wq>>
  BY DEF Base, IInv, CallInv, RemoveQueue, workVars
<1>2. t \in Removers \cup Shutters /\ k \in DOMAIN queues /\ queues[k].id = op[t].q
  BY RemoveQueueFacts
<1>3. CASE UNCHANGED <<queues, op>> /\ pc' = [pc EXCEPT ![t] = "rewait"]
  <2>1. pc'[t] = "rewait" /\ \A u \in Threads \ {t} : pc'[u] = pc[u]
    BY <1>1, <1>3 DEF TypeInv, TypeOK
  <2>2. CallOf(t)'
    BY <1>1, <1>3, <2>1 DEF CallOf, InClose, InShutdown
  <2> QED  BY <1>1, <1>3, <2>1, <2>2, SameQueuesStay, CallOfCloser
<1>4. CASE /\ queues' = RemoveAt(queues, k)
           /\ pc' = [pc EXCEPT ![t] = IF op[t].down THEN "shutdown" ELSE "run"]
           /\ op' = [op EXCEPT ![t] = [NoCall EXCEPT !.down = op[t].down]]
  <2>1. /\ pc'[t] = IF op[t].down THEN "shutdown" ELSE "run"
        /\ op'[t] = [NoCall EXCEPT !.down = op[t].down]
        /\ \A u \in Threads \ {t} : pc'[u] = pc[u] /\ op'[u] = op[u]
    BY <1>1, <1>4 DEF TypeInv, TypeOK
  <2>2. op'[t].down = op[t].down /\ ~op'[t].remove
    BY <2>1 DEF NoCall
  <2>3. CallOf(t)'
    BY <1>2, <2>1, <2>2 DEF CallOf, InClose, InShutdown
  <2>4. ASSUME NEW u \in Threads, u # t
        PROVE  CallOf(u)'
    <3>1. CallOf(u) /\ pc'[u] = pc[u] /\ op'[u] = op[u] /\ ~NoQueue
      BY <1>2, <2>1, <2>4 DEF CallInv, NoQueue
    <3>2. pc[u] \in InClose =>
            /\ op[u].q # op[t].q
            /\ op[u].remove /\ pc[u] # "rewait" => op[u].idx < k
      BY <1>1, <1>2, <1>4, <2>4, QueueRemoved DEF ClosersApart
    <3>3. ASSUME pc[u] \in InClose, NEW i \in DOMAIN queues, queues[i].id = op[u].q
          PROVE  /\ \E j \in DOMAIN queues' : /\ queues'[j].id = op[u].q
                                              /\ queues[i].closing => queues'[j].closing
                 /\ op[u].remove /\ pc[u] # "rewait" /\ i = op[u].idx => Stays(i)
      <4>1. i # k
        BY <1>2, <3>2, <3>3
      <4> HIDE DEF k
      <4>2. \E j \in DOMAIN queues' : queues'[j] = queues[i]
        BY <1>1, <1>2, <1>4, <4>1, QueueRemoved
      <4>3. i < k => Stays(i)
        BY <1>1, <1>2, <1>4, QueueRemoved DEF Stays
      <4> QED  BY <3>2, <3>3, <4>2, <4>3
    <3> QED  BY <1>1, <3>1, <3>3, CallOfOther
  <2> QED  BY <2>1, <2>2, <2>3, <2>4 DEF CallInv
<1> QED  BY <1>3, <1>4, RemoveQueueFacts

\* shutdown.
LEMMA ShutdownCall ==
    ASSUME Base, CallInv, NEW t \in Threads,
           Shutdown(t) \/ ShutdownQueue(t) \/ EraseDone(t)
    PROVE  CallInv' /\ op'[t].down /\ \A u \in Threads \ {t} : op'[u] = op[u]
<1>1. TypeInv /\ CallOf(t) /\ wst' = wst /\ wq' = wq
  BY DEF Base, IInv, CallInv, Shutdown, ShutdownQueue, EraseDone, workVars
<1>2. CASE Shutdown(t)
  <2>1. /\ t \in Shutters /\ pc[t] = "run"
        /\ pc'[t] = "shutdown" /\ op'[t] = [NoCall EXCEPT !.down = TRUE]
        /\ \A u \in Threads \ {t} : pc'[u] = pc[u] /\ op'[u] = op[u]
    BY <1>1, <1>2 DEF Shutdown, TypeInv, TypeOK
  <2>2. op'[t].down /\ ~op'[t].remove
    BY <2>1 DEF NoCall
  <2>3. CallOf(t)'
    BY <2>1, <2>2 DEF CallOf, InClose, InShutdown
  <2>4. queues' = queues
    BY <1>2 DEF Shutdown, poolVars
  <2> QED  BY <1>1, <2>1, <2>2, <2>3, <2>4, SameQueuesStay, CallOfCloser
<1>3. CASE ShutdownQueue(t)
  <2>1. pc[t] = "shutdown"
    BY <1>3 DEF ShutdownQueue
  <2>2. op[t].down /\ t \in Removers \cup Shutters
    BY <1>1, <2>1 DEF CallOf, InShutdown
  <2>3. CASE queues = <<>>
    <3>1. /\ pc'[t] = "erase" /\ op' = op /\ queues' = queues
          /\ \A u \in Threads \ {t} : pc'[u] = pc[u]
      BY <1>1, <1>3, <2>3 DEF ShutdownQueue, TypeInv, TypeOK
    <3>2. NoQueue'
      BY <2>3, <3>1 DEF NoQueue
    <3>3. ~op[t].remove
      BY <1>1, <2>1 DEF CallOf, InClose
    <3>4. CallOf(t)'
      BY <2>2, <3>1, <3>2, <3>3 DEF CallOf, InClose, InShutdown
    <3> QED  BY <1>1, <2>2, <3>1, <3>4, SameQueuesStay, CallOfCloser
  <2>4. CASE queues # <<>>
    <3>1. /\ pc'[t] = "empty"
          /\ op'[t] = [NoCall EXCEPT !.q = queues[1].id, !.idx = 1, !.remove = TRUE,
                                     !.down = TRUE]
          /\ queues' = [queues EXCEPT ![1].closing = TRUE]
          /\ \A u \in Threads \ {t} : pc'[u] = pc[u] /\ op'[u] = op[u]
      BY <1>1, <1>3, <2>4 DEF ShutdownQueue, TypeInv, TypeOK
    <3>2. op'[t].down /\ op'[t].remove /\ op'[t].idx = 1 /\ op'[t].q = queues[1].id
      BY <3>1 DEF NoCall
    <3>3. 1 \in DOMAIN queues' /\ queues'[1].id = queues[1].id /\ queues'[1].closing
      BY <1>1, <2>4, <3>1, QueuesFacts, QueueClosed
    <3>4. CallOf(t)'
      BY <2>2, <3>1, <3>2, <3>3 DEF CallOf, InClose, InShutdown
    <3>5. 1 \in DOMAIN queues
      BY <1>1, <2>4, QueuesFacts
    <3> QED  BY <1>1, <3>1, <3>2, <3>4, <3>5, ClosedQueueStays, CallOfCloser
  <2> QED  BY <2>3, <2>4
<1>4. CASE EraseDone(t)
  <2>1. /\ pc[t] = "erase" /\ pc'[t] = "run" /\ op' = op /\ queues' = queues
        /\ \A u \in Threads \ {t} : pc'[u] = pc[u]
    BY <1>1, <1>4 DEF EraseDone, TypeInv, TypeOK
  <2>2. op[t].down /\ ~op[t].remove /\ NoQueue /\ t \in Removers \cup Shutters
    BY <1>1, <2>1 DEF CallOf, InClose, InShutdown
  <2>3. CallOf(t)'
    BY <2>1, <2>2 DEF CallOf, NoQueue, InClose, InShutdown
  <2> QED  BY <1>1, <2>1, <2>2, <2>3, SameQueuesStay, CallOfCloser
<1> QED  BY <1>2, <1>3, <1>4

-----------------------------------------------------------------------------
(***************************************************************************)
(* Every step: the closer's, or elsewhere                                  *)
(***************************************************************************)
CloserStep(t) ==
    \/ \E type \in QueueTypes : AddQueue(t, type)
    \/ \E q \in QueueIds, all \in BOOLEAN :
          CallEmptyQueue(t, q, all) \/ CallRemoveQueue(t, q, all)
    \/ EmptyQueueFinish(t) \/ EmptyQueueDrop(t) \/ RemoveQueue(t)
    \/ Shutdown(t) \/ ShutdownQueue(t) \/ EraseDone(t)

LEMMA StepOfCloser ==
    ASSUME TypeInv, [Next]_vars
    PROVE  Elsewhere \/ \E t \in Threads : CloserStep(t)
<1>1. QueueIds \subseteq Nat /\ ForceChoices \subseteq BOOLEAN
  BY ConstantAssumption DEF QueueIds
<1>2. ASSUME NEW t \in Threads, Calls(t)
      PROVE  Elsewhere \/ CloserStep(t)
  <2>1. ASSUME NEW w \in Works, NEW q \in QueueIds, NEW firstinline \in BOOLEAN,
               NEW nodup \in BOOLEAN, NEW force \in ForceChoices,
               AddWork(t, w, q, firstinline, nodup, force)
        PROVE  Elsewhere
    <3>1. Submit(t, w, q, firstinline, nodup, force) /\ pc[t] \in {"run", "exec"}
      BY <2>1 DEF AddWork
    <3>2. q \in Nat /\ force \in BOOLEAN
      BY <1>1
    <3> QED  BY <3>1, <3>2, AddElsewhere
  <2> QED  BY <1>2, <2>1, AddElsewhere DEF Calls, CloserStep
<1>3. ASSUME NEW t \in Threads, Steps(t)
      PROVE  Elsewhere \/ CloserStep(t)
  <2>1. CASE ExecuteWorkAdd(t)
    <3>1. /\ pc[t] = "exec" /\ exec[cur[t]].todo # <<>>
          /\ Submit(t, Head(exec[cur[t]].todo), wq[cur[t]],
                    exec[cur[t]].firstinline, FALSE, FALSE)
      BY <2>1 DEF ExecuteWorkAdd
    <3>2. cur[t] \in Works
      BY <3>1 DEF TypeInv, CurOK
    <3>3. exec[cur[t]] \in Batch /\ wq[cur[t]] \in Nat
      BY <3>2 DEF TypeInv, TypeOK
    <3>4. exec[cur[t]].todo \in Seq(Works) /\ exec[cur[t]].firstinline \in BOOLEAN
      BY <3>3 DEF Batch
    <3>5. Head(exec[cur[t]].todo) \in Works
      BY <3>1, <3>4
    <3> QED  BY <3>1, <3>3, <3>4, <3>5, AddElsewhere
  <2>2. CASE \E x \in Workers : EraseThread(t, x)
    BY <2>2 DEF EraseThread, threadVars, Elsewhere
  <2> QED  BY <1>3, <2>1, <2>2, AddElsewhere DEF Steps, CloserStep
<1>4. CASE UNCHANGED vars
  BY <1>4 DEF vars, threadVars, Elsewhere
<1> QED  BY <1>2, <1>3, <1>4, DoWorkElsewhere DEF Next, AtRest

LEMMA OfQueuesCloser ==
    ASSUME NEW t \in Threads, OfQueues(t)
    PROVE  CloserStep(t)
BY DEF OfQueues, CloserStep

LEMMA CloserCall ==
    ASSUME ClosersApart, Base, CallInv, NEW t \in Threads, CloserStep(t)
    PROVE  CallInv'
BY AddQueueCall, CallStarts, EmptyQueueCall, RemoveQueueCall, ShutdownCall DEF CloserStep

LEMMA CallStep ==
    ASSUME ClosersApart, Base, CallInv, [Next]_vars
    PROVE  CallInv'
<1>1. TypeInv
  BY DEF Base, IInv
<1>2. CASE \E t \in Threads : CloserStep(t)
  BY <1>2, CloserCall
<1>3. CASE Elsewhere /\ \A t \in Threads : ~OfQueues(t)
  BY <1>3, KindOfStep, KindLive, CallElsewhere
<1> QED  BY <1>1, <1>2, <1>3, StepOfCloser, OfQueuesCloser

-----------------------------------------------------------------------------
(***************************************************************************)
(* A thread exits only when no queue is left                               *)
(***************************************************************************)

\* After the last queue is gone, shutdown goes on until its end.
LEMMA NoQueueStays ==
    ASSUME Base, CallInv, [Next]_vars,
           NoQueue, NEW u \in Threads, op[u].down
    PROVE  NoQueue' /\ op'[u].down
<1>1. TypeInv
  BY DEF Base, IInv
<1>2. CASE Elsewhere /\ \A t \in Threads : ~OfQueues(t)
  BY <1>2, KindOfStep, KindLive DEF Elsewhere, SameQueues, NoQueue
<1>3. ASSUME NEW t \in Threads, CloserStep(t)
      PROVE  NoQueue' /\ op'[u].down
  <2>1. \A type \in QueueTypes : ~AddQueue(t, type)
    BY DEF AddQueue
  <2>2. \A q, all : ~MayClose(t, q, all)
    BY <1>1, MayCloseFacts DEF NoQueue
  <2>3. ~RemoveQueue(t)
    BY RemoveQueueFacts DEF NoQueue
  <2>4. ~Shutdown(t)
    BY DEF Shutdown
  <2>5. CASE EmptyQueueFinish(t) \/ EmptyQueueDrop(t)
    <3>1. queues' = queues
      BY <2>5 DEF EmptyQueueFinish, EmptyQueueDrop, poolVars
    <3>2. op'[u].down = op[u].down
      BY <2>5, EmptyQueueCall
    <3> QED  BY <3>1, <3>2 DEF NoQueue
  <2>6. CASE ShutdownQueue(t) \/ EraseDone(t)
    <3>1. queues = <<>>
      BY <1>1, QueuesFacts DEF NoQueue
    <3>2. queues' = queues /\ op' = op
      BY <2>6, <3>1 DEF ShutdownQueue, EraseDone
    <3> QED  BY <3>2 DEF NoQueue
  <2> QED  BY <1>3, <2>1, <2>2, <2>3, <2>4, <2>5, <2>6
           DEF CloserStep, CallEmptyQueue, CallRemoveQueue
<1> QED  BY <1>1, <1>2, <1>3, StepOfCloser, OfQueuesCloser

\* Only EraseThread touches exitflag_.
LEMMA ExitFlagChange ==
    ASSUME [Next]_vars
    PROVE  exitflag' = exitflag \/ \E t \in Threads, y \in Workers : EraseThread(t, y)
<1>1. ASSUME NEW t \in Threads, Calls(t)
      PROVE  exitflag' = exitflag
  BY <1>1 DEF Calls, AddWork, Submit, RemoveWork, ExecuteWork, AddQueue, ExecuteQueue,
     CallEmptyQueue, CallRemoveQueue, Shutdown, workerVars
<1>2. ASSUME NEW t \in Threads, Steps(t), \A y \in Workers : ~EraseThread(t, y)
      PROVE  exitflag' = exitflag
  <2>1. CASE AssignTask(t) \/ InlineDone(t) \/ DirectDone(t) \/ FirstDone(t)
             \/ SerialDone(t) \/ ManualDone(t)
    BY <2>1 DEF AssignTask, InlineDone, DirectDone, FirstDone, SerialDone, ManualDone,
       workerVars
  <2>2. CASE ExecuteWorkAdd(t) \/ ExecuteWorkFirst(t) \/ ExecuteWorkReturn(t)
             \/ EmptyQueueFinish(t) \/ EmptyQueueDrop(t) \/ RemoveQueue(t)
             \/ ShutdownQueue(t) \/ EraseDone(t)
    BY <2>2 DEF ExecuteWorkAdd, Submit, ExecuteWorkFirst, ExecuteWorkReturn,
       EmptyQueueFinish, EmptyQueueDrop, RemoveQueue, ShutdownQueue, EraseDone, workerVars
  <2> QED  BY <1>2, <2>1, <2>2 DEF Steps
<1>3. ASSUME NEW y \in Workers, DoWork(y)
      PROVE  exitflag' = exitflag
  BY <1>3 DEF DoWork, TakeTask, TaskDone, ReportIdle, ReportNext, GoIdle, Exit, workerVars
<1> QED  BY <1>1, <1>2, <1>3 DEF Next, AtRest, vars, workerVars

\* Who gets exitflag_, and when.
LEMMA ExitFlagStep ==
    ASSUME CallInv, [Next]_vars, TypeInv, NEW x \in Workers, exitflag'[x]
    PROVE  exitflag[x] \/ (NoQueue /\ \E u \in Threads : op[u].down)
<1>1. CASE exitflag' = exitflag
  BY <1>1
<1>2. ASSUME NEW t \in Threads, NEW y \in Workers, EraseThread(t, y)
      PROVE  NoQueue /\ op[t].down
  BY <1>2 DEF EraseThread, CallInv, CallOf, InClose, InShutdown
<1> QED  BY <1>1, <1>2, ExitFlagChange

LEMMA ExitStep ==
    ASSUME Base, CallInv, ExitInv, [Next]_vars
    PROVE  ExitInv'
<1>1. TypeInv
  BY DEF Base, IInv
<1>2. ASSUME NEW x \in Workers, exitflag'[x]
      PROVE  NoQueue' /\ \E u \in Threads : op'[u].down
  <2>1. exitflag[x] \/ (NoQueue /\ \E u \in Threads : op[u].down)
    BY <1>1, <1>2, ExitFlagStep
  <2>2. NoQueue /\ \E u \in Threads : op[u].down
    BY <2>1 DEF ExitInv
  <2> QED  BY <2>2, NoQueueStays
<1>3. ASSUME NEW x \in Workers, pc'[x] = "exited"
      PROVE  exitflag'[x]
  <2>1. x \in Threads
    BY DEF Threads
  <2>2. ASSUME NEW t \in Threads, CloserStep(t)
        PROVE  pc[x] = "exited" \/ exitflag[x]
    <3>1. \/ pc' = pc
          \/ \E p \in {"run", "empty", "remove", "rewait", "shutdown", "erase"} :
                pc' = [pc EXCEPT ![t] = p]
      BY <2>2 DEF CloserStep, AddQueue, CallEmptyQueue, CallRemoveQueue, EmptyQueueFinish,
         EmptyQueueDrop, AfterEmptyQueue, RemoveQueue, Shutdown, ShutdownQueue, EraseDone,
         threadVars
    <3> QED  BY <1>1, <1>3, <2>1, <3>1 DEF TypeInv, TypeOK
  <2>3. pc[x] = "exited" \/ exitflag[x]
    BY <1>1, <1>3, <2>2, StepOfCloser DEF Elsewhere
  <2>4. exitflag[x]
    BY <2>3 DEF ExitInv
  <2>5. exitflag' = exitflag \/ \E y \in Workers : exitflag' = [exitflag EXCEPT ![y] = TRUE]
    BY ExitFlagChange DEF EraseThread
  <2> QED  BY <1>1, <2>4, <2>5 DEF TypeInv, TypeOK
<1> QED  BY <1>2, <1>3 DEF ExitInv

-----------------------------------------------------------------------------
(***************************************************************************)
(* A queue that is removed is quiet                                        *)
(***************************************************************************)
LEMMA QuietStep ==
    ASSUME Base, CallInv, RemovedQueueIsQuiet, [Next]_vars
    PROVE  RemovedQueueIsQuiet'
<1>1. TypeInv /\ \A w \in Works : wst[w] \in Live =>
                    \E i \in DOMAIN queues : queues[i].id = wq[w]
  BY DEF Base, IInv, RemovedQueueIsQuiet, Live
<1> SUFFICES ASSUME NEW w \in Works, wst'[w] \in Live
             PROVE  \E i \in DOMAIN queues' : queues'[i].id = wq'[w]
  BY DEF RemovedQueueIsQuiet, Live
<1>2. CASE \A t \in Threads : ~OfQueues(t)
  <2>1. SameQueues /\ ((wst[w] \in Live /\ wq'[w] = wq[w]) \/ Open(wq'[w]))
    BY <1>2, KindOfStep, KindLive
  <2>2. \E i \in DOMAIN queues : queues[i].id = wq'[w]
    BY <1>1, <2>1 DEF Open
  <2> QED  BY <2>1, <2>2 DEF SameQueues
<1>3. ASSUME NEW t \in Threads, OfQueues(t)
      PROVE  \E i \in DOMAIN queues' : queues'[i].id = wq'[w]
  <2>1. wst[w] \in Live /\ wq'[w] = wq[w]
    BY <1>3, KeepsLive DEF OfQueues
  <2>2. PICK m \in DOMAIN queues : queues[m].id = wq[w]
    BY <1>1, <2>1
  <2>3. ASSUME NEW i \in DOMAIN queues, queues' = [queues EXCEPT ![i].closing = TRUE]
        PROVE  \E j \in DOMAIN queues' : queues'[j].id = wq'[w]
    BY <1>1, <2>1, <2>2, <2>3, QueueClosed
  <2>4. ASSUME NEW type \in QueueTypes, AddQueue(t, type)
        PROVE  \E j \in DOMAIN queues' : queues'[j].id = wq'[w]
    <3>1. m \in DOMAIN queues' /\ queues'[m] = queues[m]
      BY <1>1, <2>4, QueueAdded
    <3> QED  BY <2>1, <2>2, <3>1
  <2>5. ASSUME NEW q, NEW all, CallRemoveQueue(t, q, all)
        PROVE  \E j \in DOMAIN queues' : queues'[j].id = wq'[w]
    <3>1. MayClose(t, q, all) /\ queues' = [queues EXCEPT ![IndexOf(q)].closing = TRUE]
      BY <2>5 DEF CallRemoveQueue
    <3>2. IndexOf(q) \in DOMAIN queues
      BY <1>1, <3>1, MayCloseFacts
    <3> QED  BY <2>3, <3>1, <3>2
  <2>6. CASE ShutdownQueue(t)
    BY <1>1, <2>1, <2>2, <2>3, <2>6, QueuesFacts DEF ShutdownQueue
  <2>7. CASE RemoveQueue(t)
    <3> DEFINE k == IndexOf(op[t].q)
    <3>1. CASE UNCHANGED <<queues, op>>
      BY <2>1, <2>2, <3>1
    <3>2. CASE /\ queues' = RemoveAt(queues, k)
               /\ Working(op[t].q) = {}
               /\ \A v \in Works : ~(wst[v] = "pending" /\ wq[v] = op[t].q)
      <4>1. k \in DOMAIN queues /\ queues[k].id = op[t].q
        BY <2>7, RemoveQueueFacts
      <4>2. wq[w] # op[t].q
        BY <2>1, <3>2 DEF Live, Working
      <4>3. m # k
        BY <2>2, <4>1, <4>2
      <4> HIDE DEF k
      <4>4. \E j \in DOMAIN queues' : queues'[j] = queues[m]
        BY <1>1, <3>2, <4>1, <4>3, QueueRemoved
      <4> QED  BY <2>1, <2>2, <4>4
    <3> QED  BY <2>7, <3>1, <3>2, RemoveQueueFacts
  <2> QED  BY <1>3, <2>4, <2>5, <2>6, <2>7 DEF OfQueues
<1> QED  BY <1>2, <1>3

-----------------------------------------------------------------------------
(***************************************************************************)
(* Subscripts                                                              *)
(***************************************************************************)
NoAlarm == alarms' \subseteq alarms \cup {"existing task"}

LEMMA SubmitAlarm ==
    ASSUME NEW t, NEW w, NEW q, NEW firstinline, NEW nodup, NEW force,
           Submit(t, w, q, firstinline, nodup, force)
    PROVE  NoAlarm
BY DEF Submit, NoAlarm

\* A work that is alive belongs to a queue that can be found.
LEMMA LiveIndex ==
    ASSUME TypeInv, RemovedQueueIsQuiet, NEW w \in Works, wst[w] \in Live
    PROVE  IndexOf(wq[w]) # 0
<1>1. \E i \in DOMAIN queues : queues[i].id = wq[w]
  BY DEF RemovedQueueIsQuiet, Live
<1> QED  BY <1>1, QueuesFacts, IndexOfProperties

LEMMA CloserAlarm ==
    ASSUME Base, CallInv, NEW t \in Threads, CloserStep(t)
    PROVE  NoAlarm
<1>1. TypeInv /\ CallOf(t)
  BY DEF Base, IInv, CallInv
<1>2. CASE EmptyQueueFinish(t) \/ EmptyQueueDrop(t)
  <2>1. \E i \in DOMAIN queues : queues[i].id = op[t].q
    BY <1>1, <1>2 DEF CallOf, InClose, EmptyQueueFinish, EmptyQueueDrop
  <2>2. IndexOf(op[t].q) \in DOMAIN queues
    BY <1>1, <2>1, QueuesFacts, IndexOfProperties
  <2>3. alarms' = alarms \cup SubscriptAlarm(IndexOf(op[t].q))
    BY <1>2 DEF EmptyQueueFinish, EmptyQueueDrop
  <2> QED  BY <2>2, <2>3 DEF SubscriptAlarm, NoAlarm
<1>3. CASE RemoveQueue(t)
  BY <1>3, RemoveQueueFacts DEF NoAlarm
<1>4. CASE alarms' = alarms
  BY <1>4 DEF NoAlarm
<1> QED  BY <1>2, <1>3, <1>4 DEF CloserStep, AddQueue, CallEmptyQueue, CallRemoveQueue,
         Shutdown, ShutdownQueue, EraseDone

LEMMA AlarmStep ==
    ASSUME Base, CallInv, RemovedQueueIsQuiet, [Next]_vars
    PROVE  NoAlarm
<1>1. TypeInv /\ HandInv
  BY DEF Base, IInv
<1>2. CASE alarms' = alarms
  BY <1>2 DEF NoAlarm
<1>3. ASSUME NEW t \in Threads, Calls(t)
      PROVE  NoAlarm \/ CloserStep(t)
  <2>1. ASSUME NEW w \in Works, NEW q \in QueueIds, NEW firstinline, NEW nodup,
               NEW force, AddWork(t, w, q, firstinline, nodup, force)
        PROVE  NoAlarm
    BY <2>1, SubmitAlarm DEF AddWork
  <2>2. CASE \/ \E w \in Works : RemoveWork(t, w)
             \/ \E s \in Batches, q \in QueueIds, firstinline \in BOOLEAN :
                   ExecuteWork(t, s, q, firstinline)
             \/ \E q \in QueueIds : ExecuteQueue(t, q)
    BY <1>2, <2>2 DEF RemoveWork, ExecuteWork, ExecuteQueue
  <2> QED  BY <1>3, <2>1, <2>2 DEF Calls, CloserStep
<1>4. ASSUME NEW t \in Threads, Steps(t)
      PROVE  NoAlarm \/ CloserStep(t)
  <2>1. CASE AssignTask(t)
    BY <2>1 DEF AssignTask, NoAlarm
  <2>2. CASE InlineDone(t)
    <3>1. PICK w \in Works :
             /\ wst[w] = "inline"
             /\ alarms' = IF IndexOf(wq[w]) = 0 THEN alarms \cup {"bad subscript"} ELSE alarms
      BY <2>2 DEF InlineDone, Executing
    <3>2. IndexOf(wq[w]) # 0
      BY <1>1, <3>1, LiveIndex DEF Live, Busy
    <3> QED  BY <1>2, <3>1, <3>2
  <2>3. CASE ExecuteWorkAdd(t)
    BY <2>3, SubmitAlarm DEF ExecuteWorkAdd
  <2>4. CASE \/ DirectDone(t) \/ ExecuteWorkFirst(t) \/ FirstDone(t)
             \/ ExecuteWorkReturn(t) \/ SerialDone(t) \/ ManualDone(t)
             \/ \E x \in Workers : EraseThread(t, x)
    BY <1>2, <2>4 DEF DirectDone, ExecuteWorkFirst, FirstDone, ExecuteWorkReturn,
       SerialDone, ManualDone, EraseThread
  <2> QED  BY <1>4, <2>1, <2>2, <2>3, <2>4 DEF Steps, CloserStep
<1>5. ASSUME NEW x \in Workers, DoWork(x)
      PROVE  NoAlarm
  <2>1. CASE ReportIdle(x) \/ ReportNext(x)
    <3>1. pc[x] = "report" /\ alarms' = alarms \cup ReduceAlarm(wq[task[x]])
      BY <2>1 DEF ReportIdle, ReportNext
    <3>2. task[x] \in Works /\ wst[task[x]] = "reporting"
      BY <1>1, <3>1 DEF HandInv, TaskInv, TaskOf, TypeInv, TypeOK
    <3>3. IndexOf(wq[task[x]]) # 0
      BY <1>1, <3>2, LiveIndex DEF Live, Busy
    <3> QED  BY <3>1, <3>3 DEF ReduceAlarm, NoAlarm
  <2> QED  BY <1>2, <1>5, <2>1 DEF DoWork, TakeTask, TaskDone, GoIdle, Exit
<1> QED  BY <1>2, <1>3, <1>4, <1>5, CloserAlarm DEF Next, AtRest, vars

-----------------------------------------------------------------------------
(***************************************************************************)
(* The invariant of closing                                                *)
(***************************************************************************)
LEMMA CloseInit == Init => CloseInv
<1> SUFFICES ASSUME Init
             PROVE  CloseInv
  OBVIOUS
<1>1. Workers \cup Users = Threads /\ Workers \subseteq Threads
  BY DEF Threads
<1>2. CallInv
  BY DEF Init, CallInv, CallOf, InClose, InShutdown, NoCall
<1>3. ExitInv
  BY <1>1 DEF Init, ExitInv
<1>4. RemovedQueueIsQuiet /\ SubscriptsAreValid
  BY DEF Init, RemovedQueueIsQuiet, SubscriptsAreValid, Busy
<1> QED  BY <1>2, <1>3, <1>4 DEF CloseInv

LEMMA CloseStep ==
    ASSUME Base, CloseInv, [Next]_vars, ClosersApart
    PROVE  CloseInv'
<1>1. NoAlarm
  BY AlarmStep DEF CloseInv
<1>2. SubscriptsAreValid'
  BY <1>1 DEF CloseInv, SubscriptsAreValid, NoAlarm
<1> QED  BY <1>2, CallStep, ExitStep, QuietStep DEF CloseInv

LEMMA CloseInvariant == Spec /\ [][ClosersApart]_vars => [](Base /\ CloseInv)
<1>1. Base /\ CloseInv /\ [Next]_vars /\ [ClosersApart]_vars => Base' /\ CloseInv'
  <2>1. UNCHANGED vars => ClosersApart
    BY DEF vars, poolVars, ClosersApart
  <2> QED  BY <2>1, BaseStep, CloseStep
<1> QED  BY <1>1, BaseInit, CloseInit, PTL DEF Spec

\* One thread that does all the closing keeps apart from itself, so that what
\* follows holds for an application that leaves it to one thread.
THEOREM OneCloserIsApart ==
    ASSUME OneCloser
    PROVE  Spec => [][ClosersApart]_vars
<1>1. ASSUME CallInv
      PROVE  ClosersApart
  <2> SUFFICES ASSUME NEW t \in Threads, RemoveQueue(t), NEW u \in Threads \ {t},
                      pc[u] \in InClose
               PROVE  FALSE
    BY DEF ClosersApart
  <2>1. pc[t] \in InClose
    BY DEF RemoveQueue, InClose
  <2> QED  BY <1>1, <2>1 DEF CallInv, CallOf, OneCloser
<1>2. Base /\ CloseInv /\ [Next]_vars => Base' /\ CloseInv'
  BY <1>1, BaseStep, CloseStep DEF CloseInv
<1>3. Spec => [](Base /\ CloseInv)
  BY <1>2, BaseInit, CloseInit, PTL DEF Spec
<1>4. Base /\ CloseInv => ClosersApart
  BY <1>1 DEF CloseInv
<1> QED  BY <1>3, <1>4, PTL DEF Spec

\* A queue goes from the arrays only when none of its works is pending or being
\* done, so that no thread reports back to a queue that is gone: removeQueue has
\* closed the queue before it empties it, and looks at the counter in the same
\* critical section in which it removes it.
THEOREM RemovedQueueIsQuietCorrect ==
    Spec /\ [][ClosersApart]_vars => []RemovedQueueIsQuiet
BY CloseInvariant, PTL DEF CloseInv

\* However many threads add, empty and remove queues and shut down: as long as no
\* queue goes that another thread is emptying or removing, or that stands before
\* the index which another removeQueue has kept over the unlock, the arrays of
\* the queues are never read outside their bounds and reduceWorkload finds its
\* queue.  So the index kept from threadwork.cc:430 to 468 and the index that
\* emptyQueue does not test (457) are the only ways to a bad subscript: workers
\* that report back, callers that do a work inline, queues that are added and
\* closers that wait and look up their index again are none.
THEOREM SubscriptsAreValidCorrect ==
    Spec /\ [][ClosersApart]_vars => []SubscriptsAreValid
BY CloseInvariant, PTL DEF CloseInv

\* A thread that shutdown has ended holds no work and gets none: shutdown sets
\* exitflag_ only when no queue is left, and without a queue nothing is alive.
THEOREM ShutdownLosesNothingCorrect ==
    Spec /\ [][ClosersApart]_vars => []ShutdownLosesNothing
<1>1. Base /\ CloseInv => ShutdownLosesNothing
  <2> SUFFICES ASSUME Base, CloseInv, NEW x \in Workers, pc[x] = "exited"
               PROVE  task[x] = None /\ \A w \in Works : wst[w] # "assigned"
    BY DEF ShutdownLosesNothing
  <2>1. TaskOf(x) /\ (task[x] # None => task[x] \in Works)
    BY DEF Base, IInv, HandInv, TaskInv, TypeInv, TypeOK
  <2>2. NoQueue
    BY DEF CloseInv, ExitInv
  <2>3. \A w \in Works : wst[w] \notin Busy
    BY <2>2 DEF NoQueue, CloseInv, RemovedQueueIsQuiet
  <2> QED  BY <2>1, <2>3 DEF TaskOf, Busy
<1> QED  BY <1>1, CloseInvariant, PTL

-----------------------------------------------------------------------------
(***************************************************************************)
(* The pool implements WorkPool                                            *)
(***************************************************************************)
Ids == {queues[i].id : i \in DOMAIN queues}

LEMMA SeenWork ==
    ASSUME NEW w \in Works
    PROVE  /\ SeenStatus[w] = Seen(wst[w])
           /\ SeenStatus'[w] = Seen(wst'[w])
           /\ SeenHome[w] = IF wst[w] \in Live THEN wq[w] ELSE 0
           /\ SeenHome'[w] = IF wst'[w] \in Live THEN wq'[w] ELSE 0
<1>1. SeenStatus[w] = Seen(wst[w])
  BY DEF SeenStatus, Seen, Busy
<1>2. SeenStatus'[w] = Seen(wst'[w])
  BY DEF SeenStatus, Seen, Busy
<1>3. /\ SeenHome[w] = IF wst[w] \in Live THEN wq[w] ELSE 0
      /\ SeenHome'[w] = IF wst'[w] \in Live THEN wq'[w] ELSE 0
  BY DEF SeenHome, Live
<1> QED  BY <1>1, <1>2, <1>3

LEMMA SeenQueues ==
    TypeInv /\ QueueInv =>
        /\ DOMAIN SeenKind = Ids
        /\ \A k \in DOMAIN queues : SeenKind[queues[k].id] = queues[k].type
        /\ \A k \in DOMAIN queues : queues[k].id \in SeenClosing <=> queues[k].closing
<1> SUFFICES ASSUME TypeInv, QueueInv
             PROVE  /\ DOMAIN SeenKind = Ids
                    /\ \A k \in DOMAIN queues : SeenKind[queues[k].id] = queues[k].type
                    /\ \A k \in DOMAIN queues :
                         queues[k].id \in SeenClosing <=> queues[k].closing
  OBVIOUS
<1>1. DOMAIN SeenKind = Ids
  BY DEF SeenKind, Ids
<1>2. \A k \in DOMAIN queues : SeenKind[queues[k].id] = queues[k].type
  BY IndexIs DEF SeenKind
<1>3. \A k \in DOMAIN queues : queues[k].id \in SeenClosing <=> queues[k].closing
  BY DEF SeenClosing, QueueInv
<1> QED  BY <1>1, <1>2, <1>3

LEMMA SeenQueuesNext ==
    ASSUME Base, [Next]_vars
    PROVE  /\ DOMAIN SeenKind' = Ids'
           /\ \A k \in DOMAIN queues' : SeenKind'[queues'[k].id] = queues'[k].type
           /\ \A k \in DOMAIN queues' : queues'[k].id \in SeenClosing' <=> queues'[k].closing
<1>1. (TypeInv /\ QueueInv)'
  BY BaseStep DEF Base, IInv, LoadInv
<1>2. (TypeInv /\ QueueInv =>
        /\ DOMAIN SeenKind = Ids
        /\ \A k \in DOMAIN queues : SeenKind[queues[k].id] = queues[k].type
        /\ \A k \in DOMAIN queues : queues[k].id \in SeenClosing <=> queues[k].closing)'
  BY SeenQueues, PTL
<1> QED  BY <1>1, <1>2

\* What a user sees of the works outside S stays the same.
LEMMA SeenOthers ==
    ASSUME NEW S, Keeps(S), NEW w \in Works, w \notin S
    PROVE  SeenStatus'[w] = SeenStatus[w] /\ SeenHome'[w] = SeenHome[w]
BY SeenWork, KeepsLive DEF Keeps

LEMMA SeenFunctions ==
    /\ SeenStatus = [w \in Works |-> SeenStatus[w]]
    /\ SeenStatus' = [w \in Works |-> SeenStatus'[w]]
    /\ SeenHome = [w \in Works |-> SeenHome[w]]
    /\ SeenHome' = [w \in Works |-> SeenHome'[w]]
<1>1. SeenStatus = [w \in Works |-> SeenStatus[w]]
  <2>1. SeenStatus = [w \in Works |-> Seen(wst[w])]
    BY DEF SeenStatus, Seen, Busy
  <2> QED  BY <2>1, Zenon
<1>2. SeenStatus' = [w \in Works |-> SeenStatus'[w]]
  <2>1. SeenStatus' = [w \in Works |-> Seen(wst'[w])]
    BY DEF SeenStatus, Seen, Busy
  <2> QED  BY <2>1, Zenon
<1>3. SeenHome = [w \in Works |-> SeenHome[w]]
  BY Zenon DEF SeenHome
<1>4. SeenHome' = [w \in Works |-> SeenHome'[w]]
  BY Zenon DEF SeenHome
<1> QED  BY <1>1, <1>2, <1>3, <1>4

LEMMA SeenNothing ==
    ASSUME Keeps({})
    PROVE  SeenStatus' = SeenStatus /\ SeenHome' = SeenHome
<1>1. \A w \in Works : SeenStatus'[w] = SeenStatus[w] /\ SeenHome'[w] = SeenHome[w]
  BY SeenOthers
<1> QED  BY <1>1, SeenFunctions

LEMMA IndexIsAll ==
    TypeInv /\ QueueInv =>
        \A q, k : k \in DOMAIN queues /\ queues[k].id = q => IndexOf(q) = k
BY IndexIs

LEMMA SeenSameQueues ==
    ASSUME Base, [Next]_vars, SameQueues
    PROVE  SeenKind' = SeenKind /\ SeenClosing' = SeenClosing
<1>1. TypeInv /\ QueueInv
  BY DEF Base, IInv, LoadInv
<1>2. (TypeInv /\ QueueInv)'
  BY BaseStep DEF Base, IInv, LoadInv
<1>3. \A q, k : k \in DOMAIN queues /\ queues[k].id = q => IndexOf(q) = k
  BY <1>1, IndexIsAll
<1>4. \A q, k : k \in DOMAIN queues' /\ queues'[k].id = q => IndexOf(q)' = k
  <2>1. (TypeInv /\ QueueInv =>
           \A q, k : k \in DOMAIN queues /\ queues[k].id = q => IndexOf(q) = k)'
    BY IndexIsAll, PTL
  <2> QED  BY <1>2, <2>1
<1>5. {queues'[i].id : i \in DOMAIN queues'} = {queues[i].id : i \in DOMAIN queues}
  BY DEF SameQueues
<1>6. ASSUME NEW q \in {queues[i].id : i \in DOMAIN queues}
      PROVE  queues'[IndexOf(q)'].type = queues[IndexOf(q)].type
  <2>1. PICK k \in DOMAIN queues : queues[k].id = q
    OBVIOUS
  <2>2. k \in DOMAIN queues' /\ queues'[k].id = q /\ queues'[k].type = queues[k].type
    BY <2>1 DEF SameQueues
  <2>3. IndexOf(q) = k /\ IndexOf(q)' = k
    BY <1>3, <1>4, <2>1, <2>2
  <2> QED  BY <2>2, <2>3
<1>7. SeenKind' = SeenKind
  BY <1>5, <1>6 DEF SeenKind
<1>8. SeenClosing' = SeenClosing
  BY DEF SeenClosing, SameQueues
<1> QED  BY <1>7, <1>8

\* The works that are under way of a queue are those it counts.
LEMMA SeenRunning ==
    ASSUME TypeInv, NEW q
    PROVE  /\ Pool!Of(q, "running") = Working(q)
           /\ Pool!Of(q, "waiting") = {w \in Works : wst[w] = "pending" /\ wq[w] = q}
<1>1. \A w \in Works : /\ wst[w] \in WorkStates
                       /\ SeenStatus[w] = Seen(wst[w])
                       /\ SeenHome[w] = IF wst[w] \in Live THEN wq[w] ELSE 0
  BY SeenWork DEF TypeInv, TypeOK
<1>2. Pool!Of(q, "running") = Working(q)
  BY <1>1, SeenFacts DEF Pool!Of, Working, Live
<1>3. Pool!Of(q, "waiting") = {w \in Works : wst[w] = "pending" /\ wq[w] = q}
  BY <1>1, SeenFacts DEF Pool!Of, Live
<1> QED  BY <1>2, <1>3

LEMMA SeenOpen ==
    ASSUME TypeInv, QueueInv, NEW q, Open(q)
    PROVE  q \in DOMAIN SeenKind \ SeenClosing
<1>1. PICK k \in DOMAIN queues : queues[k].id = q /\ ~queues[k].closing
  BY DEF Open
<1> QED  BY <1>1, SeenQueues DEF Ids

LEMMA AcceptedPool ==
    ASSUME Base, [Next]_vars, NEW w \in Works, NEW q \in Nat, Accepted(w, q)
    PROVE  Pool!Accept(w, q)
<1>1. TypeInv /\ QueueInv
  BY DEF Base, IInv, LoadInv
<1>2. SeenStatus[w] = "new" /\ SeenStatus'[w] = "waiting" /\ SeenHome'[w] = q
  BY SeenWork DEF Accepted, Seen, Live
<1>3. \A v \in Works \ {w} : SeenStatus'[v] = SeenStatus[v] /\ SeenHome'[v] = SeenHome[v]
  BY SeenOthers DEF Accepted
<1>4. SeenStatus' = [v \in Works |-> IF v \in {w} THEN "waiting" ELSE SeenStatus[v]]
  BY <1>2, <1>3, SeenFunctions
<1>5. SeenHome' = [SeenHome EXCEPT ![w] = q]
  BY <1>2, <1>3, SeenFunctions
<1>6. SeenKind' = SeenKind /\ SeenClosing' = SeenClosing
  BY SeenSameQueues DEF Accepted
<1>7. q \in DOMAIN SeenKind \ SeenClosing
  BY <1>1, SeenOpen DEF Accepted
<1> QED  BY <1>2, <1>4, <1>5, <1>6, <1>7 DEF Pool!Accept, Pool!Becomes, Pool!Queues

\* A work that starts, accepted now or before, in a queue that allows it.
LEMMA StartPool ==
    ASSUME Base, [Next]_vars, NEW w \in Works, NEW q \in Nat,
           \/ SeenStatus[w] = "new" /\ q \in DOMAIN SeenKind \ SeenClosing
           \/ SeenStatus[w] = "waiting" /\ q = SeenHome[w],
           SeenKind[q] = "SingleThread" => Working(q) = {},
           Seen(wst'[w]) = "running", wq'[w] = q, Keeps({w}), SameQueues
    PROVE  Pool!Start(w, q)
<1>1. SeenStatus'[w] = "running" /\ SeenHome'[w] = q
  BY SeenWork DEF Seen, Live
<1>2. \A v \in Works \ {w} : SeenStatus'[v] = SeenStatus[v] /\ SeenHome'[v] = SeenHome[v]
  BY SeenOthers
<1>3. SeenStatus' = [v \in Works |-> IF v \in {w} THEN "running" ELSE SeenStatus[v]]
  BY <1>1, <1>2, SeenFunctions
<1>4. SeenHome' = [SeenHome EXCEPT ![w] = q]
  BY <1>1, <1>2, SeenFunctions
<1>5. SeenKind' = SeenKind /\ SeenClosing' = SeenClosing
  BY SeenSameQueues
<1>6. Pool!Of(q, "running") = Working(q)
  BY SeenRunning DEF Base, IInv
<1> QED  BY <1>3, <1>4, <1>5, <1>6 DEF Pool!Start, Pool!Becomes, Pool!Queues

LEMMA StartedPool ==
    ASSUME Base, [Next]_vars, NEW w \in Works, NEW q \in Nat, Started(w, q)
    PROVE  Pool!Start(w, q)
<1>1. TypeInv /\ QueueInv /\ LoadInv
  BY DEF Base, IInv, LoadInv
<1>2. SeenStatus[w] = "new"
  BY SeenWork DEF Started
<1>3. q \in DOMAIN SeenKind \ SeenClosing
  BY <1>1, SeenOpen DEF Started
<1>4. PICK k \in DOMAIN queues : queues[k].id = q
  BY DEF Started, Open
<1>5. IndexOf(q) = k /\ SeenKind[q] = queues[k].type
  BY <1>1, <1>4, IndexIs, SeenQueues
<1>6. queues[k].type = "SingleThread" => queues[k].load = 0
  BY <1>5 DEF Started, CanStart
<1>7. SeenKind[q] = "SingleThread" => Working(q) = {}
  BY <1>1, <1>4, <1>5, <1>6, CountedNone
<1> QED  BY <1>2, <1>3, <1>7, StartPool DEF Started

\* The queue of a work that waits or is under way.
LEMMA QueueOfLive ==
    ASSUME Base, RemovedQueueIsQuiet, NEW w \in Works, wst[w] \in Live
    PROVE  /\ SeenHome[w] = wq[w] /\ wq[w] \in DOMAIN SeenKind
           /\ \E k \in DOMAIN queues : queues[k].id = wq[w] /\ SeenKind[wq[w]] = queues[k].type
<1>1. TypeInv /\ QueueInv
  BY DEF Base, IInv, LoadInv
<1>2. PICK k \in DOMAIN queues : queues[k].id = wq[w]
  BY DEF RemovedQueueIsQuiet, Live
<1> QED  BY <1>1, <1>2, SeenWork, SeenQueues DEF Ids

LEMMA FetchedPool ==
    ASSUME Base, RemovedQueueIsQuiet, [Next]_vars, NEW w \in Works, Fetched(w)
    PROVE  wq[w] \in DOMAIN SeenKind /\ Pool!Start(w, wq[w])
<1>1. wst[w] \in Live /\ SeenStatus[w] = "waiting"
  BY SeenWork DEF Fetched, Live, Seen
<1>2. SeenHome[w] = wq[w] /\ wq[w] \in DOMAIN SeenKind
  BY <1>1, QueueOfLive
<1>3. SeenKind[wq[w]] # "SingleThread"
  BY <1>1, QueueOfLive DEF Fetched
<1>4. wq[w] \in Nat
  BY DEF Base, IInv, TypeInv, TypeOK
<1> QED  BY <1>1, <1>2, <1>3, <1>4, StartPool DEF Fetched

LEMMA FinishedPool ==
    ASSUME Base, [Next]_vars, NEW w \in Works, Finished(w)
    PROVE  Pool!Finish(w)
<1>1. SeenStatus[w] = "running" /\ SeenStatus'[w] = "done" /\ SeenHome'[w] = 0
  BY SeenWork DEF Finished, Seen, Live, Busy
<1>2. \A v \in Works \ {w} : SeenStatus'[v] = SeenStatus[v] /\ SeenHome'[v] = SeenHome[v]
  BY SeenOthers DEF Finished
<1>3. SeenStatus' = [v \in Works |-> IF v \in {w} THEN "done" ELSE SeenStatus[v]]
  BY <1>1, <1>2, SeenFunctions
<1>4. SeenHome' = [v \in Works |-> IF v \in {w} THEN 0 ELSE SeenHome[v]]
  BY <1>1, <1>2, SeenFunctions
<1>5. SeenKind' = SeenKind /\ SeenClosing' = SeenClosing
  BY SeenSameQueues DEF Finished
<1> QED  BY <1>1, <1>3, <1>4, <1>5 DEF Pool!Finish, Pool!Becomes, Pool!Leave, Pool!Queues

LEMMA FinishedAndStartedPool ==
    ASSUME Base, RemovedQueueIsQuiet, [Next]_vars, NEW v \in Works, NEW w \in Works,
           FinishedAndStarted(v, w)
    PROVE  Pool!FinishAndStart(v, w)
<1>1. /\ wst[w] \in Live /\ v # w
      /\ SeenStatus[v] = "running" /\ SeenStatus[w] = "waiting"
  BY SeenWork DEF FinishedAndStarted, Live, Seen, Busy
<1>2. SeenHome[w] = wq[w]
  BY <1>1, QueueOfLive
<1>3. /\ SeenStatus'[v] = "done" /\ SeenHome'[v] = 0
      /\ SeenStatus'[w] = "running" /\ SeenHome'[w] = SeenHome[w]
  BY <1>2, SeenWork DEF FinishedAndStarted, Seen, Live, Busy
<1>4. \A u \in Works \ {v, w} : SeenStatus'[u] = SeenStatus[u] /\ SeenHome'[u] = SeenHome[u]
  BY SeenOthers DEF FinishedAndStarted
<1>5. SeenKind[wq[w]] = "SingleThread" => Working(wq[w]) \subseteq {v}
  BY <1>1, QueueOfLive DEF FinishedAndStarted
<1>6. Pool!Of(wq[w], "running") = Working(wq[w])
  BY SeenRunning DEF Base, IInv
<1>7. SeenStatus' = [[u \in Works |-> IF u \in {w} THEN "running" ELSE SeenStatus[u]]
                       EXCEPT ![v] = "done"]
  BY <1>1, <1>3, <1>4, SeenFunctions
<1>8. SeenHome' = [u \in Works |-> IF u \in {v} THEN 0 ELSE SeenHome[u]]
  BY <1>1, <1>3, <1>4, SeenFunctions
<1>9. SeenKind' = SeenKind /\ SeenClosing' = SeenClosing
  BY SeenSameQueues DEF FinishedAndStarted
<1> QED  BY <1>1, <1>2, <1>5, <1>6, <1>7, <1>8, <1>9
         DEF Pool!FinishAndStart, Pool!Becomes, Pool!Leave, Pool!Queues

\* The types of the queues are a function of their ids.
LEMMA KindFunctions ==
    /\ SeenKind = [q \in DOMAIN SeenKind |-> SeenKind[q]]
    /\ SeenKind' = [q \in DOMAIN SeenKind' |-> SeenKind'[q]]
BY DEF SeenKind

\* A work that never reached a queue: it is refused, or its caller has done it.
LEMMA AsidePool ==
    ASSUME Base, [Next]_vars, NEW w \in Works, Refused(w) \/ DoneByCaller(w)
    PROVE  Pool!Refuse(w) \/ Pool!DoneByCaller(w)
<1>1. /\ Keeps({w}) /\ SameQueues
      /\ Seen(wst[w]) = "new" /\ Seen(wst'[w]) \in {"dropped", "done"}
  BY DEF Refused, DoneByCaller, Seen, Busy
<1>2. wst[w] \notin Live /\ wst'[w] \notin Live
  BY <1>1 DEF Seen, Live
<1>3. /\ SeenStatus[w] = "new" /\ SeenStatus'[w] \in {"dropped", "done"}
      /\ SeenHome'[w] = SeenHome[w]
  BY <1>1, <1>2, SeenWork
<1>4. \A v \in Works \ {w} : SeenStatus'[v] = SeenStatus[v] /\ SeenHome'[v] = SeenHome[v]
  BY <1>1, SeenOthers
<1>5. PICK s \in {"dropped", "done"} :
        SeenStatus' = [v \in Works |-> IF v \in {w} THEN s ELSE SeenStatus[v]]
  BY <1>3, <1>4, SeenFunctions
<1>6. SeenHome' = SeenHome
  BY <1>3, <1>4, SeenFunctions
<1>7. SeenKind' = SeenKind /\ SeenClosing' = SeenClosing
  BY <1>1, SeenSameQueues
<1> QED  BY <1>3, <1>5, <1>6, <1>7
         DEF Pool!Refuse, Pool!DoneByCaller, Pool!Becomes, Pool!Queues

LEMMA DroppedPool ==
    ASSUME Base, CallInv, [Next]_vars, NEW S \in SUBSET Works, Dropped(S), S # {}
    PROVE  Pool!Drop(S)
<1>1. TypeInv /\ QueueInv
  BY DEF Base, IInv, LoadInv
<1>2. \A w \in S : /\ SeenStatus[w] = "waiting" /\ SeenStatus'[w] = "dropped"
                   /\ SeenHome'[w] = 0
  BY SeenWork DEF Dropped, Seen, Live, Busy
<1>3. \A v \in Works \ S : SeenStatus'[v] = SeenStatus[v] /\ SeenHome'[v] = SeenHome[v]
  BY SeenOthers DEF Dropped
<1>4. SeenStatus' = [v \in Works |-> IF v \in S THEN "dropped" ELSE SeenStatus[v]]
  BY <1>2, <1>3, SeenFunctions
<1>5. SeenHome' = [v \in Works |-> IF v \in S THEN 0 ELSE SeenHome[v]]
  BY <1>2, <1>3, SeenFunctions
<1>6. SeenKind' = SeenKind /\ SeenClosing' = SeenClosing
  BY SeenSameQueues DEF Dropped
<1>7. Cardinality(S) = 1 \/ \E q \in DOMAIN SeenKind : S = Pool!Of(q, "waiting")
  <2>1. CASE \E w \in Works : S = {w}
    BY <2>1, FS_Singleton
  <2>2. CASE \E t \in Threads :
               /\ pc[t] = "empty"
               /\ S = {w \in Works : wst[w] = "pending" /\ wq[w] = op[t].q}
    <3>1. PICK t \in Threads :
               /\ pc[t] = "empty"
               /\ S = {w \in Works : wst[w] = "pending" /\ wq[w] = op[t].q}
      BY <2>2
    <3>2. op[t].q \in DOMAIN SeenKind
      BY <1>1, <3>1, SeenQueues DEF CallInv, CallOf, InClose, Ids
    <3>3. S = Pool!Of(op[t].q, "waiting")
      BY <1>1, <3>1, SeenRunning
    <3> QED  BY <3>2, <3>3
  <2> QED  BY <2>1, <2>2 DEF Dropped
<1>8. \A w \in S : SeenStatus[w] = "waiting"
  BY <1>2
<1>9. Pool!Cardinality(S) = Cardinality(S)
  BY DEF Pool!Cardinality, Cardinality
<1> QED  BY <1>4, <1>5, <1>6, <1>7, <1>8, <1>9
         DEF Pool!Drop, Pool!Becomes, Pool!Leave, Pool!Queues

LEMMA ClosedPool ==
    ASSUME Base, [Next]_vars, NEW i \in DOMAIN queues,
           queues' = [queues EXCEPT ![i].closing = TRUE]
    PROVE  \/ SeenKind' = SeenKind /\ SeenClosing' = SeenClosing
           \/ /\ queues[i].id \in DOMAIN SeenKind \ SeenClosing
              /\ SeenKind' = SeenKind
              /\ SeenClosing' = SeenClosing \cup {queues[i].id}
<1>1. TypeInv /\ QueueInv
  BY DEF Base, IInv, LoadInv
<1>2. /\ DOMAIN queues' = DOMAIN queues
      /\ \A k \in DOMAIN queues : /\ queues'[k].id = queues[k].id
                                  /\ queues'[k].type = queues[k].type
                                  /\ queues'[k].closing <=> queues[k].closing \/ k = i
  BY <1>1, QueueClosed
<1>3. Ids' = Ids
  BY <1>2 DEF Ids
<1>4. \A q \in Ids : SeenKind'[q] = SeenKind[q]
  BY <1>1, <1>2, SeenQueues, SeenQueuesNext DEF Ids
<1>5. SeenKind' = SeenKind
  BY <1>1, <1>3, <1>4, KindFunctions, SeenQueues, SeenQueuesNext
<1>6. SeenClosing' = SeenClosing \cup {queues[i].id}
  BY <1>2 DEF SeenClosing
<1>7. CASE queues[i].closing
  BY <1>5, <1>6, <1>7 DEF SeenClosing
<1>8. CASE ~queues[i].closing
  BY <1>1, <1>5, <1>6, <1>8, SeenQueues DEF Ids
<1> QED  BY <1>7, <1>8

LEMMA AddedPool ==
    ASSUME Base, [Next]_vars, NEW t, NEW type \in QueueTypes, AddQueue(t, type)
    PROVE  /\ freeid \in QueueIds /\ type \in Pool!Types
           /\ freeid \notin DOMAIN SeenKind
           /\ SeenKind' = [r \in DOMAIN SeenKind \cup {freeid} |->
                             IF r = freeid THEN type ELSE SeenKind[r]]
           /\ SeenClosing' = SeenClosing
<1>1. TypeInv /\ QueueInv
  BY DEF Base, IInv, LoadInv
<1>2. freeid \in Nat /\ \A k \in DOMAIN queues : queues[k].id \in Nat
  BY <1>1, QueuesFacts DEF Queue
<1>3. \A k \in DOMAIN queues : queues'[k] = queues[k]
  BY <1>1, QueueAdded
<1>4. PICK m : /\ DOMAIN queues' = DOMAIN queues \cup {m}
               /\ queues'[m] = [id |-> freeid, type |-> type, load |-> 0, closing |-> FALSE]
  BY <1>1, QueueAdded
<1>5. freeid \in QueueIds
  BY <1>2, ConstantAssumption DEF AddQueue, QueueIds
<1>6. type \in Pool!Types
  BY ConstantAssumption DEF Pool!Types
<1>7. freeid \notin Ids
  BY <1>1, <1>2 DEF Ids, QueueInv
<1>8. Ids' = Ids \cup {freeid}
  BY <1>3, <1>4, <1>7 DEF Ids
<1>9. /\ SeenKind'[freeid] = type
      /\ \A q \in Ids : SeenKind'[q] = SeenKind[q]
  BY <1>1, <1>3, <1>4, SeenQueues, SeenQueuesNext DEF Ids
<1>10. SeenKind' = [r \in DOMAIN SeenKind \cup {freeid} |->
                      IF r = freeid THEN type ELSE SeenKind[r]]
  <2>1. DOMAIN SeenKind = Ids /\ DOMAIN SeenKind' = Ids \cup {freeid}
    BY <1>1, <1>8, SeenQueues, SeenQueuesNext
  <2>2. SeenKind' = [r \in DOMAIN SeenKind' |-> SeenKind'[r]]
    BY KindFunctions
  <2> QED  BY <1>7, <1>9, <2>1, <2>2
<1>11. SeenClosing' = SeenClosing
  <2>1. m \notin DOMAIN queues
    BY <1>2, <1>3, <1>4, <1>7 DEF Ids
  <2> QED  BY <1>3, <1>4, <2>1 DEF SeenClosing
<1> QED  BY <1>1, <1>5, <1>6, <1>7, <1>10, <1>11, SeenQueues

LEMMA RemovedPool ==
    ASSUME Base, CallInv, [Next]_vars, NEW t \in Threads, RemoveQueue(t)
    PROVE  \/ SeenKind' = SeenKind /\ SeenClosing' = SeenClosing
           \/ LET q == op[t].q IN
              /\ q \in SeenClosing /\ q \in DOMAIN SeenKind
              /\ Pool!Of(q, "waiting") = {} /\ Pool!Of(q, "running") = {}
              /\ SeenKind' = [r \in DOMAIN SeenKind \ {q} |-> SeenKind[r]]
              /\ SeenClosing' = SeenClosing \ {q}
<1> DEFINE q == op[t].q
           k == IndexOf(q)
<1>1. TypeInv /\ QueueInv
  BY DEF Base, IInv, LoadInv
<1>2. k \in DOMAIN queues /\ queues[k].id = q /\ queues[k].closing
  BY RemoveQueueFacts
<1>3. CASE UNCHANGED queues
  <2>1. SameQueues
    BY <1>3 DEF SameQueues, RemoveQueue
  <2> QED  BY <2>1, SeenSameQueues
<1>4. CASE /\ queues' = RemoveAt(queues, k)
           /\ Working(q) = {}
           /\ \A w \in Works : ~(wst[w] = "pending" /\ wq[w] = q)
  <2>1. Pool!Of(q, "waiting") = {} /\ Pool!Of(q, "running") = {}
    BY <1>1, <1>4, SeenRunning
  <2>2. q \in SeenClosing /\ q \in DOMAIN SeenKind
    BY <1>1, <1>2, SeenQueues DEF Ids
  <2> HIDE DEF k, q
  <2>3. \A j \in DOMAIN queues' : \E m \in DOMAIN queues : m # k /\ queues'[j] = queues[m]
    BY <1>1, <1>2, <1>4, QueueRemoved
  <2>4. \A m \in DOMAIN queues : m # k => \E j \in DOMAIN queues' : queues'[j] = queues[m]
    BY <1>1, <1>2, <1>4, QueueRemoved
  <2>5. \A m \in DOMAIN queues : queues[m].id = q <=> m = k
    BY <1>1, <1>2 DEF QueueInv
  <2>6. Ids' = Ids \ {q}
    BY <2>3, <2>4, <2>5 DEF Ids
  <2>7. \A r \in Ids \ {q} : SeenKind'[r] = SeenKind[r]
    <3> SUFFICES ASSUME NEW m \in DOMAIN queues, m # k
                 PROVE  SeenKind'[queues[m].id] = SeenKind[queues[m].id]
      BY <2>5 DEF Ids
    <3>1. PICK j \in DOMAIN queues' : queues'[j] = queues[m]
      BY <2>4
    <3> QED  BY <1>1, <3>1, SeenQueues, SeenQueuesNext
  <2>8. SeenKind' = [r \in DOMAIN SeenKind \ {q} |-> SeenKind[r]]
    <3>1. DOMAIN SeenKind = Ids /\ DOMAIN SeenKind' = Ids \ {q}
      BY <1>1, <2>6, SeenQueues, SeenQueuesNext
    <3>2. SeenKind' = [r \in DOMAIN SeenKind' |-> SeenKind'[r]]
      BY KindFunctions
    <3> QED  BY <2>7, <3>1, <3>2
  <2>9. SeenClosing' = SeenClosing \ {q}
    BY <2>3, <2>4, <2>5 DEF SeenClosing
  <2> QED  BY <2>1, <2>2, <2>8, <2>9 DEF q
<1> QED  BY <1>3, <1>4, RemoveQueueFacts

LEMMA OfQueuesPool ==
    ASSUME Base, CallInv, [Next]_vars, NEW t \in Threads, OfQueues(t)
    PROVE  \/ UNCHANGED Pool!vars
           \/ \E q \in QueueIds, type \in Pool!Types : Pool!Add(q, type)
           \/ \E q \in DOMAIN SeenKind : Pool!Close(q) \/ Pool!Remove(q)
<1>1. TypeInv
  BY DEF Base, IInv
<1>2. SeenStatus' = SeenStatus /\ SeenHome' = SeenHome
  BY SeenNothing DEF OfQueues
<1>3. ASSUME NEW i \in DOMAIN queues, queues' = [queues EXCEPT ![i].closing = TRUE]
      PROVE  UNCHANGED Pool!vars \/ \E q \in DOMAIN SeenKind : Pool!Close(q)
  BY <1>2, <1>3, ClosedPool DEF Pool!vars, Pool!Close
<1>4. ASSUME NEW q, NEW all, CallRemoveQueue(t, q, all)
      PROVE  UNCHANGED Pool!vars \/ \E r \in DOMAIN SeenKind : Pool!Close(r)
  <2>1. MayClose(t, q, all) /\ queues' = [queues EXCEPT ![IndexOf(q)].closing = TRUE]
    BY <1>4 DEF CallRemoveQueue
  <2>2. IndexOf(q) \in DOMAIN queues
    BY <1>1, <2>1, MayCloseFacts
  <2> QED  BY <1>3, <2>1, <2>2
<1>5. CASE ShutdownQueue(t)
  <2>1. CASE queues = <<>>
    <3>1. SameQueues
      BY <1>5, <2>1 DEF ShutdownQueue, SameQueues
    <3> QED  BY <1>2, <3>1, SeenSameQueues DEF Pool!vars
  <2>2. CASE queues # <<>>
    <3>1. 1 \in DOMAIN queues
      BY <1>1, <2>2, QueuesFacts
    <3>2. queues' = [queues EXCEPT ![1].closing = TRUE]
      BY <1>5, <2>2 DEF ShutdownQueue
    <3> QED  BY <1>3, <3>1, <3>2
  <2> QED  BY <2>1, <2>2
<1>6. ASSUME NEW type \in QueueTypes, AddQueue(t, type)
      PROVE  \E q \in QueueIds, s \in Pool!Types : Pool!Add(q, s)
  <2>1. freeid \in QueueIds /\ type \in Pool!Types /\ Pool!Add(freeid, type)
    BY <1>2, <1>6, AddedPool DEF Pool!Add
  <2> QED  BY <2>1
<1>7. CASE RemoveQueue(t)
  BY <1>2, <1>7, RemovedPool DEF Pool!vars, Pool!Remove
<1> QED  BY <1>4, <1>5, <1>6, <1>7 DEF OfQueues

LEMMA PoolStep == Base /\ CloseInv /\ [Next]_vars => [Pool!Next]_(Pool!vars)
<1> SUFFICES ASSUME Base, CloseInv, [Next]_vars
             PROVE  Pool!Next \/ UNCHANGED Pool!vars
  OBVIOUS
<1>1. Kind /\ CallInv /\ RemovedQueueIsQuiet /\ TypeInv /\ QueueInv
  BY KindOfStep DEF CloseInv, Base, IInv, LoadInv
<1>2. ASSUME Keeps({}), SameQueues
      PROVE  UNCHANGED Pool!vars
  BY <1>2, SeenNothing, SeenSameQueues DEF Pool!vars
<1>3. ASSUME NEW w \in Works, NEW q \in Nat, Accepted(w, q) \/ Started(w, q)
      PROVE  Pool!Next
  <2>1. q \in DOMAIN SeenKind
    BY <1>1, <1>3, SeenOpen DEF Accepted, Started
  <2> QED  BY <1>3, <2>1, AcceptedPool, StartedPool DEF Pool!Next
<1>4. ASSUME NEW w \in Works, Fetched(w) \/ Finished(w) \/ Refused(w) \/ DoneByCaller(w)
      PROVE  Pool!Next
  BY <1>1, <1>4, FetchedPool, FinishedPool, AsidePool DEF Pool!Next
<1>5. ASSUME NEW v \in Works, NEW w \in Works, FinishedAndStarted(v, w)
      PROVE  Pool!Next
  BY <1>1, <1>5, FinishedAndStartedPool DEF Pool!Next
<1>6. ASSUME NEW S \in SUBSET Works, Dropped(S)
      PROVE  Pool!Next \/ UNCHANGED Pool!vars
  <2>1. CASE S = {}
    BY <1>2, <1>6, <2>1 DEF Dropped
  <2>2. CASE S # {}
    BY <1>1, <1>6, <2>2, DroppedPool DEF Pool!Next
  <2> QED  BY <2>1, <2>2
<1>7. ASSUME NEW t \in Threads, OfQueues(t)
      PROVE  Pool!Next \/ UNCHANGED Pool!vars
  BY <1>1, <1>7, OfQueuesPool DEF Pool!Next
<1> QED  BY <1>1, <1>2, <1>3, <1>4, <1>5, <1>6, <1>7 DEF Kind, Nothing

LEMMA PoolInit == Init => Pool!Init
<1> SUFFICES ASSUME Init
             PROVE  Pool!Init
  OBVIOUS
<1>1. SeenStatus = [w \in Works |-> "new"]
  BY DEF Init, SeenStatus, Busy
<1>2. SeenHome = [w \in Works |-> 0]
  BY DEF Init, SeenHome, Busy
<1>3. DOMAIN queues = {1} /\ queues[1] = DefaultQueue
  BY DEF Init
<1>4. IndexOf(0) = 1
  BY <1>3 DEF IndexOf, DefaultQueue
<1>5. SeenKind = [q \in {0} |-> "MultiThread"]
  BY <1>3, <1>4 DEF SeenKind, DefaultQueue
<1>6. SeenClosing = {}
  BY <1>3 DEF SeenClosing, DefaultQueue
<1> QED  BY <1>1, <1>2, <1>5, <1>6 DEF Pool!Init

\* WorkManager implements WorkPool: with all its counters, indexes, locks and
\* threads it does to a work and to a queue what a user of the pool is told it
\* does.  Each work is accepted, started and ended once, SingleThread queues do
\* one at a time, only removeWork and emptyQueue drop works, and a queue is
\* removed when nothing is left of it.
THEOREM ImplementsWorkPoolCorrect ==
    Spec /\ [][ClosersApart]_vars => ImplementsWorkPool
<1>1. Init => Pool!Init
  BY PoolInit
<1>2. Base /\ CloseInv /\ [Next]_vars => [Pool!Next]_(Pool!vars)
  BY PoolStep
<1> QED  BY <1>1, <1>2, CloseInvariant, PTL DEF Spec, ImplementsWorkPool, Pool!Spec

-----------------------------------------------------------------------------
(***************************************************************************)
(* executeWork: what its WorkResultManager has counted                     *)
(***************************************************************************)
Over == {"reporting", "done"}

Returning(b) == \E t \in Threads : pc[t] = "execwait" /\ cur[t] = b

\* A call of executeWork that is not serial and has not returned.
Alive(b) ==
    /\ batch[b] = None
    /\ wst[b] \in {"held", "first"} \/ Returning(b)

Parts(b) == {w \in Works : batch[w] = b}
Ended(b) == {w \in Works : batch[w] = b /\ wst[w] \in Over}

\* It has counted each of its works that has ended, and an error for those that
\* failed.  None is done serially.
BatchOf(b) ==
    /\ exec[b].nrtasks = Cardinality(Parts(b))
    /\ exec[b].nrfinished = Cardinality(Ended(b))
    /\ exec[b].error <=> \E w \in Ended(b) : ~ok[w]
    /\ \A w \in Parts(b) : wst[w] # "serial"

BatchInv == \A b \in Works : Alive(b) => BatchOf(b)

LEMMA EndedFinite == \A b : IsFiniteSet(Parts(b)) /\ IsFiniteSet(Ended(b)) /\ Ended(b) \subseteq Parts(b)
<1> SUFFICES ASSUME NEW b
             PROVE  IsFiniteSet(Parts(b)) /\ IsFiniteSet(Ended(b)) /\ Ended(b) \subseteq Parts(b)
  OBVIOUS
<1>1. Parts(b) \subseteq Works /\ Ended(b) \subseteq Works
  BY DEF Parts, Ended
<1> QED  BY <1>1, FS_Subset, ConstantAssumption DEF Parts, Ended

\* The parts of a call are unchanged, and so are its counters.
SameParts(b) ==
    /\ exec'[b].nrtasks = exec[b].nrtasks
    /\ exec'[b].nrfinished = exec[b].nrfinished
    /\ exec'[b].error = exec[b].error
    /\ \A w \in Works : batch'[w] = b <=> batch[w] = b
    /\ \A w \in Works : batch[w] = b =>
         /\ wst'[w] \in Over <=> wst[w] \in Over
         /\ wst'[w] = "serial" => wst[w] = "serial"
         /\ wst[w] \in Over => ok'[w] = ok[w]

LEMMA BatchSame ==
    ASSUME NEW b \in Works, BatchOf(b), SameParts(b)
    PROVE  BatchOf(b)'
<1>1. Parts(b)' = Parts(b)
  BY DEF Parts, SameParts
<1>2. Ended(b)' = Ended(b)
  BY DEF Ended, SameParts
<1>3. \A w \in Ended(b) : ok'[w] = ok[w]
  BY DEF Ended, SameParts
<1>4. (\A w \in Parts(b) : wst[w] # "serial")'
  BY <1>1 DEF BatchOf, SameParts, Parts
<1> QED  BY <1>1, <1>2, <1>3, <1>4 DEF BatchOf, SameParts

\* Nobody starts to wait for the works of a call.
NoReturn ==
    \A t \in Threads : pc'[t] = "execwait" => pc[t] = "execwait" /\ cur'[t] = cur[t]

LEMMA NoReturnBut ==
    ASSUME TypeInv, NEW t \in Threads,
           \/ UNCHANGED <<pc, cur>>
           \/ /\ \E p \in PCs \ {"execwait"} : pc' = [pc EXCEPT ![t] = p]
              /\ \A u \in Threads \ {t} : cur'[u] = cur[u]
    PROVE  NoReturn
BY DEF NoReturn, TypeInv, TypeOK

LEMMA AliveBefore ==
    ASSUME NEW b, batch' = batch, NoReturn, Alive(b)',
           wst'[b] \in {"held", "first"} => wst[b] \in {"held", "first"}
    PROVE  Alive(b)
BY DEF Alive, Returning, NoReturn

\* One work changes its state, but not by ending.
LEMMA BatchOne ==
    ASSUME TypeInv, BatchInv, NEW w \in Works, NEW s,
           s \notin {"serial", "held", "first"} \/ (s = "first" /\ wst[w] = "held"),
           s \in Over <=> wst[w] \in Over,
           wst' = [wst EXCEPT ![w] = s],
           batch' = batch, ok' = ok, NoReturn,
           exec' = exec \/ \E b, r : exec' = [exec EXCEPT ![b].todo = r]
    PROVE  BatchInv'
<1>1. \A v \in Works : wst'[v] = IF v = w THEN s ELSE wst[v]
  BY DEF TypeInv, TypeOK
<1>2. \A b \in Works : /\ exec'[b].nrtasks = exec[b].nrtasks
                       /\ exec'[b].nrfinished = exec[b].nrfinished
                       /\ exec'[b].error = exec[b].error
  <2>1. \A e \in Batch : \A r : /\ [e EXCEPT !.todo = r].nrtasks = e.nrtasks
                                /\ [e EXCEPT !.todo = r].nrfinished = e.nrfinished
                                /\ [e EXCEPT !.todo = r].error = e.error
    BY DEF Batch
  <2>2. \A b \in Works : exec[b] \in Batch
    BY DEF TypeInv, TypeOK
  <2>3. CASE exec' = exec
    BY <2>3
  <2>4. ASSUME NEW c, NEW r, exec' = [exec EXCEPT ![c].todo = r], NEW b \in Works
        PROVE  /\ exec'[b].nrtasks = exec[b].nrtasks
               /\ exec'[b].nrfinished = exec[b].nrfinished
               /\ exec'[b].error = exec[b].error
    <3>1. exec'[b] = IF b = c THEN [exec[b] EXCEPT !.todo = r] ELSE exec[b]
      BY <2>4 DEF TypeInv, TypeOK
    <3>2. CASE b = c
      <4>1. exec'[b] = [exec[b] EXCEPT !.todo = r]
        BY <3>1, <3>2
      <4> QED  BY <2>1, <2>2, <4>1
    <3> QED  BY <3>1, <3>2
  <2> QED  BY <2>3, <2>4
<1>3. ASSUME NEW b \in Works, Alive(b)'
      PROVE  Alive(b) /\ SameParts(b)
  <2>1. wst'[b] \in {"held", "first"} => wst[b] \in {"held", "first"}
    BY <1>1
  <2>2. Alive(b)
    BY <1>3, <2>1, AliveBefore
  <2>3. SameParts(b)
    BY <1>1, <1>2 DEF SameParts, Over
  <2> QED  BY <2>2, <2>3
<1> QED  BY <1>3, BatchSame DEF BatchInv

\* Nothing of what concerns the calls changes.
LEMMA BatchNothing ==
    ASSUME BatchInv, UNCHANGED <<wst, ok, batch, exec>>, NoReturn
    PROVE  BatchInv'
<1>1. ASSUME NEW b \in Works, Alive(b)'
      PROVE  Alive(b) /\ SameParts(b)
  BY <1>1, AliveBefore DEF SameParts
<1> QED  BY <1>1, BatchSame DEF BatchInv

\* A work ends, and the callback counts it.
LEMMA BatchEnds ==
    ASSUME TypeInv, BatchInv, NEW w \in Works, NEW good \in BOOLEAN,
           ImFinished(w, good), batch' = batch, NoReturn,
           wst[w] \notin Over, wst'[w] \in Over,
           \A v \in Works \ {w} : \/ wst'[v] = wst[v]
                                  \/ wst[v] = "pending" /\ wst'[v] = "manual"
    PROVE  BatchInv'
<1>1. \A v \in Works : ok'[v] = IF v = w THEN good ELSE ok[v]
  BY DEF ImFinished, TypeInv, TypeOK
<1>2. ASSUME NEW b \in Works, Alive(b)'
      PROVE  Alive(b)
  <2>1. wst'[b] \in {"held", "first"} => wst[b] \in {"held", "first"}
    BY DEF Over
  <2> QED  BY <1>2, <2>1, AliveBefore
<1>3. ASSUME NEW b \in Works, batch[w] # b, BatchOf(b)
      PROVE  BatchOf(b)'
  <2>1. exec'[b] = exec[b]
    BY <1>3 DEF ImFinished, TypeInv, TypeOK
  <2>2. SameParts(b)
    BY <1>1, <1>3, <2>1 DEF SameParts, Over
  <2> QED  BY <1>3, <2>2, BatchSame
<1>4. ASSUME NEW b \in Works, batch[w] = b, BatchOf(b)
      PROVE  BatchOf(b)'
  <2>1. b # None /\ exec[b] \in Batch
    BY ConstantAssumption DEF TypeInv, TypeOK
  <2>2. exec'[b] = [exec[b] EXCEPT !.nrfinished = @ + 1, !.error = @ \/ ~good]
    BY <1>4, <2>1 DEF ImFinished, TypeInv, TypeOK
  <2>3. \A e \in Batch :
           LET d == [e EXCEPT !.nrfinished = @ + 1, !.error = @ \/ ~good]
           IN  d.nrtasks = e.nrtasks /\ d.nrfinished = e.nrfinished + 1
    BY DEF Batch
  <2>4. \A e \in Batch :
           [e EXCEPT !.nrfinished = @ + 1, !.error = @ \/ ~good].error <=> e.error \/ ~good
    BY DEF Batch
  <2>5. /\ exec'[b].nrtasks = exec[b].nrtasks
        /\ exec'[b].nrfinished = exec[b].nrfinished + 1
    BY <2>1, <2>2, <2>3
  <2>6. exec'[b].error <=> exec[b].error \/ ~good
    BY <2>1, <2>2, <2>4
  <2>7. Parts(b)' = Parts(b)
    BY DEF Parts
  <2>8. Ended(b)' = Ended(b) \cup {w} /\ w \notin Ended(b)
    BY <1>4 DEF Ended, Over
  <2>9. Cardinality(Ended(b) \cup {w}) = Cardinality(Ended(b)) + 1
    BY <2>8, EndedFinite, FS_AddElement
  <2>10. exec'[b].error <=> \E v \in Ended(b) \cup {w} : ~ok'[v]
    <3>1. \A v \in Ended(b) : ok'[v] = ok[v]
      BY <1>1, <2>8 DEF Ended
    <3>2. ok'[w] = good
      BY <1>1
    <3> QED  BY <1>4, <2>6, <3>1, <3>2 DEF BatchOf
  <2>11. \A v \in Parts(b) : wst'[v] # "serial"
    BY <1>4 DEF BatchOf, Parts, Over
  <2>12. exec'[b].nrfinished = Cardinality(Ended(b)')
    BY <1>4, <2>5, <2>8, <2>9 DEF BatchOf
  <2> QED  BY <1>4, <2>5, <2>7, <2>8, <2>10, <2>11, <2>12 DEF BatchOf
<1> QED  BY <1>2, <1>3, <1>4 DEF BatchInv

LEMMA ReturnAfterNoReturn ==
    ASSUME TypeInv, NEW t \in Threads, NEW w, ReturnAfter(t, w)
    PROVE  NoReturn
<1>1. \E p \in PCs \ {"execwait"} : pc' = [pc EXCEPT ![t] = p]
  <2>1. CASE batch[w] = None
    <3>1. pc' = [pc EXCEPT ![t] = "run"]
      BY <2>1 DEF ReturnAfter
    <3> QED  BY <3>1 DEF PCs
  <2>2. CASE batch[w] # None
    <3>1. pc' = [pc EXCEPT ![t] = "exec"]
      BY <2>2 DEF ReturnAfter
    <3> QED  BY <3>1 DEF PCs
  <2> QED  BY <2>1, <2>2
<1>2. \A u \in Threads \ {t} : cur'[u] = cur[u]
  BY DEF ReturnAfter, TypeInv, TypeOK
<1> QED  BY <1>1, <1>2, NoReturnBut

LEMMA BatchSubmit ==
    ASSUME IInv, BatchInv, NEW t \in Threads,
           \/ \E w \in Works, q \in QueueIds, firstinline, nodup \in BOOLEAN :
                 \E force \in ForceChoices : AddWork(t, w, q, firstinline, nodup, force)
           \/ ExecuteWorkAdd(t)
    PROVE  BatchInv'
<1>1. TypeInv
  BY DEF IInv
<1>2. PICK w \in Works, q \in Nat, firstinline, nodup, force \in BOOLEAN :
         Submit(t, w, q, firstinline, nodup, force) /\ Fresh(w)
  BY Submitted
<1>3. /\ batch' = batch
      /\ exec' = exec \/ \E b, r : exec' = [exec EXCEPT ![b].todo = r]
  BY DEF AddWork, ExecuteWorkAdd
<1>4. SubmitToFreeThread(t, w, q) \/ SubmitAlone(t, w)
  BY <1>1, <1>2, SubmitCases
<1>5. ok' = ok
  BY <1>2 DEF Submit
<1>6. wst[w] \notin Over
  BY <1>2 DEF Fresh, Over
<1>7. CASE SubmitAlone(t, w)
  <2>1. PICK s \in {"direct", "destroyed", "ignored", "inline", "pending"} :
          wst' = [wst EXCEPT ![w] = s]
    BY <1>7 DEF SubmitAlone
  <2>2. NoReturn
    BY <1>1, <1>7, NoReturnBut DEF SubmitAlone, PCs
  <2> QED  BY <1>1, <1>3, <1>5, <1>6, <2>1, <2>2, BatchOne DEF Over
<1>8. CASE SubmitToFreeThread(t, w, q)
  <2>1. wst' = [wst EXCEPT ![w] = "assigned"]
    BY <1>8 DEF SubmitToFreeThread
  <2>2. NoReturn
    <3>1. /\ pc' = [pc EXCEPT ![t] = "assign"]
          /\ cur' = [cur EXCEPT ![t] = w]
      BY <1>8 DEF SubmitToFreeThread
    <3>2. \A u \in Threads \ {t} : cur'[u] = cur[u]
      BY <1>1, <3>1 DEF TypeInv, TypeOK
    <3> QED  BY <1>1, <3>1, <3>2, NoReturnBut DEF PCs
  <2> QED  BY <1>1, <1>3, <1>5, <1>6, <2>1, <2>2, BatchOne DEF Over
<1> QED  BY <1>4, <1>7, <1>8

\* A new call.
LEMMA BatchExecute ==
    ASSUME IInv, BatchInv, NEW t \in Threads, NEW s \in Batches, NEW q \in Nat,
           NEW firstinline \in BOOLEAN, ExecuteWork(t, s, q, firstinline)
    PROVE  BatchInv'
<1> DEFINE b == Head(s)
           r == Tail(s)
           e == [todo |-> r, nrtasks |-> Len(s) - 1, nrfinished |-> 0,
                 error |-> FALSE, firstinline |-> firstinline]
<1>1. TypeInv /\ LeaderInv
  BY DEF IInv, KeptInv
<1>2. /\ b \in Works /\ wst[b] = "new"
      /\ \A w \in ToSet(r) : w \in Works /\ wst[w] = "new" /\ w # b
      /\ \A w : w \in ToSet(s) <=> (w = b \/ w \in ToSet(r))
  BY <1>1, ExecuteWorkFacts
<1>3. /\ r \in Seq(Works) /\ Len(r) = Len(s) - 1
      /\ \A i, j \in DOMAIN r : r[i] = r[j] => i = j
  BY <1>1, ExecuteWorkFacts
<1>4. /\ exec' = [exec EXCEPT ![b] = e]
      /\ batch' = [w \in Works |-> IF w \in ToSet(r) THEN b ELSE batch[w]]
      /\ wst' = [w \in Works |-> IF w = b /\ Serial THEN "serial"
                                 ELSE IF w \in ToSet(s) THEN "held" ELSE wst[w]]
      /\ ok' = ok
      /\ pc' = [pc EXCEPT ![t] = IF Serial THEN "run" ELSE "exec"]
      /\ cur' = [cur EXCEPT ![t] = IF Serial THEN None ELSE b]
  BY DEF ExecuteWork
<1>5. b # None
  BY <1>2, ConstantAssumption
<1>6. /\ \A w \in Works : batch[w] # b
      /\ \A w \in ToSet(s) : batch[w] = None
  BY <1>1, <1>2, <1>5 DEF LeaderInv, Leader, LeaderStates
<1>7. e.nrtasks = Len(s) - 1 /\ e.nrfinished = 0 /\ e.error = FALSE
  OBVIOUS
<1> HIDE DEF b, r, e
<1>8. NoReturn
  <2>1. \A u \in Threads \ {t} : cur'[u] = cur[u]
    BY <1>1, <1>4 DEF TypeInv, TypeOK
  <2> QED  BY <1>1, <1>4, <2>1, NoReturnBut DEF PCs
<1>9. ASSUME NEW c \in Works, c # b, Alive(c)'
      PROVE  Alive(c) /\ SameParts(c)
  <2>1. exec'[c] = exec[c]
    BY <1>1, <1>4, <1>9 DEF TypeInv, TypeOK
  <2>2. \A w \in Works : batch'[w] = c <=> batch[w] = c
    BY <1>2, <1>4, <1>5, <1>6, <1>9, ConstantAssumption
  <2>3. c \notin ToSet(r) /\ batch[c] = None
    BY <1>4, <1>5, <1>9 DEF Alive
  <2>4. c \notin ToSet(s)
    BY <1>2, <1>9, <2>3
  <2>5. wst'[c] = wst[c]
    BY <1>4, <1>9, <2>4
  <2>6. Alive(c)
    BY <1>8, <1>9, <2>3, <2>5 DEF Alive, Returning, NoReturn
  <2>7. \A w \in Works : batch[w] = c => wst'[w] = wst[w] /\ ok'[w] = ok[w]
    BY <1>2, <1>4, <1>6, ConstantAssumption
  <2> QED  BY <2>1, <2>2, <2>6, <2>7 DEF SameParts
<1>10. ASSUME Alive(b)'
       PROVE  BatchOf(b)'
  <2>1. \A w \in Works : batch'[w] = b <=> w \in ToSet(r)
    BY <1>4, <1>6
  <2>2. \A w \in ToSet(r) : wst'[w] = "held"
    BY <1>2, <1>4
  <2>3. Parts(b)' = ToSet(r)
    BY <1>2, <2>1 DEF Parts
  <2>4. Ended(b)' = {}
    BY <2>1, <2>2 DEF Ended, Over
  <2>5. Cardinality(ToSet(r)) = Len(r)
    <3>1. DOMAIN r = 1..Len(r) /\ Len(r) \in Nat
      BY <1>3, LenProperties
    <3>2. IsFiniteSet(1..Len(r)) /\ Cardinality(1..Len(r)) = Len(r)
      <4> SUFFICES ASSUME NEW n \in Nat
                   PROVE  IsFiniteSet(1..n) /\ Cardinality(1..n) = n
        BY <3>1
      <4>1. /\ IsFiniteSet(1..n)
            /\ Cardinality(1..n) = IF 1 > n THEN 0 ELSE n - 1 + 1
        BY FS_Interval
      <4> QED  BY <4>1
    <3>3. r \in Bijection(1..Len(r), ToSet(r))
      <4>1. r \in [1..Len(r) -> ToSet(r)]
        BY <1>3, <3>1 DEF ToSet
      <4>2. \A w \in ToSet(r) : \E i \in 1..Len(r) : r[i] = w
        BY <3>1 DEF ToSet
      <4> QED  BY <1>3, <3>1, <4>1, <4>2 DEF Bijection, Injection, Surjection, IsInjective
    <3>4. ExistsBijection(1..Len(r), ToSet(r))
      BY <3>3 DEF ExistsBijection
    <3> QED  BY <3>2, <3>4, FS_Bijection
  <2>6. exec'[b] = e
    BY <1>1, <1>2, <1>4 DEF TypeInv, TypeOK
  <2>7. \A w \in Parts(b)' : wst'[w] # "serial"
    BY <2>2, <2>3
  <2> QED  BY <1>3, <1>7, <2>3, <2>4, <2>5, <2>6, <2>7, FS_EmptySet DEF BatchOf
<1> QED  BY <1>9, <1>10, BatchSame DEF BatchInv

\* The first work of a call starts, ends, and the call returns.
LEMMA BatchFirst ==
    ASSUME IInv, PlaceInv, BatchInv, NEW t \in Threads,
           ExecuteWorkFirst(t) \/ FirstDone(t) \/ ExecuteWorkReturn(t)
    PROVE  BatchInv'
<1>1. TypeInv /\ LeaderInv /\ StageOf(t)
  BY DEF IInv, KeptInv, PlaceInv, StageInv
<1>2. CASE ExecuteWorkFirst(t)
  <2>1. /\ cur[t] \in Works /\ wst[cur[t]] = "held"
        /\ wst' = [wst EXCEPT ![cur[t]] = "first"]
        /\ UNCHANGED <<ok, batch, exec, cur>>
        /\ pc' = [pc EXCEPT ![t] = "run"]
    BY <1>1, <1>2 DEF ExecuteWorkFirst, StageOf, TypeInv, CurOK
  <2>2. NoReturn
    BY <1>1, <2>1, NoReturnBut DEF PCs
  <2> QED  BY <1>1, <2>1, <2>2, BatchOne DEF Over
<1>3. CASE FirstDone(t)
  <2>1. PICK w \in Works, good \in BOOLEAN :
          /\ wst[w] = "first"
          /\ ok' = [ok EXCEPT ![w] = good]
          /\ wst' = [wst EXCEPT ![w] = "done"]
          /\ pc' = [pc EXCEPT ![t] = "execwait"]
          /\ cur' = [cur EXCEPT ![t] = w]
          /\ UNCHANGED <<batch, exec>>
    BY <1>3, OutcomesType DEF FirstDone, Executing
  <2>2. batch[w] = None
    BY <1>1, <2>1 DEF LeaderInv
  <2>3. /\ \A v \in Works : wst'[v] = IF v = w THEN "done" ELSE wst[v]
        /\ \A v \in Works \ {w} : ok'[v] = ok[v]
        /\ \A u \in Threads : pc'[u] = "execwait" =>
              cur'[u] = w \/ (pc[u] = "execwait" /\ cur'[u] = cur[u])
    BY <1>1, <2>1 DEF TypeInv, TypeOK
  <2>4. ASSUME NEW b \in Works, Alive(b)'
        PROVE  Alive(b) /\ SameParts(b)
    <3>1. ASSUME b = w
          PROVE  Alive(b)
      BY <2>1, <2>2, <3>1 DEF Alive
    <3>2. ASSUME b # w
          PROVE  Alive(b)
      <4>1. wst'[b] = wst[b] /\ batch'[b] = batch[b]
        BY <2>1, <2>3, <3>2
      <4>2. ASSUME Returning(b)'
            PROVE  Returning(b)
        <5>1. PICK u \in Threads : pc'[u] = "execwait" /\ cur'[u] = b
          BY <4>2 DEF Returning
        <5>2. pc[u] = "execwait" /\ cur[u] = b
          BY <2>3, <3>2, <5>1
        <5> QED  BY <5>2 DEF Returning
      <4> QED  BY <2>4, <4>1, <4>2 DEF Alive
    <3>3. b # None
      BY ConstantAssumption
    <3>4. SameParts(b)
      BY <2>1, <2>2, <2>3, <3>3 DEF SameParts
    <3> QED  BY <3>1, <3>2, <3>4
  <2> QED  BY <2>4, BatchSame DEF BatchInv
<1>4. CASE ExecuteWorkReturn(t)
  <2> DEFINE b == cur[t]
  <2>1. /\ pc[t] = "execwait" /\ b \in Works /\ wst[b] = "done"
        /\ exec' = [exec EXCEPT ![b] = NoBatch]
        /\ pc' = [pc EXCEPT ![t] = "run"]
        /\ cur' = [cur EXCEPT ![t] = None]
        /\ UNCHANGED <<wst, ok, batch>>
    BY <1>1, <1>4 DEF ExecuteWorkReturn, StageOf, TypeInv, CurOK
  <2> HIDE DEF b
  <2>2. NoReturn
    <3>1. \A u \in Threads \ {t} : cur'[u] = cur[u]
      BY <1>1, <2>1 DEF TypeInv, TypeOK
    <3> QED  BY <1>1, <2>1, <3>1, NoReturnBut DEF PCs
  <2>3. \A u \in Threads : pc[u] = "execwait" /\ cur[u] = b => u = t
    <3> SUFFICES ASSUME NEW u \in Threads, pc[u] = "execwait", cur[u] = b
                 PROVE  u = t
      OBVIOUS
    <3>1. At(t, 0, b) /\ At(u, 0, b)
      BY <2>1 DEF At, InPlace, b
    <3>2. 0 \in Nat
      OBVIOUS
    <3> QED  BY <2>1, <3>1, <3>2 DEF PlaceInv, OnceInv
  <2>4. ASSUME NEW c \in Works, Alive(c)'
        PROVE  Alive(c) /\ SameParts(c)
    <3>1. Alive(c)
      BY <2>1, <2>2, <2>4, AliveBefore
    <3>2. c # b
      <4> SUFFICES ASSUME c = b
                   PROVE  FALSE
        OBVIOUS
      <4>1. PICK u \in Threads : pc'[u] = "execwait" /\ cur'[u] = b
        BY <2>1, <2>4 DEF Alive, Returning
      <4>2. pc[u] = "execwait" /\ cur[u] = b
        BY <2>2, <4>1 DEF NoReturn
      <4>3. u = t
        BY <2>3, <4>2
      <4> QED  BY <1>1, <2>1, <4>1, <4>3 DEF TypeInv, TypeOK
    <3>3. exec'[c] = exec[c]
      BY <1>1, <2>1, <3>2 DEF TypeInv, TypeOK
    <3> QED  BY <2>1, <3>1, <3>3 DEF SameParts
  <2> QED  BY <2>4, BatchSame DEF BatchInv
<1> QED  BY <1>2, <1>3, <1>4

\* A serial call: it is never alive.
LEMMA BatchSerial ==
    ASSUME IInv, PlaceInv, BatchInv, NEW t \in Threads, SerialDone(t)
    PROVE  BatchInv'
<1>1. TypeInv /\ LeaderInv /\ TodoInv
  BY DEF IInv, KeptInv
<1>2. PICK w \in Works, good \in BOOLEAN :
        LET b == IF batch[w] = None THEN w ELSE batch[w]
            more == good /\ exec[b].todo # <<>>
        IN  /\ wst[w] = "serial"
            /\ ok' = [ok EXCEPT ![w] = good]
            /\ exec' = [exec EXCEPT ![b].todo = IF more THEN Tail(@) ELSE <<>>,
                                    ![b].error = @ \/ ~good]
            /\ wst' = IF more
                      THEN [wst EXCEPT ![w] = "done",
                                       ![Head(exec[b].todo)] = "serial"]
                      ELSE [wst EXCEPT ![w] = "done"]
            /\ UNCHANGED <<batch, pc, cur>>
  <2>1. PICK w \in Works : \E good \in Outcomes(w) :
          LET b == IF batch[w] = None THEN w ELSE batch[w]
              more == good /\ exec[b].todo # <<>>
          IN  /\ Executing(t, w, "serial")
              /\ ok' = [ok EXCEPT ![w] = good]
              /\ exec' = [exec EXCEPT ![b].todo = IF more THEN Tail(@) ELSE <<>>,
                                      ![b].error = @ \/ ~good]
              /\ wst' = IF more
                        THEN [wst EXCEPT ![w] = "done",
                                         ![Head(exec[b].todo)] = "serial"]
                        ELSE [wst EXCEPT ![w] = "done"]
              /\ UNCHANGED <<batch, pc, cur>>
    BY DEF SerialDone
  <2>2. \A good \in Outcomes(w) : good \in BOOLEAN
    BY OutcomesType
  <2>3. ASSUME Executing(t, w, "serial")
        PROVE  wst[w] = "serial"
    BY <2>3 DEF Executing
  <2> QED  BY <2>1, <2>2, <2>3
<1> DEFINE b == IF batch[w] = None THEN w ELSE batch[w]
           h == Head(exec[b].todo)
           more == good /\ exec[b].todo # <<>>
<1>3. b \in Works
  BY <1>1 DEF TypeInv, TypeOK
<1>4. more => h \in Works /\ wst[h] = "held" /\ batch[h] = b
  <2> SUFFICES ASSUME exec[b].todo # <<>>
               PROVE  h \in Works /\ wst[h] = "held" /\ batch[h] = b
    OBVIOUS
  <2>1. exec[b].todo \in Seq(Works)
    BY <1>1, <1>3 DEF TypeInv, TypeOK, Batch
  <2> HIDE DEF b
  <2>2. 1 \in DOMAIN exec[b].todo /\ h = exec[b].todo[1] /\ h \in Works
    BY <2>1, HeadTailProperties, EmptySeq, LenProperties, ElementOfSeq
  <2> QED  BY <1>1, <1>3, <2>2 DEF TodoInv
<1>5. \A v \in Works : v # w /\ (more => v # h) => wst'[v] = wst[v]
  BY <1>1, <1>2 DEF TypeInv, TypeOK
<1>6. wst'[w] \notin {"held", "first"} /\ (more => wst'[h] = "serial")
  BY <1>1, <1>2, <1>4 DEF TypeInv, TypeOK
<1>7. \A c \in Works : c # b => exec'[c] = exec[c]
  BY <1>1, <1>2 DEF TypeInv, TypeOK
<1>8. \A v \in Works : v # w => ok'[v] = ok[v]
  BY <1>1, <1>2 DEF TypeInv, TypeOK
<1>9. NoReturn /\ batch' = batch
  BY <1>2 DEF NoReturn
<1>10. batch[w] = b \/ (w = b /\ batch[w] = None)
  OBVIOUS
<1>11. wst[w] = "serial"
  BY <1>2
<1> HIDE DEF b, h, more
<1>12. ~Alive(b)
  <2>1. CASE batch[w] = b
    BY <1>3, <1>11, <2>1 DEF BatchInv, BatchOf, Parts
  <2>2. CASE w = b
    <3>1. ~Returning(b)
      BY <1>11, <2>2 DEF Returning, PlaceInv, StageInv, StageOf
    <3> QED  BY <1>11, <2>2, <3>1 DEF Alive
  <2> QED  BY <1>10, <2>1, <2>2
<1>13. ASSUME NEW c \in Works, Alive(c)'
       PROVE  Alive(c) /\ SameParts(c)
  <2>1. wst'[c] \in {"held", "first"} => wst[c] \in {"held", "first"}
    BY <1>5, <1>6
  <2>2. Alive(c)
    BY <1>9, <1>13, <2>1, AliveBefore
  <2>3. c # b
    BY <1>12, <2>2
  <2>4. \A v \in Works : batch[v] = c => wst'[v] = wst[v] /\ ok'[v] = ok[v]
    <3> SUFFICES ASSUME NEW v \in Works, batch[v] = c
                 PROVE  v # w /\ (more => v # h)
      BY <1>5, <1>8
    <3>1. v # w
      BY <1>10, <2>3, ConstantAssumption
    <3> QED  BY <1>4, <2>3, <3>1
  <2> QED  BY <1>7, <1>9, <2>2, <2>3, <2>4 DEF SameParts
<1> QED  BY <1>13, BatchSame DEF BatchInv

\* No work ends, and none starts to be the first of a call.
LEMMA BatchFrame ==
    ASSUME BatchInv, UNCHANGED <<ok, batch, exec>>, NoReturn,
           \A w \in Works : /\ wst'[w] \in Over <=> wst[w] \in Over
                            /\ wst'[w] \in {"serial", "held", "first"} => wst'[w] = wst[w]
    PROVE  BatchInv'
<1>1. ASSUME NEW b \in Works, Alive(b)'
      PROVE  Alive(b) /\ SameParts(b)
  <2>1. wst'[b] \in {"held", "first"} => wst[b] \in {"held", "first"}
    OBVIOUS
  <2> QED  BY <1>1, <2>1, AliveBefore DEF SameParts
<1> QED  BY <1>1, BatchSame DEF BatchInv

\* What takes a work from workload_, or drops it.
LEMMA BatchTaken ==
    ASSUME IInv, BatchInv, NEW t \in Threads,
           \/ \E w \in Works : RemoveWork(t, w)
           \/ \E q \in QueueIds : ExecuteQueue(t, q)
           \/ EmptyQueueDrop(t)
           \/ AssignTask(t)
    PROVE  BatchInv'
<1>1. TypeInv /\ KeptInv /\ HandInv
  BY DEF IInv
<1>2. \A i \in DOMAIN workload : workload[i] \in Works /\ wst[workload[i]] = "pending"
  BY <1>1, WorkloadElement DEF KeptInv, PendingInv, TypeInv
<1>3. CASE (\E w \in Works : RemoveWork(t, w)) \/ (\E q \in QueueIds : ExecuteQueue(t, q))
  <2>1. PICK i \in DOMAIN workload, s \in {"destroyed", "manual"} :
          wst' = [wst EXCEPT ![workload[i]] = s]
    BY <1>3 DEF RemoveWork, ExecuteQueue
  <2>2. UNCHANGED <<ok, batch, exec, pc, cur>>
    BY <1>3 DEF RemoveWork, ExecuteQueue, threadVars
  <2>3. NoReturn
    BY <2>2 DEF NoReturn
  <2>4. \A v \in Works : wst'[v] = wst[v] \/ (wst[v] = "pending" /\ wst'[v] = s)
    BY <1>1, <1>2, <2>1 DEF TypeInv, TypeOK
  <2> QED  BY <2>2, <2>3, <2>4, BatchFrame DEF Over
<1>4. CASE EmptyQueueDrop(t)
  <2>1. /\ wst' = [w \in Works |-> IF w \in ToSet(workload) /\ wq[w] = op[t].q
                                   THEN "destroyed" ELSE wst[w]]
        /\ UNCHANGED <<ok, batch, exec, cur>>
        /\ pc' = [pc EXCEPT ![t] = IF op[t].remove THEN "remove" ELSE "run"]
    BY <1>4 DEF EmptyQueueDrop, AfterEmptyQueue
  <2>2. \A w \in ToSet(workload) : wst[w] = "pending"
    BY <1>2 DEF ToSet
  <2>3. \A v \in Works : wst'[v] = wst[v] \/ (wst[v] = "pending" /\ wst'[v] = "destroyed")
    BY <2>1, <2>2
  <2>4. NoReturn
    BY <1>1, <2>1, NoReturnBut DEF PCs
  <2> QED  BY <2>1, <2>3, <2>4, BatchFrame DEF Over
<1>5. CASE AssignTask(t)
  <2>1. wst[cur[t]] = "assigned"
    BY <1>1, <1>5 DEF AssignTask, HandInv, AssignInv, Assigning
  <2>2. /\ wst' = wst \/ wst' = [wst EXCEPT ![cur[t]] = "destroyed"]
        /\ UNCHANGED <<ok, batch, exec>>
        /\ ReturnAfter(t, cur[t])
    BY <1>5 DEF AssignTask
  <2>3. \A v \in Works : wst'[v] = wst[v] \/ (wst[v] = "assigned" /\ wst'[v] = "destroyed")
    BY <1>1, <2>1, <2>2 DEF TypeInv, TypeOK
  <2>4. NoReturn
    BY <1>1, <2>2, ReturnAfterNoReturn
  <2> QED  BY <2>2, <2>3, <2>4, BatchFrame DEF Over
<1> QED  BY <1>3, <1>4, <1>5

\* The end of a work for which a call may wait.
LEMMA BatchDone ==
    ASSUME IInv, BatchInv, NEW t \in Threads,
           InlineDone(t) \/ DirectDone(t) \/ ManualDone(t)
    PROVE  BatchInv'
<1>1. TypeInv /\ KeptInv
  BY DEF IInv
<1>2. CASE InlineDone(t) \/ DirectDone(t)
  <2>1. PICK w \in Works, s \in {"inline", "direct"} : \E good \in Outcomes(w) :
          /\ Executing(t, w, s)
          /\ ImFinished(w, good)
          /\ wst' = [wst EXCEPT ![w] = "done"]
          /\ ReturnAfter(t, w) /\ batch' = batch
    BY <1>2 DEF InlineDone, DirectDone
  <2>2. PICK good \in BOOLEAN : ImFinished(w, good)
    BY <2>1, OutcomesType
  <2>3. wst[w] \in {"inline", "direct"}
    BY <2>1 DEF Executing
  <2>4. /\ wst'[w] = "done"
        /\ \A v \in Works \ {w} : wst'[v] = wst[v]
    BY <1>1, <2>1 DEF TypeInv, TypeOK
  <2>5. NoReturn
    BY <1>1, <2>1, ReturnAfterNoReturn
  <2> QED  BY <1>1, <2>1, <2>2, <2>3, <2>4, <2>5, BatchEnds DEF Over
<1>3. CASE ManualDone(t)
  <2>1. PICK w \in Works : \E good \in Outcomes(w) :
          /\ Executing(t, w, "manual")
          /\ ImFinished(w, good)
          /\ \/ \E i \in DOMAIN workload :
                  wst' = [wst EXCEPT ![w] = "done", ![workload[i]] = "manual"]
             \/ wst' = [wst EXCEPT ![w] = "done"]
          /\ UNCHANGED <<batch, pc, cur>>
    BY <1>3 DEF ManualDone
  <2>2. PICK good \in BOOLEAN : ImFinished(w, good)
    BY <2>1, OutcomesType
  <2>3. wst[w] = "manual"
    BY <2>1 DEF Executing
  <2>4. \A i \in DOMAIN workload : workload[i] \in Works /\ wst[workload[i]] = "pending"
    BY <1>1, WorkloadElement DEF KeptInv, PendingInv, TypeInv
  <2>5. /\ wst'[w] = "done"
        /\ \A v \in Works \ {w} : \/ wst'[v] = wst[v]
                                  \/ wst[v] = "pending" /\ wst'[v] = "manual"
    <3>1. CASE wst' = [wst EXCEPT ![w] = "done"]
      BY <1>1, <3>1 DEF TypeInv, TypeOK
    <3>2. CASE \E i \in DOMAIN workload :
                  wst' = [wst EXCEPT ![w] = "done", ![workload[i]] = "manual"]
      <4>1. PICK i \in DOMAIN workload :
              wst' = [wst EXCEPT ![w] = "done", ![workload[i]] = "manual"]
        BY <3>2
      <4>2. workload[i] # w /\ wst[workload[i]] = "pending"
        BY <2>3, <2>4
      <4> QED  BY <1>1, <4>1, <4>2 DEF TypeInv, TypeOK
    <3> QED  BY <2>1, <3>1, <3>2
  <2>6. NoReturn
    BY <2>1 DEF NoReturn
  <2> QED  BY <1>1, <2>1, <2>2, <2>3, <2>5, <2>6, BatchEnds DEF Over
<1> QED  BY <1>2, <1>3

\* The steps of a pool thread between two works.
LEMMA BatchDoWork ==
    ASSUME IInv, BatchInv, NEW x \in Workers, DoWork(x)
    PROVE  BatchInv'
<1>1. TypeInv /\ KeptInv /\ x \in Threads
  BY DEF IInv, Threads
<1>2. TaskOf(x) /\ (task[x] # None => task[x] \in Works)
  BY <1>1 DEF IInv, HandInv, TaskInv, TypeInv, TypeOK
<1>3. CASE TakeTask(x)
  <2>1. /\ wst[task[x]] = "assigned"
        /\ wst' = [wst EXCEPT ![task[x]] = "task"]
        /\ pc' = [pc EXCEPT ![x] = "run"]
        /\ UNCHANGED <<ok, batch, exec, cur>>
    BY <1>2, <1>3 DEF TakeTask, HasTask, TaskOf
  <2>2. \A v \in Works : wst'[v] = wst[v] \/ (wst[v] = "assigned" /\ wst'[v] = "task")
    BY <1>1, <2>1 DEF TypeInv, TypeOK
  <2>3. NoReturn
    BY <1>1, <2>1, NoReturnBut DEF PCs
  <2> QED  BY <2>1, <2>2, <2>3, BatchFrame DEF Over
<1>4. CASE TaskDone(x)
  <2>1. PICK good \in BOOLEAN :
          /\ Executing(x, task[x], "task")
          /\ ImFinished(task[x], good)
          /\ wst' = [wst EXCEPT ![task[x]] = "reporting"]
          /\ pc' = [pc EXCEPT ![x] = "report"]
          /\ UNCHANGED <<batch, cur>>
    BY <1>4, OutcomesType DEF TaskDone
  <2>2. task[x] \in Works /\ wst[task[x]] = "task"
    <3>1. stack[x] # <<>> /\ task[x] = Top(x) /\ wst[task[x]] = "task"
      BY <2>1 DEF Executing
    <3>2. Top(x) \in Works
      <4>1. stack[x] \in Seq(Works)
        BY <1>1 DEF TypeInv, TypeOK
      <4>2. Len(stack[x]) \in DOMAIN stack[x]
        BY <3>1, <4>1, EmptySeq, LenProperties
      <4> QED  BY <4>1, <4>2, LenProperties, ElementOfSeq DEF Top
    <3> QED  BY <3>1, <3>2
  <2>3. /\ wst'[task[x]] = "reporting"
        /\ \A v \in Works \ {task[x]} : wst'[v] = wst[v]
    BY <1>1, <2>1, <2>2 DEF TypeInv, TypeOK
  <2>4. NoReturn
    BY <1>1, <2>1, NoReturnBut DEF PCs
  <2> QED  BY <1>1, <2>1, <2>2, <2>3, <2>4, BatchEnds DEF Over
<1>5. CASE ReportIdle(x) \/ ReportNext(x)
  <2>1. wst[task[x]] = "reporting"
    BY <1>2, <1>5 DEF ReportIdle, ReportNext, TaskOf
  <2>2. UNCHANGED <<ok, batch, exec, cur>>
    BY <1>5 DEF ReportIdle, ReportNext
  <2>3. NoReturn
    <3>1. \E p \in {"idle", "exited", "run"} : pc' = [pc EXCEPT ![x] = p]
      BY <1>5 DEF ReportIdle, ReportNext
    <3> QED  BY <1>1, <2>2, <3>1, NoReturnBut DEF PCs
  <2>4. \A v \in Works : \/ wst'[v] = wst[v]
                         \/ wst[v] = "reporting" /\ wst'[v] = "done"
                         \/ wst[v] = "pending" /\ wst'[v] = "task"
    <3>1. CASE ReportIdle(x)
      <4>1. wst' = [wst EXCEPT ![task[x]] = "done"]
        BY <3>1 DEF ReportIdle
      <4> QED  BY <1>1, <2>1, <4>1 DEF TypeInv, TypeOK
    <3>2. CASE ReportNext(x)
      <4>1. PICK i \in DOMAIN workload :
              wst' = [wst EXCEPT ![task[x]] = "done", ![workload[i]] = "task"]
        BY <3>2 DEF ReportNext
      <4>2. wst[workload[i]] = "pending"
        BY <1>1 DEF KeptInv, PendingInv
      <4> QED  BY <1>1, <2>1, <4>1, <4>2 DEF TypeInv, TypeOK
    <3> QED  BY <1>5, <3>1, <3>2
  <2> QED  BY <2>2, <2>3, <2>4, BatchFrame DEF Over
<1>6. CASE GoIdle(x) \/ Exit(x)
  <2>1. UNCHANGED <<wst, ok, batch, exec, cur>>
    BY <1>6 DEF GoIdle, Exit, workVars
  <2>2. NoReturn
    <3>1. \E p \in {"wait", "exited"} : pc' = [pc EXCEPT ![x] = p]
      BY <1>6 DEF GoIdle, Exit
    <3> QED  BY <1>1, <2>1, <3>1, NoReturnBut DEF PCs
  <2> QED  BY <2>1, <2>2, BatchNothing
<1> QED  BY <1>3, <1>4, <1>5, <1>6 DEF DoWork

\* The steps of the calls that concern queues and threads.
LEMMA BatchQuiet ==
    ASSUME TypeInv, BatchInv, NEW t \in Threads,
           \/ \E type \in QueueTypes : AddQueue(t, type)
           \/ \E q \in QueueIds, all \in BOOLEAN :
                 CallEmptyQueue(t, q, all) \/ CallRemoveQueue(t, q, all)
           \/ Shutdown(t) \/ ShutdownQueue(t) \/ RemoveQueue(t)
           \/ EmptyQueueFinish(t)
           \/ (\E x \in Workers : EraseThread(t, x)) \/ EraseDone(t)
    PROVE  BatchInv'
<1>1. UNCHANGED <<wst, ok, batch, exec, cur>>
  BY DEF AddQueue, CallEmptyQueue, CallRemoveQueue, Shutdown, ShutdownQueue,
     RemoveQueue, EmptyQueueFinish, EraseThread, EraseDone, workVars, threadVars
<1>2. \/ pc' = pc
      \/ \E p \in PCs \ {"execwait"} : pc' = [pc EXCEPT ![t] = p]
  <2>1. CASE \/ \E type \in QueueTypes : AddQueue(t, type)
             \/ \E x \in Workers : EraseThread(t, x)
    BY <2>1 DEF AddQueue, EraseThread, threadVars
  <2>2. CASE \/ \E q \in QueueIds, all \in BOOLEAN :
                   CallEmptyQueue(t, q, all) \/ CallRemoveQueue(t, q, all)
             \/ Shutdown(t) \/ EraseDone(t)
    <3>1. \E p \in {"empty", "shutdown", "run"} : pc' = [pc EXCEPT ![t] = p]
      BY <2>2 DEF CallEmptyQueue, CallRemoveQueue, Shutdown, EraseDone
    <3> QED  BY <3>1 DEF PCs
  <2>3. CASE ShutdownQueue(t)
    <3>1. \E p \in {"erase", "empty"} : pc' = [pc EXCEPT ![t] = p]
      BY <2>3 DEF ShutdownQueue
    <3> QED  BY <3>1 DEF PCs
  <2>4. CASE RemoveQueue(t)
    <3>1. \E p \in {"rewait", "shutdown", "run"} : pc' = [pc EXCEPT ![t] = p]
      BY <2>4 DEF RemoveQueue
    <3> QED  BY <3>1 DEF PCs
  <2>5. CASE EmptyQueueFinish(t)
    <3>1. pc' = pc \/ \E p \in {"remove", "run"} : pc' = [pc EXCEPT ![t] = p]
      BY <2>5 DEF EmptyQueueFinish, AfterEmptyQueue
    <3> QED  BY <3>1 DEF PCs
  <2> QED  BY <2>1, <2>2, <2>3, <2>4, <2>5
<1>3. NoReturn
  BY <1>1, <1>2, NoReturnBut
<1> QED  BY <1>1, <1>3, BatchNothing

LEMMA BatchStep == IInv /\ PlaceInv /\ BatchInv /\ [Next]_vars => BatchInv'
<1> SUFFICES ASSUME IInv, PlaceInv, BatchInv, [Next]_vars
             PROVE  BatchInv'
  OBVIOUS
<1>1. TypeInv
  BY DEF IInv
<1>2. ASSUME NEW t \in Threads, Calls(t)
      PROVE  BatchInv'
  <2>1. CASE \E s \in Batches, q \in QueueIds, firstinline \in BOOLEAN :
                ExecuteWork(t, s, q, firstinline)
    <3>1. QueueIds \subseteq Nat
      BY ConstantAssumption DEF QueueIds
    <3> QED  BY <2>1, <3>1, BatchExecute
  <2>2. CASE \E w \in Works, q \in QueueIds, firstinline, nodup \in BOOLEAN :
                \E force \in ForceChoices : AddWork(t, w, q, firstinline, nodup, force)
    BY <2>2, BatchSubmit
  <2> QED  BY <1>1, <1>2, <2>1, <2>2, BatchTaken, BatchQuiet DEF Calls
<1>3. ASSUME NEW t \in Threads, Steps(t)
      PROVE  BatchInv'
  <2>1. CASE ExecuteWorkAdd(t)
    BY <2>1, BatchSubmit
  <2> QED  BY <1>1, <1>3, <2>1, BatchTaken, BatchDone, BatchFirst, BatchSerial,
           BatchQuiet DEF Steps
<1>4. ASSUME NEW x \in Workers, DoWork(x)
      PROVE  BatchInv'
  BY <1>4, BatchDoWork
<1>5. CASE UNCHANGED vars
  BY <1>5, BatchNothing DEF vars, workVars, threadVars, NoReturn
<1> QED  BY <1>2, <1>3, <1>4, <1>5 DEF Next, AtRest

\* When executeWork stops waiting, every work of the call has been executed,
\* and the call returns TRUE exactly if each of them returned true: no call of
\* imFinished is lost or made twice, and none counts for another call, whether
\* the work was done by a pool thread, by the caller or by the thread that
\* found no free one (WorkResultManager, threadwork.cc).
THEOREM ResultIsCompleteCorrect == Spec => []ResultIsComplete
<1>1. Init => BatchInv
  BY DEF Init, BatchInv, Alive, Returning
<1>2. Spec => [](Base /\ BatchInv)
  <2>1. Base /\ BatchInv /\ [Next]_vars => BatchInv'
    BY BatchStep DEF Base
  <2> QED  BY <1>1, <2>1, BaseInit, BaseStep, PTL DEF Spec
<1>3. Base /\ BatchInv => ResultIsComplete
  <2> SUFFICES ASSUME Base, BatchInv, NEW t \in Threads, pc[t] = "execwait",
                      exec[cur[t]].nrfinished = exec[cur[t]].nrtasks
               PROVE  LET b == cur[t]
                          all == {b} \cup {w \in Works : batch[w] = b}
                      IN  /\ \A w \in all : wst[w] \in {"reporting", "done"}
                          /\ ExecuteWorkResult(b) <=> \A w \in all : ok[w]
    BY DEF ResultIsComplete
  <2> DEFINE b == cur[t]
  <2>1. b \in Works /\ batch[b] = None /\ wst[b] = "done"
    BY DEF Base, IInv, KeptInv, LeaderInv, Leader, PlaceInv, StageInv, StageOf
  <2>2. Returning(b)
    BY DEF Returning
  <2> HIDE DEF b
  <2>3. BatchOf(b)
    BY <2>1, <2>2 DEF BatchInv, Alive
  <2>4. exec[b].nrfinished = exec[b].nrtasks
    BY DEF b
  <2>5. Ended(b) = Parts(b)
    BY <2>3, <2>4, EndedFinite, FS_Subset DEF BatchOf
  <2>6. \A w \in Parts(b) : wst[w] \in {"reporting", "done"}
    BY <2>5 DEF Ended, Over
  <2>7. exec[b].error <=> \E w \in Parts(b) : ~ok[w]
    BY <2>3, <2>5 DEF BatchOf
  <2>8. exec[b].error \in BOOLEAN /\ \A w \in Works : ok[w] \in BOOLEAN
    BY <2>1 DEF Base, IInv, TypeInv, TypeOK, Batch
  <2>9. ExecuteWorkResult(b) <=> \A w \in {b} \cup Parts(b) : ok[w]
    BY <2>1, <2>7, <2>8 DEF ExecuteWorkResult, Parts
  <2> QED  BY <2>1, <2>6, <2>9 DEF Parts, b
<1> QED  BY <1>2, <1>3, PTL
=============================================================================
