------------------------- MODULE WorkManager_proofs -------------------------
(***************************************************************************)
(* Theorems about WorkManager, for every number of threads, works and      *)
(* queues: what the sequence operators do, typing, the counters of the     *)
(* queues, the exclusion on SingleThread queues and the hand-over of a     *)
(* work to a thread.                                                       *)
(***************************************************************************)
EXTENDS WorkManager, FiniteSetTheorems, SequenceTheorems, TLAPS

\* RemoveAt takes out one element and moves the later ones forward.
LEMMA RemoveAtProperties ==
    ASSUME NEW S, NEW s \in Seq(S), NEW i \in 1..Len(s)
    PROVE  /\ RemoveAt(s, i) \in Seq(S)
           /\ Len(RemoveAt(s, i)) = Len(s) - 1
           /\ \A j \in 1..Len(s)-1 :
                 RemoveAt(s, i)[j] = IF j < i THEN s[j] ELSE s[j+1]
<1> DEFINE p == SubSeq(s, 1, i-1)
           r == SubSeq(s, i+1, Len(s))
<1>1. /\ Len(s) \in Nat
      /\ \A j \in 1..Len(s) : s[j] \in S
  BY LenProperties, ElementOfSeq
<1>2. /\ p \in Seq(S) /\ Len(p) = i-1 /\ \A j \in 1..i-1 : p[j] = s[j]
  <2>1. \A j \in 1..i-1 : s[j] \in S
    BY <1>1
  <2>2. /\ p \in Seq(S)
        /\ Len(p) = IF 1 <= i-1 THEN (i-1)-1+1 ELSE 0
        /\ \A j \in 1..(i-1)-1+1 : p[j] = s[1+j-1]
    <3> HIDE DEF p
    <3>1. i-1 \in Int
      BY <1>1
    <3> QED  BY <2>1, <3>1, SubSeqProperties DEF p
  <2> HIDE DEF p
  <2> QED  BY <1>1, <2>2
<1>3. /\ r \in Seq(S) /\ Len(r) = Len(s)-i
      /\ \A j \in 1..Len(s)-i : r[j] = s[j+i]
  <2>1. \A j \in i+1..Len(s) : s[j] \in S
    BY <1>1
  <2>2. /\ r \in Seq(S)
        /\ Len(r) = IF i+1 <= Len(s) THEN Len(s)-(i+1)+1 ELSE 0
        /\ \A j \in 1..Len(s)-(i+1)+1 : r[j] = s[(i+1)+j-1]
    <3>1. i+1 \in Int /\ Len(s) \in Int
      BY <1>1
    <3> QED  BY <2>1, <3>1, SubSeqProperties
  <2> HIDE DEF r
  <2>3. \A j \in 1..Len(s)-i : (i+1)+j-1 = j+i /\ j \in 1..Len(s)-(i+1)+1
    BY <1>1
  <2> QED  BY <1>1, <2>2, <2>3
<1>4. RemoveAt(s, i) = p \o r
  BY DEF RemoveAt
<1> HIDE DEF p, r
<1>5. /\ p \o r \in Seq(S)
      /\ Len(p \o r) = Len(p) + Len(r)
      /\ \A j \in 1..Len(p) + Len(r) :
            (p \o r)[j] = IF j <= Len(p) THEN p[j] ELSE r[j - Len(p)]
  BY <1>2, <1>3, ConcatProperties
<1>6. \A j \in 1..Len(s)-1 :
         (p \o r)[j] = IF j < i THEN s[j] ELSE s[j+1]
  <2> SUFFICES ASSUME NEW j \in 1..Len(s)-1
               PROVE  (p \o r)[j] = IF j < i THEN s[j] ELSE s[j+1]
    OBVIOUS
  <2>1. CASE j < i
    <3>1. j \in 1..i-1 /\ j \in 1..Len(p) + Len(r) /\ j <= Len(p)
      BY <1>1, <1>2, <1>3, <2>1
    <3> QED  BY <2>1, <3>1, <1>2, <1>5
  <2>2. CASE ~(j < i)
    <3>1. /\ j \in 1..Len(p) + Len(r) /\ ~(j <= Len(p))
          /\ j - Len(p) \in 1..Len(s)-i
          /\ (j - Len(p)) + i = j + 1
      BY <1>1, <1>2, <1>3, <2>2
    <3> QED  BY <2>2, <3>1, <1>3, <1>5
  <2> QED  BY <2>1, <2>2
<1> QED  BY <1>1, <1>2, <1>3, <1>4, <1>5, <1>6

\* Front leaves the last element out, Last is that element.
LEMMA FrontProperties ==
    ASSUME NEW S, NEW s \in Seq(S), s # <<>>
    PROVE  /\ Front(s) \in Seq(S)
           /\ Len(Front(s)) = Len(s) - 1
           /\ \A j \in 1..Len(s)-1 : Front(s)[j] = s[j]
           /\ Last(s) \in S
           /\ Last(s) = s[Len(s)]
<1>1. /\ Len(s) \in Nat /\ Len(s) >= 1
      /\ \A j \in 1..Len(s) : s[j] \in S
  BY EmptySeq, LenProperties, ElementOfSeq
<1>2. /\ \A j \in 1..Len(s)-1 : s[j] \in S
      /\ Len(s)-1 \in Int
  BY <1>1
<1>3. /\ Front(s) = SubSeq(s, 1, Len(s)-1)
      /\ Last(s) = s[Len(s)]
  BY DEF Front, Last
<1> DEFINE f == SubSeq(s, 1, Len(s)-1)
<1>4. /\ f \in Seq(S)
      /\ Len(f) = IF 1 <= Len(s)-1 THEN (Len(s)-1)-1+1 ELSE 0
      /\ \A j \in 1..(Len(s)-1)-1+1 : f[j] = s[1+j-1]
  BY <1>2, SubSeqProperties
<1> HIDE DEF f
<1>5. \A j \in 1..Len(s)-1 : 1+j-1 = j /\ j \in 1..(Len(s)-1)-1+1
  BY <1>1
<1>6. /\ Len(f) = Len(s) - 1
      /\ \A j \in 1..Len(s)-1 : f[j] = s[j]
  <2>1. Len(f) = IF 1 <= Len(s)-1 THEN (Len(s)-1)-1+1 ELSE 0
    BY <1>4
  <2>2. Len(f) = Len(s) - 1
    <3>1. \A n \in Nat : n >= 1 =>
             (IF 1 <= n-1 THEN (n-1)-1+1 ELSE 0) = n-1
      OBVIOUS
    <3> QED  BY <1>1, <2>1, <3>1
  <2>3. \A j \in 1..Len(s)-1 : f[j] = s[1+j-1]
    BY <1>4, <1>5
  <2>4. \A j \in 1..Len(s)-1 : f[j] = s[j]
    BY <1>5, <2>3
  <2> QED  BY <2>2, <2>4
<1>7. Front(s) = f /\ Last(s) \in S
  BY <1>1, <1>3 DEF f
<1> QED  BY <1>3, <1>4, <1>6, <1>7

\* Cons puts an element before the others.
LEMMA ConsProperties ==
    ASSUME NEW S, NEW s \in Seq(S), NEW e \in S
    PROVE  /\ Cons(e, s) \in Seq(S)
           /\ Len(Cons(e, s)) = Len(s) + 1
           /\ \A j \in 1..Len(s)+1 :
                 Cons(e, s)[j] = IF j = 1 THEN e ELSE s[j-1]
<1>1. <<e>> \in Seq(S) /\ Len(<<e>>) = 1 /\ <<e>>[1] = e
  OBVIOUS
<1>2. /\ <<e>> \o s \in Seq(S)
      /\ Len(<<e>> \o s) = Len(<<e>>) + Len(s)
      /\ \A j \in 1..Len(<<e>>) + Len(s) :
            (<<e>> \o s)[j] = IF j <= Len(<<e>>) THEN <<e>>[j]
                              ELSE s[j - Len(<<e>>)]
  BY <1>1, ConcatProperties
<1>3. Len(s) \in Nat
  BY LenProperties
<1> QED  BY <1>1, <1>2, <1>3 DEF Cons

\* AddLoad changes one counter and nothing else.
LEMMA AddLoadProperties ==
    ASSUME queues \in Seq(Queue), NEW i, NEW d \in Int
    PROVE  /\ AddLoad(i, d) \in Seq(Queue)
           /\ Len(AddLoad(i, d)) = Len(queues)
           /\ DOMAIN AddLoad(i, d) = DOMAIN queues
           /\ \A k \in DOMAIN queues :
                /\ AddLoad(i, d)[k].id = queues[k].id
                /\ AddLoad(i, d)[k].type = queues[k].type
                /\ AddLoad(i, d)[k].closing = queues[k].closing
                /\ AddLoad(i, d)[k].load =
                      IF k = i THEN queues[k].load + d ELSE queues[k].load
<1>1. /\ Len(queues) \in Nat
      /\ DOMAIN queues = 1..Len(queues)
      /\ \A k \in 1..Len(queues) : queues[k] \in Queue
  BY LenProperties, ElementOfSeq
<1>2. CASE i \in 1..Len(queues)
  <2> DEFINE e == [queues[i] EXCEPT !.load = @ + d]
  <2>1. e \in Queue /\ e.id = queues[i].id /\ e.type = queues[i].type
        /\ e.closing = queues[i].closing /\ e.load = queues[i].load + d
    <3>1. queues[i] \in Queue
      BY <1>1, <1>2
    <3>2. queues[i].load \in Int /\ queues[i].load + d \in Int
      BY <3>1 DEF Queue
    <3> QED  BY <3>1, <3>2 DEF Queue
  <2>2. AddLoad(i, d) = [queues EXCEPT ![i] = e]
    BY DEF AddLoad
  <2> HIDE DEF e
  <2>3. /\ [queues EXCEPT ![i] = e] \in Seq(Queue)
        /\ Len([queues EXCEPT ![i] = e]) = Len(queues)
        /\ \A j \in 1..Len(queues) : [queues EXCEPT ![i] = e][j] =
                                        IF j = i THEN e ELSE queues[j]
    BY <1>2, <2>1, ExceptSeq
  <2> QED  BY <1>1, <2>1, <2>2, <2>3
<1>3. CASE i \notin 1..Len(queues)
  <2>1. AddLoad(i, d) = queues
    <3>1. \A k \in DOMAIN queues : AddLoad(i, d)[k] = queues[k]
      BY <1>1, <1>3 DEF AddLoad
    <3>2. DOMAIN AddLoad(i, d) = DOMAIN queues
      BY DEF AddLoad
    <3>3. AddLoad(i, d) = [k \in DOMAIN queues |-> AddLoad(i, d)[k]]
      BY <3>2 DEF AddLoad
    <3>4. queues = [k \in DOMAIN queues |-> queues[k]]
      BY <1>1, LenProperties
    <3> QED  BY <3>1, <3>3, <3>4
  <2> QED  BY <1>1, <1>3, <2>1
<1> QED  BY <1>2, <1>3

\* indexOf is an index of the queue, or says that there is none.
LEMMA IndexOfProperties ==
    ASSUME queues \in Seq(Queue), NEW q
    PROVE  /\ IndexOf(q) \in Nat
           /\ IndexOf(q) # 0 => /\ IndexOf(q) \in DOMAIN queues
                                 /\ queues[IndexOf(q)].id = q
           /\ IndexOf(q) = 0 => \A i \in DOMAIN queues : queues[i].id # q
<1>1. Len(queues) \in Nat /\ DOMAIN queues = 1..Len(queues)
  BY LenProperties
<1> QED  BY <1>1 DEF IndexOf

-----------------------------------------------------------------------------
(***************************************************************************)
(* Typing.  A thread that is inside addWork or executeWork has in cur the  *)
(* work it deals with, not None.                                           *)
(***************************************************************************)
CurOK ==
    \A t \in Threads : pc[t] \in {"assign", "exec", "execwait"} => cur[t] \in Works

TypeInv == TypeOK /\ CurOK

LEMMA InitTypeInv == Init => TypeInv
<1> SUFFICES ASSUME Init PROVE TypeInv
  OBVIOUS
<1>1. Cardinality(Workers) \in Nat /\ <<>> \in Seq(Works)
  BY ConstantAssumption, FS_CardinalityType, EmptySeq
<1>2. freethreads \in Seq(Workers)
  <2>1. PICK n \in Nat : freethreads \in [1..n -> Workers]
    BY <1>1 DEF Init, SetToSeqs
  <2> QED  BY <2>1, SeqDef
<1>3. queues \in Seq(Queue)
  BY DEF Init, DefaultQueue, Queue
<1>4. exec \in [Works -> Batch] /\ op \in [Threads -> Call]
  BY DEF Init, Batch, NoBatch, Call, NoCall
<1>5. TypeOK
  <2>1. /\ freeid \in Nat /\ workload \in Seq(Works) /\ erased \in BOOLEAN
        /\ task \in [Workers -> Works \cup {None}]
        /\ exitflag \in [Workers -> BOOLEAN]
        /\ waiters \subseteq Threads /\ alarms \subseteq Alarms
    BY <1>1 DEF Init
  <2>2. /\ wst \in [Works -> WorkStates]
        /\ wq \in [Works -> Nat]
        /\ to \in [Works -> Workers \cup {None}]
        /\ ok \in [Works -> BOOLEAN]
        /\ batch \in [Works -> Works \cup {None}]
    BY DEF Init, WorkStates
  <2>3. /\ pc \in [Threads -> PCs]
        /\ stack \in [Threads -> Seq(Works)]
        /\ cur \in [Threads -> Works \cup {None}]
    BY DEF Init, PCs
  <2> QED  BY <1>2, <1>3, <1>4, <2>1, <2>2, <2>3 DEF TypeOK
<1>6. CurOK
  BY DEF Init, CurOK
<1> QED  BY <1>5, <1>6 DEF TypeInv

LEMMA ReturnAfterType ==
    ASSUME TypeInv, NEW t \in Threads, NEW w \in Works, ReturnAfter(t, w)
    PROVE  /\ pc' \in [Threads -> PCs]
           /\ cur' \in [Threads -> Works \cup {None}]
           /\ CurOK'
BY DEF TypeInv, TypeOK, CurOK, ReturnAfter, PCs

LEMMA SubmitType ==
    ASSUME TypeInv, NEW t \in Threads, NEW w \in Works, NEW q \in Nat,
           NEW firstinline, NEW nodup, NEW force,
           Submit(t, w, q, firstinline, nodup, force)
    PROVE  /\ queues' \in Seq(Queue)
           /\ freeid' \in Nat
           /\ workload' \in Seq(Works)
           /\ freethreads' \in Seq(Workers)
           /\ erased' \in BOOLEAN
           /\ wst' \in [Works -> WorkStates]
           /\ wq' \in [Works -> Nat]
           /\ to' \in [Works -> Workers \cup {None}]
           /\ pc' \in [Threads -> PCs]
           /\ stack' \in [Threads -> Seq(Works)]
           /\ cur' \in [Threads -> Works \cup {None}]
           /\ CurOK'
           /\ UNCHANGED <<task, exitflag, ok, op, waiters, alarms>>
<1>1. /\ wq' = [wq EXCEPT ![w] = q]
      /\ UNCHANGED <<task, exitflag, ok, op, waiters, alarms>>
  BY DEF Submit, workerVars
<1>2. wq' \in [Works -> Nat]
  BY <1>1 DEF TypeInv, TypeOK
<1>3. CASE SubmitDirect(t, w)
  BY <1>1, <1>2, <1>3 DEF TypeInv, TypeOK, CurOK, SubmitDirect, poolVars, Push,
     PCs, WorkStates
<1>4. CASE SubmitRejected(t, w, q)
  BY <1>1, <1>2, <1>4, ReturnAfterType DEF TypeInv, TypeOK, SubmitRejected,
     poolVars, WorkStates
<1>5. CASE SubmitIgnored(t, w, q)
  BY <1>1, <1>2, <1>5, ReturnAfterType DEF TypeInv, TypeOK, SubmitIgnored,
     poolVars, WorkStates
<1>6. CASE SubmitToFreeThread(t, w, q)
  <2>1. queues' \in Seq(Queue)
    BY <1>6, AddLoadProperties DEF TypeInv, TypeOK, SubmitToFreeThread
  <2>2. freethreads' \in Seq(Workers) /\ Last(freethreads) \in Workers
    BY <1>6, FrontProperties DEF TypeInv, TypeOK, SubmitToFreeThread,
       FreeThreadsLeft
  <2> QED
    BY <1>1, <1>2, <1>6, <2>1, <2>2 DEF TypeInv, TypeOK, CurOK,
       SubmitToFreeThread, PCs, WorkStates, Busy
<1>7. CASE SubmitInline(t, w, q)
  <2>1. queues' \in Seq(Queue)
    BY <1>7, AddLoadProperties DEF TypeInv, TypeOK, SubmitInline
  <2> QED
    BY <1>1, <1>2, <1>7, <2>1 DEF TypeInv, TypeOK, CurOK, SubmitInline, Push,
       PCs, WorkStates, Busy
<1>8. CASE SubmitQueued(t, w, q, firstinline, force)
  <2>1. workload' \in Seq(Works)
    BY <1>8, ConsProperties DEF TypeInv, TypeOK, SubmitQueued
  <2> QED
    BY <1>1, <1>2, <1>8, <2>1, ReturnAfterType DEF TypeInv, TypeOK,
       SubmitQueued, WorkStates
<1> QED
  BY <1>3, <1>4, <1>5, <1>6, <1>7, <1>8 DEF Submit

\* Every pending work is a work, wherever it is taken out of workload_.
LEMMA WorkloadElement ==
    ASSUME TypeOK, NEW i \in DOMAIN workload
    PROVE  /\ i \in 1..Len(workload)
           /\ workload[i] \in Works
           /\ RemoveAt(workload, i) \in Seq(Works)
<1>1. i \in 1..Len(workload)
  BY LenProperties DEF TypeOK
<1> QED  BY <1>1, ElementOfSeq, RemoveAtProperties DEF TypeOK

LEMMA ReducedType ==
    ASSUME TypeOK, NEW q
    PROVE  Reduced(q) \in Seq(Queue) /\ DOMAIN Reduced(q) = DOMAIN queues
BY AddLoadProperties DEF Reduced, TypeOK

LEMMA StackPop ==
    ASSUME TypeOK, NEW t \in Threads, stack[t] # <<>>
    PROVE  /\ Top(t) \in Works
           /\ Front(stack[t]) \in Seq(Works)
<1>1. stack[t] \in Seq(Works)
  BY DEF TypeOK
<1>2. Len(stack[t]) \in 1..Len(stack[t])
  BY <1>1, EmptySeq
<1> QED  BY <1>1, <1>2, FrontProperties, ElementOfSeq DEF Top

LEMMA AddWorkType ==
    ASSUME TypeInv, NEW t \in Threads, NEW w \in Works, NEW q \in Nat,
           NEW firstinline, NEW nodup, NEW force,
           AddWork(t, w, q, firstinline, nodup, force)
    PROVE  TypeInv'
<1>1. Submit(t, w, q, firstinline, nodup, force) /\ UNCHANGED <<batch, exec>>
  BY DEF AddWork
<1> QED  BY <1>1, SubmitType DEF TypeInv, TypeOK

LEMMA AssignTaskType ==
    ASSUME TypeInv, NEW t \in Threads, AssignTask(t)
    PROVE  TypeInv'
<1> DEFINE w == cur[t]
           x == to[w]
<1>1. w \in Works /\ x \in Workers \cup {None} /\ ReturnAfter(t, w)
  BY DEF AssignTask, TypeInv, TypeOK, CurOK
<1>2. task' \in [Workers -> Works \cup {None}]
  BY <1>1 DEF AssignTask, TypeInv, TypeOK
<1>3. wst' \in [Works -> WorkStates] /\ alarms' \subseteq Alarms
  BY <1>1 DEF AssignTask, TypeInv, TypeOK, WorkStates, Alarms
<1> QED
  BY <1>1, <1>2, <1>3, ReturnAfterType DEF AssignTask, TypeInv, TypeOK, poolVars

LEMMA ImFinishedType ==
    ASSUME TypeOK, NEW w \in Works, NEW good \in BOOLEAN, ImFinished(w, good)
    PROVE  ok' \in [Works -> BOOLEAN] /\ exec' \in [Works -> Batch]
<1>1. ok' \in [Works -> BOOLEAN]
  BY DEF ImFinished, TypeOK
<1>2. CASE batch[w] = None
  BY <1>1, <1>2 DEF ImFinished, TypeOK
<1>3. CASE batch[w] # None
  <2>1. batch[w] \in Works
    BY <1>3 DEF TypeOK
  <2> DEFINE e == [exec[batch[w]] EXCEPT !.nrfinished = @ + 1,
                                         !.error = @ \/ ~good]
  <2>2. exec[batch[w]] \in Batch
    BY <2>1 DEF TypeOK
  <2>3. e \in Batch
    <3>1. exec[batch[w]].nrfinished + 1 \in Nat
      BY <2>2 DEF Batch
    <3>2. (exec[batch[w]].error \/ ~good) \in BOOLEAN
      OBVIOUS
    <3> QED  BY <2>2, <3>1, <3>2 DEF Batch
  <2>4. exec' = [exec EXCEPT ![batch[w]] = e]
    BY <1>3 DEF ImFinished
  <2> QED  BY <1>1, <2>3, <2>4 DEF TypeOK
<1> QED  BY <1>2, <1>3

LEMMA OutcomesType ==
    ASSUME NEW w, NEW good \in Outcomes(w)
    PROVE  good \in BOOLEAN
BY DEF Outcomes

LEMMA InlineDoneType ==
    ASSUME TypeInv, NEW t \in Threads, InlineDone(t)
    PROVE  TypeInv'
<1>1. PICK w \in Works, good \in BOOLEAN :
        LET i == IndexOf(wq[w]) IN
        /\ Executing(t, w, "inline")
        /\ ImFinished(w, good)
        /\ queues' = IF i = 0 THEN queues ELSE AddLoad(i, -1)
        /\ alarms' = IF i = 0 THEN alarms \cup {"bad subscript"} ELSE alarms
        /\ wst' = [wst EXCEPT ![w] = "done"]
        /\ Pop(t)
        /\ ReturnAfter(t, w)
        /\ UNCHANGED <<freeid, workload, freethreads, erased, workerVars,
                       wq, to, batch, op, waiters>>
  BY OutcomesType DEF InlineDone
<1>2. queues' \in Seq(Queue)
  <2>1. \A i : AddLoad(i, -1) \in Seq(Queue)
    BY AddLoadProperties DEF TypeInv, TypeOK
  <2> QED  BY <1>1, <2>1 DEF TypeInv, TypeOK
<1>3. stack' \in [Threads -> Seq(Works)]
  BY <1>1, StackPop DEF Pop, Executing, TypeInv, TypeOK
<1>4. wst' \in [Works -> WorkStates] /\ alarms' \subseteq Alarms
  BY <1>1 DEF TypeInv, TypeOK, WorkStates, Alarms
<1> QED
  BY <1>1, <1>2, <1>3, <1>4, ReturnAfterType, ImFinishedType
  DEF TypeInv, TypeOK, workerVars

LEMMA DirectDoneType ==
    ASSUME TypeInv, NEW t \in Threads, DirectDone(t)
    PROVE  TypeInv'
<1>1. PICK w \in Works, good \in BOOLEAN :
        /\ Executing(t, w, "direct")
        /\ ImFinished(w, good)
        /\ wst' = [wst EXCEPT ![w] = "done"]
        /\ Pop(t)
        /\ ReturnAfter(t, w)
        /\ UNCHANGED <<poolVars, workerVars, wq, to, batch, op, waiters, alarms>>
  BY OutcomesType DEF DirectDone
<1>2. stack' \in [Threads -> Seq(Works)]
  BY <1>1, StackPop DEF Pop, Executing, TypeInv, TypeOK
<1>3. wst' \in [Works -> WorkStates]
  BY <1>1 DEF TypeInv, TypeOK, WorkStates
<1> QED
  BY <1>1, <1>2, <1>3, ReturnAfterType, ImFinishedType, SMTT(30)
  DEF TypeInv, TypeOK, workerVars, poolVars

LEMMA RemoveWorkType ==
    ASSUME TypeInv, NEW t \in Threads, NEW w \in Works, RemoveWork(t, w)
    PROVE  TypeInv'
<1>1. PICK i \in DOMAIN workload :
        /\ wst' = [wst EXCEPT ![workload[i]] = "destroyed"]
        /\ workload' = RemoveAt(workload, i)
  BY DEF RemoveWork
<1>2. wst' \in [Works -> WorkStates] /\ workload' \in Seq(Works)
  BY <1>1, WorkloadElement DEF TypeInv, TypeOK, WorkStates
<1> QED
  BY <1>2 DEF RemoveWork, TypeInv, TypeOK, CurOK, workerVars, threadVars

LEMMA TakeTaskType ==
    ASSUME TypeInv, NEW x \in Workers, TakeTask(x)
    PROVE  TypeInv'
<1>1. x \in Threads /\ task[x] \in Works
  BY DEF TakeTask, HasTask, TypeInv, TypeOK, Threads
<1>2. /\ stack' \in [Threads -> Seq(Works)]
      /\ wst' \in [Works -> WorkStates]
      /\ pc' \in [Threads -> PCs]
      /\ CurOK'
  BY <1>1 DEF TakeTask, TypeInv, TypeOK, CurOK, WorkStates, Busy, PCs
<1> QED
  BY <1>2 DEF TakeTask, TypeInv, TypeOK, poolVars, workerVars

LEMMA TaskDoneType ==
    ASSUME TypeInv, NEW x \in Workers, TaskDone(x)
    PROVE  TypeInv'
<1> DEFINE w == task[x]
<1>1. PICK good \in BOOLEAN :
        /\ Executing(x, w, "task")
        /\ ImFinished(w, good)
  BY OutcomesType DEF TaskDone
<1>2. x \in Threads /\ w \in Works
  BY <1>1, StackPop DEF Executing, TypeInv, Threads
<1>3. ok' \in [Works -> BOOLEAN] /\ exec' \in [Works -> Batch]
  <2> HIDE DEF w
  <2> QED  BY <1>1, <1>2, ImFinishedType DEF TypeInv
<1>4. /\ wst' \in [Works -> WorkStates]
      /\ pc' \in [Threads -> PCs]
      /\ CurOK'
  BY <1>2 DEF TaskDone, TypeInv, TypeOK, CurOK, WorkStates, Busy, PCs
<1> QED
  BY <1>3, <1>4 DEF TaskDone, TypeInv, TypeOK, poolVars, workerVars

LEMMA ReportIdleType ==
    ASSUME TypeInv, NEW x \in Workers, ReportIdle(x)
    PROVE  TypeInv'
<1>1. x \in Threads
  BY DEF Threads
<1>2. queues' \in Seq(Queue)
  BY ReducedType DEF ReportIdle, TypeInv
<1>3. /\ freethreads' \in Seq(Workers)
      /\ task' \in [Workers -> Works \cup {None}]
      /\ wst' \in [Works -> WorkStates]
      /\ waiters' \subseteq Threads
      /\ stack' \in [Threads -> Seq(Works)]
  <2>1. <<>> \in Seq(Works) /\ Append(freethreads, x) \in Seq(Workers)
    BY EmptySeq DEF TypeInv, TypeOK
  <2> QED  BY <1>1, <2>1 DEF ReportIdle, TypeInv, TypeOK, WorkStates
<1>4. /\ pc' \in [Threads -> PCs]
      /\ CurOK'
      /\ alarms' \subseteq Alarms
  BY <1>1 DEF ReportIdle, TypeInv, TypeOK, CurOK, PCs, Alarms, ReduceAlarm
<1> QED
  BY <1>2, <1>3, <1>4 DEF ReportIdle, TypeInv, TypeOK

LEMMA ReportNextType ==
    ASSUME TypeInv, NEW x \in Workers, ReportNext(x)
    PROVE  TypeInv'
<1> DEFINE q == wq[task[x]]
<1>1. x \in Threads
  BY DEF Threads
<1>2. PICK i \in DOMAIN workload :
        /\ queues' = [k \in DOMAIN queues |->
                        IF queues[k].id = wq[workload[i]]
                        THEN [Reduced(q)[k] EXCEPT !.load = @ + 1]
                        ELSE Reduced(q)[k]]
        /\ workload' = RemoveAt(workload, i)
        /\ task' = [task EXCEPT ![x] = workload[i]]
        /\ to' = [to EXCEPT ![workload[i]] = x]
        /\ wst' = [wst EXCEPT ![task[x]] = "done", ![workload[i]] = "task"]
        /\ stack' = [stack EXCEPT ![x] = <<workload[i]>>]
  BY DEF ReportNext
<1>3. workload[i] \in Works /\ workload' \in Seq(Works)
  BY <1>2, WorkloadElement DEF TypeInv
<1>4. queues' \in Seq(Queue)
  <2> HIDE DEF q
  <2> DEFINE n == Len(queues)
  <2>1. /\ n \in Nat
        /\ DOMAIN queues = 1..n
        /\ \A k \in 1..n : Reduced(q)[k] \in Queue
    <3>1. /\ Reduced(q) \in Seq(Queue)
          /\ DOMAIN Reduced(q) = DOMAIN queues
          /\ DOMAIN queues = 1..n
      BY ReducedType, LenProperties DEF TypeInv, TypeOK
    <3> QED  BY <3>1, LenProperties, ElementOfSeq DEF TypeInv, TypeOK
  <2>2. \A e \in Queue : [e EXCEPT !.load = @ + 1] \in Queue
    <3>1. \A e \in Queue : e.load + 1 \in Int
      BY DEF Queue
    <3> QED  BY <3>1 DEF Queue
  <2>3. queues' \in [1..n -> Queue]
    BY <1>2, <2>1, <2>2
  <2> QED  BY <2>1, <2>3, SeqDef
<1>5. /\ task' \in [Workers -> Works \cup {None}]
      /\ to' \in [Works -> Workers \cup {None}]
      /\ wst' \in [Works -> WorkStates]
      /\ stack' \in [Threads -> Seq(Works)]
  <2>1. {"done", "task"} \subseteq WorkStates
    BY DEF WorkStates, Busy
  <2>2. wst' \in [Works -> WorkStates]
    BY <1>2, <2>1 DEF TypeInv, TypeOK
  <2>3. /\ task' = [task EXCEPT ![x] = workload[i]]
        /\ to' = [to EXCEPT ![workload[i]] = x]
        /\ stack' = [stack EXCEPT ![x] = <<workload[i]>>]
    BY <1>2
  <2>4. <<workload[i]>> \in Seq(Works)
    BY <1>3
  <2> QED  BY <1>1, <1>3, <2>2, <2>3, <2>4 DEF TypeInv, TypeOK
<1>6. /\ pc' \in [Threads -> PCs]
      /\ CurOK'
      /\ waiters' \subseteq Threads
      /\ alarms' \subseteq Alarms
  BY <1>1 DEF ReportNext, TypeInv, TypeOK, CurOK, PCs, Alarms, ReduceAlarm
<1> QED
  BY <1>3, <1>4, <1>5, <1>6 DEF ReportNext, TypeInv, TypeOK

LEMMA IdleExitType ==
    ASSUME TypeInv, NEW x \in Workers, GoIdle(x) \/ Exit(x)
    PROVE  TypeInv'
<1>1. pc' \in [Threads -> PCs] /\ CurOK'
  BY DEF GoIdle, Exit, TypeInv, TypeOK, CurOK, PCs
<1> QED
  BY <1>1 DEF GoIdle, Exit, TypeInv, TypeOK, poolVars, workerVars, workVars

\* The arguments of executeWork.
LEMMA BatchesProperties ==
    ASSUME NEW s \in Batches
    PROVE  /\ s \in Seq(Works)
           /\ s # <<>>
           /\ \A i, j \in DOMAIN s : s[i] = s[j] => i = j
           /\ DOMAIN s = 1..Len(s)
<1>1. PICK n \in 1..MaxBatch :
        /\ s \in [1..n -> Works]
        /\ \A i, j \in 1..n : s[i] = s[j] => i = j
  BY DEF Batches
<1>2. n \in Nat /\ n >= 1
  BY ConstantAssumption
<1>3. s \in Seq(Works)
  BY <1>1, <1>2, SeqDef
<1>4. s # <<>>
  BY <1>1, <1>2
<1> QED  BY <1>1, <1>3, <1>4, LenProperties

LEMMA ExecuteWorkType ==
    ASSUME TypeInv, NEW t \in Threads, NEW s \in Batches, NEW q \in Nat,
           NEW firstinline \in BOOLEAN, ExecuteWork(t, s, q, firstinline)
    PROVE  TypeInv'
<1> DEFINE b == Head(s)
<1>1. /\ s \in Seq(Works)
      /\ b \in Works
      /\ Tail(s) \in Seq(Works)
      /\ Len(s) - 1 \in Nat
  <2>1. s \in Seq(Works) /\ s # <<>>
    BY BatchesProperties
  <2> QED  BY <2>1, HeadTailProperties, EmptySeq
<1>2. exec' \in [Works -> Batch]
  <2> DEFINE e == [todo |-> Tail(s), nrtasks |-> Len(s) - 1, nrfinished |-> 0,
                   error |-> FALSE, firstinline |-> firstinline]
  <2>1. e \in Batch
    BY <1>1 DEF Batch
  <2>2. exec' = [exec EXCEPT ![b] = e]
    BY DEF ExecuteWork
  <2> HIDE DEF e
  <2> QED  BY <1>1, <2>1, <2>2 DEF TypeInv, TypeOK
<1>3. /\ batch' \in [Works -> Works \cup {None}]
      /\ wq' \in [Works -> Nat]
  BY <1>1 DEF ExecuteWork, TypeInv, TypeOK
<1>4. wst' \in [Works -> WorkStates]
  <2>1. {"serial", "held"} \subseteq WorkStates
    BY DEF WorkStates
  <2> QED  BY <1>1, <2>1 DEF ExecuteWork, TypeInv, TypeOK
<1>5. stack' \in [Threads -> Seq(Works)]
  <2>1. Append(stack[t], b) \in Seq(Works)
    BY <1>1 DEF TypeInv, TypeOK
  <2>2. stack' = [stack EXCEPT ![t] = Append(stack[t], b)] \/ stack' = stack
    BY DEF ExecuteWork, Push
  <2> HIDE DEF b
  <2> QED  BY <2>1, <2>2 DEF TypeInv, TypeOK
<1>6. /\ pc' \in [Threads -> PCs]
      /\ cur' \in [Threads -> Works \cup {None}]
      /\ CurOK'
  <2>1. CASE Serial
    BY <1>1, <2>1 DEF ExecuteWork, TypeInv, TypeOK, CurOK, PCs
  <2>2. CASE ~Serial
    BY <1>1, <2>2 DEF ExecuteWork, TypeInv, TypeOK, CurOK, PCs
  <2> QED  BY <2>1, <2>2
<1> QED
  BY <1>2, <1>3, <1>4, <1>5, <1>6 DEF ExecuteWork, TypeInv, TypeOK, poolVars,
     workerVars

LEMMA ExecuteWorkAddType ==
    ASSUME TypeInv, NEW t \in Threads, ExecuteWorkAdd(t)
    PROVE  TypeInv'
<1> DEFINE b == cur[t]
           w == Head(exec[b].todo)
<1>1. b \in Works /\ exec[b] \in Batch
  BY DEF ExecuteWorkAdd, TypeInv, TypeOK, CurOK
<1>2. /\ exec[b].todo \in Seq(Works)
      /\ exec[b].todo # <<>>
  BY <1>1 DEF ExecuteWorkAdd, Batch
<1>3. /\ w \in Works
      /\ Tail(exec[b].todo) \in Seq(Works)
  BY <1>2, HeadTailProperties
<1>4. wq[b] \in Nat
  BY <1>1 DEF TypeInv, TypeOK
<1>5. exec' \in [Works -> Batch]
  <2> DEFINE e == [exec[b] EXCEPT !.todo = Tail(@)]
  <2>1. e \in Batch
    BY <1>1, <1>3 DEF Batch
  <2>2. exec' = [exec EXCEPT ![b] = e]
    BY DEF ExecuteWorkAdd
  <2> HIDE DEF b, e
  <2> QED  BY <1>1, <2>1, <2>2 DEF TypeInv, TypeOK
<1>6. /\ Submit(t, w, wq[b], exec[b].firstinline, FALSE, FALSE)
      /\ UNCHANGED batch
  BY DEF ExecuteWorkAdd
<1> HIDE DEF b, w
<1> QED
  BY <1>3, <1>4, <1>5, <1>6, SubmitType DEF TypeInv, TypeOK

LEMMA ExecuteWorkFirstType ==
    ASSUME TypeInv, NEW t \in Threads, ExecuteWorkFirst(t)
    PROVE  TypeInv'
<1>1. cur[t] \in Works
  BY DEF ExecuteWorkFirst, TypeInv, TypeOK, CurOK
<1>2. /\ wst' \in [Works -> WorkStates]
      /\ stack' \in [Threads -> Seq(Works)]
      /\ pc' \in [Threads -> PCs]
      /\ CurOK'
  BY <1>1 DEF ExecuteWorkFirst, Push, TypeInv, TypeOK, CurOK, WorkStates, PCs
<1> QED
  BY <1>2 DEF ExecuteWorkFirst, TypeInv, TypeOK, poolVars, workerVars

LEMMA FirstDoneType ==
    ASSUME TypeInv, NEW t \in Threads, FirstDone(t)
    PROVE  TypeInv'
<1>1. PICK w \in Works, good \in BOOLEAN :
        /\ Executing(t, w, "first")
        /\ ok' = [ok EXCEPT ![w] = good]
        /\ wst' = [wst EXCEPT ![w] = "done"]
        /\ Pop(t)
        /\ pc' = [pc EXCEPT ![t] = "execwait"]
        /\ cur' = [cur EXCEPT ![t] = w]
        /\ UNCHANGED <<poolVars, workerVars, wq, to, batch, exec, op, waiters,
                       alarms>>
  BY OutcomesType DEF FirstDone
<1>2. /\ wst' \in [Works -> WorkStates]
      /\ ok' \in [Works -> BOOLEAN]
  BY <1>1 DEF TypeInv, TypeOK, WorkStates
<1>3. stack' \in [Threads -> Seq(Works)]
  BY <1>1, StackPop DEF Pop, Executing, TypeInv, TypeOK
<1>4. /\ pc' \in [Threads -> PCs]
      /\ cur' \in [Threads -> Works \cup {None}]
      /\ CurOK'
  BY <1>1 DEF TypeInv, TypeOK, CurOK, PCs
<1> QED
  BY <1>1, <1>2, <1>3, <1>4 DEF TypeInv, TypeOK, poolVars, workerVars

LEMMA ExecuteWorkReturnType ==
    ASSUME TypeInv, NEW t \in Threads, ExecuteWorkReturn(t)
    PROVE  TypeInv'
<1>1. NoBatch \in Batch
  BY DEF NoBatch, Batch
<1>2. /\ exec' \in [Works -> Batch]
      /\ pc' \in [Threads -> PCs]
      /\ cur' \in [Threads -> Works \cup {None}]
      /\ CurOK'
  BY <1>1 DEF ExecuteWorkReturn, TypeInv, TypeOK, CurOK, PCs
<1> QED
  BY <1>2 DEF ExecuteWorkReturn, TypeInv, TypeOK, poolVars, workerVars

LEMMA SerialDoneType ==
    ASSUME TypeInv, NEW t \in Threads, SerialDone(t)
    PROVE  TypeInv'
<1>0. PICK w \in Works : \E good \in Outcomes(w) :
        LET b == IF batch[w] = None THEN w ELSE batch[w]
            more == good /\ exec[b].todo # <<>>
        IN  /\ Executing(t, w, "serial")
            /\ ok' = [ok EXCEPT ![w] = good]
            /\ exec' = [exec EXCEPT ![b].todo = IF more THEN Tail(@) ELSE <<>>,
                                    ![b].error = @ \/ ~good]
            /\ wst' = IF more
                      THEN [wst EXCEPT ![w] = "done",
                                       ![Head(exec[b].todo)] = "serial"]
                      ELSE [wst EXCEPT ![w] = "done"]
            /\ stack' = [stack EXCEPT ![t] = IF more
                            THEN Append(Front(@), Head(exec[b].todo))
                            ELSE Front(@)]
            /\ UNCHANGED <<poolVars, workerVars, wq, to, batch, pc, cur, op,
                           waiters, alarms>>
  BY Zenon DEF SerialDone
<1>1. PICK good \in Outcomes(w) :
        LET b == IF batch[w] = None THEN w ELSE batch[w]
            more == good /\ exec[b].todo # <<>>
        IN  /\ Executing(t, w, "serial")
            /\ ok' = [ok EXCEPT ![w] = good]
            /\ exec' = [exec EXCEPT ![b].todo = IF more THEN Tail(@) ELSE <<>>,
                                    ![b].error = @ \/ ~good]
            /\ wst' = IF more
                      THEN [wst EXCEPT ![w] = "done",
                                       ![Head(exec[b].todo)] = "serial"]
                      ELSE [wst EXCEPT ![w] = "done"]
            /\ stack' = [stack EXCEPT ![t] = IF more
                            THEN Append(Front(@), Head(exec[b].todo))
                            ELSE Front(@)]
            /\ UNCHANGED <<poolVars, workerVars, wq, to, batch, pc, cur, op,
                           waiters, alarms>>
  BY <1>0, Zenon
<1>a. good \in BOOLEAN
  BY OutcomesType
<1> DEFINE b == IF batch[w] = None THEN w ELSE batch[w]
           more == good /\ exec[b].todo # <<>>
           todo == exec[b].todo
<1>2. b \in Works /\ exec[b] \in Batch
  BY DEF TypeInv, TypeOK
<1>3. /\ todo \in Seq(Works)
      /\ more => Head(todo) \in Works /\ Tail(todo) \in Seq(Works)
      /\ <<>> \in Seq(Works)
  BY <1>2, HeadTailProperties, EmptySeq DEF Batch
<1>4. ok' \in [Works -> BOOLEAN]
  BY <1>1, <1>a DEF TypeInv, TypeOK
<1>5. exec' \in [Works -> Batch]
  <2> DEFINE e == [exec[b] EXCEPT !.todo = IF more THEN Tail(todo) ELSE <<>>,
                                  !.error = @ \/ ~good]
  <2>1. exec' = [exec EXCEPT ![b] = e]
    BY <1>1
  <2>2. e \in Batch
    <3>1. (exec[b].error \/ ~good) \in BOOLEAN
      OBVIOUS
    <3>2. (IF more THEN Tail(todo) ELSE <<>>) \in Seq(Works)
      BY <1>3
    <3> HIDE DEF more, todo, b
    <3> QED  BY <1>2, <3>1, <3>2 DEF Batch
  <2> HIDE DEF e, b
  <2> QED  BY <1>2, <2>1, <2>2 DEF TypeInv, TypeOK
<1>6. wst' \in [Works -> WorkStates]
  <2>1. {"done", "serial"} \subseteq WorkStates
    BY DEF WorkStates
  <2> QED  BY <1>1, <1>2, <1>3, <2>1 DEF TypeInv, TypeOK
<1>7. stack' \in [Threads -> Seq(Works)]
  <2>1. Front(stack[t]) \in Seq(Works)
    BY <1>1, StackPop DEF Executing, TypeInv
  <2>2. more => Append(Front(stack[t]), Head(todo)) \in Seq(Works)
    BY <1>3, <2>1
  <2>3. stack' = [stack EXCEPT ![t] = IF more
                     THEN Append(Front(stack[t]), Head(todo))
                     ELSE Front(stack[t])]
    BY <1>1
  <2> HIDE DEF more, todo
  <2> QED  BY <2>1, <2>2, <2>3 DEF TypeInv, TypeOK
<1>8. UNCHANGED <<poolVars, workerVars, wq, to, batch, pc, cur, op, waiters,
                  alarms>>
  BY <1>1
<1> QED
  BY <1>4, <1>5, <1>6, <1>7, <1>8 DEF TypeInv, TypeOK, CurOK, poolVars,
     workerVars

LEMMA AddQueueType ==
    ASSUME TypeInv, NEW t \in Threads, NEW type \in QueueTypes, AddQueue(t, type)
    PROVE  TypeInv'
<1>1. [id |-> freeid, type |-> type, load |-> 0, closing |-> FALSE] \in Queue
  BY ConstantAssumption DEF TypeInv, TypeOK, Queue
<1>2. queues' \in Seq(Queue) /\ freeid' \in Nat
  BY <1>1 DEF AddQueue, TypeInv, TypeOK
<1> QED
  BY <1>2 DEF AddQueue, TypeInv, TypeOK, CurOK, workerVars, workVars, threadVars

LEMMA ExecuteQueueType ==
    ASSUME TypeInv, NEW t \in Threads, NEW q, ExecuteQueue(t, q)
    PROVE  TypeInv'
<1>1. PICK i \in DOMAIN workload :
        /\ workload' = RemoveAt(workload, i)
        /\ wst' = [wst EXCEPT ![workload[i]] = "manual"]
        /\ Push(t, workload[i])
  BY DEF ExecuteQueue
<1>2. workload[i] \in Works /\ workload' \in Seq(Works)
  BY <1>1, WorkloadElement DEF TypeInv
<1>3. wst' \in [Works -> WorkStates] /\ stack' \in [Threads -> Seq(Works)]
  BY <1>1, <1>2 DEF Push, TypeInv, TypeOK, WorkStates, Busy
<1>4. queues' \in Seq(Queue)
  BY AddLoadProperties DEF ExecuteQueue, TypeInv, TypeOK
<1> QED
  BY <1>2, <1>3, <1>4 DEF ExecuteQueue, TypeInv, TypeOK, CurOK, workerVars

LEMMA ManualDoneType ==
    ASSUME TypeInv, NEW t \in Threads, ManualDone(t)
    PROVE  TypeInv'
<1>1. PICK w \in Works : \E good \in Outcomes(w) :
        LET q == wq[w]
            more == IndexOf(q) # 0 /\ HasPending(q)
        IN  /\ Executing(t, w, "manual")
            /\ ImFinished(w, good)
            /\ waiters' = IF IndexOf(q) # 0 /\ Wakes(q) THEN {} ELSE waiters
            /\ IF more
               THEN \E i \in DOMAIN workload :
                      /\ IsFirstOf(q, i)
                      /\ queues' = queues
                      /\ workload' = RemoveAt(workload, i)
                      /\ wst' = [wst EXCEPT ![w] = "done",
                                            ![workload[i]] = "manual"]
                      /\ stack' = [stack EXCEPT ![t] =
                                     Append(Front(@), workload[i])]
               ELSE /\ queues' = Reduced(q)
                    /\ workload' = workload
                    /\ wst' = [wst EXCEPT ![w] = "done"]
                    /\ Pop(t)
            /\ UNCHANGED <<freeid, freethreads, erased, workerVars, wq, to,
                           batch, pc, cur, op, alarms>>
  BY Zenon DEF ManualDone
<1>2. /\ Executing(t, w, "manual")
      /\ \E good \in Outcomes(w) : ImFinished(w, good)
      /\ waiters' \subseteq Threads
      /\ UNCHANGED <<freeid, freethreads, erased, workerVars, wq, to, batch, pc,
                     cur, op, alarms>>
  BY <1>1 DEF TypeInv, TypeOK
<1>3. ok' \in [Works -> BOOLEAN] /\ exec' \in [Works -> Batch]
  BY <1>2, ImFinishedType, OutcomesType DEF TypeInv
<1>4. Front(stack[t]) \in Seq(Works)
  BY <1>2, StackPop DEF Executing, TypeInv
<1>5. {"done", "manual"} \subseteq WorkStates
  BY DEF WorkStates, Busy
<1>6. /\ queues' \in Seq(Queue)
      /\ workload' \in Seq(Works)
      /\ wst' \in [Works -> WorkStates]
      /\ stack' \in [Threads -> Seq(Works)]
  <2>1. CASE \E i \in DOMAIN workload :
                /\ queues' = queues
                /\ workload' = RemoveAt(workload, i)
                /\ wst' = [wst EXCEPT ![w] = "done", ![workload[i]] = "manual"]
                /\ stack' = [stack EXCEPT ![t] = Append(Front(@), workload[i])]
    <3>1. PICK i \in DOMAIN workload :
                /\ queues' = queues
                /\ workload' = RemoveAt(workload, i)
                /\ wst' = [wst EXCEPT ![w] = "done", ![workload[i]] = "manual"]
                /\ stack' = [stack EXCEPT ![t] = Append(Front(@), workload[i])]
      BY <2>1
    <3>2. workload[i] \in Works /\ workload' \in Seq(Works)
      BY <3>1, WorkloadElement DEF TypeInv
    <3>3. Append(Front(stack[t]), workload[i]) \in Seq(Works)
      BY <1>4, <3>2
    <3> QED  BY <1>5, <3>1, <3>2, <3>3 DEF TypeInv, TypeOK
  <2>2. CASE /\ queues' = Reduced(wq[w])
             /\ workload' = workload
             /\ wst' = [wst EXCEPT ![w] = "done"]
             /\ Pop(t)
    BY <1>4, <1>5, <2>2, ReducedType DEF Pop, TypeInv, TypeOK
  <2> QED  BY <1>1, <2>1, <2>2
<1> QED
  BY <1>2, <1>3, <1>6 DEF TypeInv, TypeOK, CurOK, workerVars

LEMMA CloseCallType ==
    ASSUME TypeInv, NEW t \in Threads, NEW q \in Nat, NEW all \in BOOLEAN,
           CallEmptyQueue(t, q, all) \/ CallRemoveQueue(t, q, all)
    PROVE  TypeInv'
<1>1. op' \in [Threads -> Call]
  <2>1. [NoCall EXCEPT !.q = q, !.all = all] \in Call
    BY DEF NoCall, Call
  <2>2. \A i \in Nat : [NoCall EXCEPT !.q = q, !.idx = i, !.all = all,
                                      !.remove = TRUE] \in Call
    BY DEF NoCall, Call
  <2>3. IndexOf(q) \in Nat
    BY IndexOfProperties DEF TypeInv, TypeOK
  <2> QED
    BY <2>1, <2>2, <2>3 DEF CallEmptyQueue, CallRemoveQueue, TypeInv, TypeOK
<1>2. pc' \in [Threads -> PCs] /\ CurOK'
  BY DEF CallEmptyQueue, CallRemoveQueue, TypeInv, TypeOK, CurOK, PCs
<1>3. queues' \in Seq(Queue)
  <2>1. CASE CallEmptyQueue(t, q, all)
    BY <2>1 DEF CallEmptyQueue, TypeInv, TypeOK, poolVars
  <2>2. CASE CallRemoveQueue(t, q, all)
    <3> DEFINE i == IndexOf(q)
               e == [queues[i] EXCEPT !.closing = TRUE]
    <3>1. i \in 1..Len(queues)
      BY <2>2, IndexOfProperties, LenProperties DEF CallRemoveQueue, MayClose,
         TypeInv, TypeOK
    <3>2. e \in Queue
      <4>1. queues[i] \in Queue
        BY <3>1, ElementOfSeq DEF TypeInv, TypeOK
      <4> HIDE DEF i
      <4> QED  BY <4>1 DEF Queue
    <3>3. queues' = [queues EXCEPT ![i] = e]
      BY <2>2 DEF CallRemoveQueue
    <3> HIDE DEF i, e
    <3> QED  BY <3>1, <3>2, <3>3, ExceptSeq DEF TypeInv, TypeOK
  <2> QED  BY <2>1, <2>2
<1> QED
  BY <1>1, <1>2, <1>3 DEF CallEmptyQueue, CallRemoveQueue, TypeInv, TypeOK,
     poolVars, workerVars, workVars

LEMMA AfterEmptyQueueType ==
    ASSUME TypeInv, NEW t \in Threads, AfterEmptyQueue(t), UNCHANGED cur
    PROVE  /\ pc' \in [Threads -> PCs]
           /\ op' \in [Threads -> Call]
           /\ CurOK'
<1>1. NoCall \in Call
  BY DEF NoCall, Call
<1> QED
  BY <1>1 DEF AfterEmptyQueue, TypeInv, TypeOK, CurOK, PCs

LEMMA EmptyQueueFinishType ==
    ASSUME TypeInv, NEW t \in Threads, EmptyQueueFinish(t)
    PROVE  TypeInv'
<1>1. /\ pc' \in [Threads -> PCs]
      /\ op' \in [Threads -> Call]
      /\ CurOK'
      /\ waiters' \subseteq Threads
  <2>1. CASE waiters' = waiters \cup {t} /\ UNCHANGED <<pc, op>>
    BY <2>1 DEF EmptyQueueFinish, TypeInv, TypeOK, CurOK
  <2>2. CASE AfterEmptyQueue(t) /\ UNCHANGED waiters
    BY <2>2, AfterEmptyQueueType DEF EmptyQueueFinish, TypeInv, TypeOK
  <2> QED  BY <2>1, <2>2 DEF EmptyQueueFinish
<1>2. alarms' \subseteq Alarms
  BY DEF EmptyQueueFinish, SubscriptAlarm, Alarms, TypeInv, TypeOK
<1> QED
  BY <1>1, <1>2 DEF EmptyQueueFinish, TypeInv, TypeOK, poolVars, workerVars,
     workVars

LEMMA EmptyQueueDropType ==
    ASSUME TypeInv, NEW t \in Threads, EmptyQueueDrop(t)
    PROVE  TypeInv'
<1> DEFINE kept == {w \in ToSet(workload) : wq[w] # op[t].q}
<1>1. kept \subseteq Works
  BY WorkloadElement DEF ToSet, TypeInv
<1>2. workload' \in Seq(Works)
  <2>1. Cardinality(kept) \in Nat
    BY <1>1, ConstantAssumption, FS_Subset, FS_CardinalityType
  <2>2. workload' \in [1..Cardinality(kept) -> kept]
    BY DEF EmptyQueueDrop, SetToSeqs
  <2> HIDE DEF kept
  <2>3. workload' \in [1..Cardinality(kept) -> Works]
    BY <1>1, <2>2
  <2> QED  BY <2>1, <2>3, SeqDef
<1>3. wst' \in [Works -> WorkStates]
  BY DEF EmptyQueueDrop, TypeInv, TypeOK, WorkStates
<1>4. alarms' \subseteq Alarms
  BY DEF EmptyQueueDrop, SubscriptAlarm, Alarms, TypeInv, TypeOK
<1>5. waiters' \subseteq Threads
  BY DEF EmptyQueueDrop, TypeInv, TypeOK
<1>6. /\ pc' \in [Threads -> PCs]
      /\ op' \in [Threads -> Call]
      /\ CurOK'
  BY AfterEmptyQueueType DEF EmptyQueueDrop
<1> QED
  BY <1>2, <1>3, <1>4, <1>5, <1>6 DEF EmptyQueueDrop, TypeInv, TypeOK,
     workerVars

LEMMA RemoveQueueType ==
    ASSUME TypeInv, NEW t \in Threads, RemoveQueue(t)
    PROVE  TypeInv'
<1> DEFINE k == IndexOf(op[t].q)
<1>1. queues' \in Seq(Queue)
  <2>1. k # 0 => RemoveAt(queues, k) \in Seq(Queue)
    BY IndexOfProperties, RemoveAtProperties, LenProperties DEF TypeInv, TypeOK
  <2>2. \/ queues' = queues
        \/ k # 0 /\ queues' = RemoveAt(queues, k)
    BY DEF RemoveQueue
  <2> QED  BY <2>1, <2>2 DEF TypeInv, TypeOK
<1>2. op' \in [Threads -> Call]
  <2>1. \A d \in BOOLEAN : [NoCall EXCEPT !.down = d] \in Call
    BY DEF NoCall, Call
  <2>2. op[t].down \in BOOLEAN
    BY DEF TypeInv, TypeOK, Call
  <2>3. \/ op' = op
        \/ op' = [op EXCEPT ![t] = [NoCall EXCEPT !.down = op[t].down]]
    BY DEF RemoveQueue
  <2> QED  BY <2>1, <2>2, <2>3 DEF TypeInv, TypeOK
<1>3. pc' \in [Threads -> PCs] /\ CurOK'
  <2>1. \E p \in {"rewait", "shutdown", "run"} : pc' = [pc EXCEPT ![t] = p]
    BY DEF RemoveQueue
  <2>2. UNCHANGED cur
    BY DEF RemoveQueue
  <2> QED  BY <2>1, <2>2 DEF TypeInv, TypeOK, CurOK, PCs
<1>4. waiters' \subseteq Threads /\ alarms' \subseteq Alarms
  <2>1. \A j : SubscriptAlarm(j) \subseteq Alarms
    BY DEF SubscriptAlarm, Alarms
  <2>2. PICK i, j : \/ alarms' = alarms \cup SubscriptAlarm(i)
                    \/ alarms' = alarms \cup SubscriptAlarm(i) \cup SubscriptAlarm(j)
    BY Zenon DEF RemoveQueue
  <2>3. waiters' = waiters \cup {t} \/ waiters' = waiters
    BY Zenon DEF RemoveQueue
  <2> QED  BY <2>1, <2>2, <2>3 DEF TypeInv, TypeOK
<1>5. UNCHANGED <<freeid, workload, freethreads, erased, task, exitflag, wst, wq, to, ok,
                  batch, exec, stack, cur>>
  BY DEF RemoveQueue, workerVars, workVars
<1> QED
  BY <1>1, <1>2, <1>3, <1>4, <1>5 DEF TypeInv, TypeOK

LEMMA ShutdownType ==
    ASSUME TypeInv, NEW t \in Threads, Shutdown(t) \/ ShutdownQueue(t)
    PROVE  TypeInv'
<1>1. op' \in [Threads -> Call]
  <2>1. [NoCall EXCEPT !.down = TRUE] \in Call
    BY DEF NoCall, Call
  <2>2. queues # <<>> =>
          [NoCall EXCEPT !.q = queues[1].id, !.idx = 1, !.remove = TRUE,
                         !.down = TRUE] \in Call
    <3>1. queues # <<>> => queues[1].id \in Nat
      <4>1. queues # <<>> => 1 \in 1..Len(queues)
        BY EmptySeq DEF TypeInv, TypeOK
      <4>2. queues # <<>> => queues[1] \in Queue
        BY <4>1, ElementOfSeq DEF TypeInv, TypeOK
      <4> QED  BY <4>2 DEF Queue
    <3> QED  BY <3>1 DEF NoCall, Call
  <2> QED
    BY <2>1, <2>2 DEF Shutdown, ShutdownQueue, TypeInv, TypeOK
<1>2. pc' \in [Threads -> PCs] /\ CurOK'
  <2>1. \E p \in {"shutdown", "erase", "empty"} : pc' = [pc EXCEPT ![t] = p]
    BY DEF Shutdown, ShutdownQueue
  <2>2. UNCHANGED cur
    BY DEF Shutdown, ShutdownQueue
  <2> QED  BY <2>1, <2>2 DEF TypeInv, TypeOK, CurOK, PCs
<1>3. queues' \in Seq(Queue)
  <2>1. \/ queues' = queues
        \/ queues # <<>> /\ queues' = [queues EXCEPT ![1].closing = TRUE]
    BY DEF Shutdown, ShutdownQueue, poolVars
  <2>2. ASSUME queues # <<>>
        PROVE  [queues EXCEPT ![1].closing = TRUE] \in Seq(Queue)
    <3> DEFINE e == [queues[1] EXCEPT !.closing = TRUE]
    <3>1. 1 \in 1..Len(queues)
      BY <2>2, EmptySeq DEF TypeInv, TypeOK
    <3>2. e \in Queue
      <4>1. queues[1] \in Queue
        BY <3>1, ElementOfSeq DEF TypeInv, TypeOK
      <4> QED  BY <4>1 DEF Queue
    <3>3. [queues EXCEPT ![1].closing = TRUE] = [queues EXCEPT ![1] = e]
      OBVIOUS
    <3> HIDE DEF e
    <3> QED  BY <3>1, <3>2, <3>3, ExceptSeq DEF TypeInv, TypeOK
  <2> QED  BY <2>1, <2>2 DEF TypeInv, TypeOK
<1> QED
  BY <1>1, <1>2, <1>3 DEF Shutdown, ShutdownQueue, TypeInv, TypeOK, poolVars,
     workerVars, workVars

LEMMA EraseType ==
    ASSUME TypeInv, NEW t \in Threads,
           EraseDone(t) \/ \E x \in Workers : EraseThread(t, x)
    PROVE  TypeInv'
<1>1. CASE EraseDone(t)
  BY <1>1 DEF EraseDone, TypeInv, TypeOK, CurOK, PCs, workerVars, workVars
<1>2. CASE \E x \in Workers : EraseThread(t, x)
  BY <1>2 DEF EraseThread, TypeInv, TypeOK, CurOK, poolVars, workVars,
     threadVars
<1> QED  BY <1>1, <1>2

LEMMA TypeInvStep == TypeInv /\ [Next]_vars => TypeInv'
<1> SUFFICES ASSUME TypeInv, [Next]_vars
             PROVE  TypeInv'
  OBVIOUS
<1>1. QueueIds \subseteq Nat
  BY ConstantAssumption DEF QueueIds
<1>2. ASSUME NEW t \in Threads, Calls(t)
      PROVE  TypeInv'
  BY <1>1, <1>2, AddWorkType, RemoveWorkType, ExecuteWorkType, AddQueueType,
     ExecuteQueueType, CloseCallType, ShutdownType DEF Calls
<1>3. ASSUME NEW t \in Threads, Steps(t)
      PROVE  TypeInv'
  BY <1>3, AssignTaskType, InlineDoneType, DirectDoneType, ExecuteWorkAddType,
     ExecuteWorkFirstType, FirstDoneType, ExecuteWorkReturnType,
     SerialDoneType, ManualDoneType, EmptyQueueFinishType, EmptyQueueDropType,
     RemoveQueueType, ShutdownType, EraseType DEF Steps
<1>4. ASSUME NEW x \in Workers, DoWork(x)
      PROVE  TypeInv'
  BY <1>4, TakeTaskType, TaskDoneType, ReportIdleType, ReportNextType,
     IdleExitType DEF DoWork
<1>5. CASE UNCHANGED vars
  BY <1>5 DEF TypeInv, TypeOK, CurOK, vars, poolVars, workerVars, workVars,
     threadVars
<1> QED
  BY <1>2, <1>3, <1>4, <1>5 DEF Next, AtRest

\* Every variable always has the type its comment gives it: no step of any
\* thread, however the steps are interleaved, leaves a queue, a work or a
\* thread in a state that the code does not know (threadwork.cc).
THEOREM TypeCorrect == Spec => []TypeOK
<1>1. Spec => []TypeInv
  BY InitTypeInv, TypeInvStep, PTL DEF Spec
<1> QED
  BY <1>1, PTL DEF TypeInv

-----------------------------------------------------------------------------
(***************************************************************************)
(* The counters of the queues, the exclusion on SingleThread queues and    *)
(* the hand-over of a work to a thread, for every number of threads, works *)
(* and queues.                                                             *)
(*                                                                         *)
(* None of the three is inductive.  A counter is right because the works   *)
(* that start and end are what the pool takes them for: a pending work is  *)
(* pending, the task of a thread is a work under way that was given to     *)
(* that thread, and what executeWork has not added yet is not in the pool. *)
(* The inductive invariant says that, in three groups: what the calls of   *)
(* executeWork and workload_ hold (KeptInv), what threads were given       *)
(* (HandInv), and what the queues count (LoadInv).  For each group there   *)
(* is a lemma for the steps that do not concern it (..Frame), and a lemma  *)
(* for each action that does.                                              *)
(***************************************************************************)

\* A work that a call of executeWork keeps for itself: its first one.
LeaderStates == {"held", "first", "serial", "done"}

Leader(b) == b \in Works /\ batch[b] = None /\ wst[b] \in LeaderStates

\* workload_ holds each pending work once.
PendingInv ==
    /\ \A i \in DOMAIN workload : wst[workload[i]] = "pending"
    /\ \A i, j \in DOMAIN workload : workload[i] = workload[j] => i = j

\* What an executeWork still has to add is held and waits for that call.
TodoInv ==
    \A b \in Works :
        /\ \A i \in DOMAIN exec[b].todo :
              wst[exec[b].todo[i]] = "held" /\ batch[exec[b].todo[i]] = b
        /\ \A i, j \in DOMAIN exec[b].todo :
              exec[b].todo[i] = exec[b].todo[j] => i = j

\* A new work and the first work of a call wait for no call, and no call but
\* its own has the first work.
LeaderInv ==
    /\ \A w \in Works : wst[w] \in {"new", "first"} => batch[w] = None
    /\ \A w \in Works : batch[w] # None => Leader(batch[w])
    /\ \A t \in Threads : pc[t] \in {"exec", "execwait"} => Leader(cur[t])

\* The task of a pool thread is a work that was given to that thread.
TaskOf(x) ==
    /\ task[x] # None =>
         /\ wst[task[x]] \in {"assigned", "task", "reporting"}
         /\ to[task[x]] = x
    /\ pc[x] = "wait" /\ task[x] # None => wst[task[x]] = "assigned"
    /\ pc[x] = "report" => task[x] # None /\ wst[task[x]] = "reporting"
    /\ pc[x] = "idle" => task[x] = None

TaskInv == \A x \in Workers : TaskOf(x)

\* A free thread has no task.
FreeInv ==
    /\ \A i \in DOMAIN freethreads : task[freethreads[i]] = None
    /\ \A i, j \in DOMAIN freethreads : freethreads[i] = freethreads[j] => i = j

\* Who is about to assign a task has taken the thread for himself.
Assigning(t) ==
    /\ wst[cur[t]] = "assigned"
    /\ to[cur[t]] \in Workers
    /\ task[to[cur[t]]] = None
    /\ \A i \in DOMAIN freethreads : freethreads[i] # to[cur[t]]

AssignInv == \A t \in Threads : pc[t] = "assign" => Assigning(t)

ApartInv ==
    \A t, u \in Threads :
        pc[t] = "assign" /\ pc[u] = "assign" /\ to[cur[t]] = to[cur[u]] => t = u

\* An assigned work is the task of its thread, or about to become it.
Known(w) ==
    /\ to[w] \in Workers
    /\ task[to[w]] = w \/ \E t \in Threads : pc[t] = "assign" /\ cur[t] = w

KnownInv == \A w \in Works : wst[w] = "assigned" => Known(w)

NoClash == "existing task" \notin alarms

\* The ids of the queues are distinct, and the next one is unused.
QueueInv ==
    /\ \A i, j \in DOMAIN queues : queues[i].id = queues[j].id => i = j
    /\ \A i \in DOMAIN queues : queues[i].id < freeid
    /\ \A w \in Works : wst[w] \in Busy => wq[w] < freeid

KeptInv == PendingInv /\ TodoInv /\ LeaderInv
HandInv == TaskInv /\ FreeInv /\ AssignInv /\ ApartInv /\ KnownInv /\ NoClash
LoadInv == QueueInv /\ LoadCount

IInv == TypeInv /\ KeptInv /\ HandInv /\ LoadInv

-----------------------------------------------------------------------------
(***************************************************************************)
(* The steps that leave a group alone                                      *)
(***************************************************************************)

\* What executeWork still has to add are works.
LEMMA TodoElement ==
    ASSUME TypeOK, NEW b \in Works
    PROVE  /\ exec[b].todo \in Seq(Works)
           /\ \A i \in DOMAIN exec[b].todo : exec[b].todo[i] \in Works
<1>1. exec[b].todo \in Seq(Works)
  BY DEF TypeOK, Batch
<1> QED  BY <1>1, LenProperties, ElementOfSeq

\* workload_ stays, and so do its works.
LEMMA PendingFrame ==
    ASSUME TypeInv, KeptInv,
           workload' = workload,
           \A w \in Works : wst[w] = "pending" => wst'[w] = "pending"
    PROVE  PendingInv'
<1>1. \A i \in DOMAIN workload : workload[i] \in Works
  BY WorkloadElement DEF TypeInv
<1> QED  BY <1>1 DEF KeptInv, PendingInv

\* One work leaves workload_, and no other pending work changes.
LEMMA PendingRemoved ==
    ASSUME TypeInv, KeptInv, NEW i \in DOMAIN workload,
           workload' = RemoveAt(workload, i),
           \A w \in Works : wst[w] = "pending" /\ w # workload[i]
                              => wst'[w] = "pending"
    PROVE  PendingInv'
<1> DEFINE n == Len(workload)
           Old(j) == IF j < i THEN j ELSE j + 1
<1>1. /\ workload \in Seq(Works) /\ n \in Nat
      /\ DOMAIN workload = 1..n
      /\ i \in 1..n
      /\ \A j \in DOMAIN workload : workload[j] \in Works
  BY WorkloadElement, LenProperties DEF TypeInv, TypeOK
<1>2. /\ workload' \in Seq(Works)
      /\ Len(workload') = n - 1
      /\ \A j \in 1..n-1 : workload'[j] = IF j < i THEN workload[j]
                                           ELSE workload[j+1]
  BY <1>1, RemoveAtProperties
<1>3. DOMAIN workload' = 1..n-1
  BY <1>2, LenProperties
<1> HIDE DEF n
<1>4. \A j \in 1..n-1 : Old(j) \in 1..n /\ Old(j) # i
  BY <1>1
<1>5. \A j, k \in 1..n-1 : Old(j) = Old(k) => j = k
  BY <1>1
<1>6. \A j \in 1..n-1 : workload'[j] = workload[Old(j)]
  BY <1>2
<1> HIDE DEF Old
<1>7. \A j \in 1..n-1 : wst'[workload'[j]] = "pending"
  <2> SUFFICES ASSUME NEW j \in 1..n-1
               PROVE  wst'[workload[Old(j)]] = "pending"
    BY <1>6
  <2>1. Old(j) \in DOMAIN workload /\ Old(j) # i
    BY <1>1, <1>4
  <2>2. wst[workload[Old(j)]] = "pending" /\ workload[Old(j)] # workload[i]
    BY <2>1 DEF KeptInv, PendingInv
  <2> QED  BY <1>1, <2>1, <2>2
<1>8. \A j, k \in 1..n-1 : workload'[j] = workload'[k] => j = k
  <2>1. \A j, k \in 1..n-1 : workload[Old(j)] = workload[Old(k)] => Old(j) = Old(k)
    BY <1>1, <1>4 DEF KeptInv, PendingInv
  <2> QED  BY <1>5, <1>6, <2>1
<1> QED  BY <1>3, <1>7, <1>8 DEF PendingInv

\* Nobody takes a first work away from the executeWork it belongs to.
LEMMA LeaderFrame ==
    ASSUME TypeInv, LeaderInv,
           batch' = batch,
           \A w \in Works : \/ wst'[w] = wst[w]
                            \/ /\ wst'[w] # "new"
                               /\ wst'[w] = "first" => batch[w] = None
                               /\ Leader(w) => wst'[w] \in LeaderStates,
           \A t \in Threads : pc'[t] \in {"exec", "execwait"} =>
                                 cur'[t] \in Works /\ Leader(cur'[t])
    PROVE  LeaderInv'
<1>1. \A b \in Works : Leader(b) => Leader(b)'
  BY DEF Leader
<1>2. \A w \in Works : batch[w] # None => batch[w] \in Works /\ Leader(batch[w])
  BY DEF LeaderInv, Leader
<1>3. (\A w \in Works : wst[w] \in {"new", "first"} => batch[w] = None)'
  BY DEF LeaderInv
<1>4. (\A w \in Works : batch[w] # None => Leader(batch[w]))'
  BY <1>1, <1>2 DEF Leader
<1>5. (\A t \in Threads : pc[t] \in {"exec", "execwait"} => Leader(cur[t]))'
  BY <1>1 DEF Leader
<1> QED  BY <1>3, <1>4, <1>5 DEF LeaderInv

\* A work that is not kept by an executeWork may change.
LEMMA KeptFrame ==
    ASSUME TypeInv, KeptInv, PendingInv',
           batch' = batch,
           \A b \in Works : exec'[b].todo = exec[b].todo,
           \A w \in Works : \/ wst'[w] = wst[w]
                            \/ /\ wst'[w] # "new"
                               /\ wst'[w] = "first" => batch[w] = None
                               /\ wst[w] = "held" => batch[w] = None
                               /\ Leader(w) => wst'[w] \in LeaderStates,
           \A t \in Threads : pc'[t] \in {"exec", "execwait"} =>
                                 cur'[t] \in Works /\ Leader(cur'[t])
    PROVE  KeptInv'
<1>3. \A b \in Works : Leader(b) => Leader(b)'
  BY DEF Leader
<1>4. \A b \in Works : \A i \in DOMAIN exec[b].todo : exec[b].todo[i] \in Works
  BY TodoElement DEF TypeInv
<1>5. TodoInv'
  <2>1. \A b \in Works : \A i \in DOMAIN exec[b].todo :
           wst'[exec[b].todo[i]] = "held" /\ batch[exec[b].todo[i]] = b
    <3> SUFFICES ASSUME NEW b \in Works, NEW i \in DOMAIN exec[b].todo
                 PROVE  /\ wst'[exec[b].todo[i]] = "held"
                        /\ batch[exec[b].todo[i]] = b
      OBVIOUS
    <3> DEFINE w == exec[b].todo[i]
    <3>1. w \in Works /\ wst[w] = "held" /\ batch[w] = b
      BY <1>4 DEF KeptInv, TodoInv
    <3> HIDE DEF w
    <3>2. b # None
      BY ConstantAssumption
    <3>3. wst'[w] = "held"
      BY <3>1, <3>2
    <3> QED  BY <3>1, <3>3 DEF w
  <2> QED  BY <2>1 DEF KeptInv, TodoInv
<1>6. LeaderInv'
  BY LeaderFrame DEF KeptInv
<1> QED  BY <1>5, <1>6 DEF KeptInv

\* A work that was given to no thread may change, unless it is given now.
LEMMA HandFrame ==
    ASSUME TypeInv, HandInv,
           UNCHANGED <<task, to, freethreads>>,
           "existing task" \in alarms' => "existing task" \in alarms,
           \A w \in Works : \/ wst'[w] = wst[w]
                            \/ /\ wst[w] \notin {"assigned", "task", "reporting"}
                               /\ wst'[w] # "assigned",
           \A t \in Threads : pc'[t] = "assign" <=> pc[t] = "assign",
           \A t \in Threads : pc[t] = "assign" => cur'[t] = cur[t],
           \A x \in Workers : pc'[x] \in {"wait", "report", "idle"} =>
              pc'[x] = pc[x] \/ (pc[x] = "idle" /\ pc'[x] = "wait")
    PROVE  HandInv'
<1>1. /\ \A x \in Workers : x \in Threads /\ task[x] \in Works \cup {None}
      /\ \A t \in Threads : pc[t] = "assign" => cur[t] \in Works
  BY DEF TypeInv, TypeOK, CurOK, Threads
<1>2. \A x \in Workers : TaskOf(x)'
  <2> SUFFICES ASSUME NEW x \in Workers PROVE TaskOf(x)'
    OBVIOUS
  <2>1. TaskOf(x)
    BY DEF HandInv, TaskInv
  <2>2. task[x] # None => wst'[task[x]] = wst[task[x]]
    BY <1>1, <2>1 DEF TaskOf
  <2>3. pc'[x] \in {"wait", "report", "idle"} =>
           pc'[x] = pc[x] \/ (pc[x] = "idle" /\ pc'[x] = "wait")
    OBVIOUS
  <2> QED  BY <2>1, <2>2, <2>3 DEF TaskOf
<1>3. FreeInv'
  BY DEF HandInv, FreeInv
<1>4. \A t \in Threads : pc'[t] = "assign" => Assigning(t)'
  <2> SUFFICES ASSUME NEW t \in Threads, pc[t] = "assign" PROVE Assigning(t)'
    OBVIOUS
  <2>1. Assigning(t) /\ cur[t] \in Works /\ cur'[t] = cur[t]
    BY <1>1 DEF HandInv, AssignInv
  <2>2. wst'[cur[t]] = "assigned"
    BY <2>1 DEF Assigning
  <2> QED  BY <2>1, <2>2 DEF Assigning
<1>5. ApartInv'
  <2>1. ApartInv
    BY DEF HandInv
  <2>2. \A t \in Threads : pc'[t] = "assign" =>
           pc[t] = "assign" /\ to'[cur'[t]] = to[cur[t]]
    OBVIOUS
  <2>3. ASSUME NEW t \in Threads, NEW u \in Threads,
               pc'[t] = "assign", pc'[u] = "assign", to'[cur'[t]] = to'[cur'[u]]
        PROVE  t = u
    <3>1. pc[t] = "assign" /\ pc[u] = "assign" /\ to[cur[t]] = to[cur[u]]
      BY <2>2, <2>3
    <3> QED  BY <2>1, <3>1 DEF ApartInv
  <2> QED  BY <2>3 DEF ApartInv
<1>6. \A w \in Works : wst'[w] = "assigned" => Known(w)'
  <2> SUFFICES ASSUME NEW w \in Works, wst'[w] = "assigned" PROVE Known(w)'
    OBVIOUS
  <2>1. wst[w] = "assigned"
    OBVIOUS
  <2>2. Known(w)
    BY <2>1 DEF HandInv, KnownInv
  <2> QED  BY <2>2 DEF Known
<1>7. NoClash'
  BY DEF HandInv, NoClash
<1> QED
  BY <1>2, <1>3, <1>4, <1>5, <1>6, <1>7 DEF HandInv, TaskInv, AssignInv, KnownInv

\* A thread goes on with its task.
LEMMA OwnTaskFrame ==
    ASSUME TypeInv, HandInv, NEW x \in Workers, NEW s, NEW p,
           task[x] # None,
           UNCHANGED <<task, to, freethreads, cur, alarms>>,
           wst' = [wst EXCEPT ![task[x]] = s],
           s # "assigned",
           pc[x] # "assign",
           pc' = [pc EXCEPT ![x] = p],
           \/ s = "task" /\ p \notin {"assign", "wait", "report", "idle"}
           \/ s = "reporting" /\ p = "report"
    PROVE  HandInv'
<1> DEFINE w == task[x]
<1>1. /\ w \in Works /\ to[w] = x /\ x \in Threads
      /\ wst[w] \in {"assigned", "task", "reporting"}
  BY DEF HandInv, TaskInv, TaskOf, TypeInv, TypeOK, Threads
<1>2. /\ \A v \in Works : wst'[v] = IF v = w THEN s ELSE wst[v]
      /\ \A t \in Threads : pc'[t] = IF t = x THEN p ELSE pc[t]
  BY DEF TypeInv, TypeOK
<1> HIDE DEF w
<1>3. \A y \in Workers : TaskOf(y)'
  <2> SUFFICES ASSUME NEW y \in Workers PROVE TaskOf(y)'
    OBVIOUS
  <2>1. TaskOf(y) /\ task[y] \in Works \cup {None} /\ y \in Threads
    BY DEF HandInv, TaskInv, TypeInv, TypeOK, Threads
  <2>2. CASE y = x
    BY <1>1, <1>2, <2>1, <2>2 DEF TaskOf, w
  <2>3. CASE y # x
    <3>1. task[y] # w
      BY <1>1, <2>1, <2>3, ConstantAssumption DEF TaskOf
    <3> QED  BY <1>2, <2>1, <2>3, <3>1 DEF TaskOf
  <2> QED  BY <2>2, <2>3
<1>4. FreeInv'
  BY DEF HandInv, FreeInv
<1>5. \A t \in Threads : pc'[t] = "assign" => Assigning(t)'
  <2> SUFFICES ASSUME NEW t \in Threads, pc'[t] = "assign" PROVE Assigning(t)'
    OBVIOUS
  <2>1. pc[t] = "assign"
    BY <1>2
  <2>2. Assigning(t) /\ cur[t] \in Works
    BY <2>1 DEF HandInv, AssignInv, TypeInv, CurOK
  <2>3. cur[t] # w
    BY <1>1, <2>2, ConstantAssumption DEF Assigning, w
  <2> QED  BY <1>2, <2>2, <2>3 DEF Assigning
<1>6. ApartInv'
  <2>1. ApartInv
    BY DEF HandInv
  <2>2. \A t \in Threads : pc'[t] = "assign" => pc[t] = "assign"
    BY <1>2
  <2> QED  BY <2>1, <2>2 DEF ApartInv
<1>7. \A v \in Works : wst'[v] = "assigned" => Known(v)'
  <2> SUFFICES ASSUME NEW v \in Works, wst'[v] = "assigned" PROVE Known(v)'
    OBVIOUS
  <2>1. Known(v)
    BY <1>2 DEF HandInv, KnownInv
  <2>2. \A t \in Threads : pc[t] = "assign" => pc'[t] = "assign"
    BY <1>2
  <2> QED  BY <2>1, <2>2 DEF Known
<1>8. NoClash'
  BY DEF HandInv, NoClash
<1> QED
  BY <1>3, <1>4, <1>5, <1>6, <1>7, <1>8 DEF HandInv, TaskInv, AssignInv, KnownInv

\* No work starts or ends, and the counters stay.
LEMMA LoadFrame ==
    ASSUME TypeInv, LoadInv,
           freeid' = freeid,
           DOMAIN queues' = DOMAIN queues,
           \A i \in DOMAIN queues : /\ queues'[i].id = queues[i].id
                                    /\ queues'[i].load = queues[i].load,
           \A w \in Works : wst'[w] \in Busy <=> wst[w] \in Busy,
           \A w \in Works : wst[w] \in Busy => wq'[w] = wq[w]
    PROVE  LoadInv'
<1>1. QueueInv'
  BY DEF LoadInv, QueueInv
<1>2. \A q : Working(q)' = Working(q)
  BY DEF Working
<1>3. LoadCount'
  BY <1>2 DEF LoadInv, LoadCount
<1> QED  BY <1>1, <1>3 DEF LoadInv

-----------------------------------------------------------------------------
(***************************************************************************)
(* Counting                                                                *)
(***************************************************************************)

\* reduceWorkload changes the counter of the queue it is given, no other.
LEMMA ReducedLoads ==
    ASSUME TypeInv, QueueInv, NEW q
    PROVE  /\ Reduced(q) \in Seq(Queue)
           /\ DOMAIN Reduced(q) = DOMAIN queues
           /\ \A k \in DOMAIN queues :
                /\ Reduced(q)[k].id = queues[k].id
                /\ Reduced(q)[k].type = queues[k].type
                /\ Reduced(q)[k].load = IF queues[k].id = q THEN queues[k].load - 1
                                        ELSE queues[k].load
<1>1. /\ queues \in Seq(Queue)
      /\ \A k \in DOMAIN queues : queues[k].load \in Int
  <2>1. queues \in Seq(Queue)
    BY DEF TypeInv, TypeOK
  <2>2. \A k \in DOMAIN queues : queues[k] \in Queue
    BY <2>1, LenProperties, ElementOfSeq
  <2> QED  BY <2>1, <2>2 DEF Queue
<1>2. CASE IndexOf(q) = 0
  BY <1>1, <1>2, IndexOfProperties DEF Reduced
<1>3. CASE IndexOf(q) # 0
  <2> DEFINE i == IndexOf(q)
  <2>1. i \in DOMAIN queues /\ queues[i].id = q
    BY <1>1, <1>3, IndexOfProperties
  <2>2. Reduced(q) = AddLoad(i, -1)
    BY <1>3 DEF Reduced
  <2>3. \A k \in DOMAIN queues : k = i <=> queues[k].id = q
    BY <2>1 DEF QueueInv
  <2>4. \A k \in DOMAIN queues : queues[k].load + (-1) = queues[k].load - 1
    BY <1>1
  <2> HIDE DEF i
  <2>5. /\ AddLoad(i, -1) \in Seq(Queue)
        /\ DOMAIN AddLoad(i, -1) = DOMAIN queues
        /\ \A k \in DOMAIN queues :
             /\ AddLoad(i, -1)[k].id = queues[k].id
             /\ AddLoad(i, -1)[k].type = queues[k].type
             /\ AddLoad(i, -1)[k].load = IF k = i THEN queues[k].load + (-1)
                                         ELSE queues[k].load
    BY <1>1, AddLoadProperties
  <2> QED  BY <2>2, <2>3, <2>4, <2>5
<1> QED  BY <1>2, <1>3

\* The works that a queue counts are finitely many.
LEMMA WorkingFinite ==
    ASSUME NEW q
    PROVE  /\ Working(q) \subseteq Works
           /\ IsFiniteSet(Working(q))
           /\ Cardinality(Working(q)) \in Nat
<1>1. Working(q) \subseteq Works
  BY DEF Working
<1> QED  BY <1>1, ConstantAssumption, FS_Subset, FS_CardinalityType

\* A work starts: its queue counts one more.
LEMMA LoadGain ==
    ASSUME TypeInv, LoadInv, NEW v \in Works,
           wst[v] \notin Busy, wst'[v] \in Busy,
           IndexOf(wq'[v]) # 0,
           queues' = AddLoad(IndexOf(wq'[v]), 1),
           freeid' = freeid,
           \A w \in Works \ {v} : wst'[w] \in Busy <=> wst[w] \in Busy,
           \A w \in Works \ {v} : wst[w] \in Busy => wq'[w] = wq[w]
    PROVE  LoadInv'
<1> DEFINE q == wq'[v]
           i == IndexOf(q)
<1>1. queues \in Seq(Queue) /\ i \in DOMAIN queues /\ queues[i].id = q
  BY IndexOfProperties DEF TypeInv, TypeOK
<1>2. \A k \in DOMAIN queues : k = i <=> queues[k].id = q
  BY <1>1 DEF LoadInv, QueueInv
<1> HIDE DEF i
<1>3. /\ DOMAIN queues' = DOMAIN queues
      /\ \A k \in DOMAIN queues :
           /\ queues'[k].id = queues[k].id
           /\ queues'[k].load = IF k = i THEN queues[k].load + 1
                                ELSE queues[k].load
  <2>1. queues' = AddLoad(i, 1)
    BY DEF i
  <2> QED  BY <1>1, <2>1, AddLoadProperties
<1>4. QueueInv'
  <2>1. q < freeid
    BY <1>1 DEF LoadInv, QueueInv
  <2>2. \A w \in Works : wst'[w] \in Busy => wq'[w] < freeid
    BY <2>1 DEF LoadInv, QueueInv
  <2> QED  BY <1>3, <2>2 DEF LoadInv, QueueInv
<1>5. \A r : Working(r)' = IF r = q THEN Working(r) \cup {v} ELSE Working(r)
  BY DEF Working
<1>6. \A r : /\ v \notin Working(r)
             /\ Cardinality(Working(r) \cup {v}) = Cardinality(Working(r)) + 1
  <2>1. \A r : v \notin Working(r)
    BY DEF Working
  <2> QED  BY <2>1, WorkingFinite, FS_AddElement
<1>7. LoadCount'
  <2> SUFFICES ASSUME NEW k \in DOMAIN queues
               PROVE  queues'[k].load = Cardinality(Working(queues[k].id)')
    BY <1>3 DEF LoadCount
  <2>1. queues[k].load = Cardinality(Working(queues[k].id))
    BY DEF LoadInv, LoadCount
  <2>2. CASE k = i
    BY <1>2, <1>3, <1>5, <1>6, <2>1, <2>2
  <2>3. CASE k # i
    BY <1>2, <1>3, <1>5, <2>1, <2>3
  <2> QED  BY <2>2, <2>3
<1> QED  BY <1>4, <1>7 DEF LoadInv

\* A work ends: its queue, if it is still there, counts one less.
LEMMA LoadLose ==
    ASSUME TypeInv, LoadInv, NEW v \in Works,
           wst[v] \in Busy, wst'[v] \notin Busy,
           queues' = Reduced(wq[v]),
           freeid' = freeid,
           \A w \in Works \ {v} : wst'[w] \in Busy <=> wst[w] \in Busy,
           \A w \in Works \ {v} : wst[w] \in Busy => wq'[w] = wq[w]
    PROVE  LoadInv'
<1> DEFINE q == wq[v]
<1>1. /\ DOMAIN queues' = DOMAIN queues
      /\ \A k \in DOMAIN queues :
           /\ queues'[k].id = queues[k].id
           /\ queues'[k].load = IF queues[k].id = q THEN queues[k].load - 1
                                ELSE queues[k].load
  BY ReducedLoads DEF LoadInv
<1>2. QueueInv'
  <2>1. \A w \in Works : wst'[w] \in Busy => wq'[w] < freeid
    BY DEF LoadInv, QueueInv
  <2> QED  BY <1>1, <2>1 DEF LoadInv, QueueInv
<1>3. \A r : Working(r)' = IF r = q THEN Working(r) \ {v} ELSE Working(r)
  BY DEF Working
<1>4. /\ v \in Working(q)
      /\ Cardinality(Working(q) \ {v}) = Cardinality(Working(q)) - 1
  <2>1. v \in Working(q)
    BY DEF Working
  <2> QED  BY <2>1, WorkingFinite, FS_RemoveElement
<1>5. LoadCount'
  <2> SUFFICES ASSUME NEW k \in DOMAIN queues
               PROVE  queues'[k].load = Cardinality(Working(queues[k].id)')
    BY <1>1 DEF LoadCount
  <2>1. queues[k].load = Cardinality(Working(queues[k].id))
    BY DEF LoadInv, LoadCount
  <2>2. CASE queues[k].id = q
    BY <1>1, <1>3, <1>4, <2>1, <2>2
  <2>3. CASE queues[k].id # q
    BY <1>1, <1>3, <2>1, <2>3
  <2> QED  BY <2>2, <2>3
<1> QED  BY <1>2, <1>5 DEF LoadInv

\* One work ends and another one starts in the same critical section.
LEMMA LoadSwap ==
    ASSUME TypeInv, LoadInv, NEW v \in Works, NEW u \in Works,
           wst[v] \in Busy, wst'[v] \notin Busy,
           wst[u] \notin Busy, wst'[u] \in Busy,
           DOMAIN queues' = DOMAIN queues,
           \A k \in DOMAIN queues :
              /\ queues'[k].id = queues[k].id
              /\ queues'[k].load =
                   (IF queues[k].id = wq[v] THEN queues[k].load - 1
                    ELSE queues[k].load)
                   + (IF queues[k].id = wq[u] THEN 1 ELSE 0),
           freeid' = freeid,
           wq' = wq,
           wq[u] < freeid,
           \A w \in Works \ {v, u} : wst'[w] \in Busy <=> wst[w] \in Busy
    PROVE  LoadInv'
<1>1. QueueInv'
  <2>1. \A w \in Works : wst'[w] \in Busy => wq'[w] < freeid
    BY DEF LoadInv, QueueInv
  <2> QED  BY <2>1 DEF LoadInv, QueueInv
<1> DEFINE Rest(r) == IF r = wq[v] THEN Working(r) \ {v} ELSE Working(r)
<1>2. v # u
  OBVIOUS
<1>3. \A r : Working(r)' = IF r = wq[u] THEN Rest(r) \cup {u} ELSE Rest(r)
  BY <1>2 DEF Working
<1>4. \A r : /\ u \notin Rest(r)
             /\ Rest(r) \subseteq Working(r)
             /\ Rest(r) = Working(r) \/ (r = wq[v] /\ v \in Working(r)
                                         /\ Rest(r) = Working(r) \ {v})
  BY DEF Working
<1>5. \A r : /\ IsFiniteSet(Rest(r))
             /\ Cardinality(Rest(r)) = IF r = wq[v]
                   THEN Cardinality(Working(r)) - 1
                   ELSE Cardinality(Working(r))
  <2> SUFFICES ASSUME NEW r
               PROVE  /\ IsFiniteSet(Rest(r))
                      /\ Cardinality(Rest(r)) = IF r = wq[v]
                            THEN Cardinality(Working(r)) - 1
                            ELSE Cardinality(Working(r))
    OBVIOUS
  <2>1. CASE r = wq[v]
    <3>1. v \in Working(r)
      BY <2>1 DEF Working
    <3>2. /\ IsFiniteSet(Working(r) \ {v})
          /\ Cardinality(Working(r) \ {v}) = Cardinality(Working(r)) - 1
      BY <3>1, WorkingFinite, FS_RemoveElement
    <3> QED  BY <2>1, <3>2
  <2>2. CASE r # wq[v]
    BY <2>2, WorkingFinite
  <2> QED  BY <2>1, <2>2
<1> HIDE DEF Rest
<1>6. \A r : Cardinality(Rest(r) \cup {u}) = Cardinality(Rest(r)) + 1
  BY <1>4, <1>5, FS_AddElement
<1>7. LoadCount'
  <2> SUFFICES ASSUME NEW k \in DOMAIN queues
               PROVE  queues'[k].load = Cardinality(Working(queues[k].id)')
    BY DEF LoadCount
  <2> DEFINE r == queues[k].id
             n == Cardinality(Working(r))
  <2>1. queues[k].load = n /\ n \in Nat
    BY WorkingFinite DEF LoadInv, LoadCount
  <2>2. queues'[k].load = (IF r = wq[v] THEN n - 1 ELSE n)
                            + (IF r = wq[u] THEN 1 ELSE 0)
    BY <2>1
  <2>3. Cardinality(Working(r)') =
          IF r = wq[u] THEN Cardinality(Rest(r)) + 1 ELSE Cardinality(Rest(r))
    BY <1>3, <1>6
  <2>4. Cardinality(Rest(r)) = IF r = wq[v] THEN n - 1 ELSE n
    BY <1>5
  <2> HIDE DEF r, n
  <2>5. queues'[k].load = Cardinality(Working(r)')
    BY <2>1, <2>2, <2>3, <2>4
  <2> QED  BY <2>5 DEF r
<1> QED  BY <1>1, <1>7 DEF LoadInv

-----------------------------------------------------------------------------
(***************************************************************************)
(* addWork                                                                 *)
(***************************************************************************)

\* What addWork may be given: a new work, or the next one of an executeWork.
Fresh(w) ==
    \/ wst[w] = "new"
    \/ wst[w] = "held" /\ batch[w] # None

\* Unless a free thread is taken, no thread is concerned.
SubmitAlone(t, w) ==
    /\ UNCHANGED <<task, to, freethreads, alarms>>
    /\ \E s \in {"direct", "destroyed", "ignored", "inline", "pending"} :
          wst' = [wst EXCEPT ![w] = s]
    /\ \E p \in {"run", "exec"} : pc' = [pc EXCEPT ![t] = p]
    /\ \A u \in Threads \ {t} : cur'[u] = cur[u]

LEMMA SubmitCases ==
    ASSUME TypeInv, NEW t \in Threads, NEW w \in Works, NEW q \in Nat,
           NEW firstinline, NEW nodup, NEW force,
           Submit(t, w, q, firstinline, nodup, force)
    PROVE  /\ SubmitToFreeThread(t, w, q) \/ SubmitAlone(t, w)
           /\ UNCHANGED <<task, exitflag, ok, op, waiters, alarms>>
           /\ wq' = [wq EXCEPT ![w] = q]
<1>1. UNCHANGED <<task, exitflag, ok, op, waiters, alarms>>
      /\ wq' = [wq EXCEPT ![w] = q]
  BY DEF Submit, workerVars
<1>2. CASE SubmitDirect(t, w)
  BY <1>1, <1>2 DEF SubmitDirect, SubmitAlone, poolVars
<1>3. ReturnAfter(t, w) =>
        /\ \E p \in {"run", "exec"} : pc' = [pc EXCEPT ![t] = p]
        /\ \A u \in Threads \ {t} : cur'[u] = cur[u]
  <2> SUFFICES ASSUME ReturnAfter(t, w)
               PROVE  /\ \E p \in {"run", "exec"} : pc' = [pc EXCEPT ![t] = p]
                      /\ \A u \in Threads \ {t} : cur'[u] = cur[u]
    OBVIOUS
  <2>1. \A u \in Threads \ {t} : cur'[u] = cur[u]
    BY DEF ReturnAfter, TypeInv, TypeOK
  <2>2. CASE batch[w] = None
    BY <2>1, <2>2 DEF ReturnAfter
  <2>3. CASE batch[w] # None
    BY <2>1, <2>3 DEF ReturnAfter
  <2> QED  BY <2>2, <2>3
<1>4. CASE SubmitRejected(t, w, q)
  BY <1>1, <1>3, <1>4 DEF SubmitRejected, SubmitAlone, poolVars
<1>5. CASE SubmitIgnored(t, w, q)
  BY <1>1, <1>3, <1>5 DEF SubmitIgnored, SubmitAlone, poolVars
<1>6. CASE SubmitInline(t, w, q)
  BY <1>1, <1>6 DEF SubmitInline, SubmitAlone
<1>7. CASE SubmitQueued(t, w, q, firstinline, force)
  BY <1>1, <1>3, <1>7 DEF SubmitQueued, SubmitAlone
<1> QED  BY <1>1, <1>2, <1>4, <1>5, <1>6, <1>7 DEF Submit

\* A thread that is taken from freethreads_ is nobody else's.
LEMMA SubmitHand ==
    ASSUME TypeInv, HandInv, NEW t \in Threads, NEW w \in Works, NEW q \in Nat,
           NEW firstinline, NEW nodup, NEW force,
           Submit(t, w, q, firstinline, nodup, force),
           Fresh(w), pc[t] \in {"run", "exec"}
    PROVE  HandInv'
<1>1. wst[w] \notin {"assigned", "task", "reporting"}
  BY DEF Fresh
<1>2. CASE SubmitAlone(t, w)
  <2>1. PICK s \in {"direct", "destroyed", "ignored", "inline", "pending"} :
           wst' = [wst EXCEPT ![w] = s]
    BY <1>2 DEF SubmitAlone
  <2>2. PICK p \in {"run", "exec"} : pc' = [pc EXCEPT ![t] = p]
    BY <1>2 DEF SubmitAlone
  <2>3. \A v \in Works : wst'[v] = IF v = w THEN s ELSE wst[v]
    BY <2>1 DEF TypeInv, TypeOK
  <2>4. \A u \in Threads : pc'[u] = IF u = t THEN p ELSE pc[u]
    BY <2>2 DEF TypeInv, TypeOK
  <2>5. \A v \in Works : \/ wst'[v] = wst[v]
                         \/ /\ wst[v] \notin {"assigned", "task", "reporting"}
                            /\ wst'[v] # "assigned"
    BY <1>1, <2>3
  <2>6. \A u \in Threads : pc'[u] = "assign" <=> pc[u] = "assign"
    BY <2>4
  <2>7. \A u \in Threads : pc[u] = "assign" => cur'[u] = cur[u]
    BY <1>2 DEF SubmitAlone
  <2>8. \A x \in Workers : pc'[x] \in {"wait", "report", "idle"} =>
           pc'[x] = pc[x] \/ (pc[x] = "idle" /\ pc'[x] = "wait")
    BY <2>4 DEF Threads
  <2>9. /\ UNCHANGED <<task, to, freethreads>>
        /\ "existing task" \in alarms' => "existing task" \in alarms
    BY <1>2 DEF SubmitAlone
  <2> QED  BY <2>5, <2>6, <2>7, <2>8, <2>9, HandFrame
<1>3. CASE SubmitToFreeThread(t, w, q)
  <2> DEFINE n == Len(freethreads)
             x == Last(freethreads)
  <2>1. /\ freethreads' = Front(freethreads) /\ freethreads # <<>>
        /\ wst' = [wst EXCEPT ![w] = "assigned"]
        /\ to' = [to EXCEPT ![w] = x]
        /\ pc' = [pc EXCEPT ![t] = "assign"]
        /\ cur' = [cur EXCEPT ![t] = w]
        /\ task' = task /\ alarms' = alarms
    BY <1>3, SubmitCases DEF SubmitToFreeThread, FreeThreadsLeft
  <2>2. /\ freethreads \in Seq(Workers) /\ n \in Nat /\ n >= 1
        /\ DOMAIN freethreads = 1..n
        /\ x = freethreads[n] /\ x \in Workers
        /\ DOMAIN freethreads' = 1..n-1
        /\ \A i \in 1..n-1 : freethreads'[i] = freethreads[i]
    <3>1. freethreads \in Seq(Workers) /\ n \in Nat /\ DOMAIN freethreads = 1..n
      BY LenProperties DEF TypeInv, TypeOK
    <3>2. n >= 1
      BY <2>1, <3>1, EmptySeq
    <3>3. /\ Front(freethreads) \in Seq(Workers)
          /\ Len(Front(freethreads)) = n-1
          /\ \A i \in 1..n-1 : Front(freethreads)[i] = freethreads[i]
          /\ x = freethreads[n] /\ x \in Workers
      BY <2>1, <3>1, FrontProperties
    <3> QED  BY <2>1, <3>1, <3>2, <3>3, LenProperties
  <2> HIDE DEF n, x
  <2>3. /\ n \in DOMAIN freethreads
        /\ \A i \in 1..n-1 : i \in DOMAIN freethreads /\ i # n
    BY <2>2
  <2>4. /\ task[x] = None
        /\ \A i \in 1..n-1 : freethreads[i] # x
    BY <2>2, <2>3 DEF HandInv, FreeInv
  <2>5. /\ \A v \in Works : wst'[v] = IF v = w THEN "assigned" ELSE wst[v]
        /\ \A v \in Works : to'[v] = IF v = w THEN x ELSE to[v]
        /\ \A u \in Threads : pc'[u] = IF u = t THEN "assign" ELSE pc[u]
        /\ \A u \in Threads : cur'[u] = IF u = t THEN w ELSE cur[u]
    BY <2>1 DEF TypeInv, TypeOK
  <2>6. \A u \in Threads : pc[u] = "assign" =>
           /\ u # t /\ cur[u] \in Works /\ cur[u] # w /\ Assigning(u)
           /\ to[cur[u]] # x
    <3> SUFFICES ASSUME NEW u \in Threads, pc[u] = "assign"
                 PROVE  /\ u # t /\ cur[u] \in Works /\ cur[u] # w /\ Assigning(u)
                        /\ to[cur[u]] # x
      OBVIOUS
    <3>1. Assigning(u) /\ cur[u] \in Works
      BY DEF HandInv, AssignInv, TypeInv, CurOK
    <3> QED  BY <1>1, <2>2, <2>3, <3>1 DEF Assigning
  <2>7. \A y \in Workers : TaskOf(y)'
    <3> SUFFICES ASSUME NEW y \in Workers PROVE TaskOf(y)'
      OBVIOUS
    <3>1. TaskOf(y) /\ task[y] \in Works \cup {None} /\ y \in Threads
      BY DEF HandInv, TaskInv, TypeInv, TypeOK, Threads
    <3>2. task[y] # w
      BY <1>1, <3>1, ConstantAssumption DEF TaskOf
    <3> QED  BY <2>1, <2>5, <3>1, <3>2 DEF TaskOf
  <2>8. FreeInv'
    BY <2>1, <2>2, <2>3 DEF HandInv, FreeInv
  <2>9. \A u \in Threads : pc'[u] = "assign" => Assigning(u)'
    <3> SUFFICES ASSUME NEW u \in Threads, pc'[u] = "assign" PROVE Assigning(u)'
      OBVIOUS
    <3>1. CASE u = t
      BY <2>1, <2>2, <2>4, <2>5, <3>1 DEF Assigning
    <3>2. CASE u # t
      <4>1. Assigning(u) /\ cur[u] \in Works /\ cur[u] # w
        BY <2>5, <2>6, <3>2
      <4> QED  BY <2>1, <2>2, <2>3, <2>5, <3>2, <4>1 DEF Assigning
    <3> QED  BY <3>1, <3>2
  <2>10. ApartInv'
    <3>1. \A u \in Threads : pc'[u] = "assign" =>
             IF u = t THEN to'[cur'[u]] = x
             ELSE pc[u] = "assign" /\ to'[cur'[u]] = to[cur[u]]
                  /\ to[cur[u]] # x
      BY <2>5, <2>6
    <3>2. ApartInv
      BY DEF HandInv
    <3>3. ASSUME NEW u \in Threads, NEW v \in Threads,
                 pc'[u] = "assign", pc'[v] = "assign", to'[cur'[u]] = to'[cur'[v]]
          PROVE  u = v
      <4>1. CASE u = t \/ v = t
        BY <3>1, <3>3, <4>1
      <4>2. CASE u # t /\ v # t
        <5>1. pc[u] = "assign" /\ pc[v] = "assign" /\ to[cur[u]] = to[cur[v]]
          BY <3>1, <3>3, <4>2
        <5> QED  BY <3>2, <5>1 DEF ApartInv
      <4> QED  BY <4>1, <4>2
    <3> QED  BY <3>3 DEF ApartInv
  <2>11. \A v \in Works : wst'[v] = "assigned" => Known(v)'
    <3> SUFFICES ASSUME NEW v \in Works, wst'[v] = "assigned" PROVE Known(v)'
      OBVIOUS
    <3>1. CASE v = w
      BY <2>2, <2>5, <3>1 DEF Known
    <3>2. CASE v # w
      <4>1. Known(v)
        BY <2>5, <3>2 DEF HandInv, KnownInv
      <4>2. \A u \in Threads : pc[u] = "assign" => pc'[u] = "assign" /\ cur'[u] = cur[u]
        BY <2>5, <2>6
      <4> QED  BY <2>1, <2>5, <3>2, <4>1, <4>2 DEF Known
    <3> QED  BY <3>1, <3>2
  <2>12. NoClash'
    BY <2>1 DEF HandInv, NoClash
  <2> QED
    BY <2>7, <2>8, <2>9, <2>10, <2>11, <2>12
    DEF HandInv, TaskInv, AssignInv, KnownInv
<1> QED  BY <1>2, <1>3, SubmitCases

\* A work is counted from the moment addWork has a thread for it.
LEMMA SubmitLoad ==
    ASSUME TypeInv, LoadInv, NEW t \in Threads, NEW w \in Works, NEW q \in Nat,
           NEW firstinline, NEW nodup, NEW force,
           Submit(t, w, q, firstinline, nodup, force),
           Fresh(w)
    PROVE  LoadInv'
<1>1. wst[w] \notin Busy
  BY DEF Fresh, Busy
<1>2. /\ wq' = [wq EXCEPT ![w] = q]
      /\ wq'[w] = q
      /\ \A v \in Works \ {w} : wq'[v] = wq[v]
      /\ \A v \in Works : wst[v] \in Busy => wq'[v] = wq[v]
  BY <1>1 DEF Submit, TypeInv, TypeOK
<1>3. ASSUME NEW s, s \notin Busy, wst' = [wst EXCEPT ![w] = s],
             UNCHANGED <<queues, freeid>>
      PROVE  LoadInv'
  <2>1. \A v \in Works : wst'[v] \in Busy <=> wst[v] \in Busy
    BY <1>1, <1>3 DEF TypeInv, TypeOK
  <2> QED  BY <1>2, <1>3, <2>1, LoadFrame
<1>4. ASSUME NEW s \in Busy, wst' = [wst EXCEPT ![w] = s], Accepts(q),
             queues' = AddLoad(IndexOf(q), 1), freeid' = freeid
      PROVE  LoadInv'
  <2>1. IndexOf(q) # 0
    BY <1>4, IndexOfProperties DEF Accepts, Open, TypeInv, TypeOK
  <2>2. /\ wst'[w] \in Busy
        /\ \A v \in Works \ {w} : wst'[v] \in Busy <=> wst[v] \in Busy
    BY <1>4 DEF TypeInv, TypeOK
  <2>3. IndexOf(wq'[w]) # 0 /\ queues' = AddLoad(IndexOf(wq'[w]), 1)
    BY <1>2, <1>4, <2>1
  <2>4. \A v \in Works \ {w} : wst[v] \in Busy => wq'[v] = wq[v]
    BY <1>2
  <2> QED  BY <1>1, <1>4, <2>2, <2>3, <2>4, LoadGain
<1>5. CASE SubmitDirect(t, w)
  BY <1>3, <1>5 DEF SubmitDirect, poolVars, Busy
<1>6. CASE SubmitRejected(t, w, q)
  BY <1>3, <1>6 DEF SubmitRejected, poolVars, Busy
<1>7. CASE SubmitIgnored(t, w, q)
  BY <1>3, <1>7 DEF SubmitIgnored, poolVars, Busy
<1>8. CASE SubmitQueued(t, w, q, firstinline, force)
  BY <1>3, <1>8 DEF SubmitQueued, Busy
<1>9. CASE SubmitToFreeThread(t, w, q)
  BY <1>4, <1>9 DEF SubmitToFreeThread, Busy
<1>10. CASE SubmitInline(t, w, q)
  BY <1>4, <1>10 DEF SubmitInline, Busy
<1> QED  BY <1>5, <1>6, <1>7, <1>8, <1>9, <1>10 DEF Submit

\* A work is put into workload_ when it is not there yet.
LEMMA SubmitPending ==
    ASSUME TypeInv, KeptInv, NEW t \in Threads, NEW w \in Works, NEW q \in Nat,
           NEW firstinline, NEW nodup, NEW force,
           Submit(t, w, q, firstinline, nodup, force),
           Fresh(w)
    PROVE  PendingInv'
<1>1. wst[w] # "pending"
  BY DEF Fresh
<1>2. ASSUME NEW s, wst' = [wst EXCEPT ![w] = s], workload' = workload
      PROVE  PendingInv'
  <2>1. \A v \in Works : wst[v] = "pending" => wst'[v] = "pending"
    BY <1>1, <1>2 DEF TypeInv, TypeOK
  <2> QED  BY <1>2, <2>1, PendingFrame
<1>3. CASE SubmitQueued(t, w, q, firstinline, force)
  <2> DEFINE n == Len(workload)
  <2>1. /\ workload \in Seq(Works) /\ n \in Nat /\ DOMAIN workload = 1..n
        /\ \A i \in 1..n : /\ workload[i] \in Works
                           /\ wst[workload[i]] = "pending"
                           /\ workload[i] # w
        /\ \A i, j \in 1..n : workload[i] = workload[j] => i = j
    BY <1>1, LenProperties, WorkloadElement
    DEF TypeInv, TypeOK, KeptInv, PendingInv
  <2>2. \A v \in Works : wst'[v] = IF v = w THEN "pending" ELSE wst[v]
    BY <1>3 DEF SubmitQueued, TypeInv, TypeOK
  <2>3. CASE firstinline
    <3>1. workload' = Cons(w, workload)
      BY <1>3, <2>3 DEF SubmitQueued
    <3>2. /\ workload' \in Seq(Works)
          /\ Len(workload') = n + 1
          /\ \A i \in 1..n+1 : workload'[i] = IF i = 1 THEN w ELSE workload[i-1]
      <4>1. workload \in Seq(Works)
        BY <2>1
      <4>2. /\ Cons(w, workload) \in Seq(Works)
            /\ Len(Cons(w, workload)) = Len(workload) + 1
            /\ \A i \in 1..Len(workload)+1 :
                  Cons(w, workload)[i] = IF i = 1 THEN w ELSE workload[i-1]
        BY <4>1, ConsProperties
      <4> QED  BY <3>1, <4>2
    <3>3. DOMAIN workload' = 1..n+1
      BY <3>2, LenProperties
    <3> HIDE DEF n
    <3>4. \A i \in 1..n+1 : i # 1 => i-1 \in 1..n
      BY <2>1
    <3>5. \A i, j \in 1..n+1 : workload'[i] = workload'[j] => i = j
      <4> SUFFICES ASSUME NEW i \in 1..n+1, NEW j \in 1..n+1,
                          workload'[i] = workload'[j]
                   PROVE  i = j
        OBVIOUS
      <4>1. CASE i = 1 \/ j = 1
        BY <2>1, <3>2, <3>4, <4>1
      <4>2. CASE i # 1 /\ j # 1
        <5>1. i-1 = j-1
          BY <2>1, <3>2, <3>4, <4>2
        <5> QED  BY <2>1, <5>1
      <4> QED  BY <4>1, <4>2
    <3>6. \A i \in 1..n+1 : wst'[workload'[i]] = "pending"
      BY <2>1, <2>2, <3>2, <3>4
    <3> QED  BY <3>3, <3>5, <3>6 DEF PendingInv
  <2>4. CASE ~firstinline
    <3>1. workload' = Append(workload, w)
      BY <1>3, <2>4 DEF SubmitQueued
    <3>2. /\ workload' \in Seq(Works)
          /\ Len(workload') = n + 1
          /\ \A i \in 1..n : workload'[i] = workload[i]
          /\ workload'[n+1] = w
      BY <2>1, <3>1, AppendProperties
    <3>3. DOMAIN workload' = 1..n+1
      BY <3>2, LenProperties
    <3> HIDE DEF n
    <3>4. \A i \in 1..n+1 : i = n+1 \/ i \in 1..n
      BY <2>1
    <3>5. \A i, j \in 1..n+1 : workload'[i] = workload'[j] => i = j
      BY <2>1, <3>2, <3>4
    <3>6. \A i \in 1..n+1 : wst'[workload'[i]] = "pending"
      BY <2>1, <2>2, <3>2, <3>4
    <3> QED  BY <3>3, <3>5, <3>6 DEF PendingInv
  <2> QED  BY <2>3, <2>4
<1>4. CASE SubmitDirect(t, w)
  BY <1>2, <1>4 DEF SubmitDirect, poolVars
<1>5. CASE SubmitRejected(t, w, q)
  BY <1>2, <1>5 DEF SubmitRejected, poolVars
<1>6. CASE SubmitIgnored(t, w, q)
  BY <1>2, <1>6 DEF SubmitIgnored, poolVars
<1>7. CASE SubmitToFreeThread(t, w, q)
  BY <1>2, <1>7 DEF SubmitToFreeThread
<1>8. CASE SubmitInline(t, w, q)
  BY <1>2, <1>8 DEF SubmitInline
<1> QED  BY <1>3, <1>4, <1>5, <1>6, <1>7, <1>8 DEF Submit

\* addWork returns to the executeWork whose work it was given.
LEMMA ReturnAfterLeader ==
    ASSUME TypeInv, KeptInv, NEW t \in Threads, NEW w \in Works,
           ReturnAfter(t, w)
    PROVE  \A u \in Threads : pc'[u] \in {"exec", "execwait"} =>
              cur'[u] \in Works /\ Leader(cur'[u])
<1>1. \A u \in Threads : /\ u # t => pc'[u] = pc[u] /\ cur'[u] = cur[u]
                         /\ u = t => cur'[u] = batch[w]
  BY DEF ReturnAfter, TypeInv, TypeOK
<1>2. pc'[t] = "exec" \/ pc'[t] = "execwait" => batch[w] # None
  BY DEF ReturnAfter, TypeInv, TypeOK
<1>3. batch[w] # None => Leader(batch[w]) /\ batch[w] \in Works
  BY DEF KeptInv, LeaderInv, Leader
<1>4. \A u \in Threads : pc[u] \in {"exec", "execwait"} =>
         Leader(cur[u]) /\ cur[u] \in Works
  BY DEF KeptInv, LeaderInv, Leader
<1> QED  BY <1>1, <1>2, <1>3, <1>4

\* The work that is added was nobody's first work.
LEMMA SubmitLeader ==
    ASSUME TypeInv, KeptInv, NEW t \in Threads, NEW w \in Works, NEW q \in Nat,
           NEW firstinline, NEW nodup, NEW force,
           Submit(t, w, q, firstinline, nodup, force),
           Fresh(w), batch' = batch
    PROVE  /\ LeaderInv'
           /\ \A v \in Works : v # w => wst'[v] = wst[v]
<1>1. ~Leader(w)
  BY DEF Fresh, Leader, LeaderStates
<1>2. CASE SubmitDirect(t, w) \/ SubmitInline(t, w, q) \/ SubmitToFreeThread(t, w, q)
  <2>1. PICK s \in {"direct", "inline", "assigned"} : wst' = [wst EXCEPT ![w] = s]
    BY <1>2 DEF SubmitDirect, SubmitInline, SubmitToFreeThread
  <2>2. PICK p \in {"run", "assign"} : pc' = [pc EXCEPT ![t] = p]
    BY <1>2 DEF SubmitDirect, SubmitInline, SubmitToFreeThread
  <2>3. \A u \in Threads : u # t => cur'[u] = cur[u]
    BY <1>2 DEF SubmitDirect, SubmitInline, SubmitToFreeThread, TypeInv, TypeOK
  <2>4. /\ \A v \in Works : wst'[v] = IF v = w THEN s ELSE wst[v]
        /\ \A u \in Threads : pc'[u] = IF u = t THEN p ELSE pc[u]
    BY <2>1, <2>2 DEF TypeInv, TypeOK
  <2>5. \A v \in Works : \/ wst'[v] = wst[v]
                         \/ /\ wst'[v] # "new"
                            /\ wst'[v] = "first" => batch[v] = None
                            /\ Leader(v) => wst'[v] \in LeaderStates
    BY <1>1, <2>4
  <2>6. \A u \in Threads : pc'[u] \in {"exec", "execwait"} =>
           cur'[u] \in Works /\ Leader(cur'[u])
    BY <2>3, <2>4 DEF KeptInv, LeaderInv, Leader
  <2>7. LeaderInv'
    BY <2>5, <2>6, LeaderFrame DEF KeptInv
  <2> QED  BY <2>4, <2>7
<1>3. CASE \/ SubmitRejected(t, w, q)
           \/ SubmitIgnored(t, w, q)
           \/ SubmitQueued(t, w, q, firstinline, force)
  <2>1. PICK s \in {"destroyed", "ignored", "pending"} : wst' = [wst EXCEPT ![w] = s]
    BY <1>3 DEF SubmitRejected, SubmitIgnored, SubmitQueued
  <2>2. ReturnAfter(t, w)
    BY <1>3 DEF SubmitRejected, SubmitIgnored, SubmitQueued
  <2>3. \A v \in Works : wst'[v] = IF v = w THEN s ELSE wst[v]
    BY <2>1 DEF TypeInv, TypeOK
  <2>4. \A v \in Works : \/ wst'[v] = wst[v]
                         \/ /\ wst'[v] # "new"
                            /\ wst'[v] = "first" => batch[v] = None
                            /\ Leader(v) => wst'[v] \in LeaderStates
    BY <1>1, <2>3
  <2>5. \A u \in Threads : pc'[u] \in {"exec", "execwait"} =>
           cur'[u] \in Works /\ Leader(cur'[u])
    BY <2>2, ReturnAfterLeader
  <2>6. LeaderInv'
    BY <2>4, <2>5, LeaderFrame DEF KeptInv
  <2> QED  BY <2>3, <2>6
<1> QED  BY <1>2, <1>3 DEF Submit

LEMMA AddWorkInv ==
    ASSUME IInv, NEW t \in Threads, NEW w \in Works, NEW q \in Nat,
           NEW firstinline, NEW nodup, NEW force,
           AddWork(t, w, q, firstinline, nodup, force)
    PROVE  KeptInv' /\ HandInv' /\ LoadInv'
<1>1. /\ Submit(t, w, q, firstinline, nodup, force)
      /\ wst[w] = "new" /\ pc[t] = "run"
      /\ batch' = batch /\ exec' = exec
  BY DEF AddWork
<1>2. Fresh(w) /\ TypeInv /\ KeptInv /\ HandInv /\ LoadInv
  BY <1>1 DEF Fresh, IInv
<1>3. HandInv' /\ LoadInv' /\ PendingInv' /\ LeaderInv'
  BY <1>1, <1>2, SubmitHand, SubmitLoad, SubmitPending, SubmitLeader
<1>4. TodoInv'
  <2>1. \A v \in Works : v # w => wst'[v] = wst[v]
    BY <1>1, <1>2, SubmitLeader
  <2>2. \A b \in Works : \A i \in DOMAIN exec[b].todo :
           wst'[exec[b].todo[i]] = "held"
    BY <1>1, <1>2, <2>1, TodoElement DEF KeptInv, TodoInv, TypeInv
  <2> QED  BY <1>1, <1>2, <2>2 DEF KeptInv, TodoInv
<1> QED  BY <1>3, <1>4 DEF KeptInv

LEMMA ExecuteWorkAddInv ==
    ASSUME IInv, NEW t \in Threads, ExecuteWorkAdd(t)
    PROVE  KeptInv' /\ HandInv' /\ LoadInv'
<1> DEFINE b == cur[t]
           s == exec[b].todo
           w == Head(s)
<1>1. /\ TypeInv /\ KeptInv /\ HandInv /\ LoadInv
      /\ b \in Works /\ b # None /\ exec \in [Works -> Batch]
      /\ s \in Seq(Works) /\ s # <<>>
      /\ wq[b] \in Nat
  BY TodoElement, ConstantAssumption
  DEF IInv, ExecuteWorkAdd, TypeInv, TypeOK, CurOK
<1>2. /\ Submit(t, w, wq[b], exec[b].firstinline, FALSE, FALSE)
      /\ pc[t] = "exec"
      /\ batch' = batch
      /\ exec' = [exec EXCEPT ![b].todo = Tail(@)]
  BY DEF ExecuteWorkAdd
<1>3. \A c \in Works : exec'[c].todo = IF c = b THEN Tail(s) ELSE exec[c].todo
  BY <1>1, <1>2 DEF Batch
<1> HIDE DEF b
<1>4. /\ w = s[1] /\ w \in Works
      /\ Len(s) \in Nat /\ Len(s) >= 1 /\ DOMAIN s = 1..Len(s)
      /\ Len(Tail(s)) = Len(s) - 1
      /\ DOMAIN Tail(s) = 1..Len(s)-1
      /\ \A i \in 1..Len(s)-1 : Tail(s)[i] = s[i+1]
  BY <1>1, HeadTailProperties, LenProperties, EmptySeq
<1>5. 1 \in DOMAIN s
  BY <1>4
<1>6. /\ wst[w] = "held" /\ batch[w] = b
      /\ \A i \in DOMAIN s : i # 1 => s[i] # w
  BY <1>1, <1>4, <1>5 DEF KeptInv, TodoInv
<1>7. Fresh(w)
  BY <1>1, <1>6 DEF Fresh
<1> HIDE DEF w
<1>8. HandInv' /\ LoadInv' /\ PendingInv' /\ LeaderInv'
  BY <1>1, <1>2, <1>4, <1>7, SubmitHand, SubmitLoad, SubmitPending, SubmitLeader
<1>9. \A v \in Works : v # w => wst'[v] = wst[v]
  BY <1>1, <1>2, <1>4, <1>7, SubmitLeader
<1>10. TodoInv'
  <2> SUFFICES ASSUME NEW c \in Works
      PROVE  /\ \A i \in DOMAIN exec'[c].todo :
                   /\ wst'[exec'[c].todo[i]] = "held"
                   /\ batch[exec'[c].todo[i]] = c
             /\ \A i, j \in DOMAIN exec'[c].todo :
                   exec'[c].todo[i] = exec'[c].todo[j] => i = j
    BY <1>2 DEF TodoInv
  <2>1. /\ \A i \in DOMAIN exec[c].todo :
              /\ exec[c].todo[i] \in Works
              /\ wst[exec[c].todo[i]] = "held" /\ batch[exec[c].todo[i]] = c
        /\ \A i, j \in DOMAIN exec[c].todo :
              exec[c].todo[i] = exec[c].todo[j] => i = j
    BY <1>1, TodoElement DEF KeptInv, TodoInv, TypeInv
  <2>2. CASE c = b
    <3>1. exec'[c].todo = Tail(s) /\ exec[c].todo = s
      BY <1>3, <2>2
    <3> HIDE DEF s
    <3>2. \A i \in 1..Len(s)-1 : i+1 \in DOMAIN s /\ i+1 # 1
      BY <1>4
    <3>3. \A i \in 1..Len(s)-1 : /\ wst'[Tail(s)[i]] = "held"
                                 /\ batch[Tail(s)[i]] = c
      BY <1>4, <1>6, <1>9, <2>1, <3>1, <3>2
    <3>4. \A i, j \in 1..Len(s)-1 : Tail(s)[i] = Tail(s)[j] => i+1 = j+1
      BY <1>4, <2>1, <3>1, <3>2
    <3>5. \A i, j \in 1..Len(s)-1 : i+1 = j+1 => i = j
      BY <1>4
    <3>6. \A i, j \in 1..Len(s)-1 : Tail(s)[i] = Tail(s)[j] => i = j
      BY <3>4, <3>5
    <3>7. DOMAIN exec'[c].todo = 1..Len(s)-1
      BY <1>4, <3>1
    <3> QED  BY <3>1, <3>3, <3>6, <3>7
  <2>3. CASE c # b
    <3>1. exec'[c].todo = exec[c].todo
      BY <1>3, <2>3
    <3>2. \A i \in DOMAIN exec[c].todo : exec[c].todo[i] # w
      BY <1>6, <2>1, <2>3
    <3> QED  BY <1>9, <2>1, <3>1, <3>2
  <2> QED  BY <2>2, <2>3
<1> QED  BY <1>8, <1>10 DEF KeptInv

\* Where addWork returns to is of no concern to the hand-over.
LEMMA ReturnAfterHand ==
    ASSUME TypeInv, NEW t \in Threads, NEW w \in Works, ReturnAfter(t, w)
    PROVE  /\ pc'[t] \in {"run", "exec"}
           /\ \A u \in Threads : u # t => pc'[u] = pc[u] /\ cur'[u] = cur[u]
           /\ pc[t] # "assign" =>
                /\ \A u \in Threads : pc'[u] = "assign" <=> pc[u] = "assign"
                /\ \A u \in Threads : pc[u] = "assign" => cur'[u] = cur[u]
           /\ \A x \in Workers : pc'[x] \in {"wait", "report", "idle"} =>
                 pc'[x] = pc[x] \/ (pc[x] = "idle" /\ pc'[x] = "wait")
<1>1. pc'[t] \in {"run", "exec"}
  BY DEF ReturnAfter, TypeInv, TypeOK
<1>2. \A u \in Threads : u # t => pc'[u] = pc[u] /\ cur'[u] = cur[u]
  BY DEF ReturnAfter, TypeInv, TypeOK
<1>3. \A x \in Workers : pc'[x] \in {"wait", "report", "idle"} => pc'[x] = pc[x]
  BY <1>1, <1>2 DEF Threads
<1> QED  BY <1>1, <1>2, <1>3

LEMMA AssignTaskInv ==
    ASSUME IInv, NEW t \in Threads, AssignTask(t)
    PROVE  KeptInv' /\ HandInv' /\ LoadInv'
<1> DEFINE w == cur[t]
           x == to[w]
<1>1. TypeInv /\ KeptInv /\ HandInv /\ LoadInv
  BY DEF IInv
<1>2. /\ pc[t] = "assign" /\ w \in Works /\ Assigning(t)
  BY <1>1 DEF AssignTask, TypeInv, CurOK, HandInv, AssignInv
<1>3. /\ x \in Workers /\ task[x] = None /\ wst[w] = "assigned"
      /\ pc[x] \notin {"report", "idle"}
      /\ task' = [task EXCEPT ![x] = w]
      /\ ReturnAfter(t, w)
      /\ UNCHANGED <<wst, alarms, queues, freeid, workload, freethreads,
                     wq, to, batch, exec>>
  BY <1>2 DEF AssignTask, Assigning, poolVars
<1> HIDE DEF w, x
<1>4. KeptInv'
  <2>1. PendingInv'
    BY <1>1, <1>3, PendingFrame
  <2>2. \A u \in Threads : pc'[u] \in {"exec", "execwait"} =>
           cur'[u] \in Works /\ Leader(cur'[u])
    BY <1>1, <1>2, <1>3, ReturnAfterLeader
  <2> QED  BY <1>1, <1>3, <2>1, <2>2, KeptFrame
<1>5. LoadInv'
  BY <1>1, <1>3, LoadFrame
<1>6. /\ pc'[t] \in {"run", "exec"}
      /\ \A u \in Threads : u # t => pc'[u] = pc[u] /\ cur'[u] = cur[u]
      /\ \A y \in Workers : task'[y] = IF y = x THEN w ELSE task[y]
  BY <1>1, <1>2, <1>3, ReturnAfterHand DEF TypeInv, TypeOK
<1>7. \A u \in Threads : pc'[u] = "assign" =>
         /\ u # t /\ pc[u] = "assign" /\ cur'[u] = cur[u] /\ Assigning(u)
         /\ to[cur[u]] # x
  <2>1. \A u \in Threads : pc'[u] = "assign" =>
           u # t /\ pc[u] = "assign" /\ cur'[u] = cur[u]
    BY <1>6
  <2>2. \A u \in Threads : pc[u] = "assign" /\ to[cur[u]] = x => u = t
    BY <1>1, <1>2 DEF HandInv, ApartInv, x, w
  <2> QED  BY <1>1, <2>1, <2>2 DEF HandInv, AssignInv
<1>8. \A y \in Workers : TaskOf(y)'
  <2> SUFFICES ASSUME NEW y \in Workers PROVE TaskOf(y)'
    OBVIOUS
  <2>1. TaskOf(y) /\ y \in Threads
    BY <1>1 DEF HandInv, TaskInv, Threads
  <2>2. pc'[y] \in {"wait", "report", "idle"} => pc'[y] = pc[y]
    BY <1>6, <2>1
  <2>3. CASE y = x
    <3>1. task'[y] = w /\ wst'[w] = "assigned" /\ to'[w] = x
      BY <1>3, <1>6, <2>3 DEF x
    <3>2. pc'[y] \notin {"report", "idle"}
      BY <1>3, <2>2, <2>3
    <3>3. w # None
      BY <1>2, ConstantAssumption
    <3> QED  BY <2>3, <3>1, <3>2, <3>3 DEF TaskOf
  <2>4. CASE y # x
    BY <1>3, <1>6, <2>1, <2>2, <2>4 DEF TaskOf
  <2> QED  BY <2>3, <2>4
<1>9. FreeInv'
  <2>1. \A i \in DOMAIN freethreads : freethreads[i] # x /\ freethreads[i] \in Workers
    BY <1>1, <1>2, LenProperties, ElementOfSeq
    DEF Assigning, x, w, TypeInv, TypeOK
  <2> QED  BY <1>1, <1>3, <1>6, <2>1 DEF HandInv, FreeInv
<1>10. \A u \in Threads : pc'[u] = "assign" => Assigning(u)'
  <2> SUFFICES ASSUME NEW u \in Threads, pc'[u] = "assign" PROVE Assigning(u)'
    OBVIOUS
  <2>1. cur'[u] = cur[u] /\ Assigning(u) /\ to[cur[u]] # x
    BY <1>7
  <2> QED  BY <1>3, <1>6, <2>1 DEF Assigning
<1>11. ApartInv'
  <2>1. ASSUME NEW u \in Threads, NEW v \in Threads,
               pc'[u] = "assign", pc'[v] = "assign", to'[cur'[u]] = to'[cur'[v]]
        PROVE  u = v
    <3>1. pc[u] = "assign" /\ pc[v] = "assign" /\ to[cur[u]] = to[cur[v]]
      BY <1>3, <1>7, <2>1
    <3> QED  BY <1>1, <3>1 DEF HandInv, ApartInv
  <2> QED  BY <2>1 DEF ApartInv
<1>12. \A v \in Works : wst'[v] = "assigned" => Known(v)'
  <2> SUFFICES ASSUME NEW v \in Works, wst'[v] = "assigned" PROVE Known(v)'
    OBVIOUS
  <2>1. Known(v)
    BY <1>1, <1>3 DEF HandInv, KnownInv
  <2>2. CASE v = w
    BY <1>3, <1>6, <2>2 DEF Known, x
  <2>3. CASE v # w
    <3>1. CASE task[to[v]] = v
      <4>1. to[v] # x
        BY <1>3, <3>1, ConstantAssumption
      <4>2. to[v] \in Workers
        BY <2>1 DEF Known
      <4>3. task'[to[v]] = v /\ to' = to
        BY <1>3, <1>6, <3>1, <4>1, <4>2
      <4> QED  BY <4>2, <4>3 DEF Known
    <3>2. CASE \E u \in Threads : pc[u] = "assign" /\ cur[u] = v
      <4>1. PICK u \in Threads : pc[u] = "assign" /\ cur[u] = v
        BY <3>2
      <4>2. u # t
        BY <2>3, <4>1 DEF w
      <4> QED  BY <1>3, <1>6, <2>1, <4>1, <4>2 DEF Known
    <3> QED  BY <2>1, <3>1, <3>2 DEF Known
  <2> QED  BY <2>2, <2>3
<1>13. NoClash'
  BY <1>1, <1>3 DEF HandInv, NoClash
<1> QED
  BY <1>4, <1>5, <1>8, <1>9, <1>10, <1>11, <1>12, <1>13
  DEF HandInv, TaskInv, AssignInv, KnownInv

-----------------------------------------------------------------------------
(***************************************************************************)
(* The works that are done by their caller, and removeWork                 *)
(***************************************************************************)

\* A callback changes nothing of what executeWork still has to add.
LEMMA ImFinishedTodo ==
    ASSUME TypeInv, NEW w \in Works, NEW good, ImFinished(w, good)
    PROVE  \A b \in Works : exec'[b].todo = exec[b].todo
<1>1. CASE batch[w] = None
  BY <1>1 DEF ImFinished
<1>2. CASE batch[w] # None
  <2>1. exec' = [exec EXCEPT ![batch[w]].nrfinished = @ + 1,
                             ![batch[w]].error = @ \/ ~good]
    BY <1>2 DEF ImFinished
  <2>2. exec \in [Works -> Batch] /\ batch[w] \in Works
    BY <1>2 DEF TypeInv, TypeOK
  <2> QED  BY <2>1, <2>2 DEF Batch
<1> QED  BY <1>1, <1>2

LEMMA InlineDoneInv ==
    ASSUME IInv, NEW t \in Threads, InlineDone(t)
    PROVE  KeptInv' /\ HandInv' /\ LoadInv'
<1>1. PICK w \in Works, good \in BOOLEAN :
        LET i == IndexOf(wq[w]) IN
        /\ Executing(t, w, "inline")
        /\ ImFinished(w, good)
        /\ queues' = IF i = 0 THEN queues ELSE AddLoad(i, -1)
        /\ alarms' = IF i = 0 THEN alarms \cup {"bad subscript"} ELSE alarms
        /\ wst' = [wst EXCEPT ![w] = "done"]
        /\ ReturnAfter(t, w)
        /\ UNCHANGED <<freeid, workload, freethreads, task, wq, to, batch>>
  BY OutcomesType DEF InlineDone, workerVars
<1>2. TypeInv /\ KeptInv /\ HandInv /\ LoadInv
  BY DEF IInv
<1>3. /\ wst[w] = "inline" /\ pc[t] = "run"
      /\ \A v \in Works : wst'[v] = IF v = w THEN "done" ELSE wst[v]
      /\ queues' = Reduced(wq[w])
  BY <1>1, <1>2 DEF Executing, Reduced, TypeInv, TypeOK
<1>4. KeptInv'
  <2>1. PendingInv'
    BY <1>1, <1>2, <1>3, PendingFrame
  <2>2. \A u \in Threads : pc'[u] \in {"exec", "execwait"} =>
           cur'[u] \in Works /\ Leader(cur'[u])
    BY <1>1, <1>2, ReturnAfterLeader
  <2>3. \A b \in Works : exec'[b].todo = exec[b].todo
    BY <1>1, <1>2, ImFinishedTodo
  <2>4. \A v \in Works : \/ wst'[v] = wst[v]
                         \/ /\ wst'[v] # "new"
                            /\ wst'[v] = "first" => batch[v] = None
                            /\ wst[v] = "held" => batch[v] = None
                            /\ Leader(v) => wst'[v] \in LeaderStates
    BY <1>3 DEF LeaderStates
  <2> QED  BY <1>1, <1>2, <2>1, <2>2, <2>3, <2>4, KeptFrame
<1>5. HandInv'
  <2>1. "existing task" \in alarms' => "existing task" \in alarms
    BY <1>1
  <2>2. \A v \in Works : \/ wst'[v] = wst[v]
                         \/ /\ wst[v] \notin {"assigned", "task", "reporting"}
                            /\ wst'[v] # "assigned"
    BY <1>3
  <2>3. /\ \A u \in Threads : pc'[u] = "assign" <=> pc[u] = "assign"
        /\ \A u \in Threads : pc[u] = "assign" => cur'[u] = cur[u]
        /\ \A x \in Workers : pc'[x] \in {"wait", "report", "idle"} =>
              pc'[x] = pc[x] \/ (pc[x] = "idle" /\ pc'[x] = "wait")
    BY <1>1, <1>2, <1>3, ReturnAfterHand
  <2> QED  BY <1>1, <1>2, <2>1, <2>2, <2>3, HandFrame
<1>6. LoadInv'
  <2>1. wst[w] \in Busy /\ wst'[w] \notin Busy
    BY <1>3 DEF Busy
  <2>2. \A v \in Works \ {w} : wst'[v] \in Busy <=> wst[v] \in Busy
    BY <1>3
  <2>3. \A v \in Works \ {w} : wst[v] \in Busy => wq'[v] = wq[v]
    BY <1>1
  <2> QED  BY <1>1, <1>2, <1>3, <2>1, <2>2, <2>3, LoadLose
<1> QED  BY <1>4, <1>5, <1>6

LEMMA DirectDoneInv ==
    ASSUME IInv, NEW t \in Threads, DirectDone(t)
    PROVE  KeptInv' /\ HandInv' /\ LoadInv'
<1>1. PICK w \in Works, good \in BOOLEAN :
        /\ Executing(t, w, "direct")
        /\ ImFinished(w, good)
        /\ wst' = [wst EXCEPT ![w] = "done"]
        /\ ReturnAfter(t, w)
        /\ UNCHANGED <<queues, freeid, workload, freethreads, task, wq, to,
                       batch, alarms>>
  BY OutcomesType DEF DirectDone, workerVars, poolVars
<1>2. TypeInv /\ KeptInv /\ HandInv /\ LoadInv
  BY DEF IInv
<1>3. /\ wst[w] = "direct" /\ pc[t] = "run"
      /\ \A v \in Works : wst'[v] = IF v = w THEN "done" ELSE wst[v]
  BY <1>1, <1>2 DEF Executing, TypeInv, TypeOK
<1>4. KeptInv'
  <2>1. PendingInv'
    BY <1>1, <1>2, <1>3, PendingFrame
  <2>2. \A u \in Threads : pc'[u] \in {"exec", "execwait"} =>
           cur'[u] \in Works /\ Leader(cur'[u])
    BY <1>1, <1>2, ReturnAfterLeader
  <2>3. \A b \in Works : exec'[b].todo = exec[b].todo
    BY <1>1, <1>2, ImFinishedTodo
  <2>4. \A v \in Works : \/ wst'[v] = wst[v]
                         \/ /\ wst'[v] # "new"
                            /\ wst'[v] = "first" => batch[v] = None
                            /\ wst[v] = "held" => batch[v] = None
                            /\ Leader(v) => wst'[v] \in LeaderStates
    BY <1>3 DEF LeaderStates
  <2> QED  BY <1>1, <1>2, <2>1, <2>2, <2>3, <2>4, KeptFrame
<1>5. HandInv'
  <2>1. \A v \in Works : \/ wst'[v] = wst[v]
                         \/ /\ wst[v] \notin {"assigned", "task", "reporting"}
                            /\ wst'[v] # "assigned"
    BY <1>3
  <2>2. /\ \A u \in Threads : pc'[u] = "assign" <=> pc[u] = "assign"
        /\ \A u \in Threads : pc[u] = "assign" => cur'[u] = cur[u]
        /\ \A x \in Workers : pc'[x] \in {"wait", "report", "idle"} =>
              pc'[x] = pc[x] \/ (pc[x] = "idle" /\ pc'[x] = "wait")
    BY <1>1, <1>2, <1>3, ReturnAfterHand
  <2> QED  BY <1>1, <1>2, <2>1, <2>2, HandFrame
<1>6. LoadInv'
  <2>1. \A v \in Works : wst'[v] \in Busy <=> wst[v] \in Busy
    BY <1>3 DEF Busy
  <2> QED  BY <1>1, <1>2, <2>1, LoadFrame
<1> QED  BY <1>4, <1>5, <1>6

\* What the threads do is the same when none of them is concerned.
LEMMA RemoveWorkInv ==
    ASSUME IInv, NEW t \in Threads, NEW w \in Works, RemoveWork(t, w)
    PROVE  KeptInv' /\ HandInv' /\ LoadInv'
<1>1. PICK i \in DOMAIN workload :
        /\ wst' = [wst EXCEPT ![workload[i]] = "destroyed"]
        /\ workload' = RemoveAt(workload, i)
  BY DEF RemoveWork
<1>2. UNCHANGED <<queues, freeid, freethreads, task, wq, to, batch, exec,
                  pc, cur, alarms>>
  BY DEF RemoveWork, workerVars, threadVars
<1>3. TypeInv /\ KeptInv /\ HandInv /\ LoadInv
  BY DEF IInv
<1> DEFINE v == workload[i]
<1>4. v \in Works /\ wst[v] = "pending"
  BY <1>3, WorkloadElement DEF TypeInv, KeptInv, PendingInv
<1> HIDE DEF v
<1>5. \A u \in Works : wst'[u] = IF u = v THEN "destroyed" ELSE wst[u]
  BY <1>1, <1>3 DEF v, TypeInv, TypeOK
<1>6. KeptInv'
  <2>1. PendingInv'
    BY <1>1, <1>3, <1>5, PendingRemoved DEF v
  <2>2. \A u \in Works : \/ wst'[u] = wst[u]
                         \/ /\ wst'[u] # "new"
                            /\ wst'[u] = "first" => batch[u] = None
                            /\ wst[u] = "held" => batch[u] = None
                            /\ Leader(u) => wst'[u] \in LeaderStates
    BY <1>4, <1>5 DEF Leader, LeaderStates
  <2>3. \A u \in Threads : pc'[u] \in {"exec", "execwait"} =>
           cur'[u] \in Works /\ Leader(cur'[u])
    BY <1>2, <1>3 DEF KeptInv, LeaderInv, Leader
  <2> QED  BY <1>2, <1>3, <2>1, <2>2, <2>3, KeptFrame
<1>7. HandInv'
  <2>1. \A u \in Works : \/ wst'[u] = wst[u]
                         \/ /\ wst[u] \notin {"assigned", "task", "reporting"}
                            /\ wst'[u] # "assigned"
    BY <1>4, <1>5
  <2> QED  BY <1>2, <1>3, <2>1, HandFrame
<1>8. LoadInv'
  <2>1. \A u \in Works : wst'[u] \in Busy <=> wst[u] \in Busy
    BY <1>4, <1>5 DEF Busy
  <2> QED  BY <1>2, <1>3, <2>1, LoadFrame
<1> QED  BY <1>6, <1>7, <1>8

-----------------------------------------------------------------------------
(***************************************************************************)
(* WorkThread::doWork                                                      *)
(***************************************************************************)

LEMMA TakeTaskInv ==
    ASSUME IInv, NEW x \in Workers, TakeTask(x)
    PROVE  KeptInv' /\ HandInv' /\ LoadInv'
<1> DEFINE w == task[x]
<1>1. TypeInv /\ KeptInv /\ HandInv /\ LoadInv
  BY DEF IInv
<1>2. /\ pc[x] = "wait" /\ w # None
      /\ pc' = [pc EXCEPT ![x] = "run"]
      /\ wst' = [wst EXCEPT ![w] = "task"]
      /\ UNCHANGED <<queues, freeid, workload, freethreads, task, wq, to, batch,
                     exec, cur, alarms>>
  BY DEF TakeTask, HasTask, poolVars, workerVars
<1>3. w \in Works /\ wst[w] = "assigned" /\ x \in Threads
  BY <1>1, <1>2 DEF HandInv, TaskInv, TaskOf, TypeInv, TypeOK, Threads
<1>4. HandInv'
  BY <1>1, <1>2, OwnTaskFrame
<1> HIDE DEF w
<1>5. /\ \A v \in Works : wst'[v] = IF v = w THEN "task" ELSE wst[v]
      /\ \A t \in Threads : pc'[t] = IF t = x THEN "run" ELSE pc[t]
  BY <1>1, <1>2 DEF TypeInv, TypeOK
<1>6. KeptInv'
  <2>1. PendingInv'
    BY <1>1, <1>2, <1>3, <1>5, PendingFrame
  <2>2. \A u \in Works : \/ wst'[u] = wst[u]
                         \/ /\ wst'[u] # "new"
                            /\ wst'[u] = "first" => batch[u] = None
                            /\ wst[u] = "held" => batch[u] = None
                            /\ Leader(u) => wst'[u] \in LeaderStates
    BY <1>3, <1>5 DEF Leader, LeaderStates
  <2>3. \A u \in Threads : pc'[u] \in {"exec", "execwait"} =>
           cur'[u] \in Works /\ Leader(cur'[u])
    BY <1>1, <1>2, <1>5 DEF KeptInv, LeaderInv, Leader
  <2> QED  BY <1>1, <1>2, <2>1, <2>2, <2>3, KeptFrame
<1>7. LoadInv'
  <2>1. \A u \in Works : wst'[u] \in Busy <=> wst[u] \in Busy
    BY <1>3, <1>5 DEF Busy
  <2> QED  BY <1>1, <1>2, <2>1, LoadFrame
<1> QED  BY <1>4, <1>6, <1>7

LEMMA TaskDoneInv ==
    ASSUME IInv, NEW x \in Workers, TaskDone(x)
    PROVE  KeptInv' /\ HandInv' /\ LoadInv'
<1> DEFINE w == task[x]
<1>1. PICK good \in BOOLEAN : Executing(x, w, "task") /\ ImFinished(w, good)
  BY OutcomesType DEF TaskDone
<1>2. TypeInv /\ KeptInv /\ HandInv /\ LoadInv
  BY DEF IInv
<1>3. /\ wst' = [wst EXCEPT ![w] = "reporting"]
      /\ pc' = [pc EXCEPT ![x] = "report"]
      /\ UNCHANGED <<queues, freeid, workload, freethreads, task, wq, to, batch,
                     cur, alarms>>
  BY DEF TaskDone, poolVars, workerVars
<1>4. w \in Works /\ wst[w] = "task" /\ x \in Threads /\ pc[x] = "run"
  BY <1>1, <1>2, StackPop DEF Executing, TypeInv, Threads
<1>5. w # None
  BY <1>4, ConstantAssumption
<1>6. HandInv'
  BY <1>2, <1>3, <1>4, <1>5, OwnTaskFrame
<1> HIDE DEF w
<1>7. /\ \A v \in Works : wst'[v] = IF v = w THEN "reporting" ELSE wst[v]
      /\ \A t \in Threads : pc'[t] = IF t = x THEN "report" ELSE pc[t]
  BY <1>2, <1>3 DEF TypeInv, TypeOK
<1>8. KeptInv'
  <2>1. PendingInv'
    BY <1>2, <1>3, <1>4, <1>7, PendingFrame
  <2>2. \A u \in Works : \/ wst'[u] = wst[u]
                         \/ /\ wst'[u] # "new"
                            /\ wst'[u] = "first" => batch[u] = None
                            /\ wst[u] = "held" => batch[u] = None
                            /\ Leader(u) => wst'[u] \in LeaderStates
    BY <1>4, <1>7 DEF Leader, LeaderStates
  <2>3. \A u \in Threads : pc'[u] \in {"exec", "execwait"} =>
           cur'[u] \in Works /\ Leader(cur'[u])
    BY <1>2, <1>3, <1>7 DEF KeptInv, LeaderInv, Leader
  <2>4. \A b \in Works : exec'[b].todo = exec[b].todo
    BY <1>1, <1>2, <1>4, ImFinishedTodo
  <2> QED  BY <1>2, <1>3, <2>1, <2>2, <2>3, <2>4, KeptFrame
<1>9. LoadInv'
  <2>1. \A u \in Works : wst'[u] \in Busy <=> wst[u] \in Busy
    BY <1>4, <1>7 DEF Busy
  <2> QED  BY <1>2, <1>3, <2>1, LoadFrame
<1> QED  BY <1>6, <1>8, <1>9

LEMMA ReportIdleInv ==
    ASSUME IInv, NEW x \in Workers, ReportIdle(x)
    PROVE  KeptInv' /\ HandInv' /\ LoadInv'
<1> DEFINE w == task[x]
<1>1. TypeInv /\ KeptInv /\ HandInv /\ LoadInv
  BY DEF IInv
<1>2. /\ pc[x] = "report"
      /\ queues' = Reduced(wq[w])
      /\ freethreads' = Append(freethreads, x)
      /\ task' = [task EXCEPT ![x] = None]
      /\ wst' = [wst EXCEPT ![w] = "done"]
      /\ alarms' = alarms \cup ReduceAlarm(wq[w])
      /\ pc' = [pc EXCEPT ![x] = "idle"]
      /\ UNCHANGED <<freeid, workload, wq, to, batch, exec, cur>>
  BY DEF ReportIdle
<1>3. /\ w # None /\ w \in Works /\ wst[w] = "reporting" /\ to[w] = x
      /\ x \in Threads
  BY <1>1, <1>2 DEF HandInv, TaskInv, TaskOf, TypeInv, TypeOK, Threads
<1>4. /\ \A v \in Works : wst'[v] = IF v = w THEN "done" ELSE wst[v]
      /\ \A y \in Workers : task'[y] = IF y = x THEN None ELSE task[y]
      /\ \A t \in Threads : pc'[t] = IF t = x THEN "idle" ELSE pc[t]
  BY <1>1, <1>2 DEF TypeInv, TypeOK
<1>5. \A y \in Workers : y # x => task[y] # w
  BY <1>1, <1>3 DEF HandInv, TaskInv, TaskOf
<1>6. /\ \A i \in DOMAIN freethreads : /\ freethreads[i] \in Workers
                                       /\ freethreads[i] # x
      /\ freethreads \in Seq(Workers)
      /\ DOMAIN freethreads = 1..Len(freethreads)
      /\ Len(freethreads) \in Nat
  BY <1>1, <1>3, LenProperties, ElementOfSeq DEF HandInv, FreeInv, TypeInv, TypeOK
<1> HIDE DEF w
<1>7. KeptInv'
  <2>1. PendingInv'
    BY <1>1, <1>2, <1>3, <1>4, PendingFrame
  <2>2. \A u \in Works : \/ wst'[u] = wst[u]
                         \/ /\ wst'[u] # "new"
                            /\ wst'[u] = "first" => batch[u] = None
                            /\ wst[u] = "held" => batch[u] = None
                            /\ Leader(u) => wst'[u] \in LeaderStates
    BY <1>3, <1>4 DEF Leader, LeaderStates
  <2>3. \A u \in Threads : pc'[u] \in {"exec", "execwait"} =>
           cur'[u] \in Works /\ Leader(cur'[u])
    BY <1>1, <1>2, <1>4 DEF KeptInv, LeaderInv, Leader
  <2> QED  BY <1>1, <1>2, <2>1, <2>2, <2>3, KeptFrame
<1>8. LoadInv'
  <2>1. wst[w] \in Busy /\ wst'[w] \notin Busy
    BY <1>3, <1>4 DEF Busy
  <2>2. \A v \in Works \ {w} : wst'[v] \in Busy <=> wst[v] \in Busy
    BY <1>4
  <2>3. \A v \in Works \ {w} : wst[v] \in Busy => wq'[v] = wq[v]
    BY <1>2
  <2> QED  BY <1>1, <1>2, <1>3, <2>1, <2>2, <2>3, LoadLose
<1>9. \A y \in Workers : TaskOf(y)'
  <2> SUFFICES ASSUME NEW y \in Workers PROVE TaskOf(y)'
    OBVIOUS
  <2>1. TaskOf(y) /\ task[y] \in Works \cup {None} /\ y \in Threads
    BY <1>1 DEF HandInv, TaskInv, TypeInv, TypeOK, Threads
  <2>2. CASE y = x
    BY <1>2, <1>4, <2>1, <2>2 DEF TaskOf
  <2>3. CASE y # x
    BY <1>2, <1>4, <1>5, <2>1, <2>3 DEF TaskOf
  <2> QED  BY <2>2, <2>3
<1>10. /\ DOMAIN freethreads' = 1..Len(freethreads)+1
       /\ \A i \in DOMAIN freethreads : freethreads'[i] = freethreads[i]
       /\ freethreads'[Len(freethreads)+1] = x
       /\ \A i \in DOMAIN freethreads' :
             i \in DOMAIN freethreads \/ i = Len(freethreads)+1
  <2>1. /\ Append(freethreads, x) \in Seq(Workers)
        /\ Len(Append(freethreads, x)) = Len(freethreads)+1
        /\ \A i \in 1..Len(freethreads) :
              Append(freethreads, x)[i] = freethreads[i]
        /\ Append(freethreads, x)[Len(freethreads)+1] = x
    BY <1>6, AppendProperties
  <2>2. DOMAIN freethreads' = 1..Len(freethreads)+1
    BY <1>2, <2>1, LenProperties
  <2> QED  BY <1>2, <1>6, <2>1, <2>2
<1>11. FreeInv'
  <2>1. \A i \in DOMAIN freethreads' : task'[freethreads'[i]] = None
    BY <1>1, <1>4, <1>6, <1>10 DEF HandInv, FreeInv
  <2>2. \A i, j \in DOMAIN freethreads' : freethreads'[i] = freethreads'[j] => i = j
    BY <1>1, <1>6, <1>10 DEF HandInv, FreeInv
  <2> QED  BY <2>1, <2>2 DEF FreeInv
<1>12. \A t \in Threads : pc'[t] = "assign" =>
          pc[t] = "assign" /\ Assigning(t) /\ cur[t] \in Works /\ cur[t] # w
          /\ to[cur[t]] # x
  <2> SUFFICES ASSUME NEW t \in Threads, pc'[t] = "assign"
               PROVE  pc[t] = "assign" /\ Assigning(t) /\ cur[t] \in Works
                      /\ cur[t] # w /\ to[cur[t]] # x
    OBVIOUS
  <2>1. pc[t] = "assign"
    BY <1>4
  <2>2. Assigning(t) /\ cur[t] \in Works
    BY <1>1, <2>1 DEF HandInv, AssignInv, TypeInv, CurOK
  <2> QED  BY <1>3, <2>1, <2>2 DEF Assigning, w
<1>13. \A t \in Threads : pc'[t] = "assign" => Assigning(t)'
  <2> SUFFICES ASSUME NEW t \in Threads, pc'[t] = "assign" PROVE Assigning(t)'
    OBVIOUS
  <2>1. Assigning(t) /\ cur[t] \in Works /\ cur[t] # w /\ to[cur[t]] # x
    BY <1>12
  <2> QED  BY <1>2, <1>4, <1>10, <2>1 DEF Assigning
<1>14. ApartInv'
  <2>1. ASSUME NEW u \in Threads, NEW v \in Threads,
               pc'[u] = "assign", pc'[v] = "assign", to'[cur'[u]] = to'[cur'[v]]
        PROVE  u = v
    BY <1>1, <1>2, <1>12, <2>1 DEF HandInv, ApartInv
  <2> QED  BY <2>1 DEF ApartInv
<1>15. \A v \in Works : wst'[v] = "assigned" => Known(v)'
  <2> SUFFICES ASSUME NEW v \in Works, wst'[v] = "assigned" PROVE Known(v)'
    OBVIOUS
  <2>1. Known(v) /\ v # w
    BY <1>1, <1>4 DEF HandInv, KnownInv
  <2>2. \A t \in Threads : pc[t] = "assign" => pc'[t] = "assign"
    BY <1>2, <1>4
  <2>3. task[to[v]] = v => task'[to[v]] = v
    <3>1. to[v] = x => task[to[v]] = w
      BY DEF w
    <3> QED  BY <1>4, <2>1, <3>1 DEF Known
  <2> QED  BY <1>2, <2>1, <2>2, <2>3 DEF Known
<1>16. NoClash'
  BY <1>1, <1>2 DEF HandInv, NoClash, ReduceAlarm
<1> QED
  BY <1>7, <1>8, <1>9, <1>11, <1>13, <1>14, <1>15, <1>16
  DEF HandInv, TaskInv, AssignInv, KnownInv

LEMMA ReportNextInv ==
    ASSUME IInv, NEW x \in Workers, ReportNext(x)
    PROVE  KeptInv' /\ HandInv' /\ LoadInv'
<1> DEFINE w == task[x]
           q == wq[w]
<1>1. TypeInv /\ KeptInv /\ HandInv /\ LoadInv
  BY DEF IInv
<1>2. PICK i \in DOMAIN workload :
        /\ IsNext(Reduced(q), i)
        /\ queues' = [k \in DOMAIN queues |->
                        IF queues[k].id = wq[workload[i]]
                        THEN [Reduced(q)[k] EXCEPT !.load = @ + 1]
                        ELSE Reduced(q)[k]]
        /\ workload' = RemoveAt(workload, i)
        /\ task' = [task EXCEPT ![x] = workload[i]]
        /\ to' = [to EXCEPT ![workload[i]] = x]
        /\ wst' = [wst EXCEPT ![w] = "done", ![workload[i]] = "task"]
  BY DEF ReportNext
<1> DEFINE v == workload[i]
<1>3. /\ pc[x] = "report"
      /\ alarms' = alarms \cup ReduceAlarm(q)
      /\ \E p \in {"exited", "run"} : pc' = [pc EXCEPT ![x] = p]
      /\ UNCHANGED <<freeid, freethreads, wq, batch, exec, cur>>
  <2>1. pc' = [pc EXCEPT ![x] = IF exitflag[x] THEN "exited" ELSE "run"]
    BY DEF ReportNext
  <2>2. \E p \in {"exited", "run"} : pc' = [pc EXCEPT ![x] = p]
    BY <2>1
  <2> QED  BY <2>2 DEF ReportNext
<1>4. PICK p \in {"exited", "run"} : pc' = [pc EXCEPT ![x] = p]
  BY <1>3
<1>5. /\ w # None /\ w \in Works /\ wst[w] = "reporting" /\ to[w] = x
      /\ x \in Threads
      /\ v \in Works /\ wst[v] = "pending" /\ v # w
  <2>1. w # None /\ wst[w] = "reporting" /\ to[w] = x /\ w \in Works /\ x \in Threads
    BY <1>1, <1>3 DEF HandInv, TaskInv, TaskOf, TypeInv, TypeOK, Threads
  <2>2. v \in Works /\ wst[v] = "pending"
    BY <1>1, WorkloadElement DEF KeptInv, PendingInv, TypeInv
  <2> QED  BY <2>1, <2>2
<1> HIDE DEF w, v
<1>6. /\ \A u \in Works : wst'[u] = IF u = v THEN "task"
                                    ELSE IF u = w THEN "done" ELSE wst[u]
      /\ \A u \in Works : to'[u] = IF u = v THEN x ELSE to[u]
      /\ \A y \in Workers : task'[y] = IF y = x THEN v ELSE task[y]
      /\ \A t \in Threads : pc'[t] = IF t = x THEN p ELSE pc[t]
  <2>1. /\ wst' = [wst EXCEPT ![w] = "done", ![v] = "task"]
        /\ to' = [to EXCEPT ![v] = x]
        /\ task' = [task EXCEPT ![x] = v]
    BY <1>2 DEF v
  <2>2. /\ wst \in [Works -> WorkStates]
        /\ to \in [Works -> Workers \cup {None}]
        /\ task \in [Workers -> Works \cup {None}]
        /\ pc \in [Threads -> PCs]
    BY <1>1 DEF TypeInv, TypeOK
  <2> QED  BY <1>4, <1>5, <2>1, <2>2
<1>7. \A y \in Workers : y # x => task[y] # w
  BY <1>1, <1>5 DEF HandInv, TaskInv, TaskOf
<1>8. KeptInv'
  <2>1. PendingInv'
    <3>1. \A u \in Works : wst[u] = "pending" /\ u # workload[i] => wst'[u] = "pending"
      BY <1>5, <1>6 DEF v
    <3>2. workload' = RemoveAt(workload, i)
      BY <1>2
    <3> QED  BY <1>1, <3>1, <3>2, PendingRemoved
  <2>2. \A u \in Works : \/ wst'[u] = wst[u]
                         \/ /\ wst'[u] # "new"
                            /\ wst'[u] = "first" => batch[u] = None
                            /\ wst[u] = "held" => batch[u] = None
                            /\ Leader(u) => wst'[u] \in LeaderStates
    BY <1>5, <1>6 DEF Leader, LeaderStates
  <2>3. \A u \in Threads : pc'[u] \in {"exec", "execwait"} =>
           cur'[u] \in Works /\ Leader(cur'[u])
    BY <1>1, <1>3, <1>6 DEF KeptInv, LeaderInv, Leader
  <2> QED  BY <1>1, <1>3, <2>1, <2>2, <2>3, KeptFrame
<1>9. LoadInv'
  <2>1. /\ wst[w] \in Busy /\ wst'[w] \notin Busy
        /\ wst[v] \notin Busy /\ wst'[v] \in Busy
        /\ \A u \in Works \ {w, v} : wst'[u] \in Busy <=> wst[u] \in Busy
    BY <1>5, <1>6 DEF Busy
  <2>2. /\ Reduced(q) \in Seq(Queue)
        /\ DOMAIN Reduced(q) = DOMAIN queues
        /\ \A k \in DOMAIN queues :
             /\ Reduced(q)[k] \in Queue
             /\ Reduced(q)[k].id = queues[k].id
             /\ Reduced(q)[k].load = IF queues[k].id = q THEN queues[k].load - 1
                                     ELSE queues[k].load
             /\ queues[k].load \in Int
    <3>1. /\ Reduced(q) \in Seq(Queue) /\ queues \in Seq(Queue)
          /\ DOMAIN Reduced(q) = DOMAIN queues
          /\ \A k \in DOMAIN queues :
               /\ Reduced(q)[k].id = queues[k].id
               /\ Reduced(q)[k].load = IF queues[k].id = q THEN queues[k].load - 1
                                       ELSE queues[k].load
      BY <1>1, ReducedLoads DEF LoadInv, TypeInv, TypeOK
    <3>2. \A k \in DOMAIN queues : Reduced(q)[k] \in Queue /\ queues[k] \in Queue
      BY <3>1, LenProperties, ElementOfSeq
    <3>3. \A k \in DOMAIN queues : queues[k].load \in Int
      BY <3>2 DEF Queue
    <3> QED  BY <3>1, <3>2, <3>3
  <2>3. \A r \in Queue : /\ [r EXCEPT !.load = @ + 1].id = r.id
                         /\ [r EXCEPT !.load = @ + 1].load = r.load + 1
    BY DEF Queue
  <2>4. /\ DOMAIN queues' = DOMAIN queues
        /\ \A k \in DOMAIN queues : queues'[k] =
              IF queues[k].id = wq[v] THEN [Reduced(q)[k] EXCEPT !.load = @ + 1]
              ELSE Reduced(q)[k]
    BY <1>2 DEF v
  <2> HIDE DEF q
  <2>5. \A k \in DOMAIN queues :
           /\ queues'[k].id = queues[k].id
           /\ queues'[k].load =
                (IF queues[k].id = q THEN queues[k].load - 1 ELSE queues[k].load)
                + (IF queues[k].id = wq[v] THEN 1 ELSE 0)
    <3> SUFFICES ASSUME NEW k \in DOMAIN queues
                 PROVE  /\ queues'[k].id = queues[k].id
                        /\ queues'[k].load =
                             (IF queues[k].id = q THEN queues[k].load - 1
                              ELSE queues[k].load)
                             + (IF queues[k].id = wq[v] THEN 1 ELSE 0)
      OBVIOUS
    <3> DEFINE r == Reduced(q)[k]
    <3>1. r \in Queue /\ r.id = queues[k].id /\ queues[k].load \in Int
          /\ r.load = IF queues[k].id = q THEN queues[k].load - 1
                      ELSE queues[k].load
      BY <2>2
    <3>2. queues'[k] = IF queues[k].id = wq[v] THEN [r EXCEPT !.load = @ + 1] ELSE r
      BY <2>4
    <3> HIDE DEF r
    <3>3. r.load \in Int
      BY <3>1 DEF Queue
    <3>4. CASE queues[k].id = wq[v]
      <4>1. queues'[k] = [r EXCEPT !.load = @ + 1]
        BY <3>2, <3>4
      <4>2. queues'[k].id = r.id /\ queues'[k].load = r.load + 1
        BY <2>3, <3>1, <4>1
      <4> QED  BY <3>1, <3>4, <4>2
    <3>5. CASE queues[k].id # wq[v]
      <4>1. queues'[k] = r
        BY <3>2, <3>5
      <4>2. r.load + 0 = r.load
        BY <3>3
      <4> QED  BY <3>1, <3>5, <4>1, <4>2
    <3> QED  BY <3>4, <3>5
  <2>6. wq[v] < freeid
    <3>1. Takeable(Reduced(q), v)
      BY <1>2 DEF IsNext, v
    <3>2. PICK k \in DOMAIN queues : Reduced(q)[k].id = wq[v]
      BY <2>2, <3>1 DEF Takeable
    <3>3. queues[k].id = wq[v]
      BY <2>2, <3>2
    <3> QED  BY <1>1, <3>3 DEF LoadInv, QueueInv
  <2>7. q = wq[w]
    BY DEF q
  <2> QED  BY <1>1, <1>3, <1>5, <2>1, <2>4, <2>5, <2>6, <2>7, LoadSwap
<1>10. \A y \in Workers : TaskOf(y)'
  <2> SUFFICES ASSUME NEW y \in Workers PROVE TaskOf(y)'
    OBVIOUS
  <2>1. TaskOf(y) /\ task[y] \in Works \cup {None} /\ y \in Threads
    BY <1>1 DEF HandInv, TaskInv, TypeInv, TypeOK, Threads
  <2>2. CASE y = x
    <3>1. task'[y] = v /\ wst'[v] = "task" /\ to'[v] = y /\ pc'[y] = p
      BY <1>5, <1>6, <2>1, <2>2
    <3> QED  BY <3>1 DEF TaskOf
  <2>3. CASE y # x
    <3>1. task'[y] = task[y] /\ pc'[y] = pc[y]
      BY <1>6, <2>1, <2>3
    <3>2. task[y] # None => task[y] # w /\ task[y] # v /\ task[y] \in Works
      BY <1>5, <1>7, <2>1, <2>3 DEF TaskOf
    <3>3. task[y] # None => wst'[task[y]] = wst[task[y]] /\ to'[task[y]] = to[task[y]]
      BY <1>6, <3>2
    <3> QED  BY <2>1, <3>1, <3>3 DEF TaskOf
  <2> QED  BY <2>2, <2>3
<1>11. FreeInv'
  <2>1. \A k \in DOMAIN freethreads : freethreads[k] \in Workers /\ freethreads[k] # x
    BY <1>1, <1>5, LenProperties, ElementOfSeq
    DEF HandInv, FreeInv, TypeInv, TypeOK, w
  <2> QED  BY <1>1, <1>3, <1>6, <2>1 DEF HandInv, FreeInv
<1>12. \A t \in Threads : pc'[t] = "assign" =>
          /\ pc[t] = "assign" /\ Assigning(t) /\ cur[t] \in Works
          /\ cur[t] # w /\ cur[t] # v /\ to[cur[t]] # x
  <2> SUFFICES ASSUME NEW t \in Threads, pc'[t] = "assign"
               PROVE  /\ pc[t] = "assign" /\ Assigning(t) /\ cur[t] \in Works
                      /\ cur[t] # w /\ cur[t] # v /\ to[cur[t]] # x
    OBVIOUS
  <2>1. pc[t] = "assign"
    BY <1>6
  <2>2. Assigning(t) /\ cur[t] \in Works
    BY <1>1, <2>1 DEF HandInv, AssignInv, TypeInv, CurOK
  <2> QED  BY <1>5, <2>1, <2>2 DEF Assigning, w
<1>13. \A t \in Threads : pc'[t] = "assign" => Assigning(t)'
  <2> SUFFICES ASSUME NEW t \in Threads, pc'[t] = "assign" PROVE Assigning(t)'
    OBVIOUS
  <2>1. /\ Assigning(t) /\ cur[t] \in Works
        /\ cur[t] # w /\ cur[t] # v /\ to[cur[t]] # x
    BY <1>12
  <2>2. /\ wst'[cur[t]] = wst[cur[t]] /\ to'[cur[t]] = to[cur[t]]
        /\ task'[to[cur[t]]] = task[to[cur[t]]]
    BY <1>6, <2>1 DEF Assigning
  <2> QED  BY <1>3, <2>1, <2>2 DEF Assigning
<1>14. ApartInv'
  <2>1. ASSUME NEW t \in Threads, NEW u \in Threads,
               pc'[t] = "assign", pc'[u] = "assign", to'[cur'[t]] = to'[cur'[u]]
        PROVE  t = u
    <3>1. pc[t] = "assign" /\ pc[u] = "assign" /\ to[cur[t]] = to[cur[u]]
      BY <1>3, <1>6, <1>12, <2>1
    <3> QED  BY <1>1, <3>1 DEF HandInv, ApartInv
  <2> QED  BY <2>1 DEF ApartInv
<1>15. \A u \in Works : wst'[u] = "assigned" => Known(u)'
  <2> SUFFICES ASSUME NEW u \in Works, wst'[u] = "assigned" PROVE Known(u)'
    OBVIOUS
  <2>1. Known(u) /\ u # w /\ u # v
    BY <1>1, <1>6 DEF HandInv, KnownInv
  <2>2. \A t \in Threads : pc[t] = "assign" => pc'[t] = "assign"
    BY <1>3, <1>6
  <2>3. task[to[u]] = u => task'[to[u]] = u
    <3>1. to[u] = x => task[to[u]] = w
      BY DEF w
    <3> QED  BY <1>6, <2>1, <3>1 DEF Known
  <2>4. to'[u] = to[u]
    BY <1>6, <2>1
  <2> QED  BY <1>3, <2>1, <2>2, <2>3, <2>4 DEF Known
<1>16. NoClash'
  BY <1>1, <1>3 DEF HandInv, NoClash, ReduceAlarm
<1> QED
  BY <1>8, <1>9, <1>10, <1>11, <1>13, <1>14, <1>15, <1>16
  DEF HandInv, TaskInv, AssignInv, KnownInv

LEMMA IdleExitInv ==
    ASSUME IInv, NEW x \in Workers, GoIdle(x) \/ Exit(x)
    PROVE  KeptInv' /\ HandInv' /\ LoadInv'
<1>1. TypeInv /\ KeptInv /\ HandInv /\ LoadInv
  BY DEF IInv
<1>2. UNCHANGED <<queues, freeid, workload, freethreads, task, wst, wq, to,
                  batch, exec, cur, alarms>>
  BY DEF GoIdle, Exit, poolVars, workerVars, workVars
<1>3. /\ x \in Threads
      /\ \A t \in Threads : t # x => pc'[t] = pc[t]
      /\ \/ pc[x] = "idle" /\ pc'[x] = "wait"
         \/ pc[x] = "wait" /\ pc'[x] = "exited"
  BY <1>1 DEF GoIdle, Exit, TypeInv, TypeOK, Threads
<1>4. PendingInv'
  BY <1>1, <1>2, PendingFrame
<1>5. KeptInv'
  <2>1. \A u \in Threads : pc'[u] \in {"exec", "execwait"} =>
           cur'[u] \in Works /\ Leader(cur'[u])
    BY <1>1, <1>2, <1>3 DEF KeptInv, LeaderInv, Leader
  <2> QED  BY <1>1, <1>2, <1>4, <2>1, KeptFrame
<1>6. HandInv'
  <2>1. \A t \in Threads : pc'[t] = "assign" <=> pc[t] = "assign"
    BY <1>3
  <2>2. \A y \in Workers : pc'[y] \in {"wait", "report", "idle"} =>
           pc'[y] = pc[y] \/ (pc[y] = "idle" /\ pc'[y] = "wait")
    BY <1>3 DEF Threads
  <2> QED  BY <1>1, <1>2, <2>1, <2>2, HandFrame
<1>7. LoadInv'
  BY <1>1, <1>2, LoadFrame
<1> QED  BY <1>5, <1>6, <1>7

-----------------------------------------------------------------------------
(***************************************************************************)
(* executeWork                                                             *)
(***************************************************************************)

\* The works that a call holds become fewer: the first one goes, or all.
LEMMA TodoFrame ==
    ASSUME TypeInv, KeptInv, NEW b \in Works, NEW s,
           batch' = batch,
           \A c \in Works : exec'[c].todo = IF c = b THEN s ELSE exec[c].todo,
           s = <<>> \/ (exec[b].todo # <<>> /\ s = Tail(exec[b].todo)),
           \A w \in Works : wst[w] = "held" =>
              \/ wst'[w] = "held"
              \/ s # <<>> /\ w = Head(exec[b].todo)
              \/ s = <<>> /\ batch[w] = b
              \/ batch[w] = None
    PROVE  TodoInv'
<1> SUFFICES ASSUME NEW c \in Works
    PROVE  /\ \A i \in DOMAIN exec'[c].todo :
                 /\ wst'[exec'[c].todo[i]] = "held"
                 /\ batch[exec'[c].todo[i]] = c
           /\ \A i, j \in DOMAIN exec'[c].todo :
                 exec'[c].todo[i] = exec'[c].todo[j] => i = j
  BY DEF TodoInv
<1>1. /\ \A d \in Works : \A i \in DOMAIN exec[d].todo :
            /\ exec[d].todo[i] \in Works
            /\ wst[exec[d].todo[i]] = "held" /\ batch[exec[d].todo[i]] = d
      /\ \A d \in Works : \A i, j \in DOMAIN exec[d].todo :
            exec[d].todo[i] = exec[d].todo[j] => i = j
      /\ b # None /\ c # None
  BY TodoElement, ConstantAssumption DEF KeptInv, TodoInv, TypeInv
<1>2. CASE s = <<>> /\ c = b
  <2>1. exec'[c].todo = <<>>
    BY <1>2
  <2> QED  BY <2>1
<1>3. CASE exec[b].todo # <<>> /\ s = Tail(exec[b].todo) /\ c = b /\ s # <<>>
  <2> DEFINE r == exec[b].todo
  <2>1. r \in Seq(Works) /\ r # <<>>
    BY <1>3, TodoElement DEF TypeInv
  <2>2. /\ Head(r) = r[1]
        /\ Len(r) \in Nat /\ Len(r) >= 1 /\ DOMAIN r = 1..Len(r)
        /\ Len(Tail(r)) = Len(r) - 1
        /\ DOMAIN Tail(r) = 1..Len(r)-1
        /\ \A i \in 1..Len(r)-1 : Tail(r)[i] = r[i+1]
    BY <2>1, HeadTailProperties, LenProperties, EmptySeq
  <2>3. \A i \in 1..Len(r)-1 : i+1 \in DOMAIN r /\ i+1 # 1 /\ 1 \in DOMAIN r
    BY <2>2
  <2>4. \A i \in DOMAIN r : i # 1 => r[i] # r[1]
    BY <1>1, <2>2
  <2>5. exec'[c].todo = Tail(r)
    BY <1>3
  <2>6. \A i \in DOMAIN r : r[i] \in Works /\ wst[r[i]] = "held" /\ batch[r[i]] = b
    BY <1>1
  <2>7. \A i, j \in DOMAIN r : r[i] = r[j] => i = j
    BY <1>1
  <2>8. \A i \in DOMAIN r : i # 1 => wst'[r[i]] = "held"
    BY <1>1, <1>3, <2>2, <2>4, <2>6
  <2> HIDE DEF r
  <2>9. \A i \in 1..Len(r)-1 : wst'[Tail(r)[i]] = "held" /\ batch[Tail(r)[i]] = b
    BY <2>2, <2>3, <2>6, <2>8
  <2>10. \A i, j \in 1..Len(r)-1 : Tail(r)[i] = Tail(r)[j] => i+1 = j+1
    BY <2>2, <2>3, <2>7
  <2>11. \A i, j \in 1..Len(r)-1 : i+1 = j+1 => i = j
    BY <2>2
  <2>12. \A i, j \in 1..Len(r)-1 : Tail(r)[i] = Tail(r)[j] => i = j
    BY <2>10, <2>11
  <2>13. DOMAIN exec'[c].todo = 1..Len(r)-1
    BY <2>2, <2>5
  <2>14. c = b
    BY <1>3
  <2>15. \A i \in DOMAIN exec'[c].todo :
            /\ wst'[exec'[c].todo[i]] = "held"
            /\ batch[exec'[c].todo[i]] = c
    BY <2>5, <2>9, <2>13, <2>14
  <2>16. \A i, j \in DOMAIN exec'[c].todo :
            exec'[c].todo[i] = exec'[c].todo[j] => i = j
    BY <2>5, <2>12, <2>13
  <2> QED  BY <2>15, <2>16
<1>4. CASE c # b
  <2>1. exec'[c].todo = exec[c].todo
    BY <1>4
  <2>2. exec[b].todo # <<>> => Head(exec[b].todo) \in Works
                               /\ batch[Head(exec[b].todo)] = b
    <3> SUFFICES ASSUME exec[b].todo # <<>>
                 PROVE  /\ Head(exec[b].todo) \in Works
                        /\ batch[Head(exec[b].todo)] = b
      OBVIOUS
    <3>1. 1 \in DOMAIN exec[b].todo /\ Head(exec[b].todo) = exec[b].todo[1]
      BY TodoElement, LenProperties, EmptySeq, HeadTailProperties DEF TypeInv
    <3> QED  BY <1>1, <3>1
  <2>3. \A i \in DOMAIN exec[c].todo : wst'[exec[c].todo[i]] = "held"
    <3> SUFFICES ASSUME NEW i \in DOMAIN exec[c].todo
                 PROVE  wst'[exec[c].todo[i]] = "held"
      OBVIOUS
    <3> DEFINE w == exec[c].todo[i]
    <3>1. w \in Works /\ wst[w] = "held" /\ batch[w] = c
      BY <1>1
    <3> HIDE DEF w
    <3>2. ~(s = <<>> /\ batch[w] = b) /\ batch[w] # None
      BY <1>1, <1>4, <3>1
    <3>3. ~(s # <<>> /\ w = Head(exec[b].todo))
      BY <1>4, <2>2, <3>1
    <3>4. wst'[w] = "held"
      BY <3>1, <3>2, <3>3
    <3> QED  BY <3>4 DEF w
  <2> QED  BY <1>1, <2>1, <2>3
<1> QED  BY <1>2, <1>3, <1>4

LEMMA ExecuteWorkInv ==
    ASSUME IInv, NEW t \in Threads, NEW s \in Batches, NEW q \in Nat,
           NEW firstinline \in BOOLEAN, ExecuteWork(t, s, q, firstinline)
    PROVE  KeptInv' /\ HandInv' /\ LoadInv'
<1> DEFINE b == Head(s)
           r == Tail(s)
<1>1. TypeInv /\ KeptInv /\ HandInv /\ LoadInv
  BY DEF IInv
<1>2. /\ pc[t] = "run"
      /\ \A i \in DOMAIN s : wst[s[i]] = "new"
      /\ exec' = [exec EXCEPT ![b] =
                   [todo |-> r, nrtasks |-> Len(s) - 1, nrfinished |-> 0,
                    error |-> FALSE, firstinline |-> firstinline]]
      /\ batch' = [w \in Works |-> IF w \in ToSet(r) THEN b ELSE batch[w]]
      /\ wq' = [w \in Works |-> IF w \in ToSet(s) THEN q ELSE wq[w]]
      /\ wst' = [w \in Works |-> IF w = b /\ Serial THEN "serial"
                                 ELSE IF w \in ToSet(s) THEN "held" ELSE wst[w]]
      /\ pc' = [pc EXCEPT ![t] = IF Serial THEN "run" ELSE "exec"]
      /\ cur' = [cur EXCEPT ![t] = IF Serial THEN None ELSE b]
      /\ UNCHANGED <<queues, freeid, workload, freethreads, task, to, alarms>>
  BY DEF ExecuteWork, poolVars, workerVars
<1>3. /\ s \in Seq(Works) /\ s # <<>> /\ DOMAIN s = 1..Len(s)
      /\ \A i, j \in DOMAIN s : s[i] = s[j] => i = j
      /\ Len(s) \in Nat /\ Len(s) >= 1
      /\ \A i \in DOMAIN s : s[i] \in Works
      /\ b = s[1] /\ 1 \in DOMAIN s
  <2>1. /\ s \in Seq(Works) /\ s # <<>> /\ DOMAIN s = 1..Len(s)
        /\ \A i, j \in DOMAIN s : s[i] = s[j] => i = j
    BY BatchesProperties
  <2>2. Len(s) \in Nat /\ Len(s) >= 1 /\ \A i \in DOMAIN s : s[i] \in Works
    BY <2>1, LenProperties, EmptySeq, ElementOfSeq
  <2> QED  BY <2>1, <2>2, HeadTailProperties
<1>4. /\ DOMAIN r = 1..Len(s)-1
      /\ \A i \in 1..Len(s)-1 : r[i] = s[i+1]
  BY <1>3, HeadTailProperties, LenProperties
<1> HIDE DEF b, r
<1>5. \A i \in 1..Len(s)-1 : i+1 \in DOMAIN s /\ i+1 # 1
  BY <1>3
<1>6. /\ \A w : w \in ToSet(s) => w \in Works /\ wst[w] = "new"
      /\ \A w : w \in ToSet(s) <=> (w = b \/ w \in ToSet(r))
      /\ b \notin ToSet(r)
      /\ b \in ToSet(s)
  <2>1. \A w : w \in ToSet(s) => w \in Works /\ wst[w] = "new"
    BY <1>2, <1>3 DEF ToSet
  <2>2. \A w : w \in ToSet(r) <=> \E i \in 1..Len(s)-1 : w = s[i+1]
    BY <1>4 DEF ToSet
  <2>3. \A w : w \in ToSet(s) <=> \E i \in 1..Len(s) : w = s[i]
    BY <1>3 DEF ToSet
  <2>4. \A i \in 1..Len(s) : i = 1 \/ (i-1 \in 1..Len(s)-1 /\ (i-1)+1 = i)
    BY <1>3
  <2>5. b \notin ToSet(r)
    BY <1>3, <1>5, <2>2
  <2>6. \A w : w \in ToSet(s) => (w = b \/ w \in ToSet(r))
    <3> SUFFICES ASSUME NEW i \in 1..Len(s), i # 1
                 PROVE  s[i] \in ToSet(r)
      BY <1>3, <2>3
    <3>1. i-1 \in 1..Len(s)-1 /\ (i-1)+1 = i
      BY <2>4
    <3> QED  BY <2>2, <3>1
  <2>7. \A w : (w = b \/ w \in ToSet(r)) => w \in ToSet(s)
    BY <1>3, <1>5, <2>2, <2>3
  <2> QED  BY <2>1, <2>5, <2>6, <2>7
<1>7. /\ \A w \in Works : w \notin ToSet(s) =>
            wst'[w] = wst[w] /\ batch'[w] = batch[w] /\ wq'[w] = wq[w]
      /\ \A w \in Works : w \in ToSet(s) => wst'[w] \in {"serial", "held"}
      /\ \A w \in Works : w \in ToSet(r) => wst'[w] = "held" /\ batch'[w] = b
      /\ b \in Works /\ b # None /\ batch'[b] = batch[b] /\ batch[b] = None
      /\ \A c \in Works : exec'[c].todo = IF c = b THEN r ELSE exec[c].todo
      /\ \A u \in Threads : u # t => pc'[u] = pc[u] /\ cur'[u] = cur[u]
      /\ pc'[t] \in {"run", "exec"}
      /\ pc'[t] = "exec" => cur'[t] = b
  <2>1. /\ \A w \in Works : w \notin ToSet(s) =>
              wst'[w] = wst[w] /\ batch'[w] = batch[w] /\ wq'[w] = wq[w]
        /\ \A w \in Works : w \in ToSet(s) => wst'[w] \in {"serial", "held"}
        /\ \A w \in Works : w \in ToSet(r) => wst'[w] = "held" /\ batch'[w] = b
    BY <1>2, <1>6
  <2>2. b \in Works /\ b # None
    BY <1>6, ConstantAssumption
  <2>3. batch'[b] = batch[b] /\ batch[b] = None
    BY <1>1, <1>2, <1>6, <2>2 DEF KeptInv, LeaderInv
  <2>4. \A c \in Works : exec'[c].todo = IF c = b THEN r ELSE exec[c].todo
    BY <1>1, <1>2, <2>2 DEF TypeInv, TypeOK
  <2>5. /\ \A u \in Threads : u # t => pc'[u] = pc[u] /\ cur'[u] = cur[u]
        /\ pc'[t] \in {"run", "exec"}
    BY <1>1, <1>2 DEF TypeInv, TypeOK
  <2>6. pc'[t] = "exec" => cur'[t] = b
    BY <1>1, <1>2 DEF TypeInv, TypeOK
  <2> QED  BY <2>1, <2>2, <2>3, <2>4, <2>5, <2>6
<1>8. PendingInv'
  <2>1. \A w \in Works : wst[w] = "pending" => wst'[w] = "pending"
    BY <1>6, <1>7
  <2> QED  BY <1>1, <1>2, <2>1, PendingFrame
<1>9. TodoInv'
  <2> SUFFICES ASSUME NEW c \in Works
      PROVE  /\ \A i \in DOMAIN exec'[c].todo :
                   /\ wst'[exec'[c].todo[i]] = "held"
                   /\ batch'[exec'[c].todo[i]] = c
             /\ \A i, j \in DOMAIN exec'[c].todo :
                   exec'[c].todo[i] = exec'[c].todo[j] => i = j
    BY DEF TodoInv
  <2>1. CASE c = b
    <3>1. exec'[c].todo = r
      BY <1>7, <2>1
    <3>2. \A i \in DOMAIN r : r[i] \in ToSet(r) /\ r[i] \in Works
      BY <1>6 DEF ToSet
    <3>3. \A i \in DOMAIN r : wst'[r[i]] = "held" /\ batch'[r[i]] = c
      BY <1>7, <2>1, <3>2
    <3>4. \A i, j \in 1..Len(s)-1 : r[i] = r[j] => i+1 = j+1
      BY <1>3, <1>4, <1>5
    <3>5. \A i, j \in 1..Len(s)-1 : i+1 = j+1 => i = j
      BY <1>3
    <3>6. \A i, j \in DOMAIN r : r[i] = r[j] => i = j
      BY <1>4, <3>4, <3>5
    <3> QED  BY <3>1, <3>3, <3>6
  <2>2. CASE c # b
    <3>1. exec'[c].todo = exec[c].todo
      BY <1>7, <2>2
    <3>2. /\ \A i \in DOMAIN exec[c].todo :
               /\ exec[c].todo[i] \in Works
               /\ wst[exec[c].todo[i]] = "held" /\ batch[exec[c].todo[i]] = c
          /\ \A i, j \in DOMAIN exec[c].todo :
                exec[c].todo[i] = exec[c].todo[j] => i = j
      BY <1>1, TodoElement DEF KeptInv, TodoInv, TypeInv
    <3>3. \A i \in DOMAIN exec[c].todo : exec[c].todo[i] \notin ToSet(s)
      BY <1>6, <3>2
    <3> QED  BY <1>7, <3>1, <3>2, <3>3
  <2> QED  BY <2>1, <2>2
<1>10. LeaderInv'
  <2>1. \A c \in Works : Leader(c) => c \notin ToSet(s) /\ Leader(c)'
    BY <1>6, <1>7 DEF Leader, LeaderStates
  <2>2. Leader(b)'
    BY <1>6, <1>7 DEF Leader, LeaderStates
  <2>3. \A w \in Works : wst'[w] \in {"new", "first"} => batch'[w] = None
    BY <1>1, <1>7 DEF KeptInv, LeaderInv
  <2>4. (\A w \in Works : batch[w] # None => Leader(batch[w]))'
    <3> SUFFICES ASSUME NEW w \in Works, batch'[w] # None
                 PROVE  (Leader(batch[w]))'
      OBVIOUS
    <3>1. CASE w \in ToSet(r)
      <4>1. batch'[w] = b
        BY <1>7, <3>1
      <4> QED  BY <2>2, <4>1 DEF Leader
    <3>2. CASE w \notin ToSet(r)
      <4>1. batch'[w] = batch[w]
        BY <1>6, <1>7, <3>2
      <4>2. batch[w] \in Works /\ Leader(batch[w])
        BY <1>1, <4>1 DEF KeptInv, LeaderInv, Leader
      <4> QED  BY <2>1, <4>1, <4>2 DEF Leader
    <3> QED  BY <3>1, <3>2
  <2>5. (\A u \in Threads : pc[u] \in {"exec", "execwait"} => Leader(cur[u]))'
    <3> SUFFICES ASSUME NEW u \in Threads, pc'[u] \in {"exec", "execwait"}
                 PROVE  (Leader(cur[u]))'
      OBVIOUS
    <3>1. CASE u = t
      <4>1. cur'[u] = b
        BY <1>7, <3>1
      <4> QED  BY <2>2, <4>1 DEF Leader
    <3>2. CASE u # t
      <4>1. cur'[u] = cur[u] /\ cur[u] \in Works /\ Leader(cur[u])
        BY <1>1, <1>7, <3>2 DEF KeptInv, LeaderInv, Leader
      <4> QED  BY <2>1, <4>1 DEF Leader
    <3> QED  BY <3>1, <3>2
  <2> QED  BY <2>3, <2>4, <2>5 DEF LeaderInv
<1>11. HandInv'
  <2>1. \A w \in Works : \/ wst'[w] = wst[w]
                         \/ /\ wst[w] \notin {"assigned", "task", "reporting"}
                            /\ wst'[w] # "assigned"
    BY <1>6, <1>7
  <2>2. /\ \A u \in Threads : pc'[u] = "assign" <=> pc[u] = "assign"
        /\ \A u \in Threads : pc[u] = "assign" => cur'[u] = cur[u]
    BY <1>2, <1>7
  <2>3. \A x \in Workers : pc'[x] \in {"wait", "report", "idle"} =>
           pc'[x] = pc[x] \/ (pc[x] = "idle" /\ pc'[x] = "wait")
    BY <1>7 DEF Threads
  <2> QED  BY <1>1, <1>2, <2>1, <2>2, <2>3, HandFrame
<1>12. LoadInv'
  <2>1. \A w \in Works : wst'[w] \in Busy <=> wst[w] \in Busy
    BY <1>6, <1>7 DEF Busy
  <2>2. \A w \in Works : wst[w] \in Busy => wq'[w] = wq[w]
    BY <1>6, <1>7 DEF Busy
  <2> QED  BY <1>1, <1>2, <2>1, <2>2, LoadFrame
<1> QED  BY <1>8, <1>9, <1>10, <1>11, <1>12 DEF KeptInv

LEMMA ExecuteWorkFirstInv ==
    ASSUME IInv, NEW t \in Threads, ExecuteWorkFirst(t)
    PROVE  KeptInv' /\ HandInv' /\ LoadInv'
<1> DEFINE b == cur[t]
<1>1. TypeInv /\ KeptInv /\ HandInv /\ LoadInv
  BY DEF IInv
<1>2. /\ pc[t] = "exec" /\ exec[b].todo = <<>>
      /\ wst' = [wst EXCEPT ![b] = "first"]
      /\ pc' = [pc EXCEPT ![t] = "run"]
      /\ UNCHANGED <<queues, freeid, workload, freethreads, task, wq, to, batch,
                     exec, cur, alarms>>
  BY DEF ExecuteWorkFirst, poolVars, workerVars
<1>3. b \in Works /\ Leader(b)
  BY <1>1, <1>2 DEF KeptInv, LeaderInv, Leader
<1> HIDE DEF b
<1>4. /\ \A w \in Works : wst'[w] = IF w = b THEN "first" ELSE wst[w]
      /\ \A u \in Threads : pc'[u] = IF u = t THEN "run" ELSE pc[u]
  BY <1>1, <1>2 DEF TypeInv, TypeOK
<1>5. KeptInv'
  <2>1. PendingInv'
    <3>1. \A w \in Works : wst[w] = "pending" => wst'[w] = "pending"
      BY <1>3, <1>4 DEF Leader, LeaderStates
    <3> QED  BY <1>1, <1>2, <3>1, PendingFrame
  <2>2. \A w \in Works : \/ wst'[w] = wst[w]
                         \/ /\ wst'[w] # "new"
                            /\ wst'[w] = "first" => batch[w] = None
                            /\ wst[w] = "held" => batch[w] = None
                            /\ Leader(w) => wst'[w] \in LeaderStates
    BY <1>3, <1>4 DEF Leader, LeaderStates
  <2>3. \A u \in Threads : pc'[u] \in {"exec", "execwait"} =>
           cur'[u] \in Works /\ Leader(cur'[u])
    BY <1>1, <1>2, <1>4 DEF KeptInv, LeaderInv, Leader
  <2> QED  BY <1>1, <1>2, <2>1, <2>2, <2>3, KeptFrame
<1>6. HandInv'
  <2>1. \A w \in Works : \/ wst'[w] = wst[w]
                         \/ /\ wst[w] \notin {"assigned", "task", "reporting"}
                            /\ wst'[w] # "assigned"
    BY <1>3, <1>4 DEF Leader, LeaderStates
  <2>2. \A u \in Threads : pc'[u] = "assign" <=> pc[u] = "assign"
    BY <1>2, <1>4
  <2>3. \A x \in Workers : pc'[x] \in {"wait", "report", "idle"} =>
           pc'[x] = pc[x] \/ (pc[x] = "idle" /\ pc'[x] = "wait")
    BY <1>4 DEF Threads
  <2> QED  BY <1>1, <1>2, <2>1, <2>2, <2>3, HandFrame
<1>7. LoadInv'
  <2>1. \A w \in Works : wst'[w] \in Busy <=> wst[w] \in Busy
    BY <1>3, <1>4 DEF Leader, LeaderStates, Busy
  <2> QED  BY <1>1, <1>2, <2>1, LoadFrame
<1> QED  BY <1>5, <1>6, <1>7

LEMMA FirstDoneInv ==
    ASSUME IInv, NEW t \in Threads, FirstDone(t)
    PROVE  KeptInv' /\ HandInv' /\ LoadInv'
<1>1. TypeInv /\ KeptInv /\ HandInv /\ LoadInv
  BY DEF IInv
<1>2. PICK w \in Works :
        /\ Executing(t, w, "first")
        /\ wst' = [wst EXCEPT ![w] = "done"]
        /\ pc' = [pc EXCEPT ![t] = "execwait"]
        /\ cur' = [cur EXCEPT ![t] = w]
        /\ UNCHANGED <<queues, freeid, workload, freethreads, task, wq, to,
                       batch, exec, alarms>>
  BY DEF FirstDone, poolVars, workerVars
<1>3. /\ wst[w] = "first" /\ pc[t] = "run"
      /\ \A v \in Works : wst'[v] = IF v = w THEN "done" ELSE wst[v]
      /\ \A u \in Threads : pc'[u] = IF u = t THEN "execwait" ELSE pc[u]
      /\ \A u \in Threads : cur'[u] = IF u = t THEN w ELSE cur[u]
  BY <1>1, <1>2 DEF Executing, TypeInv, TypeOK
<1>4. Leader(w)
  BY <1>1, <1>3 DEF KeptInv, LeaderInv, Leader, LeaderStates
<1>5. KeptInv'
  <2>1. PendingInv'
    <3>1. \A v \in Works : wst[v] = "pending" => wst'[v] = "pending"
      BY <1>3
    <3> QED  BY <1>1, <1>2, <3>1, PendingFrame
  <2>2. \A v \in Works : \/ wst'[v] = wst[v]
                         \/ /\ wst'[v] # "new"
                            /\ wst'[v] = "first" => batch[v] = None
                            /\ wst[v] = "held" => batch[v] = None
                            /\ Leader(v) => wst'[v] \in LeaderStates
    BY <1>3 DEF LeaderStates
  <2>3. \A u \in Threads : pc'[u] \in {"exec", "execwait"} =>
           cur'[u] \in Works /\ Leader(cur'[u])
    BY <1>1, <1>3, <1>4 DEF KeptInv, LeaderInv, Leader
  <2> QED  BY <1>1, <1>2, <2>1, <2>2, <2>3, KeptFrame
<1>6. HandInv'
  <2>1. \A v \in Works : \/ wst'[v] = wst[v]
                         \/ /\ wst[v] \notin {"assigned", "task", "reporting"}
                            /\ wst'[v] # "assigned"
    BY <1>3
  <2>2. /\ \A u \in Threads : pc'[u] = "assign" <=> pc[u] = "assign"
        /\ \A u \in Threads : pc[u] = "assign" => cur'[u] = cur[u]
    BY <1>3
  <2>3. \A x \in Workers : pc'[x] \in {"wait", "report", "idle"} =>
           pc'[x] = pc[x] \/ (pc[x] = "idle" /\ pc'[x] = "wait")
    BY <1>3 DEF Threads
  <2> QED  BY <1>1, <1>2, <2>1, <2>2, <2>3, HandFrame
<1>7. LoadInv'
  <2>1. \A v \in Works : wst'[v] \in Busy <=> wst[v] \in Busy
    BY <1>3 DEF Busy
  <2> QED  BY <1>1, <1>2, <2>1, LoadFrame
<1> QED  BY <1>5, <1>6, <1>7

LEMMA ExecuteWorkReturnInv ==
    ASSUME IInv, NEW t \in Threads, ExecuteWorkReturn(t)
    PROVE  KeptInv' /\ HandInv' /\ LoadInv'
<1> DEFINE b == cur[t]
<1>1. TypeInv /\ KeptInv /\ HandInv /\ LoadInv
  BY DEF IInv
<1>2. /\ pc[t] = "execwait"
      /\ exec' = [exec EXCEPT ![b] = NoBatch]
      /\ pc' = [pc EXCEPT ![t] = "run"]
      /\ cur' = [cur EXCEPT ![t] = None]
      /\ UNCHANGED <<queues, freeid, workload, freethreads, task, wst, wq, to,
                     batch, alarms>>
  BY DEF ExecuteWorkReturn, poolVars, workerVars
<1>3. b \in Works
  BY <1>1, <1>2 DEF TypeInv, CurOK
<1> HIDE DEF b
<1>4. /\ \A c \in Works : exec'[c].todo = IF c = b THEN <<>> ELSE exec[c].todo
      /\ \A u \in Threads : pc'[u] = IF u = t THEN "run" ELSE pc[u]
      /\ \A u \in Threads : u # t => cur'[u] = cur[u]
  BY <1>1, <1>2, <1>3 DEF TypeInv, TypeOK, NoBatch
<1>5. KeptInv'
  <2>1. PendingInv'
    BY <1>1, <1>2, PendingFrame
  <2>2. TodoInv'
    BY <1>1, <1>2, <1>3, <1>4, TodoFrame
  <2>3. \A u \in Threads : pc'[u] \in {"exec", "execwait"} =>
           cur'[u] \in Works /\ Leader(cur'[u])
    BY <1>1, <1>4 DEF KeptInv, LeaderInv, Leader
  <2>4. LeaderInv'
    BY <1>1, <1>2, <2>3, LeaderFrame DEF KeptInv
  <2> QED  BY <2>1, <2>2, <2>4 DEF KeptInv
<1>6. HandInv'
  <2>1. /\ \A u \in Threads : pc'[u] = "assign" <=> pc[u] = "assign"
        /\ \A u \in Threads : pc[u] = "assign" => cur'[u] = cur[u]
    BY <1>2, <1>4
  <2>2. \A x \in Workers : pc'[x] \in {"wait", "report", "idle"} =>
           pc'[x] = pc[x] \/ (pc[x] = "idle" /\ pc'[x] = "wait")
    BY <1>4 DEF Threads
  <2> QED  BY <1>1, <1>2, <2>1, <2>2, HandFrame
<1>7. LoadInv'
  BY <1>1, <1>2, LoadFrame
<1> QED  BY <1>5, <1>6, <1>7

LEMMA SerialDoneInv ==
    ASSUME IInv, NEW t \in Threads, SerialDone(t)
    PROVE  KeptInv' /\ HandInv' /\ LoadInv'
<1>1. TypeInv /\ KeptInv /\ HandInv /\ LoadInv
  BY DEF IInv
<1>2. PICK w \in Works : \E good \in Outcomes(w) :
        LET b == IF batch[w] = None THEN w ELSE batch[w]
            more == good /\ exec[b].todo # <<>>
        IN  /\ Executing(t, w, "serial")
            /\ ok' = [ok EXCEPT ![w] = good]
            /\ exec' = [exec EXCEPT ![b].todo = IF more THEN Tail(@) ELSE <<>>,
                                    ![b].error = @ \/ ~good]
            /\ wst' = IF more
                      THEN [wst EXCEPT ![w] = "done",
                                       ![Head(exec[b].todo)] = "serial"]
                      ELSE [wst EXCEPT ![w] = "done"]
            /\ stack' = [stack EXCEPT ![t] = IF more
                            THEN Append(Front(@), Head(exec[b].todo))
                            ELSE Front(@)]
            /\ UNCHANGED <<poolVars, workerVars, wq, to, batch, pc, cur, op,
                           waiters, alarms>>
  BY Zenon DEF SerialDone
<1> DEFINE b == IF batch[w] = None THEN w ELSE batch[w]
           r == exec[b].todo
<1>3. PICK good \in Outcomes(w) :
        /\ Executing(t, w, "serial")
        /\ exec' = [exec EXCEPT ![b].todo = IF good /\ r # <<>> THEN Tail(@)
                                            ELSE <<>>,
                                ![b].error = @ \/ ~good]
        /\ wst' = IF good /\ r # <<>>
                  THEN [wst EXCEPT ![w] = "done", ![Head(r)] = "serial"]
                  ELSE [wst EXCEPT ![w] = "done"]
        /\ UNCHANGED <<poolVars, workerVars, wq, to, batch, pc, cur, alarms>>
  BY <1>2, Zenon
<1>4. UNCHANGED <<queues, freeid, workload, freethreads, task, wq, to, batch, pc,
                  cur, alarms>>
  BY <1>3 DEF poolVars, workerVars
<1> DEFINE more == good /\ r # <<>>
           s == IF more THEN Tail(r) ELSE <<>>
<1>5. b \in Works /\ wst[w] = "serial" /\ r \in Seq(Works)
  BY <1>1, <1>3, TodoElement DEF TypeInv, TypeOK, Executing
<1>6. \A c \in Works : exec'[c].todo = IF c = b THEN s ELSE exec[c].todo
  <2>1. exec' = [exec EXCEPT ![b].todo = s, ![b].error = @ \/ ~good]
    BY <1>3
  <2> HIDE DEF b, s
  <2> QED  BY <1>1, <1>5, <2>1 DEF TypeInv, TypeOK, Batch
<1>7. more => /\ Head(r) \in Works
              /\ wst[Head(r)] = "held" /\ batch[Head(r)] = b
  <2>1. r # <<>> => 1 \in DOMAIN r /\ Head(r) = r[1]
    BY <1>5, LenProperties, EmptySeq, HeadTailProperties
  <2>2. \A i \in DOMAIN r : /\ r[i] \in Works
                            /\ wst[r[i]] = "held" /\ batch[r[i]] = b
    BY <1>1, <1>5, TodoElement DEF KeptInv, TodoInv, TypeInv
  <2> QED  BY <2>1, <2>2
<1>8. \A v \in Works : wst'[v] = IF more /\ v = Head(r) THEN "serial"
                                 ELSE IF v = w THEN "done" ELSE wst[v]
  <2>1. wst' = IF more THEN [wst EXCEPT ![w] = "done", ![Head(r)] = "serial"]
               ELSE [wst EXCEPT ![w] = "done"]
    BY <1>3
  <2> HIDE DEF more, r
  <2>2. wst \in [Works -> WorkStates]
    BY <1>1 DEF TypeInv, TypeOK
  <2>3. CASE more
    BY <1>5, <1>7, <2>1, <2>2, <2>3
  <2>4. CASE ~more
    BY <2>1, <2>2, <2>4
  <2> QED  BY <2>3, <2>4
<1>9. s = <<>> \/ (exec[b].todo # <<>> /\ s = Tail(exec[b].todo))
  OBVIOUS
<1>10. \A v \in Works : wst[v] = "held" =>
          \/ wst'[v] = "held"
          \/ s # <<>> /\ v = Head(exec[b].todo)
          \/ s = <<>> /\ batch[v] = b
          \/ batch[v] = None
  <2> SUFFICES ASSUME NEW v \in Works, wst[v] = "held", wst'[v] # "held"
               PROVE  (s # <<>> /\ v = Head(exec[b].todo))
                      \/ (s = <<>> /\ batch[v] = b)
    OBVIOUS
  <2>1. more /\ v = Head(r)
    BY <1>5, <1>8
  <2>2. batch[v] = b
    BY <1>7, <2>1
  <2> QED  BY <2>1, <2>2
<1> HIDE DEF more, r, s, b
<1>11. KeptInv'
  <2>1. PendingInv'
    <3>1. \A v \in Works : wst[v] = "pending" => wst'[v] = "pending"
      BY <1>5, <1>7, <1>8
    <3> QED  BY <1>1, <1>4, <3>1, PendingFrame
  <2>2. TodoInv'
    BY <1>1, <1>4, <1>5, <1>6, <1>9, <1>10, TodoFrame
  <2>3. \A v \in Works : \/ wst'[v] = wst[v]
                         \/ /\ wst'[v] # "new"
                            /\ wst'[v] = "first" => batch[v] = None
                            /\ Leader(v) => wst'[v] \in LeaderStates
    BY <1>8 DEF LeaderStates
  <2>4. \A u \in Threads : pc'[u] \in {"exec", "execwait"} =>
           cur'[u] \in Works /\ Leader(cur'[u])
    BY <1>1, <1>4 DEF KeptInv, LeaderInv, Leader
  <2>5. LeaderInv'
    BY <1>1, <1>4, <2>3, <2>4, LeaderFrame DEF KeptInv
  <2> QED  BY <2>1, <2>2, <2>5 DEF KeptInv
<1>12. HandInv'
  <2>1. \A v \in Works : \/ wst'[v] = wst[v]
                         \/ /\ wst[v] \notin {"assigned", "task", "reporting"}
                            /\ wst'[v] # "assigned"
    BY <1>5, <1>7, <1>8
  <2> QED  BY <1>1, <1>4, <2>1, HandFrame
<1>13. LoadInv'
  <2>1. \A v \in Works : wst'[v] \in Busy <=> wst[v] \in Busy
    BY <1>5, <1>7, <1>8 DEF Busy
  <2> QED  BY <1>1, <1>4, <2>1, LoadFrame
<1> QED  BY <1>11, <1>12, <1>13

-----------------------------------------------------------------------------
(***************************************************************************)
(* The queues                                                              *)
(***************************************************************************)

\* Where a thread is that adds, empties or removes queues, or shuts down.
Closing == {"run", "empty", "remove", "rewait", "shutdown", "erase"}

\* A step of these calls that neither takes a work nor drops one.
LEMMA CloseFrame ==
    ASSUME TypeInv, KeptInv, HandInv,
           UNCHANGED <<workload, freethreads, task, wst, to, batch, exec, cur>>,
           "existing task" \in alarms' => "existing task" \in alarms,
           \A u \in Threads : \/ pc'[u] = pc[u]
                              \/ pc[u] \in Closing /\ pc'[u] \in Closing
    PROVE  KeptInv' /\ HandInv'
<1>1. KeptInv'
  <2>1. PendingInv'
    BY PendingFrame
  <2>2. \A u \in Threads : pc'[u] \in {"exec", "execwait"} =>
           cur'[u] \in Works /\ Leader(cur'[u])
    BY DEF KeptInv, LeaderInv, Leader, Closing
  <2> QED  BY <2>1, <2>2, KeptFrame
<1>2. HandInv'
  <2>1. \A u \in Threads : pc'[u] = "assign" <=> pc[u] = "assign"
    BY DEF Closing
  <2>2. \A x \in Workers : pc'[x] \in {"wait", "report", "idle"} =>
           pc'[x] = pc[x] \/ (pc[x] = "idle" /\ pc'[x] = "wait")
    BY DEF Closing, Threads
  <2> QED  BY <2>1, <2>2, HandFrame
<1> QED  BY <1>1, <1>2

\* One entry of the arrays is marked as closing.
LEMMA ClosingLoad ==
    ASSUME TypeInv, LoadInv, NEW k \in DOMAIN queues,
           queues' = [queues EXCEPT ![k].closing = TRUE],
           UNCHANGED <<freeid, wst, wq>>
    PROVE  LoadInv'
<1>1. \A i \in DOMAIN queues : queues[i] \in Queue
  BY LenProperties, ElementOfSeq DEF TypeInv, TypeOK
<1>2. \A e \in Queue : /\ [e EXCEPT !.closing = TRUE].id = e.id
                       /\ [e EXCEPT !.closing = TRUE].load = e.load
  BY DEF Queue
<1>3. /\ DOMAIN queues' = DOMAIN queues
      /\ \A i \in DOMAIN queues : queues'[i] =
            IF i = k THEN [queues[i] EXCEPT !.closing = TRUE] ELSE queues[i]
  OBVIOUS
<1>4. \A i \in DOMAIN queues : /\ queues'[i].id = queues[i].id
                               /\ queues'[i].load = queues[i].load
  BY <1>1, <1>2, <1>3
<1> QED  BY <1>3, <1>4, LoadFrame

LEMMA AddQueueInv ==
    ASSUME IInv, NEW t \in Threads, NEW type \in QueueTypes, AddQueue(t, type)
    PROVE  KeptInv' /\ HandInv' /\ LoadInv'
<1> DEFINE e == [id |-> freeid, type |-> type, load |-> 0, closing |-> FALSE]
           n == Len(queues)
<1>1. TypeInv /\ KeptInv /\ HandInv /\ LoadInv
  BY DEF IInv
<1>2. /\ queues' = Append(queues, e)
      /\ freeid' = freeid + 1
      /\ UNCHANGED <<workload, freethreads, task, wst, wq, to, batch, exec, pc,
                     cur, alarms>>
  BY DEF AddQueue, workerVars, workVars, threadVars
<1>3. KeptInv' /\ HandInv'
  BY <1>1, <1>2, CloseFrame
<1>4. /\ freeid \in Nat /\ wq \in [Works -> Nat]
      /\ queues \in Seq(Queue) /\ n \in Nat /\ DOMAIN queues = 1..n
      /\ \A i \in 1..n : queues[i].id \in Nat
      /\ e \in Queue /\ e.id = freeid /\ e.load = 0
  <2>1. /\ freeid \in Nat /\ wq \in [Works -> Nat]
        /\ queues \in Seq(Queue) /\ n \in Nat /\ DOMAIN queues = 1..n
    BY <1>1, LenProperties DEF TypeInv, TypeOK
  <2>2. \A i \in 1..n : queues[i].id \in Nat
    <3>1. \A i \in 1..n : queues[i] \in Queue
      BY <2>1, ElementOfSeq
    <3> QED  BY <3>1 DEF Queue
  <2>3. e \in Queue /\ e.id = freeid /\ e.load = 0
    BY <2>1, ConstantAssumption DEF Queue
  <2> QED  BY <2>1, <2>2, <2>3
<1> HIDE DEF e
<1>5. /\ DOMAIN queues' = 1..n+1
      /\ \A i \in 1..n : queues'[i] = queues[i]
      /\ queues'[n+1] = e
  <2>1. /\ Append(queues, e) \in Seq(Queue)
        /\ Len(Append(queues, e)) = n + 1
        /\ \A i \in 1..n : Append(queues, e)[i] = queues[i]
        /\ Append(queues, e)[n+1] = e
    BY <1>4, AppendProperties
  <2> QED  BY <1>2, <2>1, LenProperties
<1> HIDE DEF n
<1>6. /\ \A i \in 1..n+1 : i \in 1..n \/ i = n+1
      /\ n+1 \notin 1..n
  BY <1>4
<1>7. \A i \in 1..n : queues[i].id < freeid /\ queues[i].id # freeid
  BY <1>1, <1>4 DEF LoadInv, QueueInv
<1>8. QueueInv'
  <2>1. \A i \in 1..n+1 : queues'[i].id =
           IF i = n+1 THEN freeid ELSE queues[i].id
    BY <1>4, <1>5, <1>6
  <2>2. \A i, j \in 1..n+1 : queues'[i].id = queues'[j].id => i = j
    <3>1. \A i, j \in 1..n : queues[i].id = queues[j].id => i = j
      BY <1>1, <1>4 DEF LoadInv, QueueInv
    <3> QED  BY <1>6, <1>7, <2>1, <3>1
  <2>3. \A i \in 1..n+1 : queues'[i].id < freeid'
    <3>1. \A i \in 1..n : queues[i].id < freeid + 1
      BY <1>4, <1>7
    <3>2. freeid < freeid + 1
      BY <1>4
    <3> QED  BY <1>2, <1>6, <2>1, <3>1, <3>2
  <2>4. \A w \in Works : wst'[w] \in Busy => wq'[w] < freeid'
    <3>1. \A w \in Works : wst[w] \in Busy => wq[w] < freeid
      BY <1>1 DEF LoadInv, QueueInv
    <3>2. \A w \in Works : wq[w] < freeid => wq[w] < freeid + 1
      BY <1>4
    <3> QED  BY <1>2, <3>1, <3>2
  <2> QED  BY <1>5, <2>2, <2>3, <2>4 DEF QueueInv
<1>9. Cardinality(Working(freeid)) = 0
  <2>1. \A w \in Works : wst[w] \in Busy => wq[w] # freeid
    BY <1>1, <1>4 DEF LoadInv, QueueInv
  <2>2. Working(freeid) = {}
    BY <2>1 DEF Working
  <2> QED  BY <2>2, FS_EmptySet
<1>10. LoadCount'
  <2>1. \A i \in 1..n+1 : queues'[i].load = Cardinality(Working(queues'[i].id))
    <3>1. \A i \in 1..n : queues[i].load = Cardinality(Working(queues[i].id))
      BY <1>1, <1>4 DEF LoadInv, LoadCount
    <3>2. \A i \in 1..n : queues'[i].load = Cardinality(Working(queues'[i].id))
      BY <1>5, <3>1
    <3>3. queues'[n+1].load = Cardinality(Working(queues'[n+1].id))
      BY <1>4, <1>5, <1>9
    <3> QED  BY <1>6, <3>2, <3>3
  <2> QED  BY <1>2, <1>5, <2>1 DEF LoadCount, Working
<1> QED  BY <1>3, <1>8, <1>10 DEF LoadInv

LEMMA ExecuteQueueInv ==
    ASSUME IInv, NEW t \in Threads, NEW q, ExecuteQueue(t, q)
    PROVE  KeptInv' /\ HandInv' /\ LoadInv'
<1>1. TypeInv /\ KeptInv /\ HandInv /\ LoadInv
  BY DEF IInv
<1>2. PICK i \in DOMAIN workload :
        /\ IsFirstOf(q, i)
        /\ workload' = RemoveAt(workload, i)
        /\ wst' = [wst EXCEPT ![workload[i]] = "manual"]
  BY DEF ExecuteQueue
<1>3. /\ IndexOf(q) # 0
      /\ queues' = AddLoad(IndexOf(q), 1)
      /\ UNCHANGED <<freeid, freethreads, task, wq, to, batch, exec, pc, cur,
                     alarms>>
  BY DEF ExecuteQueue, workerVars
<1> DEFINE v == workload[i]
<1>4. v \in Works /\ wst[v] = "pending" /\ wq[v] = q
  BY <1>1, <1>2, WorkloadElement DEF TypeInv, KeptInv, PendingInv, IsFirstOf
<1> HIDE DEF v
<1>5. \A u \in Works : wst'[u] = IF u = v THEN "manual" ELSE wst[u]
  BY <1>1, <1>2 DEF v, TypeInv, TypeOK
<1>6. KeptInv'
  <2>1. PendingInv'
    BY <1>1, <1>2, <1>5, PendingRemoved DEF v
  <2>2. \A u \in Works : \/ wst'[u] = wst[u]
                         \/ /\ wst'[u] # "new"
                            /\ wst'[u] = "first" => batch[u] = None
                            /\ wst[u] = "held" => batch[u] = None
                            /\ Leader(u) => wst'[u] \in LeaderStates
    BY <1>4, <1>5 DEF Leader, LeaderStates
  <2>3. \A u \in Threads : pc'[u] \in {"exec", "execwait"} =>
           cur'[u] \in Works /\ Leader(cur'[u])
    BY <1>1, <1>3 DEF KeptInv, LeaderInv, Leader
  <2> QED  BY <1>1, <1>3, <2>1, <2>2, <2>3, KeptFrame
<1>7. HandInv'
  <2>1. \A u \in Works : \/ wst'[u] = wst[u]
                         \/ /\ wst[u] \notin {"assigned", "task", "reporting"}
                            /\ wst'[u] # "assigned"
    BY <1>4, <1>5
  <2> QED  BY <1>1, <1>3, <2>1, HandFrame
<1>8. LoadInv'
  <2>1. wst[v] \notin Busy /\ wst'[v] \in Busy
    BY <1>4, <1>5 DEF Busy
  <2>2. \A u \in Works \ {v} : wst'[u] \in Busy <=> wst[u] \in Busy
    BY <1>5
  <2>3. /\ IndexOf(wq'[v]) # 0 /\ queues' = AddLoad(IndexOf(wq'[v]), 1)
        /\ \A u \in Works \ {v} : wst[u] \in Busy => wq'[u] = wq[u]
    BY <1>3, <1>4
  <2> QED  BY <1>1, <1>3, <1>4, <2>1, <2>2, <2>3, LoadGain
<1> QED  BY <1>6, <1>7, <1>8

LEMMA ManualDoneInv ==
    ASSUME IInv, NEW t \in Threads, ManualDone(t)
    PROVE  KeptInv' /\ HandInv' /\ LoadInv'
<1>1. TypeInv /\ KeptInv /\ HandInv /\ LoadInv
  BY DEF IInv
<1>2. PICK w \in Works : \E good \in Outcomes(w) :
        LET q == wq[w]
            more == IndexOf(q) # 0 /\ HasPending(q)
        IN  /\ Executing(t, w, "manual")
            /\ ImFinished(w, good)
            /\ waiters' = IF IndexOf(q) # 0 /\ Wakes(q) THEN {} ELSE waiters
            /\ IF more
               THEN \E i \in DOMAIN workload :
                      /\ IsFirstOf(q, i)
                      /\ queues' = queues
                      /\ workload' = RemoveAt(workload, i)
                      /\ wst' = [wst EXCEPT ![w] = "done",
                                            ![workload[i]] = "manual"]
                      /\ stack' = [stack EXCEPT ![t] =
                                     Append(Front(@), workload[i])]
               ELSE /\ queues' = Reduced(q)
                    /\ workload' = workload
                    /\ wst' = [wst EXCEPT ![w] = "done"]
                    /\ Pop(t)
            /\ UNCHANGED <<freeid, freethreads, erased, workerVars, wq, to,
                           batch, pc, cur, op, alarms>>
  BY Zenon DEF ManualDone
<1>3. PICK good \in BOOLEAN :
        /\ Executing(t, w, "manual")
        /\ ImFinished(w, good)
        /\ \/ \E i \in DOMAIN workload :
                /\ wq[workload[i]] = wq[w]
                /\ queues' = queues
                /\ workload' = RemoveAt(workload, i)
                /\ wst' = [wst EXCEPT ![w] = "done", ![workload[i]] = "manual"]
           \/ /\ queues' = Reduced(wq[w])
              /\ workload' = workload
              /\ wst' = [wst EXCEPT ![w] = "done"]
        /\ UNCHANGED <<freeid, freethreads, task, wq, to, batch, pc, cur, alarms>>
  BY <1>2, OutcomesType DEF IsFirstOf, workerVars
<1>4. /\ wst[w] = "manual"
      /\ \A b \in Works : exec'[b].todo = exec[b].todo
      /\ wst \in [Works -> WorkStates]
  BY <1>1, <1>3, ImFinishedTodo DEF Executing, TypeInv, TypeOK
<1>5. ASSUME \A v \in Works : \/ wst'[v] = wst[v]
                              \/ v = w /\ wst'[v] = "done"
                              \/ wst[v] = "pending" /\ wst'[v] = "manual",
             PendingInv'
      PROVE  KeptInv' /\ HandInv'
  <2>1. \A v \in Works : \/ wst'[v] = wst[v]
                         \/ /\ wst'[v] # "new"
                            /\ wst'[v] = "first" => batch[v] = None
                            /\ wst[v] = "held" => batch[v] = None
                            /\ Leader(v) => wst'[v] \in LeaderStates
    BY <1>4, <1>5 DEF Leader, LeaderStates
  <2>2. \A u \in Threads : pc'[u] \in {"exec", "execwait"} =>
           cur'[u] \in Works /\ Leader(cur'[u])
    BY <1>1, <1>3 DEF KeptInv, LeaderInv, Leader
  <2>3. KeptInv'
    BY <1>1, <1>3, <1>4, <1>5, <2>1, <2>2, KeptFrame
  <2>4. \A v \in Works : \/ wst'[v] = wst[v]
                         \/ /\ wst[v] \notin {"assigned", "task", "reporting"}
                            /\ wst'[v] # "assigned"
    BY <1>4, <1>5
  <2>5. HandInv'
    BY <1>1, <1>3, <2>4, HandFrame
  <2> QED  BY <2>3, <2>5
<1>6. CASE \E i \in DOMAIN workload :
              /\ wq[workload[i]] = wq[w]
              /\ queues' = queues
              /\ workload' = RemoveAt(workload, i)
              /\ wst' = [wst EXCEPT ![w] = "done", ![workload[i]] = "manual"]
  <2>1. PICK i \in DOMAIN workload :
              /\ wq[workload[i]] = wq[w]
              /\ queues' = queues
              /\ workload' = RemoveAt(workload, i)
              /\ wst' = [wst EXCEPT ![w] = "done", ![workload[i]] = "manual"]
    BY <1>6
  <2> DEFINE u == workload[i]
  <2>2. u \in Works /\ wst[u] = "pending" /\ wq[u] = wq[w] /\ u # w
    BY <1>1, <1>4, <2>1, WorkloadElement DEF TypeInv, KeptInv, PendingInv
  <2> HIDE DEF u
  <2>3. \A v \in Works : wst'[v] = IF v = u THEN "manual"
                                   ELSE IF v = w THEN "done" ELSE wst[v]
    BY <1>4, <2>1, <2>2 DEF u
  <2>4. PendingInv'
    <3>1. \A v \in Works : wst[v] = "pending" /\ v # workload[i] => wst'[v] = "pending"
      BY <1>4, <2>3 DEF u
    <3> QED  BY <1>1, <2>1, <3>1, PendingRemoved
  <2>5. KeptInv' /\ HandInv'
    BY <1>5, <2>2, <2>3, <2>4
  <2>6. LoadInv'
    <3>1. /\ wst[w] \in Busy /\ wst'[w] \notin Busy
          /\ wst[u] \notin Busy /\ wst'[u] \in Busy
          /\ \A v \in Works \ {w, u} : wst'[v] \in Busy <=> wst[v] \in Busy
      BY <1>4, <2>2, <2>3 DEF Busy
    <3>2. \A k \in DOMAIN queues : queues[k].load \in Int
      <4>1. \A k \in DOMAIN queues : queues[k] \in Queue
        BY <1>1, LenProperties, ElementOfSeq DEF TypeInv, TypeOK
      <4> QED  BY <4>1 DEF Queue
    <3>3. \A k \in DOMAIN queues :
             queues[k].load = (IF queues[k].id = wq[w] THEN queues[k].load - 1
                               ELSE queues[k].load)
                              + (IF queues[k].id = wq[u] THEN 1 ELSE 0)
      <4> SUFFICES ASSUME NEW k \in DOMAIN queues
          PROVE  queues[k].load = (IF queues[k].id = wq[w] THEN queues[k].load - 1
                                   ELSE queues[k].load)
                                  + (IF queues[k].id = wq[u] THEN 1 ELSE 0)
        OBVIOUS
      <4> DEFINE n == queues[k].load
      <4>1. n \in Int
        BY <3>2
      <4>2. n = (n - 1) + 1 /\ n = n + 0
        BY <4>1
      <4> HIDE DEF n
      <4>3. n = (IF queues[k].id = wq[w] THEN n - 1 ELSE n)
                + (IF queues[k].id = wq[u] THEN 1 ELSE 0)
        BY <2>2, <4>2
      <4> QED  BY <4>3 DEF n
    <3>4. wq[u] < freeid
      BY <1>1, <2>2, <3>1 DEF LoadInv, QueueInv
    <3>5. /\ DOMAIN queues' = DOMAIN queues
          /\ \A k \in DOMAIN queues :
               /\ queues'[k].id = queues[k].id
               /\ queues'[k].load =
                    (IF queues[k].id = wq[w] THEN queues[k].load - 1
                     ELSE queues[k].load)
                    + (IF queues[k].id = wq[u] THEN 1 ELSE 0)
      BY <2>1, <3>3
    <3> QED  BY <1>1, <1>3, <2>2, <3>1, <3>4, <3>5, LoadSwap
  <2> QED  BY <2>5, <2>6
<1>7. CASE /\ queues' = Reduced(wq[w])
           /\ workload' = workload
           /\ wst' = [wst EXCEPT ![w] = "done"]
  <2>1. \A v \in Works : wst'[v] = IF v = w THEN "done" ELSE wst[v]
    BY <1>4, <1>7
  <2>2. PendingInv'
    <3>1. \A v \in Works : wst[v] = "pending" => wst'[v] = "pending"
      BY <1>4, <2>1
    <3> QED  BY <1>1, <1>7, <3>1, PendingFrame
  <2>3. KeptInv' /\ HandInv'
    BY <1>5, <2>1, <2>2
  <2>4. LoadInv'
    <3>1. /\ wst[w] \in Busy /\ wst'[w] \notin Busy
          /\ \A v \in Works \ {w} : wst'[v] \in Busy <=> wst[v] \in Busy
      BY <1>4, <2>1 DEF Busy
    <3>2. \A v \in Works \ {w} : wst[v] \in Busy => wq'[v] = wq[v]
      BY <1>3
    <3> QED  BY <1>1, <1>3, <1>7, <3>1, <3>2, LoadLose
  <2> QED  BY <2>3, <2>4
<1> QED  BY <1>3, <1>6, <1>7

LEMMA EmptyQueueDropInv ==
    ASSUME IInv, NEW t \in Threads, EmptyQueueDrop(t)
    PROVE  KeptInv' /\ HandInv' /\ LoadInv'
<1> DEFINE q == op[t].q
           kept == {w \in ToSet(workload) : wq[w] # q}
<1>1. TypeInv /\ KeptInv /\ HandInv /\ LoadInv
  BY DEF IInv
<1>2. /\ pc[t] = "empty"
      /\ workload' \in SetToSeqs(kept)
      /\ wst' = [w \in Works |-> IF w \in ToSet(workload) /\ wq[w] = q
                                 THEN "destroyed" ELSE wst[w]]
      /\ alarms' = alarms \cup SubscriptAlarm(IndexOf(q))
      /\ AfterEmptyQueue(t)
      /\ UNCHANGED <<queues, freeid, freethreads, task, wq, to, batch, exec, cur>>
  BY DEF EmptyQueueDrop, workerVars
<1>3. \A w \in ToSet(workload) : w \in Works /\ wst[w] = "pending"
  BY <1>1, WorkloadElement DEF ToSet, TypeInv, KeptInv, PendingInv
<1>4. \A w \in Works : \/ wst'[w] = wst[w]
                       \/ wst[w] = "pending" /\ wst'[w] = "destroyed"
  BY <1>2, <1>3
<1>5. \A u \in Threads : \/ pc'[u] = pc[u]
                         \/ pc[u] = "empty" /\ pc'[u] \in {"remove", "run"}
  <2>1. \A u \in Threads : u # t => pc'[u] = pc[u]
    BY <1>1, <1>2 DEF AfterEmptyQueue, TypeInv, TypeOK
  <2>2. pc'[t] = IF op[t].remove THEN "remove" ELSE "run"
    BY <1>1, <1>2 DEF AfterEmptyQueue, TypeInv, TypeOK
  <2> QED  BY <1>2, <2>1, <2>2
<1>6. KeptInv'
  <2>1. PendingInv'
    <3>1. /\ DOMAIN workload' = 1..Cardinality(kept)
          /\ \A i \in 1..Cardinality(kept) : workload'[i] \in kept
          /\ \A i, j \in 1..Cardinality(kept) :
                i # j => workload'[i] # workload'[j]
      BY <1>2 DEF SetToSeqs
    <3>2. \A w \in kept : wst'[w] = "pending"
      BY <1>2, <1>3
    <3> HIDE DEF kept
    <3> QED  BY <3>1, <3>2 DEF PendingInv
  <2>2. \A w \in Works : \/ wst'[w] = wst[w]
                         \/ /\ wst'[w] # "new"
                            /\ wst'[w] = "first" => batch[w] = None
                            /\ wst[w] = "held" => batch[w] = None
                            /\ Leader(w) => wst'[w] \in LeaderStates
    BY <1>4 DEF Leader, LeaderStates
  <2>3. \A u \in Threads : pc'[u] \in {"exec", "execwait"} =>
           cur'[u] \in Works /\ Leader(cur'[u])
    BY <1>1, <1>2, <1>5 DEF KeptInv, LeaderInv, Leader
  <2> QED  BY <1>1, <1>2, <2>1, <2>2, <2>3, KeptFrame
<1>7. HandInv'
  <2>1. \A w \in Works : \/ wst'[w] = wst[w]
                         \/ /\ wst[w] \notin {"assigned", "task", "reporting"}
                            /\ wst'[w] # "assigned"
    BY <1>4
  <2>2. \A u \in Threads : pc'[u] = "assign" <=> pc[u] = "assign"
    BY <1>5
  <2>3. \A x \in Workers : pc'[x] \in {"wait", "report", "idle"} =>
           pc'[x] = pc[x] \/ (pc[x] = "idle" /\ pc'[x] = "wait")
    BY <1>5 DEF Threads
  <2>4. "existing task" \in alarms' => "existing task" \in alarms
    BY <1>2 DEF SubscriptAlarm
  <2> QED  BY <1>1, <1>2, <2>1, <2>2, <2>3, <2>4, HandFrame
<1>8. LoadInv'
  <2>1. \A w \in Works : wst'[w] \in Busy <=> wst[w] \in Busy
    BY <1>4 DEF Busy
  <2> QED  BY <1>1, <1>2, <2>1, LoadFrame
<1> QED  BY <1>6, <1>7, <1>8

LEMMA RemoveQueueInv ==
    ASSUME IInv, NEW t \in Threads, RemoveQueue(t)
    PROVE  KeptInv' /\ HandInv' /\ LoadInv'
<1> DEFINE k == IndexOf(op[t].q)
           n == Len(queues)
           Old(j) == IF j < k THEN j ELSE j + 1
<1>1. TypeInv /\ KeptInv /\ HandInv /\ LoadInv
  BY DEF IInv
<1>2. /\ pc[t] \in {"remove", "rewait"}
      /\ \E p \in {"rewait", "shutdown", "run"} : pc' = [pc EXCEPT ![t] = p]
      /\ "existing task" \in alarms' => "existing task" \in alarms
      /\ queues' = queues \/ (k # 0 /\ queues' = RemoveAt(queues, k))
      /\ UNCHANGED <<freeid, workload, freethreads, task, wst, wq, to, batch,
                     exec, cur>>
  <2>1. /\ pc[t] \in {"remove", "rewait"}
        /\ UNCHANGED <<freeid, workload, freethreads, task, wst, wq, to, batch,
                       exec, cur>>
    BY DEF RemoveQueue, workerVars, workVars
  <2>2. \/ pc' = [pc EXCEPT ![t] = "rewait"]
        \/ pc' = [pc EXCEPT ![t] = IF op[t].down THEN "shutdown" ELSE "run"]
    BY DEF RemoveQueue
  <2>3. \E p \in {"rewait", "shutdown", "run"} : pc' = [pc EXCEPT ![t] = p]
    BY <2>2
  <2>4. "existing task" \in alarms' => "existing task" \in alarms
    <3>1. \A j : "existing task" \notin SubscriptAlarm(j)
      BY DEF SubscriptAlarm
    <3>2. \/ \E j : alarms' = alarms \cup SubscriptAlarm(j)
          \/ \E i, j : alarms' = alarms \cup SubscriptAlarm(i) \cup SubscriptAlarm(j)
      BY DEF RemoveQueue
    <3> QED  BY <3>1, <3>2
  <2>5. queues' = queues \/ (k # 0 /\ queues' = RemoveAt(queues, k))
    BY DEF RemoveQueue
  <2> QED  BY <2>1, <2>3, <2>4, <2>5
<1>3. KeptInv' /\ HandInv'
  <2>1. \A u \in Threads : \/ pc'[u] = pc[u]
                           \/ pc[u] \in Closing /\ pc'[u] \in Closing
    BY <1>1, <1>2 DEF Closing, TypeInv, TypeOK
  <2> QED  BY <1>1, <1>2, <2>1, CloseFrame
<1>4. CASE queues' = queues
  <2>1. LoadInv'
    BY <1>1, <1>2, <1>4, LoadFrame
  <2> QED  BY <1>3, <2>1
<1>5. CASE k # 0 /\ queues' = RemoveAt(queues, k)
  <2>1. queues \in Seq(Queue) /\ n \in Nat /\ DOMAIN queues = 1..n /\ k \in 1..n
    BY <1>1, <1>5, IndexOfProperties, LenProperties DEF TypeInv, TypeOK
  <2> HIDE DEF k
  <2>2. /\ RemoveAt(queues, k) \in Seq(Queue)
        /\ Len(RemoveAt(queues, k)) = n - 1
        /\ \A j \in 1..n-1 : RemoveAt(queues, k)[j] =
                                IF j < k THEN queues[j] ELSE queues[j+1]
    BY <2>1, RemoveAtProperties
  <2>3. DOMAIN queues' = 1..n-1
    BY <1>5, <2>2, LenProperties
  <2> HIDE DEF n
  <2>4. \A j \in 1..n-1 : Old(j) \in 1..n
    BY <2>1
  <2>5. \A i, j \in 1..n-1 : Old(i) = Old(j) => i = j
    BY <2>1
  <2>6. \A j \in 1..n-1 : queues'[j] = queues[Old(j)]
    BY <1>5, <2>2
  <2> HIDE DEF Old
  <2>7. QueueInv'
    <3>1. \A i, j \in 1..n-1 : queues'[i].id = queues'[j].id => i = j
      <4>1. \A i, j \in 1..n : queues[i].id = queues[j].id => i = j
        BY <1>1, <2>1 DEF LoadInv, QueueInv
      <4>2. \A i, j \in 1..n-1 :
               queues[Old(i)].id = queues[Old(j)].id => Old(i) = Old(j)
        BY <2>4, <4>1
      <4> QED  BY <2>5, <2>6, <4>2
    <3>2. \A j \in 1..n-1 : queues'[j].id < freeid'
      BY <1>1, <1>2, <2>1, <2>4, <2>6 DEF LoadInv, QueueInv
    <3>3. \A w \in Works : wst'[w] \in Busy => wq'[w] < freeid'
      BY <1>1, <1>2 DEF LoadInv, QueueInv
    <3> QED  BY <2>3, <3>1, <3>2, <3>3 DEF QueueInv
  <2>8. LoadCount'
    <3>1. \A j \in 1..n : queues[j].load = Cardinality(Working(queues[j].id))
      BY <1>1, <2>1 DEF LoadInv, LoadCount
    <3>2. \A j \in 1..n-1 : queues'[j].load = Cardinality(Working(queues'[j].id))
      BY <2>4, <2>6, <3>1
    <3> QED  BY <1>2, <2>3, <3>2 DEF LoadCount, Working
  <2> QED  BY <1>3, <2>7, <2>8 DEF LoadInv
<1> QED  BY <1>2, <1>4, <1>5

LEMMA CloseCallInv ==
    ASSUME IInv, NEW t \in Threads, NEW q, NEW all,
           CallEmptyQueue(t, q, all) \/ CallRemoveQueue(t, q, all)
    PROVE  KeptInv' /\ HandInv' /\ LoadInv'
<1>1. TypeInv /\ KeptInv /\ HandInv /\ LoadInv
  BY DEF IInv
<1>2. /\ pc[t] = "run" /\ pc' = [pc EXCEPT ![t] = "empty"]
      /\ UNCHANGED <<freeid, workload, freethreads, task, wst, wq, to, batch,
                     exec, cur, alarms>>
      /\ \/ queues' = queues
         \/ /\ IndexOf(q) # 0
            /\ queues' = [queues EXCEPT ![IndexOf(q)].closing = TRUE]
  BY DEF CallEmptyQueue, CallRemoveQueue, MayClose, poolVars, workerVars, workVars
<1>3. KeptInv' /\ HandInv'
  <2>1. \A u \in Threads : \/ pc'[u] = pc[u]
                           \/ pc[u] \in Closing /\ pc'[u] \in Closing
    BY <1>1, <1>2 DEF Closing, TypeInv, TypeOK
  <2> QED  BY <1>1, <1>2, <2>1, CloseFrame
<1>4. CASE queues' = queues
  BY <1>1, <1>2, <1>3, <1>4, LoadFrame
<1>5. CASE /\ IndexOf(q) # 0
           /\ queues' = [queues EXCEPT ![IndexOf(q)].closing = TRUE]
  <2>1. IndexOf(q) \in DOMAIN queues
    BY <1>1, <1>5, IndexOfProperties DEF TypeInv, TypeOK
  <2> QED  BY <1>1, <1>2, <1>3, <1>5, <2>1, ClosingLoad
<1> QED  BY <1>2, <1>4, <1>5

LEMMA EmptyQueueFinishInv ==
    ASSUME IInv, NEW t \in Threads, EmptyQueueFinish(t)
    PROVE  KeptInv' /\ HandInv' /\ LoadInv'
<1>1. TypeInv /\ KeptInv /\ HandInv /\ LoadInv
  BY DEF IInv
<1>2. /\ pc[t] = "empty"
      /\ pc' = pc \/ AfterEmptyQueue(t)
      /\ "existing task" \in alarms' => "existing task" \in alarms
      /\ UNCHANGED <<queues, freeid, workload, freethreads, task, wst, wq, to,
                     batch, exec, cur>>
  BY DEF EmptyQueueFinish, SubscriptAlarm, poolVars, workerVars, workVars
<1>3. \A u \in Threads : \/ pc'[u] = pc[u]
                         \/ pc[u] \in Closing /\ pc'[u] \in Closing
  <2>1. CASE AfterEmptyQueue(t)
    <3>1. pc'[t] = IF op[t].remove THEN "remove" ELSE "run"
      BY <1>1, <2>1 DEF AfterEmptyQueue, TypeInv, TypeOK
    <3>2. \A u \in Threads : u # t => pc'[u] = pc[u]
      BY <1>1, <2>1 DEF AfterEmptyQueue, TypeInv, TypeOK
    <3> QED  BY <1>2, <3>1, <3>2 DEF Closing
  <2> QED  BY <1>2, <2>1
<1>4. KeptInv' /\ HandInv'
  BY <1>1, <1>2, <1>3, CloseFrame
<1>5. LoadInv'
  BY <1>1, <1>2, LoadFrame
<1> QED  BY <1>4, <1>5

LEMMA ShutdownInv ==
    ASSUME IInv, NEW t \in Threads, Shutdown(t) \/ ShutdownQueue(t)
    PROVE  KeptInv' /\ HandInv' /\ LoadInv'
<1>1. TypeInv /\ KeptInv /\ HandInv /\ LoadInv
  BY DEF IInv
<1>2. /\ pc[t] \in {"run", "shutdown"}
      /\ \E p \in {"shutdown", "erase", "empty"} : pc' = [pc EXCEPT ![t] = p]
      /\ UNCHANGED <<freeid, workload, freethreads, task, wst, wq, to, batch,
                     exec, cur, alarms>>
      /\ \/ queues' = queues
         \/ queues # <<>> /\ queues' = [queues EXCEPT ![1].closing = TRUE]
  BY DEF Shutdown, ShutdownQueue, poolVars, workerVars, workVars
<1>3. KeptInv' /\ HandInv'
  <2>1. \A u \in Threads : \/ pc'[u] = pc[u]
                           \/ pc[u] \in Closing /\ pc'[u] \in Closing
    BY <1>1, <1>2 DEF Closing, TypeInv, TypeOK
  <2> QED  BY <1>1, <1>2, <2>1, CloseFrame
<1>4. CASE queues' = queues
  BY <1>1, <1>2, <1>3, <1>4, LoadFrame
<1>5. CASE queues # <<>> /\ queues' = [queues EXCEPT ![1].closing = TRUE]
  <2>1. 1 \in DOMAIN queues
    BY <1>1, <1>5, EmptySeq, LenProperties DEF TypeInv, TypeOK
  <2> QED  BY <1>1, <1>2, <1>3, <1>5, <2>1, ClosingLoad
<1> QED  BY <1>2, <1>4, <1>5

LEMMA EraseInv ==
    ASSUME IInv, NEW t \in Threads,
           EraseDone(t) \/ \E x \in Workers : EraseThread(t, x)
    PROVE  KeptInv' /\ HandInv' /\ LoadInv'
<1>1. TypeInv /\ KeptInv /\ HandInv /\ LoadInv
  BY DEF IInv
<1>2. /\ UNCHANGED <<queues, freeid, workload, freethreads, task, wst, wq, to,
                     batch, exec, cur, alarms>>
      /\ pc' = pc \/ (pc[t] = "erase" /\ pc' = [pc EXCEPT ![t] = "run"])
  BY DEF EraseDone, EraseThread, poolVars, workerVars, workVars, threadVars
<1>3. \A u \in Threads : \/ pc'[u] = pc[u]
                         \/ pc[u] \in Closing /\ pc'[u] \in Closing
  BY <1>1, <1>2 DEF Closing, TypeInv, TypeOK
<1>4. KeptInv' /\ HandInv'
  BY <1>1, <1>2, <1>3, CloseFrame
<1>5. LoadInv'
  BY <1>1, <1>2, LoadFrame
<1> QED  BY <1>4, <1>5

-----------------------------------------------------------------------------
(***************************************************************************)
(* The invariant                                                           *)
(***************************************************************************)

LEMMA IInvInit == Init => IInv
<1> SUFFICES ASSUME Init PROVE IInv
  OBVIOUS
<1>1. TypeInv
  BY InitTypeInv
<1>2. /\ workload = <<>> /\ queues = <<DefaultQueue>> /\ freeid = 1
      /\ \A b \in Works : exec[b].todo = <<>>
      /\ \A w \in Works : wst[w] = "new" /\ batch[w] = None
      /\ \A t \in Threads : pc[t] \in {"run", "wait"}
      /\ \A x \in Workers : task[x] = None
      /\ alarms = {}
  BY DEF Init, NoBatch
<1>3. KeptInv
  BY <1>2 DEF KeptInv, PendingInv, TodoInv, LeaderInv
<1>4. HandInv
  <2>1. TaskInv
    BY <1>2 DEF TaskInv, TaskOf, Threads
  <2>2. FreeInv
    <3>1. /\ DOMAIN freethreads = 1..Cardinality(Workers)
          /\ \A i \in 1..Cardinality(Workers) : freethreads[i] \in Workers
          /\ \A i, j \in 1..Cardinality(Workers) :
                i # j => freethreads[i] # freethreads[j]
      BY DEF Init, SetToSeqs
    <3> QED  BY <1>2, <3>1 DEF FreeInv
  <2>3. AssignInv /\ ApartInv /\ KnownInv /\ NoClash
    BY <1>2 DEF AssignInv, ApartInv, KnownInv, NoClash
  <2> QED  BY <2>1, <2>2, <2>3 DEF HandInv
<1>5. LoadInv
  <2>1. /\ DOMAIN queues = {1}
        /\ queues[1].id = 0 /\ queues[1].load = 0
    BY <1>2 DEF DefaultQueue
  <2>2. \A w \in Works : wst[w] \notin Busy
    BY <1>2 DEF Busy
  <2>3. QueueInv
    BY <1>2, <2>1, <2>2 DEF QueueInv
  <2>4. \A r : Cardinality(Working(r)) = 0
    <3>1. \A r : Working(r) = {}
      BY <2>2 DEF Working
    <3> QED  BY <3>1, FS_EmptySet
  <2> QED  BY <2>1, <2>3, <2>4 DEF LoadInv, LoadCount
<1> QED  BY <1>1, <1>3, <1>4, <1>5 DEF IInv

LEMMA IInvStep == IInv /\ [Next]_vars => IInv'
<1> SUFFICES ASSUME IInv, [Next]_vars
             PROVE  IInv'
  OBVIOUS
<1>1. TypeInv'
  BY TypeInvStep DEF IInv
<1>2. QueueIds \subseteq Nat
  BY ConstantAssumption DEF QueueIds
<1>3. ASSUME NEW t \in Threads, Calls(t)
      PROVE  KeptInv' /\ HandInv' /\ LoadInv'
  BY <1>2, <1>3, AddWorkInv, RemoveWorkInv, ExecuteWorkInv, AddQueueInv,
     ExecuteQueueInv, CloseCallInv, ShutdownInv DEF Calls
<1>4. ASSUME NEW t \in Threads, Steps(t)
      PROVE  KeptInv' /\ HandInv' /\ LoadInv'
  BY <1>4, AssignTaskInv, InlineDoneInv, DirectDoneInv, ExecuteWorkAddInv,
     ExecuteWorkFirstInv, FirstDoneInv, ExecuteWorkReturnInv, SerialDoneInv,
     ManualDoneInv, EmptyQueueFinishInv, EmptyQueueDropInv, RemoveQueueInv,
     ShutdownInv, EraseInv DEF Steps
<1>5. ASSUME NEW x \in Workers, DoWork(x)
      PROVE  KeptInv' /\ HandInv' /\ LoadInv'
  BY <1>5, TakeTaskInv, TaskDoneInv, ReportIdleInv, ReportNextInv,
     IdleExitInv DEF DoWork
<1>6. ASSUME UNCHANGED vars
      PROVE  KeptInv' /\ HandInv' /\ LoadInv'
  <2>1. UNCHANGED <<queues, freeid, workload, freethreads, task, wst, wq, to,
                    batch, exec, pc, cur, alarms>>
    BY <1>6 DEF vars, poolVars, workerVars, workVars, threadVars
  <2>2. TypeInv /\ KeptInv /\ HandInv /\ LoadInv
    BY DEF IInv
  <2>3. KeptInv' /\ HandInv'
    BY <2>1, <2>2, CloseFrame
  <2>4. LoadInv'
    BY <2>1, <2>2, LoadFrame
  <2> QED  BY <2>3, <2>4
<1>7. KeptInv' /\ HandInv' /\ LoadInv'
  BY <1>3, <1>4, <1>5, <1>6 DEF Next, AtRest
<1> QED  BY <1>1, <1>7 DEF IInv

\* The number queueworkload_ keeps for a queue is, in every reachable state, the
\* number of works of that queue that threads are working on: addWork,
\* reportFinishedAndAskForMore, executeQueue and the works that a pool thread
\* adds and does itself together count each work exactly once, whatever is
\* removed or closed meanwhile (threadwork.cc).
THEOREM LoadCountCorrect == Spec => []LoadCount
<1>1. Spec => []IInv
  BY IInvInit, IInvStep, PTL DEF Spec
<1>2. IInv => LoadCount
  BY DEF IInv, LoadInv
<1> QED  BY <1>1, <1>2, PTL

\* addWork gives a free thread one work and nobody else gives it another one
\* before it has reported back, although workloadcond_ is released between
\* freethreads_.removeSingle and assignTask (threadwork.cc, addWork).
THEOREM AssignedOnceCorrect == Spec => []AssignedOnce
<1>1. Spec => []IInv
  BY IInvInit, IInvStep, PTL DEF Spec
<1>2. IInv => AssignedOnce
  <2> SUFFICES ASSUME IInv PROVE AssignedOnce
    OBVIOUS
  <2>1. TypeInv /\ HandInv
    BY DEF IInv
  <2>2. \A w \in Works : wst[w] = "assigned" =>
           /\ to[w] \in Workers
           /\ \/ task[to[w]] = w
              \/ \E t \in Threads : /\ pc[t] = "assign" /\ cur[t] = w
                                    /\ task[to[w]] = None
                                    /\ \A i \in DOMAIN freethreads :
                                          freethreads[i] # to[w]
    BY <2>1 DEF HandInv, KnownInv, Known, AssignInv, Assigning
  <2>3. ASSUME NEW v \in Works, NEW w \in Works,
               wst[v] = "assigned", wst[w] = "assigned", to[v] = to[w]
        PROVE  v = w
    <3>1. v # None /\ w # None
      BY ConstantAssumption
    <3>2. CASE task[to[v]] = v \/ task[to[w]] = w
      BY <2>2, <2>3, <3>1, <3>2
    <3>3. CASE task[to[v]] # v /\ task[to[w]] # w
      <4>1. PICK t \in Threads : pc[t] = "assign" /\ cur[t] = v
        BY <2>2, <2>3, <3>3
      <4>2. PICK u \in Threads : pc[u] = "assign" /\ cur[u] = w
        BY <2>2, <2>3, <3>3
      <4>3. t = u
        BY <2>1, <2>3, <4>1, <4>2 DEF HandInv, ApartInv
      <4> QED  BY <4>1, <4>2, <4>3
    <3> QED  BY <3>2, <3>3
  <2>4. ASSUME NEW w \in Works, wst[w] = "assigned"
        PROVE  to[w] \notin ToSet(freethreads) /\ task[to[w]] \in {None, w}
    <3>1. \A i \in DOMAIN freethreads : freethreads[i] # to[w]
      BY <2>1, <2>2, <2>4, ConstantAssumption DEF HandInv, FreeInv
    <3> QED  BY <2>2, <2>4, <3>1 DEF ToSet
  <2> QED  BY <2>1, <2>3, <2>4 DEF AssignedOnce, HandInv, NoClash
<1> QED  BY <1>1, <1>2, PTL

-----------------------------------------------------------------------------
(***************************************************************************)
(* SingleThread queues.  The code only looks at the counter, so it is the  *)
(* counter that never exceeds one; that the counter is right gives the     *)
(* exclusion.                                                              *)
(***************************************************************************)
SingleLoad ==
    \A i \in DOMAIN queues : queues[i].type = "SingleThread" => queues[i].load <= 1

\* No counter of a SingleThread queue goes up, unless it was zero.
Bounded ==
    /\ DOMAIN queues' = DOMAIN queues
    /\ \A k \in DOMAIN queues :
         /\ queues'[k].type = queues[k].type
         /\ \/ queues'[k].load = queues[k].load
            \/ queues'[k].load = queues[k].load - 1
            \/ queues[k].type # "SingleThread"
            \/ queues'[k].load = 1

LEMMA BoundedSingle ==
    ASSUME TypeInv, SingleLoad, Bounded
    PROVE  SingleLoad'
<1>1. \A k \in DOMAIN queues : queues[k].load \in Int
  <2>1. \A k \in DOMAIN queues : queues[k] \in Queue
    BY LenProperties, ElementOfSeq DEF TypeInv, TypeOK
  <2> QED  BY <2>1 DEF Queue
<1>2. ASSUME NEW k \in DOMAIN queues, queues[k].type = "SingleThread"
      PROVE  queues'[k].load <= 1
  <2>1. queues[k].load <= 1 /\ queues[k].load \in Int
    BY <1>1, <1>2 DEF SingleLoad
  <2>2. \/ queues'[k].load = queues[k].load
        \/ queues'[k].load = queues[k].load - 1
        \/ queues'[k].load = 1
    BY <1>2 DEF Bounded
  <2> QED  BY <2>1, <2>2
<1> QED  BY <1>2 DEF SingleLoad, Bounded

LEMMA ReducedBounded ==
    ASSUME TypeInv, QueueInv, NEW q, queues' = Reduced(q)
    PROVE  Bounded
BY ReducedLoads DEF Bounded

LEMMA ClosingBounded ==
    ASSUME TypeInv, NEW k \in DOMAIN queues,
           queues' = [queues EXCEPT ![k].closing = TRUE]
    PROVE  Bounded
<1>1. \A i \in DOMAIN queues : queues[i] \in Queue
  BY LenProperties, ElementOfSeq DEF TypeInv, TypeOK
<1>2. \A e \in Queue : /\ [e EXCEPT !.closing = TRUE].type = e.type
                       /\ [e EXCEPT !.closing = TRUE].load = e.load
  BY DEF Queue
<1>3. /\ DOMAIN queues' = DOMAIN queues
      /\ \A i \in DOMAIN queues : queues'[i] =
            IF i = k THEN [queues[i] EXCEPT !.closing = TRUE] ELSE queues[i]
  OBVIOUS
<1> QED  BY <1>1, <1>2, <1>3 DEF Bounded

LEMMA GainBounded ==
    ASSUME TypeInv, NEW i \in DOMAIN queues, queues' = AddLoad(i, 1),
           queues[i].type = "SingleThread" => queues[i].load = 0
    PROVE  Bounded
<1>1. /\ DOMAIN queues' = DOMAIN queues
      /\ \A k \in DOMAIN queues :
           /\ queues'[k].type = queues[k].type
           /\ queues'[k].load = IF k = i THEN queues[k].load + 1
                                ELSE queues[k].load
  BY AddLoadProperties DEF TypeInv, TypeOK
<1> QED  BY <1>1 DEF Bounded

\* addWork starts a work of a SingleThread queue only at zero.
LEMMA SubmitBounded ==
    ASSUME TypeInv, NEW t, NEW w, NEW q, NEW firstinline, NEW nodup, NEW force,
           Submit(t, w, q, firstinline, nodup, force)
    PROVE  Bounded
<1>1. CASE queues' = queues
  BY <1>1 DEF Bounded
<1>2. CASE Accepts(q) /\ CanStart(q) /\ queues' = AddLoad(IndexOf(q), 1)
  <2> DEFINE i == IndexOf(q)
  <2>1. i \in DOMAIN queues
    BY <1>2, IndexOfProperties DEF Accepts, Open, TypeInv, TypeOK
  <2>2. queues[i].type = "SingleThread" => queues[i].load = 0
    BY <1>2 DEF CanStart
  <2> HIDE DEF i
  <2>3. queues' = AddLoad(i, 1)
    BY <1>2 DEF i
  <2> QED  BY <2>1, <2>2, <2>3, GainBounded
<1>3. queues' = queues
      \/ (Accepts(q) /\ CanStart(q) /\ queues' = AddLoad(IndexOf(q), 1))
  BY DEF Submit, SubmitDirect, SubmitRejected, SubmitIgnored,
     SubmitToFreeThread, SubmitInline, SubmitQueued, poolVars
<1> QED  BY <1>1, <1>2, <1>3

\* reportFinishedAndAskForMore counts its own work down before it looks.
LEMMA ReportNextBounded ==
    ASSUME IInv, NEW x \in Workers, ReportNext(x)
    PROVE  Bounded
<1> DEFINE q == wq[task[x]]
           r == Reduced(q)
<1>1. TypeInv /\ QueueInv
  BY DEF IInv, LoadInv
<1>2. PICK i \in DOMAIN workload :
        /\ Takeable(r, workload[i])
        /\ queues' = [k \in DOMAIN queues |->
                        IF queues[k].id = wq[workload[i]]
                        THEN [r[k] EXCEPT !.load = @ + 1]
                        ELSE r[k]]
  BY DEF ReportNext, IsNext
<1>3. /\ DOMAIN r = DOMAIN queues
      /\ \A k \in DOMAIN queues :
           /\ r[k] \in Queue
           /\ r[k].id = queues[k].id
           /\ r[k].type = queues[k].type
           /\ r[k].load = queues[k].load \/ r[k].load = queues[k].load - 1
  <2>1. /\ r \in Seq(Queue)
        /\ DOMAIN r = DOMAIN queues
        /\ \A k \in DOMAIN queues :
             /\ r[k].id = queues[k].id
             /\ r[k].type = queues[k].type
             /\ r[k].load = IF queues[k].id = q THEN queues[k].load - 1
                            ELSE queues[k].load
    BY <1>1, ReducedLoads
  <2> HIDE DEF r, q
  <2>2. \A k \in DOMAIN queues : r[k] \in Queue
    BY <2>1, LenProperties, ElementOfSeq
  <2> QED  BY <2>1, <2>2
<1> HIDE DEF q, r
<1>4. \A e \in Queue : /\ [e EXCEPT !.load = @ + 1].type = e.type
                       /\ [e EXCEPT !.load = @ + 1].load = e.load + 1
  BY DEF Queue
<1>5. PICK j \in DOMAIN queues :
        /\ queues[j].id = wq[workload[i]]
        /\ r[j].type = "SingleThread" => r[j].load = 0
  BY <1>2, <1>3 DEF Takeable
<1>6. \A k \in DOMAIN queues : queues[k].id = wq[workload[i]] => k = j
  BY <1>1, <1>5 DEF QueueInv
<1>7. ASSUME NEW k \in DOMAIN queues
      PROVE  /\ queues'[k].type = queues[k].type
             /\ \/ queues'[k].load = queues[k].load
                \/ queues'[k].load = queues[k].load - 1
                \/ queues[k].type # "SingleThread"
                \/ queues'[k].load = 1
  <2>1. CASE queues[k].id = wq[workload[i]]
    <3>1. queues'[k] = [r[k] EXCEPT !.load = @ + 1] /\ k = j
      BY <1>2, <1>6, <2>1
    <3>2. queues'[k].type = r[k].type /\ queues'[k].load = r[k].load + 1
      BY <1>3, <1>4, <3>1
    <3>3. queues[k].type = "SingleThread" => r[k].load = 0
      BY <1>3, <1>5, <3>1
    <3> QED  BY <1>3, <3>2, <3>3
  <2>2. CASE queues[k].id # wq[workload[i]]
    <3>1. queues'[k] = r[k]
      BY <1>2, <2>2
    <3> QED  BY <1>3, <3>1
  <2> QED  BY <2>1, <2>2
<1>8. DOMAIN queues' = DOMAIN queues
  BY <1>2
<1> QED  BY <1>7, <1>8 DEF Bounded

\* A queue is appended with its counter at zero; one that is removed takes its
\* counter along.
LEMMA QueuesSingle ==
    ASSUME TypeInv, SingleLoad, NEW t,
           (\E type \in QueueTypes : AddQueue(t, type)) \/ RemoveQueue(t)
    PROVE  SingleLoad'
<1> DEFINE n == Len(queues)
<1>1. /\ queues \in Seq(Queue) /\ n \in Nat /\ DOMAIN queues = 1..n
      /\ \A i \in 1..n : queues[i].type = "SingleThread" => queues[i].load <= 1
  BY LenProperties DEF TypeInv, TypeOK, SingleLoad
<1>2. ASSUME NEW type \in QueueTypes, AddQueue(t, type)
      PROVE  SingleLoad'
  <2> DEFINE e == [id |-> freeid, type |-> type, load |-> 0, closing |-> FALSE]
  <2>1. e \in Queue /\ e.load = 0
    BY ConstantAssumption DEF TypeInv, TypeOK, Queue
  <2>2. queues' = Append(queues, e)
    BY <1>2 DEF AddQueue
  <2> HIDE DEF e
  <2>3. /\ Append(queues, e) \in Seq(Queue)
        /\ Len(Append(queues, e)) = n + 1
        /\ \A i \in 1..n : Append(queues, e)[i] = queues[i]
        /\ Append(queues, e)[n+1] = e
    BY <1>1, <2>1, AppendProperties
  <2>4. DOMAIN queues' = 1..n+1
    BY <2>2, <2>3, LenProperties
  <2>5. \A i \in 1..n+1 : i \in 1..n \/ i = n+1
    BY <1>1
  <2>6. \A i \in 1..n+1 : queues'[i].type = "SingleThread" => queues'[i].load <= 1
    BY <1>1, <2>1, <2>2, <2>3, <2>5
  <2> QED  BY <2>4, <2>6 DEF SingleLoad
<1>3. ASSUME RemoveQueue(t)
      PROVE  SingleLoad'
  <2> DEFINE k == IndexOf(op[t].q)
  <2>1. queues' = queues \/ (k # 0 /\ queues' = RemoveAt(queues, k))
    BY <1>3 DEF RemoveQueue
  <2>2. k # 0 => k \in 1..n
    BY <1>1, IndexOfProperties
  <2> HIDE DEF k
  <2>3. CASE queues' = queues
    BY <2>3 DEF SingleLoad
  <2>4. CASE k # 0 /\ queues' = RemoveAt(queues, k)
    <3>1. /\ RemoveAt(queues, k) \in Seq(Queue)
          /\ Len(RemoveAt(queues, k)) = n - 1
          /\ \A j \in 1..n-1 : RemoveAt(queues, k)[j] =
                                  IF j < k THEN queues[j] ELSE queues[j+1]
      BY <1>1, <2>2, <2>4, RemoveAtProperties
    <3>2. DOMAIN queues' = 1..n-1
      BY <2>4, <3>1, LenProperties
    <3>3. \A j \in 1..n-1 : j \in 1..n /\ j+1 \in 1..n
      BY <1>1
    <3>4. \A j \in 1..n-1 : queues'[j] = queues[j] \/ queues'[j] = queues[j+1]
      BY <2>4, <3>1
    <3>5. \A j \in 1..n-1 :
             queues'[j].type = "SingleThread" => queues'[j].load <= 1
      BY <1>1, <3>3, <3>4
    <3> QED  BY <3>2, <3>5 DEF SingleLoad
  <2> QED  BY <2>1, <2>3, <2>4
<1> QED  BY <1>2, <1>3

\* The other calls.
LEMMA CallsSingle ==
    ASSUME IInv, SingleLoad, NEW t \in Threads, Calls(t)
    PROVE  SingleLoad'
<1>1. TypeInv /\ QueueInv
  BY DEF IInv, LoadInv
<1>2. ASSUME queues' = queues
      PROVE  Bounded
  BY <1>2 DEF Bounded
<1>3. ASSUME NEW w \in Works, NEW q \in QueueIds, NEW firstinline, NEW nodup,
             NEW force, AddWork(t, w, q, firstinline, nodup, force)
      PROVE  Bounded
  BY <1>1, <1>3, SubmitBounded DEF AddWork
<1>4. ASSUME NEW w \in Works, RemoveWork(t, w)
      PROVE  Bounded
  BY <1>2, <1>4 DEF RemoveWork
<1>5. ASSUME NEW s \in Batches, NEW q \in QueueIds, NEW firstinline,
             ExecuteWork(t, s, q, firstinline)
      PROVE  Bounded
  BY <1>2, <1>5 DEF ExecuteWork, poolVars
<1>6. ASSUME NEW q \in QueueIds, ExecuteQueue(t, q)
      PROVE  Bounded
  <2> DEFINE i == IndexOf(q)
  <2>1. i # 0 /\ queues[i].type = "Manual" /\ queues' = AddLoad(i, 1)
    BY <1>6 DEF ExecuteQueue
  <2>2. i \in DOMAIN queues
    BY <1>1, <2>1, IndexOfProperties DEF TypeInv, TypeOK
  <2> HIDE DEF i
  <2> QED  BY <1>1, <2>1, <2>2, GainBounded
<1>7. ASSUME NEW q \in QueueIds, NEW all \in BOOLEAN, CallEmptyQueue(t, q, all)
      PROVE  Bounded
  BY <1>2, <1>7 DEF CallEmptyQueue, poolVars
<1>8. ASSUME NEW q \in QueueIds, NEW all \in BOOLEAN, CallRemoveQueue(t, q, all)
      PROVE  Bounded
  <2> DEFINE i == IndexOf(q)
  <2>1. i # 0 /\ queues' = [queues EXCEPT ![i].closing = TRUE]
    BY <1>8 DEF CallRemoveQueue, MayClose
  <2>2. i \in DOMAIN queues
    BY <1>1, <2>1, IndexOfProperties DEF TypeInv, TypeOK
  <2> HIDE DEF i
  <2> QED  BY <1>1, <2>1, <2>2, ClosingBounded
<1>9. ASSUME Shutdown(t)
      PROVE  Bounded
  BY <1>2, <1>9 DEF Shutdown, poolVars
<1> QED
  BY <1>1, <1>3, <1>4, <1>5, <1>6, <1>7, <1>8, <1>9, BoundedSingle, QueuesSingle
  DEF Calls

\* The steps inside the calls.
LEMMA StepsSingle ==
    ASSUME IInv, SingleLoad, NEW t \in Threads, Steps(t)
    PROVE  SingleLoad'
<1>1. TypeInv /\ QueueInv
  BY DEF IInv, LoadInv
<1>2. ASSUME queues' = queues
      PROVE  Bounded
  BY <1>2 DEF Bounded
<1>3. ASSUME InlineDone(t)
      PROVE  Bounded
  <2>1. PICK w \in Works : queues' = Reduced(wq[w])
    BY <1>3 DEF InlineDone, Reduced
  <2> QED  BY <1>1, <2>1, ReducedBounded
<1>4. ASSUME ManualDone(t)
      PROVE  Bounded
  <2>1. \E w \in Works : queues' = queues \/ queues' = Reduced(wq[w])
    BY <1>4 DEF ManualDone
  <2> QED  BY <1>1, <1>2, <2>1, ReducedBounded
<1>5. ASSUME ExecuteWorkAdd(t)
      PROVE  Bounded
  BY <1>1, <1>5, SubmitBounded DEF ExecuteWorkAdd
<1>6. ASSUME ShutdownQueue(t)
      PROVE  Bounded
  <2>1. \/ queues' = queues
        \/ queues # <<>> /\ queues' = [queues EXCEPT ![1].closing = TRUE]
    BY <1>6 DEF ShutdownQueue
  <2>2. queues # <<>> => 1 \in DOMAIN queues
    BY <1>1, EmptySeq, LenProperties DEF TypeInv, TypeOK
  <2> QED  BY <1>1, <1>2, <2>1, <2>2, ClosingBounded
<1>7. ASSUME \/ AssignTask(t) \/ DirectDone(t) \/ ExecuteWorkFirst(t)
             \/ FirstDone(t) \/ ExecuteWorkReturn(t)
             \/ EmptyQueueFinish(t) \/ EmptyQueueDrop(t)
             \/ (\E x \in Workers : EraseThread(t, x)) \/ EraseDone(t)
      PROVE  Bounded
  BY <1>2, <1>7 DEF AssignTask, DirectDone, ExecuteWorkFirst, FirstDone,
     ExecuteWorkReturn, EmptyQueueFinish, EmptyQueueDrop, EraseThread,
     EraseDone, poolVars
<1>8. ASSUME SerialDone(t)
      PROVE  Bounded
  <2>1. queues' = queues
    BY <1>8 DEF SerialDone, poolVars
  <2> QED  BY <1>2, <2>1
<1> QED
  BY <1>1, <1>3, <1>4, <1>5, <1>6, <1>7, <1>8, BoundedSingle, QueuesSingle
  DEF Steps

LEMMA SingleLoadStep == IInv /\ SingleLoad /\ [Next]_vars => SingleLoad'
<1> SUFFICES ASSUME IInv, SingleLoad, [Next]_vars
             PROVE  SingleLoad'
  OBVIOUS
<1>1. TypeInv /\ QueueInv
  BY DEF IInv, LoadInv
<1>2. ASSUME NEW x \in Workers, DoWork(x)
      PROVE  SingleLoad'
  <2>1. CASE ReportNext(x)
    BY <1>1, <2>1, ReportNextBounded, BoundedSingle
  <2>2. CASE ReportIdle(x)
    BY <1>1, <2>2, ReducedBounded, BoundedSingle DEF ReportIdle
  <2>3. CASE TakeTask(x) \/ TaskDone(x) \/ GoIdle(x) \/ Exit(x)
    BY <2>3 DEF TakeTask, TaskDone, GoIdle, Exit, poolVars, SingleLoad
  <2> QED  BY <1>2, <2>1, <2>2, <2>3 DEF DoWork
<1>3. CASE UNCHANGED vars
  BY <1>3 DEF vars, poolVars, SingleLoad
<1> QED  BY <1>2, <1>3, CallsSingle, StepsSingle DEF Next, AtRest

\* At no time do two threads work on the same SingleThread queue, however many
\* threads add work, remove queues and report back: that addWork and
\* reportFinishedAndAskForMore test the counter of the queue is enough
\* (threadwork.cc), because the counter is right (LoadCountCorrect).
THEOREM SingleThreadCorrect == Spec => []SingleThreadExclusive
<1>1. Init => SingleLoad
  BY DEF Init, DefaultQueue, SingleLoad
<1>2. Spec => [](IInv /\ SingleLoad)
  BY <1>1, IInvInit, IInvStep, SingleLoadStep, PTL DEF Spec
<1>3. IInv /\ SingleLoad => SingleThreadExclusive
  <2> SUFFICES ASSUME IInv, SingleLoad,
                      NEW i \in DOMAIN queues, queues[i].type = "SingleThread",
                      NEW v \in Working(queues[i].id),
                      NEW w \in Working(queues[i].id)
               PROVE  v = w
    BY DEF SingleThreadExclusive
  <2> DEFINE S == Working(queues[i].id)
  <2>1. IsFiniteSet(S) /\ Cardinality(S) \in Nat /\ Cardinality(S) <= 1
    BY WorkingFinite DEF IInv, LoadInv, LoadCount, SingleLoad
  <2> HIDE DEF S
  <2>2. v \in S /\ w \in S
    BY DEF S
  <2>3. IsFiniteSet(S \ {v}) /\ Cardinality(S \ {v}) = Cardinality(S) - 1
    BY <2>1, <2>2, FS_RemoveElement
  <2>4. Cardinality(S \ {v}) \in Nat
    BY <2>3, FS_CardinalityType
  <2>5. Cardinality(S \ {v}) = 0
    BY <2>1, <2>3, <2>4
  <2>6. S \ {v} = {}
    BY <2>3, <2>5, FS_EmptySet
  <2> QED  BY <2>2, <2>6
<1> QED  BY <1>2, <1>3, PTL
=============================================================================
