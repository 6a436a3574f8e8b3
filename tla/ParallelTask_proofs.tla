--------------------------- MODULE ParallelTask_proofs ---------------------------
(***************************************************************************)
(* A parallel task uses its Barrier as Barrier.tla says: every step of the *)
(* task is a step of the Barrier or leaves it alone, so that what is       *)
(* proved of the one holds of the other.                                   *)
(*                                                                         *)
(* The works of a task of kind "store" hand their traces to a              *)
(* SequentialStorer, which has the pool write them.  The second part       *)
(* proves that the traces are written in the order they were announced in, *)
(* whatever the pool does with the works in between.  Its invariant,       *)
(* StoreInv, follows a trace from its announcement through the traces that *)
(* wait and the idle queue of the pool to the trace that is being written. *)
(*                                                                         *)
(* The last part proves what executeParallel has done when it returns: the *)
(* iterations are divided without a gap or an overlap, whatever their      *)
(* number, and no work is lost between its place in the division and the   *)
(* thread that does it.                                                    *)
(***************************************************************************)
EXTENDS ParallelTask, Barrier_proofs, SequenceTheorems, WellFoundedInduction

ScenarioOK == scenario \in Scenarios

\* No more works than processors, and each is one of the callers.
LEMMA WorksAreCallers ==
    ASSUME ScenarioOK
    PROVE  0..NrThreads - 1 \in SUBSET Callers
<1>1. NrProcs \in Nat
  BY BarrierAssumption, FS_CardinalityType DEF NrProcs
<1>2. scenario.size \in Nat /\ MinThreadSize \in Nat \ {0}
  BY ParallelAssumption DEF ScenarioOK
<1>3. scenario.size \div MinThreadSize \in Int
  BY <1>2
<1>4. MaxNrThreads(scenario.size) \in Int /\ MaxNrThreads(scenario.size) <= NrProcs
  BY <1>1, <1>3 DEF MaxNrThreads, Least
<1>5. NrThreads \in Int /\ NrThreads <= NrProcs
  BY <1>1, <1>4, ParallelAssumption DEF NrThreads
<1>. QED BY <1>1, <1>5, ParallelAssumption

\* One step for each action of the task.
LEMMA TaskStep ==
    ASSUME ScenarioOK, [Next]_vars
    PROVE  [BarrierNext]_barrierVars /\ ScenarioOK'
<1>1. CASE executeParallel
  BY <1>1, WorksAreCallers DEF executeParallel, BarrierNext, ScenarioOK
<1>2. CASE addWork
  BY <1>2 DEF addWork, ScenarioOK
<1>3. CASE RunOwn
  BY <1>3 DEF RunOwn, ScenarioOK
<1>4. CASE Finish
  BY <1>4 DEF Finish, ScenarioOK
<1>5. CASE Stop
  BY <1>5 DEF Stop, ScenarioOK
<1>6. CASE OtherStarts \/ OtherEnds \/ WriteEnds
  BY <1>6 DEF OtherStarts, OtherEnds, WriteEnds, ScenarioOK
<1>7. CASE \E isok \in BOOLEAN : Store(isok)
  BY <1>7 DEF Store, parallelVars, ScenarioOK
<1>8. ASSUME NEW w \in Callers, AtBarrier(w)
      PROVE  [BarrierNext]_barrierVars /\ ScenarioOK'
  BY <1>8 DEF AtBarrier, BarrierNext, parallelVars, ScenarioOK
<1>9. ASSUME NEW w \in Callers, EndAtBarrier(w)
      PROVE  [BarrierNext]_barrierVars /\ ScenarioOK'
  BY <1>9 DEF EndAtBarrier, EndRun, ScenarioOK
<1>10. ASSUME NEW w \in Callers, Announce(w) \/ Submit(w) \/ Resume(w) \/ EndStore(w)
       PROVE  [BarrierNext]_barrierVars /\ ScenarioOK'
  BY <1>10 DEF Announce, Submit, Resume, EndStore, EndRun, parallelVars, ScenarioOK
<1>11. CASE UNCHANGED vars
  BY <1>11 DEF vars, parallelVars, ScenarioOK
<1>. QED BY <1>1, <1>2, <1>3, <1>4, <1>5, <1>6, <1>7, <1>8, <1>9, <1>10, <1>11
         DEF Next, DoWork

\* ParallelTask uses the Barrier as the Barrier's own specification says.
THEOREM TaskUsesBarrier == Spec => BarrierSpec
<1>1. Init => BarrierInit /\ ScenarioOK
  BY DEF Init, ScenarioOK
<1>2. ScenarioOK /\ [Next]_vars => ScenarioOK' /\ [BarrierNext]_barrierVars
  BY TaskStep
<1>. QED BY <1>1, <1>2, PTL DEF Spec, BarrierSpec

\* Barrier::waitForAll as the works of a task call it: the rounds are separate, for any
\* number of processors, any division of the task and whatever else the pool does.
THEOREM TaskRoundsAreSeparate == Spec => []RoundsAreSeparate
BY TaskUsesBarrier, RoundsAreSeparateCorrect

-----------------------------------------------------------------------------
(***************************************************************************)
(* Sequences and least numbers                                             *)
(***************************************************************************)
LEMMA LeastExists ==
    ASSUME NEW S, S \subseteq Nat, S # {}
    PROVE  \E n \in S : \A k \in S : n <= k
<1> DEFINE R == OpToRel(<, Nat)
<1>1. IsWellFoundedOn(R, Nat)
  BY NatLessThanWellFounded
<1> HIDE DEF R
<1>2. PICK n \in S : \A k \in S : ~(<<k, n>> \in R)
  BY <1>1, WFMin
<1>3. \A k \in S : ~(k < n)
  BY <1>2 DEF R, OpToRel
<1> QED BY <1>3

\* RemoveAt takes out one element and moves the later ones forward.
LEMMA RemoveAtProperties ==
    ASSUME NEW S, NEW s \in Seq(S), NEW i \in 1..Len(s)
    PROVE  /\ RemoveAt(s, i) \in Seq(S)
           /\ Len(RemoveAt(s, i)) = Len(s) - 1
           /\ \A j \in 1..Len(s)-1 :
                 RemoveAt(s, i)[j] = IF j < i THEN s[j] ELSE s[j+1]
<1> DEFINE p == SubSeq(s, 1, i-1)
           r == SubSeq(s, i+1, Len(s))
<1>1. /\ Len(s) \in Nat
      /\ \A j \in 1..Len(s) : s[j] \in S
  BY LenProperties, ElementOfSeq
<1>2. /\ p \in Seq(S) /\ Len(p) = i-1 /\ \A j \in 1..i-1 : p[j] = s[j]
  <2>1. \A j \in 1..i-1 : s[j] \in S
    BY <1>1
  <2>2. /\ p \in Seq(S)
        /\ Len(p) = IF 1 <= i-1 THEN (i-1)-1+1 ELSE 0
        /\ \A j \in 1..(i-1)-1+1 : p[j] = s[1+j-1]
    <3> HIDE DEF p
    <3>1. i-1 \in Int
      BY <1>1
    <3> QED  BY <2>1, <3>1, SubSeqProperties DEF p
  <2> HIDE DEF p
  <2> QED  BY <1>1, <2>2
<1>3. /\ r \in Seq(S) /\ Len(r) = Len(s)-i
      /\ \A j \in 1..Len(s)-i : r[j] = s[j+i]
  <2>1. \A j \in i+1..Len(s) : s[j] \in S
    BY <1>1
  <2>2. /\ r \in Seq(S)
        /\ Len(r) = IF i+1 <= Len(s) THEN Len(s)-(i+1)+1 ELSE 0
        /\ \A j \in 1..Len(s)-(i+1)+1 : r[j] = s[(i+1)+j-1]
    <3>1. i+1 \in Int /\ Len(s) \in Int
      BY <1>1
    <3> QED  BY <2>1, <3>1, SubSeqProperties
  <2> HIDE DEF r
  <2>3. \A j \in 1..Len(s)-i : (i+1)+j-1 = j+i /\ j \in 1..Len(s)-(i+1)+1
    BY <1>1
  <2> QED  BY <1>1, <2>2, <2>3
<1>4. RemoveAt(s, i) = p \o r
  BY DEF RemoveAt
<1> HIDE DEF p, r
<1>5. /\ p \o r \in Seq(S)
      /\ Len(p \o r) = Len(p) + Len(r)
      /\ \A j \in 1..Len(p) + Len(r) :
            (p \o r)[j] = IF j <= Len(p) THEN p[j] ELSE r[j - Len(p)]
  BY <1>2, <1>3, ConcatProperties
<1>6. \A j \in 1..Len(s)-1 :
         (p \o r)[j] = IF j < i THEN s[j] ELSE s[j+1]
  <2> SUFFICES ASSUME NEW j \in 1..Len(s)-1
               PROVE  (p \o r)[j] = IF j < i THEN s[j] ELSE s[j+1]
    OBVIOUS
  <2>1. CASE j < i
    <3>1. j \in 1..i-1 /\ j \in 1..Len(p) + Len(r) /\ j <= Len(p)
      BY <1>1, <1>2, <1>3, <2>1
    <3> QED  BY <2>1, <3>1, <1>2, <1>5
  <2>2. CASE ~(j < i)
    <3>1. /\ j \in 1..Len(p) + Len(r) /\ ~(j <= Len(p))
          /\ j - Len(p) \in 1..Len(s)-i
          /\ (j - Len(p)) + i = j + 1
      BY <1>1, <1>2, <1>3, <2>2
    <3> QED  BY <2>2, <3>1, <1>3, <1>5
  <2> QED  BY <2>1, <2>2
<1>7. Len(p \o r) = Len(s) - 1
  BY <1>1, <1>2, <1>3, <1>5
<1> QED  BY <1>4, <1>5, <1>6, <1>7

-----------------------------------------------------------------------------
(***************************************************************************)
(* The order in which traces are stored.  Traces are announced in order,   *)
(* so that announcedtraces_ always holds the last ones; what has gone to   *)
(* the queue was announced before those, waits there in order, and comes   *)
(* after what is being stored and has been stored.  A queue of which       *)
(* nothing is being done has no work waiting while a thread is free: it is *)
(* that which allows a trace to be given to a free thread at once.         *)
(***************************************************************************)
Item == {"write", "work"} \X Nat

\* The first trace that has not gone to the queue.
Foremost == nexttrace - Len(announced)

StoreTypes ==
    /\ nexttrace \in Nat
    /\ Foremost \in Nat \ {0}
    /\ announced \in Seq(Nat)
    /\ workload \in Seq(Item)
    /\ writing \in Nat
    /\ reported \in BOOLEAN
    /\ written \in Seq(Nat)
    /\ uirv \in BOOLEAN
    /\ next \in Nat
    /\ free \in Nat
    /\ reported => writing # 0

AnnouncedInv == \A i \in 1..Len(announced) : announced[i] = Foremost + i - 1

IsTrace(k, t) == IsWrite(workload[k]) /\ workload[k][2] = t

QueuedInv ==
    /\ \A k \in 1..Len(workload) : IsWrite(workload[k]) =>
          /\ writing < workload[k][2] /\ workload[k][2] < Foremost
          /\ \A i \in 1..Len(written) : written[i] < workload[k][2]
    /\ \A k, l \in 1..Len(workload) :
          k < l /\ IsWrite(workload[k]) /\ IsWrite(workload[l])
              => workload[k][2] < workload[l][2]

\* A trace is being stored, and the Storer is not done with it.
BeingStored == writing # 0 /\ ~reported

StoringInv ==
    /\ writing < Foremost
    /\ \A i \in 1..Len(written) :
          written[i] < Foremost /\ (BeingStored => written[i] < writing)

OrderInv == \A i, j \in 1..Len(written) : i < j => written[i] < written[j]

\* The number of traces whose storing has begun.
Begun == IF BeingStored THEN Len(written) + 1 ELSE Len(written)

CompleteInv ==
    uirv =>
        /\ \A i \in 1..Len(written) : written[i] = i
        /\ BeingStored => writing = Begun
        /\ Begun < Foremost
        /\ \A t \in Begun + 1..Foremost - 1 :
              \E k \in 1..Len(workload) : IsTrace(k, t)

IdleInv ==
    free > 0 => \A k \in 1..Len(workload) : IsWrite(workload[k]) /\ writing # 0

StoreInv ==
    /\ StoreTypes /\ AnnouncedInv /\ QueuedInv /\ StoringInv /\ OrderInv
    /\ CompleteInv /\ IdleInv

LEMMA StoreInit == Init => StoreInv
<1> SUFFICES ASSUME Init PROVE StoreInv
  OBVIOUS
<1>1. /\ nexttrace = 1 /\ announced = <<>> /\ workload = <<>> /\ writing = 0
      /\ reported = FALSE /\ written = <<>> /\ uirv = TRUE /\ next = 1
  BY DEF Init, StorerInit
<1>2. free \in Nat
  <2>1. NrProcs \in Nat
    BY BarrierAssumption, FS_CardinalityType DEF NrProcs
  <2> QED BY <2>1 DEF Init, PoolSize
<1>3. Foremost = 1
  BY <1>1 DEF Foremost
<1>4. Begun = 0 /\ ~BeingStored
  BY <1>1 DEF Begun, BeingStored
<1>5. StoreTypes
  <2>1. <<>> \in Seq(Nat) /\ <<>> \in Seq(Item)
    OBVIOUS
  <2>2. uirv \in BOOLEAN /\ reported \in BOOLEAN /\ (reported => writing # 0)
    BY <1>1
  <2> QED BY <1>1, <1>2, <1>3, <2>1, <2>2 DEF StoreTypes
<1>6. AnnouncedInv /\ QueuedInv /\ OrderInv /\ IdleInv
  BY <1>1 DEF AnnouncedInv, QueuedInv, OrderInv, IdleInv
<1>7. StoringInv /\ CompleteInv
  BY <1>1, <1>3, <1>4 DEF StoringInv, CompleteInv
<1> QED BY <1>5, <1>6, <1>7 DEF StoreInv

\* What is stored is in order, and complete while nothing has failed.
LEMMA StoreInOrder == StoreInv => WrittenInOrder
BY LenProperties DEF StoreInv, StoreTypes, OrderInv, CompleteInv, WrittenInOrder

\* Steps that leave the traces alone.
Others == UNCHANGED <<nexttrace, announced, written, uirv>> /\ next' \in Nat

LEMMA StoreKept ==
    ASSUME StoreInv, Others, UNCHANGED <<workload, writing, reported>>,
           free' \in Nat, free' <= free
    PROVE  StoreInv'
<1> USE DEF Others
<1>1. Foremost' = Foremost /\ Begun' = Begun /\ BeingStored' = BeingStored
  BY DEF Foremost, Begun, BeingStored
<1>2. StoreTypes'
  BY <1>1 DEF StoreInv, StoreTypes
<1>3. IdleInv'
  BY DEF StoreInv, StoreTypes, IdleInv
<1> QED BY <1>1, <1>2, <1>3
       DEF StoreInv, AnnouncedInv, QueuedInv, StoringInv, OrderInv, CompleteInv, IsTrace

-----------------------------------------------------------------------------
(***************************************************************************)
(* A pool thread asks for more                                             *)
(***************************************************************************)

\* The thread has done another work, or the one that stored a trace is done with it.
ThreadIsDone ==
    \/ UNCHANGED <<writing, reported>>
    \/ reported /\ reported' = FALSE /\ writing' = 0

LEMMA DoneStoring ==
    ASSUME StoreInv, Others, ThreadIsDone
    PROVE  /\ Foremost' = Foremost /\ Begun' = Begun /\ BeingStored' = BeingStored
           /\ writing' \in Nat /\ writing' <= writing /\ reported' \in BOOLEAN
           /\ BeingStored => writing' = writing
           /\ reported' => writing' # 0
<1>1. Foremost' = Foremost /\ written' = written
  BY DEF Foremost, Others
<1>2. writing \in Nat /\ reported \in BOOLEAN /\ (reported => writing # 0)
  BY DEF StoreInv, StoreTypes
<1>3. CASE UNCHANGED <<writing, reported>>
  BY <1>1, <1>2, <1>3 DEF Begun, BeingStored
<1>4. CASE reported /\ reported' = FALSE /\ writing' = 0
  <2>1. BeingStored = FALSE /\ BeingStored' = FALSE
    BY <1>4 DEF BeingStored
  <2>2. Begun' = Begun
    BY <1>1, <2>1 DEF Begun
  <2>3. writing' \in Nat /\ writing' <= writing
    BY <1>2, <1>4
  <2>4. reported' \in BOOLEAN /\ ~reported'
    BY <1>4
  <2> QED BY <1>1, <2>1, <2>2, <2>3, <2>4
<1> QED BY <1>3, <1>4 DEF ThreadIsDone

LEMMA NothingToDo ==
    ASSUME StoreInv, Others, ThreadIsDone, workload' = workload, free' = free + 1,
           \A k \in 1..Len(workload) : IsWrite(workload[k]) /\ writing' # 0
    PROVE  StoreInv'
<1> USE DEF Others
<1>1. /\ Foremost' = Foremost /\ Begun' = Begun /\ BeingStored' = BeingStored
      /\ writing' \in Nat /\ writing' <= writing /\ reported' \in BOOLEAN
      /\ BeingStored => writing' = writing
      /\ reported' => writing' # 0
  BY DoneStoring
<1>2. StoreTypes'
  BY <1>1 DEF StoreInv, StoreTypes
<1>3. /\ Foremost \in Nat /\ writing \in Nat
      /\ \A k \in 1..Len(workload) : workload[k][2] \in Nat
  BY ElementOfSeq, LenProperties DEF StoreInv, StoreTypes, Item
<1>4. QueuedInv'
  <2>1. \A k \in 1..Len(workload) : writing < workload[k][2] => writing' < workload[k][2]
    BY <1>1, <1>3
  <2> QED BY <1>1, <2>1 DEF StoreInv, QueuedInv, Others
<1>5. StoringInv'
  BY <1>1, <1>3 DEF StoreInv, StoringInv
<1>6. IdleInv'
  BY DEF IdleInv
<1> QED BY <1>1, <1>2, <1>4, <1>5, <1>6
       DEF StoreInv, AnnouncedInv, OrderInv, CompleteInv, IsTrace

\* A work that is not the storing of a trace is taken.
LEMMA TakesOther ==
    ASSUME StoreInv, Others, ThreadIsDone, NEW i \in 1..Len(workload),
           ~IsWrite(workload[i]), workload' = RemoveAt(workload, i), free' = free
    PROVE  StoreInv'
<1> USE DEF Others
<1>1. /\ Foremost' = Foremost /\ Begun' = Begun /\ BeingStored' = BeingStored
      /\ writing' \in Nat /\ writing' <= writing /\ reported' \in BOOLEAN
      /\ BeingStored => writing' = writing
      /\ reported' => writing' # 0
  BY DoneStoring
<1>2. /\ workload \in Seq(Item) /\ Foremost \in Nat /\ writing \in Nat
      /\ Len(workload) \in Nat
      /\ \A k \in 1..Len(workload) : workload[k][2] \in Nat
  BY ElementOfSeq, LenProperties DEF StoreInv, StoreTypes, Item
<1>3. /\ workload' \in Seq(Item) /\ Len(workload') = Len(workload) - 1
      /\ \A k \in 1..Len(workload) - 1 :
            workload'[k] = IF k < i THEN workload[k] ELSE workload[k + 1]
  BY <1>2, RemoveAtProperties
<1> DEFINE Old(k) == IF k < i THEN k ELSE k + 1
<1>4. /\ \A k \in 1..Len(workload') :
            Old(k) \in 1..Len(workload) /\ workload'[k] = workload[Old(k)]
      /\ \A k, l \in 1..Len(workload') : k < l => Old(k) < Old(l)
  BY <1>2, <1>3
<1> HIDE DEF Old
<1>5. StoreTypes'
  BY <1>1, <1>3 DEF StoreInv, StoreTypes
<1>6. QueuedInv'
  <2>1. ASSUME NEW k \in 1..Len(workload'), IsWrite(workload'[k])
        PROVE  /\ writing' < workload'[k][2] /\ workload'[k][2] < Foremost'
               /\ \A j \in 1..Len(written') : written'[j] < workload'[k][2]
    <3>1. PICK m \in 1..Len(workload) : workload'[k] = workload[m]
      BY <1>4
    <3>2. IsWrite(workload[m])
      BY <2>1, <3>1
    <3>3. /\ writing < workload[m][2] /\ workload[m][2] < Foremost
          /\ \A j \in 1..Len(written) : written[j] < workload[m][2]
      BY <3>2 DEF StoreInv, QueuedInv
    <3> QED BY <1>1, <1>2, <3>1, <3>3
  <2>2. ASSUME NEW k \in 1..Len(workload'), NEW l \in 1..Len(workload'), k < l,
               IsWrite(workload'[k]), IsWrite(workload'[l])
        PROVE  workload'[k][2] < workload'[l][2]
    BY <1>4, <2>2 DEF StoreInv, QueuedInv
  <2> QED BY <2>1, <2>2 DEF QueuedInv
<1>7. StoringInv'
  BY <1>1, <1>2 DEF StoreInv, StoringInv
<1>8. CompleteInv'
  <2>1. ASSUME NEW t, NEW k \in 1..Len(workload), IsTrace(k, t)
        PROVE  \E m \in 1..Len(workload') : IsTrace(m, t)'
    <3>1. k # i
      BY <2>1 DEF IsTrace
    <3>2. CASE k < i
      <4>1. k \in 1..Len(workload') /\ workload'[k] = workload[k]
        BY <1>2, <1>3, <3>2
      <4> QED BY <2>1, <4>1 DEF IsTrace
    <3>3. CASE k > i
      <4>1. k - 1 \in 1..Len(workload') /\ workload'[k - 1] = workload[k]
        BY <1>2, <1>3, <3>3
      <4> QED BY <2>1, <4>1 DEF IsTrace
    <3> QED BY <1>2, <3>1, <3>2, <3>3
  <2> HIDE DEF IsTrace
  <2>2. ASSUME uirv
        PROVE  \A t \in Begun + 1..Foremost - 1 : \E m \in 1..Len(workload') : IsTrace(m, t)'
    BY <2>1, <2>2 DEF StoreInv, CompleteInv
  <2> QED BY <1>1, <2>2 DEF StoreInv, CompleteInv
<1>9. IdleInv'
  <2>1. ~(free > 0)
    BY DEF StoreInv, IdleInv
  <2> QED BY <2>1 DEF IdleInv
<1> QED BY <1>1, <1>5, <1>6, <1>7, <1>8, <1>9 DEF StoreInv, AnnouncedInv, OrderInv

\* The trace at the head of the queue is taken, when none is being stored.
LEMMA TakesTrace ==
    ASSUME StoreInv, Others, ~BeingStored, workload # <<>>, IsWrite(workload[1]),
           workload' = RemoveAt(workload, 1), writing' = workload[1][2],
           ~reported', reported' \in BOOLEAN, free' = free
    PROVE  StoreInv'
<1> USE DEF Others
<1>1. /\ workload \in Seq(Item) /\ Foremost \in Nat /\ writing \in Nat
      /\ Len(workload) \in Nat /\ Len(workload) >= 1 /\ Len(written) \in Nat
      /\ \A k \in 1..Len(workload) : workload[k][2] \in Nat
  BY ElementOfSeq, LenProperties, EmptySeq DEF StoreInv, StoreTypes, Item
<1>2. /\ workload' \in Seq(Item) /\ Len(workload') = Len(workload) - 1
      /\ \A k \in 1..Len(workload) - 1 : workload'[k] = workload[k + 1]
  <2>1. 1 \in 1..Len(workload)
    BY <1>1
  <2>2. /\ workload' \in Seq(Item) /\ Len(workload') = Len(workload) - 1
        /\ \A k \in 1..Len(workload) - 1 :
              workload'[k] = IF k < 1 THEN workload[k] ELSE workload[k + 1]
    BY <1>1, <2>1, RemoveAtProperties
  <2> QED BY <1>1, <2>2
<1>3. /\ writing < writing' /\ writing' < Foremost
      /\ \A i \in 1..Len(written) : written[i] < writing'
  BY <1>1 DEF StoreInv, QueuedInv
<1>4. /\ writing' \in Nat /\ writing' # 0
      /\ Foremost' = Foremost /\ BeingStored' /\ Begun' = Begun + 1 /\ Begun = Len(written)
  BY <1>1, <1>3 DEF Foremost, BeingStored, Begun
<1>5. StoreTypes'
  BY <1>2, <1>4 DEF StoreInv, StoreTypes
<1>6. QueuedInv'
  <2>1. \A k \in 1..Len(workload') :
            k + 1 \in 1..Len(workload) /\ workload'[k] = workload[k + 1] /\ 1 < k + 1
    BY <1>1, <1>2
  <2>2. \A k, l \in 1..Len(workload') : k < l => k + 1 < l + 1
    OBVIOUS
  <2>3. ASSUME NEW k \in 1..Len(workload'), IsWrite(workload'[k])
        PROVE  /\ writing' < workload'[k][2] /\ workload'[k][2] < Foremost'
               /\ \A j \in 1..Len(written') : written'[j] < workload'[k][2]
    <3>1. PICK m \in 1..Len(workload) : workload'[k] = workload[m] /\ 1 < m
      BY <2>1
    <3>2. IsWrite(workload[m]) /\ 1 \in 1..Len(workload)
      BY <1>1, <2>3, <3>1
    <3>3. workload[1][2] < workload[m][2] /\ workload[m][2] < Foremost
      BY <3>1, <3>2 DEF StoreInv, QueuedInv
    <3>4. \A j \in 1..Len(written) : written[j] < workload[m][2]
      BY <3>2 DEF StoreInv, QueuedInv
    <3> QED BY <1>4, <3>1, <3>3, <3>4
  <2>4. ASSUME NEW k \in 1..Len(workload'), NEW l \in 1..Len(workload'), k < l,
               IsWrite(workload'[k]), IsWrite(workload'[l])
        PROVE  workload'[k][2] < workload'[l][2]
    BY <2>1, <2>2, <2>4 DEF StoreInv, QueuedInv
  <2> QED BY <2>3, <2>4 DEF QueuedInv
<1>7. StoringInv'
  BY <1>3, <1>4 DEF StoreInv, StoringInv
<1>8. CompleteInv'
  <2> SUFFICES ASSUME uirv PROVE /\ writing' = Begun'
                                 /\ Begun' < Foremost
                                 /\ \A t \in Begun' + 1..Foremost - 1 :
                                       \E m \in 1..Len(workload') : IsTrace(m, t)'
    BY <1>4 DEF StoreInv, CompleteInv
  <2>1. \A t \in Begun + 1..Foremost - 1 : \E k \in 1..Len(workload) : IsTrace(k, t)
    BY DEF StoreInv, CompleteInv
  <2>2. Begun < writing'
    <3>1. CASE Len(written) = 0
      BY <1>4, <3>1
    <3>2. CASE Len(written) > 0
      <4>1. written[Len(written)] = Len(written)
        BY <1>1, <3>2 DEF StoreInv, CompleteInv
      <4> QED BY <1>1, <1>3, <1>4, <3>2, <4>1
    <3> QED BY <1>1, <3>1, <3>2
  <2>3. writing' = Begun + 1
    <3>1. Begun + 1 \in Begun + 1..Foremost - 1
      BY <1>1, <1>3, <1>4, <2>2
    <3>2. PICK k \in 1..Len(workload) : IsTrace(k, Begun + 1)
      BY <2>1, <3>1
    <3>3. k = 1 \/ workload[1][2] < workload[k][2]
      <4>1. 1 \in 1..Len(workload) /\ (k = 1 \/ 1 < k)
        BY <1>1
      <4>2. IsWrite(workload[k])
        BY <3>2 DEF IsTrace
      <4> QED BY <4>1, <4>2 DEF StoreInv, QueuedInv
    <3> QED BY <1>1, <1>4, <2>2, <3>2, <3>3 DEF IsTrace
  <2>4. ASSUME NEW t \in Begun' + 1..Foremost - 1
        PROVE  \E m \in 1..Len(workload') : IsTrace(m, t)'
    <3>1. t \in Begun + 1..Foremost - 1 /\ t # writing'
      BY <1>1, <1>4, <2>3
    <3>2. PICK k \in 1..Len(workload) : IsTrace(k, t)
      BY <2>1, <3>1
    <3>3. k # 1
      BY <3>1, <3>2 DEF IsTrace
    <3>4. k - 1 \in 1..Len(workload') /\ workload'[k - 1] = workload[k]
      BY <1>1, <1>2, <3>3
    <3> QED BY <3>2, <3>4 DEF IsTrace
  <2> QED BY <1>3, <1>4, <2>3, <2>4
<1>9. IdleInv'
  <2>1. ASSUME free > 0, NEW k \in 1..Len(workload') PROVE IsWrite(workload'[k])
    BY <1>1, <1>2, <2>1 DEF StoreInv, IdleInv
  <2> QED BY <1>4, <2>1 DEF IdleInv
<1> QED BY <1>4, <1>5, <1>6, <1>7, <1>8, <1>9 DEF StoreInv, AnnouncedInv, OrderInv

LEMMA AskForMoreStep ==
    ASSUME StoreInv, Others, NEW busy, NEW st, AskForMore(workload, busy, st),
           \/ busy = writing /\ reported' = reported
           \/ busy = 0 /\ reported /\ reported' = FALSE
    PROVE  StoreInv'
<1> DEFINE can == Takeable(workload, busy)
           i == CHOOSE j \in can : \A k \in can : j <= k
<1>1. /\ workload \in Seq(Item) /\ Len(workload) \in Nat /\ writing \in Nat
      /\ DOMAIN workload = 1..Len(workload)
      /\ busy \in Nat
  BY LenProperties DEF StoreInv, StoreTypes
<1>2. busy # 0 => busy = writing
  OBVIOUS
<1>3. can = {k \in 1..Len(workload) : IsWrite(workload[k]) => busy = 0}
  BY <1>1 DEF Takeable
<1>4. CASE can = {}
  <2>1. free' = free + 1 /\ workload' = workload /\ writing' = busy
    BY <1>4 DEF AskForMore
  <2>2. ThreadIsDone
    BY <2>1 DEF ThreadIsDone
  <2>3. \A k \in 1..Len(workload) : IsWrite(workload[k]) /\ writing' # 0
    BY <1>3, <1>4, <2>1
  <2> QED BY <2>1, <2>2, <2>3, NothingToDo
<1>5. CASE can # {}
  <2>1. /\ workload' = RemoveAt(workload, i)
        /\ writing' = IF IsWrite(workload[i]) THEN workload[i][2] ELSE busy
        /\ free' = free
    BY <1>5 DEF AskForMore
  <2>2. i \in can /\ \A k \in can : i <= k
    <3>1. \E j \in can : \A k \in can : j <= k
      <4>1. can \subseteq Nat
        BY <1>1, <1>3
      <4> HIDE DEF can
      <4> QED BY <1>5, <4>1, LeastExists
    <3> QED BY <3>1
  <2> HIDE DEF i
  <2>3. CASE ~IsWrite(workload[i])
    <3>1. ThreadIsDone
      BY <2>1, <2>3 DEF ThreadIsDone
    <3>2. i \in 1..Len(workload)
      BY <1>3, <2>2
    <3> HIDE DEF can
    <3> QED BY <2>1, <2>3, <3>1, <3>2, TakesOther
  <2>4. CASE IsWrite(workload[i])
    <3>1. busy = 0 /\ i \in 1..Len(workload)
      BY <1>3, <2>2, <2>4
    <3>2. i = 1
      <4>1. 1 \in can
        BY <1>1, <1>3, <3>1
      <4> QED BY <1>1, <2>2, <3>1, <4>1
    <3>3. ~BeingStored
      BY <3>1 DEF BeingStored
    <3>4. reported' = FALSE
      BY <3>1 DEF StoreInv, StoreTypes
    <3>5. workload # <<>>
      BY <1>1, <3>1
    <3> HIDE DEF can
    <3> QED BY <2>1, <2>4, <3>2, <3>3, <3>4, <3>5, TakesTrace
  <2> QED BY <2>3, <2>4
<1> QED BY <1>4, <1>5

-----------------------------------------------------------------------------
(***************************************************************************)
(* Traces are announced and submitted, and works are queued                *)
(***************************************************************************)

\* addWork puts a work of the task in the queue when no thread is free.
LEMMA QueuesWork ==
    ASSUME StoreInv, Others, UNCHANGED <<writing, reported, free>>, free = 0,
           workload' = Append(workload, <<"work", next>>)
    PROVE  StoreInv'
<1> USE DEF Others
<1>1. Foremost' = Foremost /\ Begun' = Begun /\ BeingStored' = BeingStored
  BY DEF Foremost, Begun, BeingStored
<1>2. /\ workload \in Seq(Item) /\ <<"work", next>> \in Item /\ Len(workload) \in Nat
  BY LenProperties DEF StoreInv, StoreTypes, Item
<1>3. /\ workload' \in Seq(Item) /\ Len(workload') = Len(workload) + 1
      /\ \A k \in 1..Len(workload) : workload'[k] = workload[k]
      /\ workload'[Len(workload) + 1] = <<"work", next>>
  BY <1>2, AppendProperties
<1>4. \A k \in 1..Len(workload') :
          IsWrite(workload'[k]) => k \in 1..Len(workload) /\ workload'[k] = workload[k]
  BY <1>2, <1>3 DEF IsWrite
<1>5. StoreTypes'
  BY <1>1, <1>3 DEF StoreInv, StoreTypes
<1>6. QueuedInv'
  BY <1>1, <1>4 DEF StoreInv, QueuedInv
<1>7. CompleteInv'
  <2>1. \A t : \A k \in 1..Len(workload) :
            IsTrace(k, t) => k \in 1..Len(workload') /\ IsTrace(k, t)'
    BY <1>2, <1>3 DEF IsTrace
  <2> HIDE DEF IsTrace
  <2> QED BY <1>1, <2>1 DEF StoreInv, CompleteInv
<1>8. IdleInv'
  BY DEF IdleInv
<1> QED BY <1>1, <1>5, <1>6, <1>7, <1>8 DEF StoreInv, AnnouncedInv, StoringInv, OrderInv

LEMMA AnnounceStep ==
    ASSUME StoreInv, announced' = Append(announced, nexttrace), nexttrace' = nexttrace + 1,
           UNCHANGED <<workload, writing, reported, written, uirv, next, free>>
    PROVE  StoreInv'
<1>1. /\ announced \in Seq(Nat) /\ nexttrace \in Nat /\ Len(announced) \in Nat
  BY LenProperties DEF StoreInv, StoreTypes
<1>2. /\ announced' \in Seq(Nat) /\ Len(announced') = Len(announced) + 1
      /\ \A k \in 1..Len(announced) : announced'[k] = announced[k]
      /\ announced'[Len(announced) + 1] = nexttrace
  BY <1>1, AppendProperties
<1>3. Foremost' = Foremost /\ Begun' = Begun /\ BeingStored' = BeingStored
  BY <1>1, <1>2 DEF Foremost, Begun, BeingStored
<1>4. StoreTypes'
  BY <1>1, <1>2, <1>3 DEF StoreInv, StoreTypes
<1>5. AnnouncedInv'
  <2> SUFFICES ASSUME NEW i \in 1..Len(announced') PROVE announced'[i] = Foremost + i - 1
    BY <1>3 DEF AnnouncedInv
  <2>1. CASE i \in 1..Len(announced)
    BY <1>2, <2>1 DEF StoreInv, AnnouncedInv
  <2>2. CASE i = Len(announced) + 1
    BY <1>1, <1>2, <2>2 DEF Foremost
  <2> QED BY <1>1, <1>2, <2>1, <2>2
<1> QED BY <1>3, <1>4, <1>5
       DEF StoreInv, QueuedInv, StoringInv, OrderInv, CompleteInv, IdleInv, IsTrace

\* The traces that can go to the queue are the first that were announced.
LEMMA ReadyInRange ==
    ASSUME announced \in Seq(Nat), NEW out
    PROVE  /\ ReadyIn(out) \in 0..Len(announced)
           /\ ReadyIn(out) < Len(announced) => announced[ReadyIn(out) + 1] \notin out
<1> DEFINE S == {n \in 0..Len(announced) : n < Len(announced) => announced[n + 1] \notin out}
<1>1. Len(announced) \in Nat
  BY LenProperties
<1>2. Len(announced) \in S /\ S \subseteq Nat
  BY <1>1
<1>3. PICK n \in S : \A k \in S : n <= k
  <2> HIDE DEF S
  <2> QED BY <1>2, LeastExists
<1>4. \A i \in 1..n : announced[i] \in out
  <2> SUFFICES ASSUME NEW i \in 1..n, announced[i] \notin out PROVE FALSE
    OBVIOUS
  <2>1. i - 1 \in S
    BY <1>1
  <2>2. i - 1 < n
    BY <1>1, <1>2
  <2>3. n <= i - 1
    <3> HIDE DEF S
    <3> QED BY <1>3, <2>1
  <2> QED BY <1>1, <1>2, <2>2, <2>3
<1>5. \E m \in 0..Len(announced) :
          /\ \A i \in 1..m : announced[i] \in out
          /\ m < Len(announced) => announced[m + 1] \notin out
  BY <1>4
<1> QED BY <1>5 DEF ReadyIn

\* What goes to the queue is the first part of what was announced, as far as it is there.
LEMMA ReadyPart ==
    ASSUME announced \in Seq(Nat), NEW out
    PROVE  /\ Ready(out) \in Seq(Nat) /\ Len(Ready(out)) = ReadyIn(out)
           /\ ReadyIn(out) \in 0..Len(announced)
           /\ \A i \in 1..ReadyIn(out) : Ready(out)[i] = announced[i]
           /\ ReadyIn(out) < Len(announced) => announced[ReadyIn(out) + 1] \notin out
<1> DEFINE m == ReadyIn(out)
<1>1. /\ Len(announced) \in Nat /\ m \in 0..Len(announced)
      /\ m < Len(announced) => announced[m + 1] \notin out
  BY LenProperties, ReadyInRange
<1> HIDE DEF m
<1>2. \A i \in 1..m : announced[i] \in Nat
  BY <1>1, ElementOfSeq
<1>3. /\ SubSeq(announced, 1, m) \in Seq(Nat)
      /\ Len(SubSeq(announced, 1, m)) = (IF 1 <= m THEN m - 1 + 1 ELSE 0)
      /\ \A i \in 1..m - 1 + 1 : SubSeq(announced, 1, m)[i] = announced[1 + i - 1]
  <2>1. 1 \in Int /\ m \in Int
    BY <1>1
  <2> QED BY <1>2, <2>1, SubSeqProperties
<1>4. /\ Len(SubSeq(announced, 1, m)) = m
      /\ \A i \in 1..m : SubSeq(announced, 1, m)[i] = announced[i]
  BY <1>1, <1>3
<1> QED BY <1>1, <1>3, <1>4 DEF Ready, m

LEMMA ReadyTraces ==
    ASSUME StoreInv, NEW out
    PROVE  /\ Ready(out) \in Seq(Nat) /\ Len(Ready(out)) \in 0..Len(announced)
           /\ \A i \in 1..Len(Ready(out)) : Ready(out)[i] = Foremost + i - 1
<1> DEFINE n == Len(Ready(out))
<1>1. announced \in Seq(Nat) /\ Len(announced) \in Nat
  BY LenProperties DEF StoreInv, StoreTypes
<1>2. /\ Ready(out) \in Seq(Nat) /\ n \in 0..Len(announced)
      /\ \A i \in 1..n : Ready(out)[i] = announced[i]
  BY <1>1, ReadyPart
<1> HIDE DEF n
<1>3. \A i \in 1..n : announced[i] = Foremost + i - 1
  BY <1>1, <1>2 DEF StoreInv, AnnouncedInv
<1> QED BY <1>2, <1>3 DEF n

\* A list of traces with consecutive numbers goes to the queue; or the first of
\* them is given to a free thread, where nothing is waiting.
LEMMA TracesQueued ==
    ASSUME StoreInv, UNCHANGED <<nexttrace, reported, written, uirv, next>>,
           announced' \in Seq(Nat), Foremost' \in Nat,
           AnnouncedInv',
           NEW q \in Seq(Item), NEW base \in Nat,
           \A j \in 1..Len(q) : q[j] = <<"write", base + j - 1>>,
           base + Len(q) = Foremost',
           workload' = workload \o q,
           \/ base = Foremost /\ writing' = writing /\ free' = free
              /\ (free > 0 /\ writing = 0 => q = <<>>)
           \/ /\ base = Foremost + 1 /\ writing' = Foremost /\ writing = 0
              /\ free > 0 /\ free' = free - 1
    PROVE  StoreInv'
<1>1. /\ workload \in Seq(Item) /\ Len(workload) \in Nat /\ Len(q) \in Nat
      /\ Len(written) \in Nat
      /\ Foremost \in Nat \ {0} /\ writing \in Nat /\ free \in Nat
      /\ Foremost' \in Nat /\ base \in Nat /\ base + Len(q) = Foremost'
  BY LenProperties DEF StoreInv, StoreTypes
<1>12. /\ \A k \in 1..Len(workload) : workload[k][2] \in Nat
       /\ \A i \in 1..Len(written) : written[i] \in Nat
  <2>1. written \in Seq(Nat) /\ workload \in Seq(Item)
    BY DEF StoreInv, StoreTypes
  <2>2. \A i \in 1..Len(written) : written[i] \in Nat
    BY <2>1, ElementOfSeq
  <2>3. \A k \in 1..Len(workload) : workload[k] \in Item
    BY <2>1, ElementOfSeq
  <2> QED BY <2>2, <2>3 DEF Item
<1>2. /\ workload' \in Seq(Item) /\ Len(workload') = Len(workload) + Len(q)
      /\ \A k \in 1..Len(workload) + Len(q) :
            workload'[k] = IF k <= Len(workload) THEN workload[k] ELSE q[k - Len(workload)]
  BY <1>1, ConcatProperties
<1>3. /\ \A k \in 1..Len(workload) : k \in 1..Len(workload') /\ workload'[k] = workload[k]
      /\ \A k \in 1..Len(workload') :
            \/ k \in 1..Len(workload)
            \/ /\ Len(workload) < k
               /\ workload'[k] = <<"write", base + (k - Len(workload)) - 1>>
               /\ k - Len(workload) \in 1..Len(q)
      /\ \A j \in 1..Len(q) : /\ Len(workload) + j \in 1..Len(workload')
                              /\ workload'[Len(workload) + j] = <<"write", base + j - 1>>
  <2>0. /\ Len(workload) \in Nat /\ Len(q) \in Nat
        /\ Len(workload') = Len(workload) + Len(q)
    BY <1>1, <1>2
  <2>1. \A k \in 1..Len(workload) : k \in 1..Len(workload') /\ workload'[k] = workload[k]
    BY ONLY <1>1, <1>2
  <2>2. \A j \in 1..Len(q) :
            /\ Len(workload) + j \in 1..Len(workload')
            /\ ~(Len(workload) + j <= Len(workload))
            /\ (Len(workload) + j) - Len(workload) = j
    BY ONLY <1>1, <1>2
  <2>3. \A j \in 1..Len(q) : workload'[Len(workload) + j] = <<"write", base + j - 1>>
    BY <1>2, <2>2
  <2>4. ASSUME NEW k \in 1..Len(workload'), k \notin 1..Len(workload)
        PROVE  /\ Len(workload) < k
               /\ k - Len(workload) \in 1..Len(q)
               /\ Len(workload) + (k - Len(workload)) = k
    BY ONLY <2>0, <2>4, k \in 1..Len(workload')
  <2> QED BY <2>1, <2>2, <2>3, <2>4
<1>4. base = Foremost \/ (base = Foremost + 1 /\ writing = 0 /\ workload = <<>>)
  <2>1. ASSUME free > 0, writing = 0 PROVE workload = <<>>
    <3>1. \A k \in 1..Len(workload) : FALSE
      BY <2>1 DEF StoreInv, IdleInv
    <3>2. Len(workload) = 0
      BY <1>1, <3>1
    <3> QED BY <1>1, <3>2, EmptySeq
  <2> QED BY <2>1
<1>5. /\ writing <= writing' /\ writing' \in Nat /\ writing' < base /\ writing' < Foremost'
      /\ Foremost <= base /\ base <= Foremost'
      /\ reported => writing' = writing
      /\ writing' = writing \/ writing' = Foremost
  BY <1>1 DEF StoreInv, StoreTypes, StoringInv
<1>6. \A i \in 1..Len(written) : written[i] < Foremost
  BY DEF StoreInv, StoringInv
<1>7. StoreTypes'
  <2>1. reported' => writing' # 0
    BY <1>5 DEF StoreInv, StoreTypes
  <2>2. Foremost' \in Nat \ {0} /\ free' \in Nat
    BY <1>1, <1>5
  <2> QED BY <1>2, <1>5, <2>1, <2>2 DEF StoreInv, StoreTypes
<1>8. QueuedInv'
  <2>1. ASSUME NEW k \in 1..Len(workload'), IsWrite(workload'[k])
        PROVE  /\ writing' < workload'[k][2] /\ workload'[k][2] < Foremost'
               /\ \A i \in 1..Len(written') : written'[i] < workload'[k][2]
    <3>1. CASE k \in 1..Len(workload)
      <4>1. workload'[k] = workload[k] /\ IsWrite(workload[k])
        BY <1>3, <2>1, <3>1
      <4>2. writing' = writing
        <5>1. workload # <<>>
          BY <1>1, <3>1
        <5> QED BY <1>1, <1>4, <5>1
      <4>3. /\ writing < workload[k][2] /\ workload[k][2] < Foremost
            /\ \A i \in 1..Len(written) : written[i] < workload[k][2]
        BY <3>1, <4>1 DEF StoreInv, QueuedInv
      <4>4. workload[k][2] < Foremost'
        <5>1. workload[k][2] \in Nat
          BY <1>12, <3>1
        <5> QED BY ONLY <1>1, <1>5, <4>3, <5>1
      <4> QED BY <4>1, <4>2, <4>3, <4>4
    <3>2. CASE k \notin 1..Len(workload)
      <4>1. PICK j \in 1..Len(q) : workload'[k] = <<"write", base + j - 1>>
        BY <1>3, <3>2
      <4>2. workload'[k][2] = base + j - 1
        BY <4>1
      <4>3. base + j - 1 < Foremost' /\ base <= base + j - 1
        BY ONLY <1>1, j \in 1..Len(q)
      <4>5. \A i \in 1..Len(written) : written[i] < base + j - 1
        BY ONLY <1>1, <1>5, <1>6, <1>12, j \in 1..Len(q)
      <4>6. writing' < base + j - 1
        BY ONLY <1>1, <1>5, j \in 1..Len(q)
      <4> QED BY <4>2, <4>3, <4>5, <4>6
    <3> QED BY <3>1, <3>2
  <2>2. ASSUME NEW k \in 1..Len(workload'), NEW l \in 1..Len(workload'), k < l,
               IsWrite(workload'[k]), IsWrite(workload'[l])
        PROVE  workload'[k][2] < workload'[l][2]
    <3>1. CASE k \in 1..Len(workload) /\ l \in 1..Len(workload)
      BY <1>3, <2>2, <3>1 DEF StoreInv, QueuedInv
    <3>2. CASE k \in 1..Len(workload) /\ l \notin 1..Len(workload)
      <4>1. workload'[k] = workload[k] /\ IsWrite(workload[k])
        BY <1>3, <2>2, <3>2
      <4>2. workload[k][2] < Foremost
        BY <3>2, <4>1 DEF StoreInv, QueuedInv
      <4>3. PICK j \in 1..Len(q) : workload'[l] = <<"write", base + j - 1>>
        BY <1>3, <3>2
      <4>4. workload'[l][2] = base + j - 1
        BY <4>3
      <4>5. workload[k][2] \in Nat
        BY <1>12, <3>2
      <4>6. workload[k][2] < base + j - 1
        BY ONLY <1>1, <1>5, <4>2, <4>5, j \in 1..Len(q)
      <4> QED BY <4>1, <4>4, <4>6
    <3>3. CASE k \notin 1..Len(workload)
      <4>1. l \notin 1..Len(workload)
        BY <1>1, <1>2, <2>2, <3>3
      <4>2. /\ workload'[k] = <<"write", base + (k - Len(workload)) - 1>>
            /\ workload'[l] = <<"write", base + (l - Len(workload)) - 1>>
        BY <1>3, <3>3, <4>1
      <4>3. /\ workload'[k][2] = base + (k - Len(workload)) - 1
            /\ workload'[l][2] = base + (l - Len(workload)) - 1
        BY <4>2
      <4> QED BY ONLY <1>1, <1>2, <2>2, <4>3, k \in 1..Len(workload'), l \in 1..Len(workload')
    <3> QED BY <3>1, <3>2, <3>3
  <2> QED BY <2>1, <2>2 DEF QueuedInv
<1>9. StoringInv'
  <2> SUFFICES ASSUME NEW i \in 1..Len(written)
               PROVE  written[i] < Foremost' /\ (BeingStored' => written[i] < writing')
    BY <1>5 DEF StoringInv
  <2>1. written[i] < Foremost'
    <3>1. written[i] \in Nat /\ written[i] < Foremost
      BY <1>6, <1>12
    <3> QED BY ONLY <1>1, <1>5, <3>1
  <2>2. ASSUME BeingStored' PROVE written[i] < writing'
    <3>1. CASE writing' = writing
      <4>1. BeingStored
        BY <2>2, <3>1 DEF BeingStored
      <4> QED BY <3>1, <4>1 DEF StoreInv, StoringInv
    <3>2. CASE writing' = Foremost
      BY <1>6, <3>2
    <3> QED BY <1>5, <3>1, <3>2
  <2> QED BY <2>1, <2>2
<1>10. CompleteInv'
  <2> SUFFICES ASSUME uirv
               PROVE  /\ BeingStored' => writing' = Begun'
                      /\ Begun' < Foremost'
                      /\ \A t \in Begun' + 1..Foremost' - 1 :
                            \E m \in 1..Len(workload') : IsTrace(m, t)'
    BY DEF StoreInv, CompleteInv
  <2>1. ASSUME NEW t, NEW k \in 1..Len(workload), IsTrace(k, t)
        PROVE  \E m \in 1..Len(workload') : IsTrace(m, t)'
    BY <1>3, <2>1 DEF IsTrace
  <2>2. ASSUME NEW t \in base..Foremost' - 1
        PROVE  \E m \in 1..Len(workload') : IsTrace(m, t)'
    <3>1. t - base + 1 \in 1..Len(q) /\ base + (t - base + 1) - 1 = t
      <4>1. PICK fore \in Nat : fore = Foremost'
        BY <1>1
      <4>2. Len(q) \in Nat /\ base \in Nat /\ base + Len(q) = fore
        BY <1>1, <4>1
      <4>3. t \in base..fore - 1
        BY <4>1
      <4>4. PICK n \in Nat : n = Len(q)
        BY <4>2
      <4> QED BY ONLY <4>2, <4>3, <4>4, fore \in Nat, n \in Nat
    <3>2. PICK j \in 1..Len(q) : base + j - 1 = t
      BY <3>1
    <3>3. workload'[Len(workload) + j] = <<"write", t>>
      BY <1>3, <3>2
    <3>4. IsWrite(workload'[Len(workload) + j]) /\ workload'[Len(workload) + j][2] = t
      BY <3>3 DEF IsWrite
    <3> QED BY <1>3, <3>4 DEF IsTrace
  <2>3. /\ BeingStored => writing = Begun
        /\ Begun < Foremost
        /\ \A t \in Begun + 1..Foremost - 1 : \E k \in 1..Len(workload) : IsTrace(k, t)
    BY DEF StoreInv, CompleteInv
  <2>4. CASE base = Foremost
    <3>1. writing' = writing
      BY <1>1, <2>4
    <3>2. Begun' = Begun /\ BeingStored' = BeingStored /\ Begun \in Nat
      BY <1>1, <3>1 DEF Begun, BeingStored
    <3>3. \A t \in Begun + 1..Foremost' - 1 :
              t \in Begun + 1..Foremost - 1 \/ t \in base..Foremost' - 1
      <4> SUFFICES ASSUME NEW t \in Begun + 1..Foremost' - 1, t \notin base..Foremost' - 1
                   PROVE  t \in Begun + 1..Foremost - 1
        OBVIOUS
      <4>1. PICK fore \in Nat : fore = Foremost'
        BY <1>1
      <4>2. t \in Begun + 1..fore - 1 /\ t \notin base..fore - 1
        BY <4>1
      <4>3. Begun \in Nat /\ base \in Nat
        BY <1>1, <3>2
      <4> QED BY ONLY <2>4, <4>2, <4>3
    <3>4. Begun < Foremost'
      BY ONLY <1>1, <1>5, <2>3, <3>2
    <3> HIDE DEF IsTrace
    <3>5. \A t \in Begun + 1..Foremost' - 1 : \E m \in 1..Len(workload') : IsTrace(m, t)'
      BY ONLY <2>1, <2>2, <2>3, <3>3
    <3> QED BY ONLY <2>3, <3>1, <3>2, <3>4, <3>5
  <2>5. CASE base = Foremost + 1
    <3>1. writing' = Foremost /\ writing = 0 /\ workload = <<>>
      BY <1>1, <1>4, <2>5
    <3>2. ~BeingStored /\ Begun = Len(written)
      BY <3>1 DEF Begun, BeingStored
    <3>3. BeingStored' /\ Begun' = Begun + 1
      <4>1. reported = FALSE
        BY <3>1 DEF StoreInv, StoreTypes
      <4> QED BY <1>1, <3>1, <3>2, <4>1 DEF Begun, BeingStored
    <3>4. Foremost = Begun + 1
      <4> SUFFICES ASSUME Foremost # Begun + 1 PROVE FALSE
        OBVIOUS
      <4>1. Begun + 1 \in Begun + 1..Foremost - 1
        BY ONLY <1>1, <2>3, <3>2, Foremost # Begun + 1
      <4>2. Len(workload) = 0
        BY <3>1
      <4> QED BY <2>3, <4>1, <4>2
    <3>5. Begun' + 1 = base /\ Begun' < Foremost'
      BY <1>1, <1>5, <2>5, <3>2, <3>3, <3>4
    <3> HIDE DEF IsTrace
    <3> QED BY <2>2, <3>1, <3>3, <3>4, <3>5
  <2> QED BY <1>4, <2>4, <2>5
<1>11. IdleInv'
  <2> SUFFICES ASSUME free' > 0, NEW k \in 1..Len(workload')
               PROVE  IsWrite(workload'[k]) /\ writing' # 0
    BY DEF IdleInv
  <2>1. free > 0
    BY <1>1
  <2>2. CASE k \in 1..Len(workload)
    BY <1>1, <1>3, <1>5, <2>1, <2>2 DEF StoreInv, IdleInv
  <2>3. CASE k \notin 1..Len(workload)
    <3>1. PICK j \in 1..Len(q) : workload'[k] = <<"write", base + j - 1>>
      BY <1>3, <2>3
    <3>3. IsWrite(workload'[k]) /\ q # <<>>
      BY <1>1, <3>1 DEF IsWrite
    <3>2. writing' # 0
      BY <1>1, <2>1, <3>3
    <3> QED BY <3>2, <3>3
  <2> QED BY <2>2, <2>3
<1> QED BY <1>7, <1>8, <1>9, <1>10, <1>11 DEF StoreInv, OrderInv

\* WriteItems makes one work for each trace, in order.
LEMMA WriteItemsOf ==
    ASSUME NEW ts \in Seq(Nat)
    PROVE  /\ WriteItems(ts) \in Seq(Item) /\ Len(WriteItems(ts)) = Len(ts)
           /\ \A j \in 1..Len(ts) : WriteItems(ts)[j] = <<"write", ts[j]>>
<1>1. /\ DOMAIN ts = 1..Len(ts) /\ Len(ts) \in Nat
      /\ \A j \in 1..Len(ts) : ts[j] \in Nat
  BY LenProperties, ElementOfSeq
<1>2. \A j \in 1..Len(ts) : WriteItems(ts)[j] = <<"write", ts[j]>> /\ <<"write", ts[j]>> \in Item
  BY <1>1 DEF WriteItems, Item
<1>3. WriteItems(ts) \in [1..Len(ts) -> Item]
  BY <1>1, <1>2 DEF WriteItems
<1>4. WriteItems(ts) \in Seq(Item)
  BY <1>1, <1>3, SeqDef
<1>5. Len(WriteItems(ts)) = Len(ts)
  BY <1>1, <1>3, <1>4, LenProperties
<1> QED BY <1>2, <1>4, <1>5

LEMMA SubmitStep ==
    ASSUME StoreInv, NEW s, NEW now \in BOOLEAN, submitTrace(s, now), next' = next,
           now => free > 0,
           ~now /\ free > 0 /\ writing = 0 => Ready(outputs \cup {hold[s]}) = <<>>,
           free' = IF now THEN free - 1 ELSE free
    PROVE  StoreInv'
<1> DEFINE out == outputs \cup {hold[s]}
<1>1. PICK ready : ready = Ready(out)
  OBVIOUS
<1>2. PICK n : n = Len(ready)
  OBVIOUS
<1>3. /\ now => ready # <<>> /\ writing = 0
      /\ announced' = SubSeq(announced, n + 1, Len(announced))
      /\ writing' = IF now THEN Head(ready) ELSE writing
      /\ workload' = workload \o WriteItems(IF now THEN Tail(ready) ELSE ready)
      /\ UNCHANGED <<nexttrace, reported, written, uirv>>
  BY <1>1, <1>2 DEF submitTrace, iterateBuffer
<1>4. PICK fore \in Nat : fore = Foremost /\ fore > 0
  BY DEF StoreInv, StoreTypes
<1>5. /\ ready \in Seq(Nat) /\ n \in 0..Len(announced)
      /\ \A i \in 1..n : ready[i] = fore + i - 1
  BY <1>1, <1>2, <1>4, ReadyTraces
<1>6. /\ announced \in Seq(Nat) /\ Len(announced) \in Nat /\ nexttrace \in Nat
      /\ fore = nexttrace - Len(announced)
  BY <1>4, LenProperties DEF StoreInv, StoreTypes, Foremost
<1> HIDE DEF out
<1>7. /\ announced' \in Seq(Nat) /\ Len(announced') = Len(announced) - n
      /\ \A i \in 1..Len(announced) - n : announced'[i] = announced[n + i]
  <2>1. \A i \in n + 1..Len(announced) : announced[i] \in Nat
    BY <1>5, <1>6, ElementOfSeq
  <2>2. n + 1 \in Int /\ Len(announced) \in Int
    BY <1>5, <1>6
  <2>3. /\ SubSeq(announced, n + 1, Len(announced)) \in Seq(Nat)
        /\ Len(SubSeq(announced, n + 1, Len(announced)))
              = IF n + 1 <= Len(announced) THEN Len(announced) - (n + 1) + 1 ELSE 0
        /\ \A i \in 1..Len(announced) - (n + 1) + 1 :
              SubSeq(announced, n + 1, Len(announced))[i] = announced[(n + 1) + i - 1]
    BY <2>1, <2>2, SubSeqProperties
  <2>4. /\ (IF n + 1 <= Len(announced) THEN Len(announced) - (n + 1) + 1 ELSE 0)
              = Len(announced) - n
        /\ Len(announced) - (n + 1) + 1 = Len(announced) - n
    BY ONLY <1>5, <1>6
  <2>5. \A i \in 1..Len(announced) - n : (n + 1) + i - 1 = n + i
    BY ONLY <1>5, <1>6
  <2> QED BY <1>3, <2>3, <2>4, <2>5
<1>8. Foremost' = fore + n
  BY <1>3, <1>5, <1>6, <1>7 DEF Foremost
<1>9. AnnouncedInv'
  <2> SUFFICES ASSUME NEW i \in 1..Len(announced') PROVE announced'[i] = Foremost' + i - 1
    BY DEF AnnouncedInv
  <2>1. i \in 1..Len(announced) - n /\ n + i \in 1..Len(announced)
    BY <1>5, <1>6, <1>7
  <2>2. announced'[i] = fore + (n + i) - 1
    BY <1>4, <1>7, <2>1 DEF StoreInv, AnnouncedInv
  <2> QED BY <1>5, <1>8, <2>1, <2>2
<1>10. /\ announced' \in Seq(Nat) /\ Foremost' \in Nat
  BY <1>5, <1>7, <1>8
<1>11. CASE now
  <2>1. PICK rest : rest = Tail(ready)
    OBVIOUS
  <2>2. /\ rest \in Seq(Nat) /\ Len(rest) = n - 1
        /\ \A j \in 1..n - 1 : rest[j] = ready[j + 1]
        /\ Head(ready) = ready[1] /\ n >= 1
    BY <1>2, <1>3, <1>5, <1>11, <2>1, HeadTailProperties, LenProperties, EmptySeq
  <2>3. PICK q : q = WriteItems(rest)
    OBVIOUS
  <2>4. /\ q \in Seq(Item) /\ Len(q) = n - 1
        /\ \A j \in 1..n - 1 : q[j] = <<"write", (fore + 1) + j - 1>>
    <3>1. \A j \in 1..n - 1 : rest[j] = (fore + 1) + j - 1
      BY <1>5, <2>2
    <3> QED BY <2>2, <2>3, <3>1, WriteItemsOf
  <2>5. writing' = fore /\ writing = 0 /\ free > 0 /\ free' = free - 1
    BY <1>3, <1>5, <1>11, <2>2
  <2>6. workload' = workload \o q
    BY <1>3, <1>11, <2>1, <2>3
  <2>7. fore + 1 \in Nat /\ (fore + 1) + Len(q) = Foremost'
    BY <1>5, <1>8, <2>4
  <2> QED BY <1>3, <1>4, <1>9, <1>10, <2>4, <2>5, <2>6, <2>7, TracesQueued
<1>12. CASE ~now
  <2>1. PICK q : q = WriteItems(ready)
    OBVIOUS
  <2>2. /\ q \in Seq(Item) /\ Len(q) = n
        /\ \A j \in 1..n : q[j] = <<"write", fore + j - 1>>
    BY <1>2, <1>5, <2>1, WriteItemsOf
  <2>3. writing' = writing /\ free' = free /\ workload' = workload \o q
    BY <1>3, <1>12, <2>1
  <2>4. free > 0 /\ writing = 0 => q = <<>>
    <3>1. free > 0 /\ writing = 0 => ready = <<>>
      BY <1>1, <1>12 DEF out
    <3> QED BY <1>2, <2>2, <3>1, EmptySeq
  <2>5. fore + Len(q) = Foremost'
    BY <1>8, <2>2
  <2> QED BY <1>3, <1>4, <1>9, <1>10, <2>2, <2>3, <2>4, <2>5, TracesQueued
<1> QED BY <1>11, <1>12

\* What waits in the queue and is no writing of a trace is a finite set.
LEMMA KeptIsFinite ==
    ASSUME NEW S, NEW load \in Seq(S)
    PROVE  Cardinality({item \in ToSet(load) : ~IsWrite(item)}) \in Nat
<1>1. /\ load \in [1..Len(load) -> ToSet(load)] /\ DOMAIN load = 1..Len(load)
      /\ Len(load) \in Nat
  BY LenProperties DEF ToSet
<1>2. load \in Surjection(1..Len(load), ToSet(load))
  BY <1>1 DEF Surjection, ToSet
<1>3. IsFiniteSet(1..Len(load))
  BY <1>1, FS_Interval
<1>4. IsFiniteSet(ToSet(load))
  BY <1>2, <1>3, FS_Surjection
<1> QED BY <1>4, FS_Subset, FS_CardinalityType

LEMMA ExecuteStep ==
    ASSUME StoreInv, NEW isok \in BOOLEAN, execute(isok), UNCHANGED <<next, free>>
    PROVE  StoreInv'
<1>1. /\ BeingStored /\ reported' = TRUE /\ ~BeingStored'
      /\ UNCHANGED <<nexttrace, announced, writing, next, free>> /\ Foremost' = Foremost
  BY DEF execute, BeingStored, Foremost
<1>2. /\ written \in Seq(Nat) /\ Len(written) \in Nat /\ workload \in Seq(Item)
      /\ writing \in Nat /\ Foremost \in Nat /\ writing # 0 /\ Len(workload) \in Nat
  BY <1>1, LenProperties DEF StoreInv, StoreTypes, BeingStored
<1>3. CASE isok
  <2>1. written' = Append(written, writing) /\ UNCHANGED <<workload, uirv>>
    BY <1>3 DEF execute, reportWrite
  <2>2. /\ written' \in Seq(Nat) /\ Len(written') = Len(written) + 1
        /\ \A i \in 1..Len(written) : written'[i] = written[i]
        /\ written'[Len(written) + 1] = writing
    BY <1>2, <2>1, AppendProperties
  <2>3. Begun' = Begun
    BY <1>1, <2>2 DEF Begun
  <2>4. \A i \in 1..Len(written') :
            \/ i \in 1..Len(written) /\ written'[i] = written[i]
            \/ i = Len(written) + 1 /\ written'[i] = writing
    BY <1>2, <2>2
  <2>5. /\ \A i \in 1..Len(written) : written[i] < writing /\ written[i] < Foremost
        /\ writing < Foremost
    BY <1>1 DEF StoreInv, StoringInv
  <2>6. StoreTypes'
    BY <1>1, <1>2, <2>1, <2>2 DEF StoreInv, StoreTypes
  <2>7. QueuedInv'
    BY <1>1, <2>1, <2>4 DEF StoreInv, QueuedInv
  <2>8. StoringInv'
    BY <1>1, <2>4, <2>5 DEF StoringInv
  <2>9. OrderInv'
    <3> SUFFICES ASSUME NEW i \in 1..Len(written'), NEW j \in 1..Len(written'), i < j
                 PROVE  written'[i] < written'[j]
      BY DEF OrderInv
    <3>1. i \in 1..Len(written) /\ written'[i] = written[i]
      BY <1>2, <2>2
    <3> QED BY <2>4, <2>5, <3>1 DEF StoreInv, OrderInv
  <2>10. CompleteInv'
    <3>1. uirv => writing = Len(written) + 1
      BY <1>1 DEF StoreInv, CompleteInv, Begun
    <3>2. uirv => \A i \in 1..Len(written') : written'[i] = i
      BY <2>4, <3>1 DEF StoreInv, CompleteInv
    <3>3. \A k, t : IsTrace(k, t)' = IsTrace(k, t)
      BY <2>1 DEF IsTrace
    <3> QED BY <1>1, <2>1, <2>3, <3>2, <3>3 DEF StoreInv, CompleteInv
  <2>11. IdleInv'
    BY <1>1, <2>1 DEF StoreInv, IdleInv
  <2> QED BY <1>1, <2>6, <2>7, <2>8, <2>9, <2>10, <2>11 DEF StoreInv, AnnouncedInv
<1>4. CASE ~isok
  <2>1. written' = written /\ uirv' = FALSE /\ workload' \in WithoutWrites(workload)
    BY <1>4 DEF execute, reportWrite
  <2> DEFINE kept == {item \in ToSet(workload) : ~IsWrite(item)}
  <2>2. Cardinality(kept) \in Nat
    BY <1>2, KeptIsFinite
  <2>3. workload' \in [1..Cardinality(kept) -> kept]
    BY <2>1 DEF WithoutWrites, SetToSeqs
  <2>4. \A x \in kept : \E k \in 1..Len(workload) : x = workload[k] /\ ~IsWrite(x) /\ x \in Item
    BY <1>2, LenProperties, ElementOfSeq DEF ToSet
  <2> HIDE DEF kept
  <2>5. /\ workload' \in Seq(Item) /\ Len(workload') = Cardinality(kept)
        /\ \A k \in 1..Len(workload') : workload'[k] \in kept
    <3>1. workload' \in [1..Cardinality(kept) -> Item]
      BY <2>3, <2>4
    <3>2. workload' \in Seq(Item)
      BY <2>2, <3>1, SeqDef
    <3>3. Len(workload') = Cardinality(kept)
      BY <2>2, <2>3, <3>2, LenProperties
    <3> QED BY <2>3, <3>2, <3>3
  <2>6. StoreTypes'
    BY <1>1, <1>2, <2>1, <2>5 DEF StoreInv, StoreTypes
  <2>7. QueuedInv'
    BY <2>4, <2>5 DEF QueuedInv
  <2>8. StoringInv'
    BY <1>1, <2>1 DEF StoreInv, StoringInv
  <2>9. CompleteInv'
    BY <2>1 DEF CompleteInv
  <2>10. IdleInv'
    <3> SUFFICES ASSUME free > 0, NEW k \in 1..Len(workload') PROVE FALSE
      BY <1>1 DEF IdleInv
    <3> QED BY <2>4, <2>5 DEF StoreInv, IdleInv
  <2> QED BY <1>1, <2>1, <2>6, <2>7, <2>8, <2>9, <2>10 DEF StoreInv, AnnouncedInv, OrderInv
<1> QED BY <1>3, <1>4

\* One step for each action of the task.
LEMMA StoreStep ==
    ASSUME StoreInv, [Next]_vars
    PROVE  StoreInv'
<1> USE DEF Others
<1>0. next \in Nat /\ free \in Nat
  BY DEF StoreInv, StoreTypes
<1>1. CASE executeParallel \/ RunOwn \/ Stop
  BY <1>0, <1>1, StoreKept DEF executeParallel, RunOwn, Stop, storerVars
<1>2. CASE Finish
  <2>1. UNCHANGED <<nexttrace, announced, workload, writing, reported, written, uirv, next, free>>
    BY <1>2 DEF Finish, finishWrite, storerVars
  <2> QED BY <1>0, <2>1, StoreKept
<1>3. CASE addWork
  <2>1. CASE workload' = Append(workload, <<"work", next>>)
    BY <1>0, <1>3, <2>1, QueuesWork DEF addWork
  <2>2. CASE workload' = workload /\ free' \in {free, free - 1} /\ free' \in Nat
    BY <1>0, <1>3, <2>2, StoreKept DEF addWork
  <2> QED BY <1>0, <1>3, <2>1, <2>2 DEF addWork
<1>4. CASE OtherStarts
  BY <1>0, <1>4, StoreKept DEF OtherStarts, storerVars
<1>5. CASE OtherEnds
  <2>1. AskForMore(workload, writing, status)
    BY <1>5 DEF OtherEnds
  <2> QED BY <1>0, <1>5, <2>1, AskForMoreStep DEF OtherEnds
<1>6. CASE WriteEnds
  <2>1. AskForMore(workload, 0, status)
    BY <1>6 DEF WriteEnds
  <2> QED BY <1>0, <1>6, <2>1, AskForMoreStep DEF WriteEnds
<1>7. ASSUME NEW isok \in BOOLEAN, Store(isok) PROVE StoreInv'
  BY <1>7, ExecuteStep DEF Store, parallelVars
<1>8. ASSUME NEW w, NEW res, EndRun(w, res) PROVE StoreInv'
  <2>1. CASE ByCaller(w)
    BY <1>0, <1>8, <2>1, StoreKept DEF EndRun
  <2>2. CASE ~ByCaller(w)
    <3>1. AskForMore(workload, writing, [status EXCEPT ![w] = "done"])
      BY <1>8, <2>2 DEF EndRun
    <3> QED BY <1>0, <1>8, <3>1, AskForMoreStep DEF EndRun
  <2> QED BY <2>1, <2>2
<1>9. ASSUME NEW w \in Callers, AtBarrier(w) \/ Resume(w) PROVE StoreInv'
  <2>1. UNCHANGED <<nexttrace, announced, workload, writing, reported, written, uirv, next, free>>
    BY <1>9 DEF AtBarrier, Resume, ResumeSubmit, storerVars, parallelVars
  <2> QED BY <1>0, <2>1, StoreKept
<1>10. ASSUME NEW w \in Callers, EndAtBarrier(w) \/ EndStore(w) PROVE StoreInv'
  BY <1>8, <1>10 DEF EndAtBarrier, EndStore
<1>11. ASSUME NEW w \in Callers, Announce(w) PROVE StoreInv'
  BY <1>11, AnnounceStep DEF Announce, announceTrace, parallelVars
<1>12. ASSUME NEW w \in Callers, Submit(w) PROVE StoreInv'
  <2>1. PICK now \in BOOLEAN :
            /\ now = (free > 0 /\ writing = 0 /\ Ready(outputs \cup {hold[w]}) # <<>>)
            /\ submitTrace(w, now)
            /\ free' = IF now THEN free - 1 ELSE free
    BY <1>12 DEF Submit
  <2>2. next' = next
    BY <1>12 DEF Submit
  <2> QED BY <2>1, <2>2, SubmitStep
<1>13. CASE UNCHANGED vars
  BY <1>0, <1>13, StoreKept DEF vars, parallelVars, storerVars
<1> QED BY <1>1, <1>2, <1>3, <1>4, <1>5, <1>6, <1>7, <1>9, <1>10, <1>11, <1>12, <1>13
       DEF Next, DoWork

\* SequentialStorer: traces are stored in the order in which they were announced, each once,
\* and without a gap unless the storing of one has failed; for any number of threads that
\* make traces, of pool threads and of other works, and in whatever order they submit.
THEOREM WrittenInOrderCorrect == Spec => []WrittenInOrder
<1>1. Spec => []StoreInv
  BY StoreInit, StoreStep, PTL DEF Spec
<1> QED BY <1>1, StoreInOrder, PTL
-----------------------------------------------------------------------------
(***************************************************************************)
(* How a task is divided.  The parts are dealt from the last thread to the *)
(* first; Cut(k) is where the first k of them end.                         *)
(***************************************************************************)
Dividable(total, n) ==
    /\ total \in Nat \ {0}
    /\ n \in Nat \ {0}
    /\ n = 1 \/ n <= total \div MinThreadSize

Cut(total, n, k) == IF k = 0 THEN 0 ELSE total - (n - k) * (total \div n)

LEMMA Times == \A a, b, d \in Nat : a <= b => a * d <= b * d /\ a * d \in Nat
<1> SUFFICES ASSUME NEW a \in Nat, NEW b \in Nat, NEW d \in Nat, a <= b
             PROVE  a * d <= b * d /\ a * d \in Nat
  OBVIOUS
<1>1. PICK c \in Nat : b = a + c
  <2>1. b - a \in Nat /\ b = a + (b - a)
    OBVIOUS
  <2> QED BY <2>1
<1>2. (a + c) * d = a * d + c * d
  OBVIOUS
<1>3. a * d \in Nat /\ c * d \in Nat
  OBVIOUS
<1> QED BY <1>1, <1>2, <1>3

\* A divided task has at least MinThreadSize iterations for each thread.
LEMMA IdealSize ==
    ASSUME NEW total, NEW n, Dividable(total, n), n # 1
    PROVE  /\ total \div n \in Nat
           /\ total \div n >= MinThreadSize
           /\ n * (total \div n) <= total
<1> DEFINE ideal == total \div n
           most == total \div MinThreadSize
<1>1. total \in Nat /\ n \in Nat \ {0} /\ MinThreadSize \in Nat \ {0} /\ n <= most
  BY ParallelAssumption DEF Dividable
<1>2. ideal \in Nat /\ n * ideal <= total /\ total < n * ideal + n
  BY <1>1
<1>3. most \in Nat /\ MinThreadSize * most <= total
  BY <1>1
<1> HIDE DEF ideal, most
<1>4. n * MinThreadSize <= most * MinThreadSize
  BY <1>1, <1>3, Times
<1>5. n * MinThreadSize <= total
  BY <1>1, <1>3, <1>4
<1>6. ideal >= MinThreadSize
  <2> SUFFICES ASSUME ideal + 1 <= MinThreadSize PROVE FALSE
    BY <1>1, <1>2
  <2>1. (ideal + 1) * n <= MinThreadSize * n
    BY <1>1, <1>2, Times
  <2>2. (ideal + 1) * n = n * ideal + n /\ MinThreadSize * n = n * MinThreadSize
    BY <1>1, <1>2
  <2> QED BY <1>1, <1>2, <1>5, <2>1, <2>2
<1> QED BY <1>2, <1>6 DEF ideal

\* The parts are adjacent, none is empty, and the last ends at total.
LEMMA Cuts ==
    ASSUME NEW total, NEW n, Dividable(total, n)
    PROVE  /\ \A k \in 0..n : Cut(total, n, k) \in Nat /\ Cut(total, n, k) <= total
           /\ \A j, k \in 0..n : j < k => Cut(total, n, j) < Cut(total, n, k)
           /\ Cut(total, n, 0) = 0 /\ Cut(total, n, n) = total
<1>1. total \in Nat \ {0} /\ n \in Nat \ {0}
  BY DEF Dividable
<1>2. CASE n = 1
  <2>1. Cut(total, n, 0) = 0 /\ Cut(total, n, 1) = total
    BY <1>1, <1>2 DEF Cut
  <2>2. 0..n = {0, 1}
    BY <1>2
  <2> QED BY <1>1, <1>2, <2>1, <2>2
<1>3. CASE n # 1
  <2>1. PICK d \in Nat \ {0} : d = total \div n /\ n * d <= total
    BY <1>3, IdealSize, ParallelAssumption
  <2>2. \A k \in 0..n : (n - k) * d \in Nat /\ (n - k) * d <= n * d
    <3> TAKE k \in 0..n
    <3>1. n - k \in Nat /\ n - k <= n /\ n \in Nat
      BY <1>1
    <3> QED BY <2>1, <3>1, Times
  <2>3. \A k \in 1..n : Cut(total, n, k) = total - (n - k) * d
    BY <1>1, <2>1 DEF Cut
  <2>4. Cut(total, n, 0) = 0
    BY DEF Cut
  <2>5. \A k \in 0..n : Cut(total, n, k) \in Nat /\ Cut(total, n, k) <= total
    <3> TAKE k \in 0..n
    <3>1. CASE k = 0
      BY <1>1, <2>4, <3>1
    <3>2. CASE k # 0
      <4>1. k \in 1..n
        BY <1>1, <3>2
      <4>2. (n - k) * d \in Nat /\ (n - k) * d <= total
        <5>1. n * d \in Nat
          BY <1>1, <2>1
        <5> QED BY <1>1, <2>1, <2>2, <5>1
      <4> QED BY <1>1, <2>3, <4>1, <4>2
    <3> QED BY <3>1, <3>2
  <2>6. ASSUME NEW j \in 0..n, NEW k \in 0..n, j < k
        PROVE  Cut(total, n, j) < Cut(total, n, k)
    <3>1. k \in 1..n /\ (n - k) + 1 \in Nat /\ n - k \in Nat
      BY <1>1, <2>6
    <3>2. Cut(total, n, k) = total - (n - k) * d
      BY <2>3, <3>1
    <3>3. ((n - k) + 1) * d = (n - k) * d + d
      BY <2>1, <3>1
    <3>4. CASE j = 0
      <4>1. (n - k) + 1 <= n
        BY <1>1, <3>1
      <4>2. ((n - k) + 1) * d <= n * d
        BY <1>1, <2>1, <3>1, <4>1, Times
      <4>3. (n - k) * d \in Nat /\ n * d \in Nat
        BY <1>1, <2>1, <3>1
      <4> QED BY <1>1, <2>1, <2>4, <3>2, <3>3, <3>4, <4>2, <4>3
    <3>5. CASE j # 0
      <4>1. j \in 1..n /\ n - j \in Nat /\ (n - k) + 1 <= n - j
        BY <1>1, <2>6, <3>1, <3>5
      <4>2. ((n - k) + 1) * d <= (n - j) * d
        BY <2>1, <3>1, <4>1, Times
      <4>3. (n - k) * d \in Nat /\ (n - j) * d \in Nat
        BY <2>1, <3>1, <4>1
      <4>4. Cut(total, n, j) = total - (n - j) * d
        BY <2>3, <4>1
      <4> QED BY <1>1, <2>1, <3>2, <3>3, <4>2, <4>3, <4>4
    <3> QED BY <3>4, <3>5
  <2>7. Cut(total, n, n) = total
    <3>1. n \in 1..n /\ (n - n) * d = 0
      BY <1>1, <2>1
    <3> QED BY <1>1, <2>3, <3>1
  <2> QED BY <2>4, <2>5, <2>6, <2>7
<1> QED BY <1>2, <1>3

\* The size of a part.
LEMMA PartSize ==
    ASSUME NEW total, NEW n, Dividable(total, n), NEW k \in 1..n
    PROVE  calculateThreadSize(total, n, n - k)
               = Cut(total, n, k) - Cut(total, n, k - 1)
<1>1. total \in Nat \ {0} /\ n \in Nat \ {0}
  BY DEF Dividable
<1>2. CASE n = 1
  BY <1>1, <1>2 DEF calculateThreadSize, Cut
<1>3. CASE n # 1
  <2>1. PICK d \in Nat \ {0} :
            d = total \div n /\ d >= MinThreadSize /\ n * d <= total
    BY <1>3, IdealSize, ParallelAssumption
  <2>2. MinThreadSize \in Nat
    BY ParallelAssumption
  <2>3. n - k \in Nat /\ (n - k) * d \in Nat
    BY <1>1, <2>1
  <2> DEFINE idx == n - k
             start == idx * d
             nextstart == IF idx = n - 1 THEN total ELSE Least(start + d, total)
  <2>4. calculateThreadSize(total, n, idx) =
            IF nextstart <= start THEN 0 ELSE nextstart - start
    BY <1>3, <2>1, <2>2 DEF calculateThreadSize
  <2>5. CASE k = 1
    <3>1. idx = n - 1 /\ nextstart = total
      BY <1>1, <2>5
    <3>2. (idx + 1) * d = idx * d + d /\ idx + 1 = n
      BY <1>1, <2>1, <2>3, <3>1
    <3>3. start \in Nat /\ start + d <= total
      BY <1>1, <2>1, <2>3, <3>2
    <3>4. Cut(total, n, k) = total - start /\ Cut(total, n, k - 1) = 0
      BY <2>1, <2>5 DEF Cut
    <3> HIDE DEF start, nextstart
    <3> QED BY <1>1, <2>1, <2>4, <3>1, <3>3, <3>4
  <2>6. CASE k # 1
    <3>1. idx # n - 1 /\ idx + 1 <= n - 1 /\ idx \in Nat /\ k - 1 \in 1..n
      BY <1>1, <2>6
    <3>2. (idx + 1) * d = idx * d + d
      BY <1>1, <2>1, <2>3
    <3>3. (idx + 1) * d <= n * d
      BY <1>1, <2>1, <3>1, Times
    <3>4. start \in Nat /\ start + d <= total
      BY <1>1, <2>1, <2>3, <3>2, <3>3
    <3>5. nextstart = start + d
      BY <1>1, <2>1, <3>1, <3>4 DEF Least
    <3>6. /\ Cut(total, n, k) = total - idx * d
          /\ Cut(total, n, k - 1) = total - (n - (k - 1)) * d
      BY <1>1, <2>1, <2>6, <3>1 DEF Cut
    <3>7. n - (k - 1) = idx + 1
      BY <1>1
    <3>8. Cut(total, n, k - 1) = total - (start + d)
      BY <3>2, <3>6, <3>7
    <3> HIDE DEF start, nextstart
    <3>9. Cut(total, n, k) = total - start
      BY <3>6 DEF start
    <3> QED BY <1>1, <2>1, <2>4, <3>4, <3>5, <3>8, <3>9
  <2> QED BY <2>5, <2>6
<1> QED BY <1>2, <1>3

\* One step of the loop of Divided, and what it has made after the first k.
NoneDealt == [start |-> 0, runners |-> <<>>, tasks |-> <<>>]

Deal(total, n, acc, idx) ==
    LET size == calculateThreadSize(total, n, idx) IN
    IF acc.start >= total \/ size = 0 THEN acc
    ELSE [start   |-> acc.start + size,
          runners |-> Append(acc.runners, acc.start..acc.start + size - 1),
          tasks   |-> Append(acc.tasks, idx + 1)]

Dealt(total, n, k) ==
    [start   |-> Cut(total, n, k),
     runners |-> [j \in 1..k |-> Cut(total, n, j - 1)..Cut(total, n, j) - 1],
     tasks   |-> [j \in 1..k |-> (n - j) + 1]]

\* f is the fold over the sets of D, as the community module defines it.
IsFold(total, n, D, f) ==
    f = [s \in D |-> IF s = {} THEN NoneDealt
                     ELSE Deal(total, n, f[s \ {Max(s)}], [k \in 1..n |-> n - k][Max(s)])]

LEMMA MaxOfInterval == \A k \in Nat \ {0} : Max(1..k) = k /\ (1..k) \ {k} = 1..k - 1
<1> TAKE k \in Nat \ {0}
<1>1. k \in 1..k /\ \A y \in 1..k : k >= y
  OBVIOUS
<1>2. PICK x : x = Max(1..k)
  OBVIOUS
<1>3. x \in 1..k /\ \A y \in 1..k : x >= y
  BY <1>1, <1>2 DEF Max
<1> QED BY <1>1, <1>2, <1>3

LEMMA MaxIsLast ==
    ASSUME NEW m \in Nat, NEW s \in SUBSET (1..m + 1), s # {}
    PROVE  s \ {Max(s)} \in SUBSET (1..m) /\ Max(s) \in s
<1>1. \E x \in s : \A y \in s : x >= y
  <2> DEFINE below == {(m + 1) - x : x \in s}
  <2>1. below \subseteq Nat /\ below # {}
    <3>1. \A x \in s : (m + 1) - x \in Nat
      OBVIOUS
    <3>2. \A x \in s : (m + 1) - x \in below
      OBVIOUS
    <3> QED BY <3>1, <3>2
  <2> HIDE DEF below
  <2>2. PICK b \in below : \A c \in below : b <= c
    <3>1. \E b \in below : \A c \in below : b <= c
      BY <2>1, LeastExists
    <3> QED BY <3>1
  <2>3. PICK x \in s : b = (m + 1) - x
    BY <2>2 DEF below
  <2>4. \A y \in s : (m + 1) - x <= (m + 1) - y
    BY <2>2, <2>3 DEF below
  <2>5. \A y \in s : x >= y
    BY <2>4
  <2> QED BY <2>5
<1>2. PICK x : x = Max(s)
  OBVIOUS
<1>3. x \in s /\ \A y \in s : x >= y
  BY <1>1, <1>2 DEF Max
<1>4. \A y \in s \ {x} : y \in 1..m
  BY <1>3
<1> QED BY <1>2, <1>3, <1>4

LEMMA FoldExists ==
    ASSUME NEW total, NEW n
    PROVE  \A m \in Nat : \E f : IsFold(total, n, SUBSET (1..m), f)
<1> DEFINE bad == {m \in Nat : ~ \E f : IsFold(total, n, SUBSET (1..m), f)}
<1> SUFFICES ASSUME bad # {} PROVE FALSE
  OBVIOUS
<1>1. PICK m \in bad : \A k \in bad : m <= k
  <2>1. bad \subseteq Nat
    OBVIOUS
  <2> HIDE DEF bad
  <2>2. \E m \in bad : \A k \in bad : m <= k
    BY <2>1, LeastExists
  <2> QED BY <2>2
<1>2. m \in Nat /\ ~ \E f : IsFold(total, n, SUBSET (1..m), f)
  BY <1>1
<1>3. m # 0
  <2> SUFFICES ASSUME m = 0 PROVE FALSE
    OBVIOUS
  <2> DEFINE f == [s \in SUBSET (1..0) |-> NoneDealt]
  <2>1. \A s \in SUBSET (1..0) : s = {}
    OBVIOUS
  <2>2. IsFold(total, n, SUBSET (1..0), f)
    BY <2>1 DEF IsFold
  <2> HIDE DEF f
  <2> QED BY <1>2, <2>2
<1>4. m - 1 \in Nat /\ (m - 1) + 1 = m
  BY <1>2, <1>3
<1>5. PICK g : IsFold(total, n, SUBSET (1..m - 1), g)
  <2>1. ~(m <= m - 1)
    BY <1>2
  <2>2. m - 1 \notin bad
    BY <1>1, <2>1
  <2> QED BY <1>4, <2>2
<1> DEFINE step(h, s) ==
               IF s = {} THEN NoneDealt
               ELSE Deal(total, n, h[s \ {Max(s)}], [k \in 1..n |-> n - k][Max(s)])
           f == [s \in SUBSET (1..m) |-> step(g, s)]
<1>6. \A s \in SUBSET (1..m - 1) : g[s] = step(g, s)
  BY <1>5 DEF IsFold
<1>7. \A s \in SUBSET (1..m - 1) : f[s] = g[s]
  <2> TAKE s \in SUBSET (1..m - 1)
  <2>1. s \in SUBSET (1..m)
    BY <1>2
  <2>2. f[s] = step(g, s)
    BY <2>1
  <2> HIDE DEF f, step
  <2> QED BY <1>6, <2>2
<1> HIDE DEF f
<1>8. \A s \in SUBSET (1..m) : step(g, s) = step(f, s)
  <2> TAKE s \in SUBSET (1..m)
  <2>1. CASE s = {}
    BY <2>1
  <2>2. CASE s # {}
    <3>1. s \ {Max(s)} \in SUBSET (1..m - 1)
      BY <1>4, <2>2, MaxIsLast
    <3>2. f[s \ {Max(s)}] = g[s \ {Max(s)}]
      BY <1>7, <3>1
    <3> QED BY <3>2
  <2> QED BY <2>1, <2>2
<1>9. f = [s \in SUBSET (1..m) |-> step(f, s)]
  <2> HIDE DEF step
  <2> QED BY <1>8 DEF f
<1>10. IsFold(total, n, SUBSET (1..m), f)
  BY <1>9 DEF IsFold
<1> QED BY <1>2, <1>10

LEMMA DividedIsFold ==
    ASSUME NEW total, NEW n \in Nat
    PROVE  \E f : IsFold(total, n, SUBSET (1..n), f) /\ Divided(total, n) = f[1..n]
<1> DEFINE c == CHOOSE f : IsFold(total, n, SUBSET (1..n), f)
<1>1. IsFold(total, n, SUBSET (1..n), c)
  BY FoldExists
<1>2. Divided(total, n) = c[1..n]
  BY DEF Divided, FoldLeft, MapThenFoldSet, IsFold, Deal, NoneDealt
<1> QED BY <1>1, <1>2

\* Nobody is left without a part, and the parts come one after another.
LEMMA DividedIsDealt ==
    ASSUME NEW total, NEW n, Dividable(total, n)
    PROVE  Divided(total, n) = Dealt(total, n, n)
<1>1. total \in Nat \ {0} /\ n \in Nat \ {0}
  BY DEF Dividable
<1>2. PICK f : IsFold(total, n, SUBSET (1..n), f) /\ Divided(total, n) = f[1..n]
  BY <1>1, DividedIsFold
<1> DEFINE bad == {k \in 0..n : f[1..k] # Dealt(total, n, k)}
<1>3. bad = {}
  <2> SUFFICES ASSUME bad # {} PROVE FALSE
    OBVIOUS
  <2>1. PICK k \in bad : \A l \in bad : k <= l
    <3>1. bad \subseteq Nat
      OBVIOUS
    <3> HIDE DEF bad
    <3>2. \E k \in bad : \A l \in bad : k <= l
      BY <3>1, LeastExists
    <3> QED BY <3>2
  <2>2. k \in 0..n /\ f[1..k] # Dealt(total, n, k)
    BY <2>1
  <2>3. 1..k \in SUBSET (1..n)
    BY <1>1, <2>2
  <2>4. CASE k = 0
    <3>1. 1..k = {}
      BY <2>4
    <3>2. f[1..k] = NoneDealt
      BY <1>2, <2>3, <3>1 DEF IsFold
    <3>3. Dealt(total, n, k) = NoneDealt
      <4>1. [j \in 1..k |-> Cut(total, n, j - 1)..Cut(total, n, j) - 1] = <<>>
        BY <3>1
      <4>2. [j \in 1..k |-> (n - j) + 1] = <<>>
        BY <3>1
      <4>3. Cut(total, n, k) = 0
        BY <2>4 DEF Cut
      <4> QED BY <4>1, <4>2, <4>3 DEF Dealt, NoneDealt
    <3> QED BY <2>2, <3>2, <3>3
  <2>5. CASE k # 0
    <3>1. k \in 1..n /\ k \in Nat \ {0} /\ k - 1 \in 0..n /\ 1..k # {}
      BY <1>1, <2>2, <2>5
    <3>2. Max(1..k) = k /\ (1..k) \ {k} = 1..k - 1
      BY <3>1, MaxOfInterval
    <3>3. [i \in 1..n |-> n - i][k] = n - k
      BY <3>1
    <3>4. f[1..k] = Deal(total, n, f[1..k - 1], n - k)
      BY <1>2, <2>3, <3>1, <3>2, <3>3 DEF IsFold
    <3>5. f[1..k - 1] = Dealt(total, n, k - 1)
      <4>1. ~(k <= k - 1)
        BY <3>1
      <4>2. k - 1 \notin bad
        BY <2>1, <4>1
      <4> QED BY <3>1, <4>2
    <3>6. PICK acc : acc = Dealt(total, n, k - 1)
      OBVIOUS
    <3>7. PICK a, b \in Nat :
              /\ a = Cut(total, n, k - 1) /\ b = Cut(total, n, k)
              /\ a < b /\ b <= total
      <4>1. k - 1 < k
        BY <3>1
      <4> QED BY <2>2, <3>1, <4>1, Cuts
    <3>8. calculateThreadSize(total, n, n - k) = b - a
      BY <3>1, <3>7, PartSize
    <3>9. acc.start = a
      BY <3>6, <3>7 DEF Dealt
    <3>10. /\ ~(acc.start >= total) /\ b - a # 0
           /\ acc.start + (b - a) = b
      BY <1>1, <3>7, <3>9
    <3>11. Deal(total, n, acc, n - k) =
              [start |-> b, runners |-> Append(acc.runners, a..b - 1),
               tasks |-> Append(acc.tasks, (n - k) + 1)]
      <4>1. PICK size : size = calculateThreadSize(total, n, n - k)
        OBVIOUS
      <4>2. ~(acc.start >= total \/ size = 0) /\ acc.start + size = b
        BY <3>8, <3>10, <4>1
      <4>3. Deal(total, n, acc, n - k) =
                [start |-> acc.start + size,
                 runners |-> Append(acc.runners, acc.start..acc.start + size - 1),
                 tasks |-> Append(acc.tasks, (n - k) + 1)]
        BY <4>1, <4>2 DEF Deal
      <4>4. acc.start..acc.start + size - 1 = a..b - 1
        <5>1. size = b - a /\ a + (b - a) = b
          BY <3>7, <3>8, <4>1
        <5>2. a..a + size - 1 = a..b - 1
          BY <3>7, <5>1
        <5> QED BY <3>9, <5>2, Zenon
      <4>5. acc.start + size = b
        BY <4>2
      <4> QED BY <4>3, <4>4, <4>5, Zenon
    <3>12. Append(acc.runners, a..b - 1) =
              [j \in 1..k |-> Cut(total, n, j - 1)..Cut(total, n, j) - 1]
      <4> DEFINE part(j) == Cut(total, n, j - 1)..Cut(total, n, j) - 1
                 r == [j \in 1..k - 1 |-> part(j)]
                 q == [j \in 1..k |-> part(j)]
                 S == SUBSET Int
      <4>1. acc.runners = r
        BY <3>6 DEF Dealt
      <4>2. part(k) = a..b - 1
        BY <3>7
      <4>3. \A j \in 1..k : part(j) \in S
        OBVIOUS
      <4> HIDE DEF part, S
      <4>4. r \in Seq(S) /\ Len(r) = k - 1 /\ \A j \in 1..k - 1 : r[j] = part(j)
        BY <3>1, <4>3
      <4>5. q \in Seq(S) /\ Len(q) = k /\ \A j \in 1..k : q[j] = part(j)
        BY <3>1, <4>3
      <4> HIDE DEF r, q
      <4>6. PICK t : t = Append(r, part(k))
        OBVIOUS
      <4>7. /\ t \in Seq(S) /\ Len(t) = k
            /\ \A j \in 1..k - 1 : t[j] = part(j)
            /\ t[k] = part(k)
        <5>1. part(k) \in S
          BY <3>1, <4>3
        <5> QED BY <3>1, <4>4, <4>6, <5>1, AppendProperties
      <4>8. \A j \in 1..Len(t) : t[j] = q[j]
        BY <3>1, <4>5, <4>7
      <4>9. t = q
        BY <4>5, <4>7, <4>8, SeqEqual
      <4> QED BY <4>1, <4>2, <4>6, <4>9 DEF q, part
    <3>13. Append(acc.tasks, (n - k) + 1) = [j \in 1..k |-> (n - j) + 1]
      <4> DEFINE r == [j \in 1..k - 1 |-> (n - j) + 1]
      <4>1. acc.tasks = r
        BY <3>6 DEF Dealt
      <4>2. r \in Seq(Int) /\ Len(r) = k - 1
        BY <1>1, <3>1
      <4>3. Append(r, (n - k) + 1) = [j \in 1..Len(r) + 1 |-> IF j <= Len(r) THEN r[j] ELSE (n - k) + 1]
        BY <1>1, <3>1, <4>2
      <4>4. \A j \in 1..k : (IF j <= Len(r) THEN r[j] ELSE (n - k) + 1) = (n - j) + 1
        BY <1>1, <3>1, <4>2
      <4> HIDE DEF r
      <4>5. 1..Len(r) + 1 = 1..k
        BY <3>1, <4>2
      <4> QED BY <4>1, <4>3, <4>4, <4>5
    <3>14. Deal(total, n, acc, n - k) = Dealt(total, n, k)
      BY <3>7, <3>11, <3>12, <3>13 DEF Dealt
    <3> QED BY <2>2, <3>4, <3>5, <3>6, <3>14
  <2> QED BY <2>4, <2>5
<1>4. n \in 0..n
  BY <1>1
<1> QED BY <1>2, <1>3, <1>4

\* The iterations of work w, and each of them is of one work.
LEMMA IterationsOf ==
    ASSUME NEW total, NEW n, Dividable(total, n), NEW w \in 0..n - 1
    PROVE  Iterations(total, n, w) =
               Cut(total, n, (n - w) - 1)..Cut(total, n, n - w) - 1
<1>1. n \in Nat \ {0}
  BY DEF Dividable
<1>2. w + 1 \in 1..n /\ (n - (w + 1)) + 1 = n - w /\ n - w \in 1..n
  BY <1>1
<1>3. PICK d : d = Dealt(total, n, n)
  OBVIOUS
<1>4. d.tasks[w + 1] = n - w
  BY <1>2, <1>3 DEF Dealt
<1>5. d.runners[n - w] = Cut(total, n, (n - w) - 1)..Cut(total, n, n - w) - 1
  BY <1>2, <1>3 DEF Dealt
<1> QED BY <1>3, <1>4, <1>5, DividedIsDealt DEF Iterations

LEMMA EachIterationOnce ==
    ASSUME NEW total, NEW n, Dividable(total, n), NEW i \in 0..total - 1
    PROVE  \E w \in 0..n - 1 :
               {v \in 0..n - 1 : i \in Iterations(total, n, v)} = {w}
<1>1. total \in Nat \ {0} /\ n \in Nat \ {0} /\ i \in Nat /\ i < total
  BY DEF Dividable
<1> DEFINE C == [k \in 0..n |-> Cut(total, n, k)]
<1>2. /\ \A k \in 0..n : C[k] \in Nat
      /\ \A j, k \in 0..n : j < k => C[j] < C[k]
      /\ C[0] = 0 /\ C[n] = total
  <2>1. \A k \in 0..n : C[k] = Cut(total, n, k)
    OBVIOUS
  <2>2. 0 \in 0..n /\ n \in 0..n
    BY <1>1
  <2> HIDE DEF C
  <2> QED BY <2>1, <2>2, Cuts
<1>3. \A v \in 0..n - 1 : Iterations(total, n, v) = C[(n - v) - 1]..C[n - v] - 1
  <2> TAKE v \in 0..n - 1
  <2>1. (n - v) - 1 \in 0..n /\ n - v \in 0..n
    BY <1>1
  <2> QED BY <2>1, IterationsOf
<1> HIDE DEF C
<1> DEFINE above == {k \in 1..n : i < C[k]}
<1>4. PICK k \in above : \A l \in above : k <= l
  <2>1. above \subseteq Nat /\ n \in above
    BY <1>1, <1>2
  <2> HIDE DEF above
  <2>2. \E k \in above : \A l \in above : k <= l
    BY <2>1, LeastExists
  <2> QED BY <2>2
<1>5. k \in 1..n /\ k - 1 \in 0..n /\ i < C[k] /\ C[k - 1] <= i
  <2>1. k \in 1..n /\ i < C[k]
    BY <1>4
  <2>2. CASE k = 1
    BY <1>1, <1>2, <2>1, <2>2
  <2>3. CASE k # 1
    <3>1. k - 1 \in 1..n /\ ~(k <= k - 1)
      BY <1>1, <2>1, <2>3
    <3>2. ~(i < C[k - 1])
      BY <1>4, <3>1
    <3>3. C[k - 1] \in Nat
      BY <1>2, <3>1
    <3> QED BY <1>1, <2>1, <3>1, <3>2, <3>3
  <2> QED BY <2>2, <2>3
<1>6. n - k \in 0..n - 1 /\ n - (n - k) = k
  BY <1>1, <1>5
<1>7. C[k] \in Nat /\ C[k - 1] \in Nat
  BY <1>1, <1>2, <1>5
<1>8. i \in Iterations(total, n, n - k)
  <2>1. Iterations(total, n, n - k) = C[k - 1]..C[k] - 1
    BY <1>3, <1>6
  <2> QED BY <1>1, <1>5, <1>7, <2>1
<1>9. ASSUME NEW v \in 0..n - 1, i \in Iterations(total, n, v)
      PROVE  v = n - k
  <2>1. PICK l \in 1..n : l = n - v /\ l - 1 \in 0..n /\ v = n - l
    <3>1. n - v \in 1..n /\ (n - v) - 1 \in 0..n /\ v = n - (n - v)
      BY <1>1
    <3> QED BY <3>1
  <2>2. l \in 0..n /\ k \in 0..n
    BY <1>1, <1>5, <2>1
  <2>3. C[l] \in Nat /\ C[l - 1] \in Nat
    BY <1>2, <2>1, <2>2
  <2>4. C[l - 1] <= i /\ i < C[l]
    BY <1>1, <1>3, <1>9, <2>1, <2>3
  <2>5. ~(l <= k - 1)
    <3> SUFFICES ASSUME l <= k - 1 PROVE FALSE
      OBVIOUS
    <3>1. C[l] <= C[k - 1]
      BY <1>2, <1>5, <1>7, <2>2, <2>3
    <3> QED BY <1>1, <1>5, <1>7, <2>3, <2>4, <3>1
  <2>6. ~(k <= l - 1)
    <3> SUFFICES ASSUME k <= l - 1 PROVE FALSE
      OBVIOUS
    <3>1. C[k] <= C[l - 1]
      BY <1>2, <1>7, <2>1, <2>2, <2>3
    <3> QED BY <1>1, <1>5, <1>7, <2>3, <2>4, <3>1
  <2>7. l = k
    BY <1>1, <1>5, <2>1, <2>5, <2>6
  <2> QED BY <2>1, <2>7
<1> QED BY <1>6, <1>8, <1>9

-----------------------------------------------------------------------------
(***************************************************************************)
(* What is done when executeParallel returns.  A work that waits in the    *)
(* queue of the pool is there once and has not begun, so that what is done *)
(* stays done; work 0 is as far as its caller; a trace that was announced  *)
(* and has not gone to the queue is held by a running work or in outputs_, *)
(* and the first of those is held: unless a work has failed there is none  *)
(* when all works are done.                                                *)
(***************************************************************************)
Statuses == {"new", "queued", "running", "done"}

DoneTypes ==
    /\ ScenarioOK
    /\ cpc \in {"start", "add", "inline", "own", "wait", "returned"}
    /\ next \in Nat \ {0}
    /\ status \in [Callers -> Statuses]
    /\ hold \in [Callers -> Nat]
    /\ failed \in BOOLEAN

DivisionInv ==
    /\ cpc = "start" => next = 1
    /\ cpc # "start" =>
           /\ Dividable(scenario.size, nrthreads)
           /\ members = 0..nrthreads - 1 /\ members \subseteq Callers
           /\ next <= nrthreads

\* Work 0 is done by the caller itself, and the others are begun in order.
CallerInv ==
    /\ cpc \in {"start", "add", "inline"} => status[0] = "new"
    /\ cpc = "own" => status[0] = "running"
    /\ cpc \in {"wait", "returned"} => status[0] = "done"
    /\ \A w \in Callers : w >= next => status[w] = "new"

QueuedOnce(load, st) ==
    /\ \A k \in 1..Len(load) : ~IsWrite(load[k]) =>
          load[k][2] \in Callers \ {0} /\ st[load[k][2]] = "queued"
    /\ \A k, l \in 1..Len(load) :
          k < l /\ ~IsWrite(load[k]) /\ ~IsWrite(load[l])
              => load[k][2] # load[l][2]

WaitingInv == QueuedOnce(workload, status)

NoTraces(load) == \A k \in 1..Len(load) : ~IsWrite(load[k])

\* The traces between the announcement and the queue.
HeldInv ==
    \A w \in Callers : hold[w] # 0 =>
        /\ scenario.use = "store" /\ status[w] = "running"
        /\ hold[w] < nexttrace

IsThere(t) == t \in outputs \/ \E w \in Callers : hold[w] = t

TracesInv ==
    /\ nexttrace <= NrTraces + 1
    /\ outputs \subseteq 1..nexttrace - 1
    /\ announced # <<>> => announced[1] \notin outputs
    /\ ~failed => \A i \in 1..Len(announced) : IsThere(announced[i])
    /\ scenario.use = "store" /\ status[0] = "done" /\ ~failed =>
           nexttrace = NrTraces + 1

ReturnedInv ==
    cpc = "returned" =>
        /\ \A w \in members : status[w] = "done"
        /\ scenario.use = "store" =>
               /\ writing = 0
               /\ NoTraces(workload)
               /\ result => written = [i \in 1..NrTraces |-> i]

DoneInv ==
    /\ DoneTypes /\ DivisionInv /\ CallerInv /\ WaitingInv /\ HeldInv
    /\ TracesInv /\ ReturnedInv

\* What is taken from the queue has begun, and the rest waits as before.
LEMMA TakenFromQueue ==
    ASSUME workload \in Seq(Item), NEW st \in [Callers -> Statuses],
           QueuedOnce(workload, st), NEW busy, AskForMore(workload, busy, st)
    PROVE  /\ status' \in [Callers -> Statuses] /\ WaitingInv'
           /\ \A w \in Callers : st[w] # "queued" => status'[w] = st[w]
           /\ NoTraces(workload) => writing' = busy /\ NoTraces(workload)'
<1> DEFINE can == Takeable(workload, busy)
           i == CHOOSE j \in can : \A k \in can : j <= k
<1>1. Len(workload) \in Nat /\ DOMAIN workload = 1..Len(workload)
  BY LenProperties
<1>2. can \subseteq 1..Len(workload)
  BY <1>1 DEF Takeable
<1>3. CASE can = {}
  <2>1. workload' = workload /\ writing' = busy /\ status' = st
    BY <1>3 DEF AskForMore
  <2> QED BY <2>1 DEF WaitingInv, QueuedOnce, NoTraces
<1>4. CASE can # {}
  <2>1. /\ workload' = RemoveAt(workload, i)
        /\ writing' = IF IsWrite(workload[i]) THEN workload[i][2] ELSE busy
        /\ status' = IF IsWrite(workload[i]) THEN st
                     ELSE [st EXCEPT ![workload[i][2]] = "running"]
    BY <1>4 DEF AskForMore
  <2>2. i \in 1..Len(workload)
    <3>1. \E j \in can : \A k \in can : j <= k
      <4>1. can \subseteq Nat
        BY <1>1, <1>2
      <4> HIDE DEF can
      <4> QED BY <1>4, <4>1, LeastExists
    <3>2. i \in can
      BY <3>1
    <3> QED BY <1>2, <3>2
  <2> HIDE DEF can, i
  <2> DEFINE at(j) == IF j < i THEN j ELSE j + 1
  <2>3. /\ workload' \in Seq(Item) /\ Len(workload') = Len(workload) - 1
        /\ \A j \in 1..Len(workload') : workload'[j] = workload[at(j)]
    <3>1. /\ workload' \in Seq(Item) /\ Len(workload') = Len(workload) - 1
          /\ \A j \in 1..Len(workload) - 1 :
                workload'[j] = IF j < i THEN workload[j] ELSE workload[j + 1]
      BY <2>1, <2>2, RemoveAtProperties
    <3> QED BY <3>1
  <2>4. \A j \in 1..Len(workload') : at(j) \in 1..Len(workload) /\ at(j) # i
    BY <1>1, <2>2, <2>3
  <2>5. \A j, k \in 1..Len(workload') : j < k => at(j) < at(k)
    BY <1>1, <2>2, <2>3
  <2> HIDE DEF at
  <2>6. \A k \in 1..Len(workload) : \A l \in 1..Len(workload) :
            ~IsWrite(workload[k]) /\ ~IsWrite(workload[l]) /\ k # l =>
                workload[k][2] # workload[l][2]
    BY <1>1 DEF QueuedOnce
  <2>7. ASSUME ~IsWrite(workload[i])
        PROVE  workload[i][2] \in Callers /\ st[workload[i][2]] = "queued"
    BY <2>2, <2>7 DEF QueuedOnce
  <2>8. status' \in [Callers -> Statuses]
    BY <2>1, <2>7 DEF Statuses
  <2>9. \A w \in Callers : st[w] # "queued" => status'[w] = st[w]
    BY <2>1, <2>7
  <2>10. ASSUME NEW j \in 1..Len(workload'), ~IsWrite(workload'[j])
         PROVE  workload'[j][2] \in Callers \ {0} /\ status'[workload'[j][2]] = "queued"
    <3>1. /\ at(j) \in 1..Len(workload) /\ at(j) # i
          /\ workload'[j] = workload[at(j)] /\ ~IsWrite(workload[at(j)])
      BY <2>3, <2>4, <2>10
    <3>2. workload[at(j)][2] \in Callers \ {0} /\ st[workload[at(j)][2]] = "queued"
      BY <3>1 DEF QueuedOnce
    <3>3. ~IsWrite(workload[i]) => workload[at(j)][2] # workload[i][2]
      BY <2>2, <2>6, <3>1
    <3>4. status'[workload[at(j)][2]] = st[workload[at(j)][2]]
      BY <2>1, <2>7, <3>2, <3>3
    <3> QED BY <3>1, <3>2, <3>4
  <2>11. ASSUME NEW j \in 1..Len(workload'), NEW k \in 1..Len(workload'), j < k,
                ~IsWrite(workload'[j]), ~IsWrite(workload'[k])
         PROVE  workload'[j][2] # workload'[k][2]
    <3>1. at(j) < at(k) /\ at(j) \in 1..Len(workload) /\ at(k) \in 1..Len(workload)
      BY <2>4, <2>5, <2>11
    <3>2. workload'[j] = workload[at(j)] /\ workload'[k] = workload[at(k)]
      BY <2>3
    <3> QED BY <2>11, <3>1, <3>2 DEF QueuedOnce
  <2>12. WaitingInv'
    BY <2>10, <2>11 DEF WaitingInv, QueuedOnce
  <2>13. NoTraces(workload) => writing' = busy /\ NoTraces(workload)'
    BY <2>1, <2>2, <2>3, <2>4 DEF NoTraces
  <2> QED BY <2>8, <2>9, <2>12, <2>13
<1> QED BY <1>3, <1>4

\* Steps that leave all this alone.
Unmoved == UNCHANGED <<scenario, cpc, next, status, hold, failed, nrthreads, members, result>>

Untouched == UNCHANGED <<nexttrace, outputs, announced>>

LEMMA TracesKept ==
    ASSUME DoneInv, Untouched, UNCHANGED <<scenario, hold>>,
           failed' = failed \/ failed', status'[0] = "done" => status[0] = "done"
    PROVE  TracesInv'
<1>1. \A t : IsThere(t)' = IsThere(t)
  BY DEF IsThere, Untouched
<1> QED BY <1>1 DEF DoneInv, TracesInv, Untouched

LEMMA DoneKept ==
    ASSUME DoneInv, Unmoved, Untouched, UNCHANGED <<workload, writing, written>>
    PROVE  DoneInv'
<1>1. TracesInv'
  BY TracesKept DEF Unmoved
<1> QED BY <1>1 DEF Unmoved, Untouched, DoneInv, DoneTypes, ScenarioOK, DivisionInv,
       CallerInv, WaitingInv, HeldInv, ReturnedInv

LEMMA ZeroIsCaller == 0 \in Callers /\ NrProcs \in Nat \ {0} /\ Callers \subseteq Nat
<1>1. NrProcs \in Nat
  BY BarrierAssumption, FS_CardinalityType DEF NrProcs
<1> QED BY <1>1, ParallelAssumption

LEMMA DoneInit == Init => DoneInv
<1> SUFFICES ASSUME Init PROVE DoneInv
  OBVIOUS
<1>1. /\ scenario \in Scenarios /\ cpc = "start" /\ next = 1
      /\ status = [w \in Callers |-> "new"] /\ failed = FALSE
      /\ nexttrace = 1 /\ announced = <<>> /\ outputs = {} /\ workload = <<>>
      /\ hold = [s \in Submitters |-> 0] /\ Submitters = Callers
  BY ParallelAssumption DEF Init, StorerInit
<1>2. DoneTypes
  <2>1. hold \in [Callers -> Nat] /\ status \in [Callers -> Statuses]
    BY <1>1 DEF Statuses
  <2>2. next \in Nat \ {0}
    BY <1>1
  <2>3. failed \in BOOLEAN
    BY DEF Init
  <2> QED BY <1>1, <2>1, <2>2, <2>3 DEF DoneTypes, ScenarioOK
<1>3. DivisionInv /\ WaitingInv /\ HeldInv /\ ReturnedInv
  BY <1>1 DEF DivisionInv, WaitingInv, QueuedOnce, HeldInv, ReturnedInv
<1>4. CallerInv
  BY <1>1, ZeroIsCaller DEF CallerInv
<1>5. TracesInv
  <2>1. NrTraces \in Nat
    BY StorerAssumption
  <2> QED BY <1>1, <1>4, <2>1, ZeroIsCaller DEF TracesInv
<1> QED BY <1>2, <1>3, <1>4, <1>5 DEF DoneInv

LEMMA PrepareDone ==
    ASSUME DoneInv, executeParallel
    PROVE  DoneInv'
<1>1. /\ cpc = "start" /\ cpc' = "add"
      /\ members' = 0..NrThreads - 1 /\ nrthreads' = Cardinality(0..NrThreads - 1)
      /\ 0..NrThreads - 1 # {}
      /\ UNCHANGED <<scenario, next, status, failed, result, storerVars>>
  BY DEF executeParallel, setNrThreads
<1>2. ScenarioOK
  BY DEF DoneInv, DoneTypes
<1>3. /\ MinThreadSize \in Nat \ {0} /\ scenario.size \in Nat \ {0}
      /\ NrProcs \in Nat \ {0}
  BY <1>2, ParallelAssumption, ZeroIsCaller DEF ScenarioOK
<1>4. scenario.size \div MinThreadSize \in Nat
  BY <1>3
<1>5. /\ NrThreads \in Nat \ {0}
      /\ NrThreads = 1 \/ NrThreads <= scenario.size \div MinThreadSize
  BY <1>3, <1>4 DEF NrThreads, MaxNrThreads, Least
<1>6. nrthreads' = NrThreads
  <2>1. Cardinality(0..NrThreads - 1) = NrThreads
    BY <1>5, FS_Interval
  <2> QED BY <1>1, <2>1
<1>7. DivisionInv'
  <2>1. Dividable(scenario.size, NrThreads)
    BY <1>3, <1>5 DEF Dividable
  <2>2. 0..NrThreads - 1 \in SUBSET Callers
    BY <1>2, WorksAreCallers
  <2>3. next <= NrThreads
    BY <1>1, <1>5 DEF DoneInv, DivisionInv
  <2> QED BY <1>1, <1>6, <2>1, <2>2, <2>3 DEF DivisionInv
<1>8. TracesInv'
  BY <1>1, TracesKept DEF storerVars, Untouched
<1> QED BY <1>1, <1>7, <1>8 DEF DoneInv, DoneTypes, ScenarioOK, CallerInv,
       WaitingInv, HeldInv, ReturnedInv, storerVars

LEMMA AddDone ==
    ASSUME StoreInv, DoneInv, addWork
    PROVE  DoneInv'
<1>1. /\ cpc = "add" /\ cpc' \in {"add", "inline"}
      /\ next' = next + 1 /\ next < nrthreads
      /\ UNCHANGED <<scenario, hold, failed, nrthreads, members, result, nexttrace,
                     outputs, announced, writing, written>>
  BY DEF addWork, barrierVars
<1>2. next \in Nat \ {0} /\ status \in [Callers -> Statuses]
  BY DEF DoneInv, DoneTypes
<1>3. next \in Callers /\ Callers \subseteq Nat /\ 0 \in Callers
  <2>1. members = 0..nrthreads - 1 /\ members \subseteq Callers /\ nrthreads \in Nat
    BY <1>1 DEF DoneInv, DivisionInv, Dividable
  <2> QED BY <1>1, <1>2, <2>1, ZeroIsCaller
<1>4. status[next] = "new" /\ status[0] = "new"
  BY <1>1, <1>2, <1>3 DEF DoneInv, CallerInv
<1>5. PICK s \in {"running", "queued"} : status' = [status EXCEPT ![next] = s]
  BY DEF addWork
<1>6. DoneTypes'
  <2>1. status' \in [Callers -> Statuses]
    <3>1. s \in Statuses
      BY DEF Statuses
    <3> QED BY <1>2, <1>5, <3>1
  <2>2. next' \in Nat \ {0}
    BY <1>1, <1>2
  <2> QED BY <1>1, <2>1, <2>2 DEF DoneInv, DoneTypes, ScenarioOK
<1>7. CallerInv'
  <2>1. status'[0] = "new"
    BY <1>2, <1>3, <1>4, <1>5
  <2>2. \A w \in Callers : w >= next' => status'[w] = "new"
    BY <1>1, <1>2, <1>3, <1>5 DEF DoneInv, CallerInv
  <2> QED BY <1>1, <2>1, <2>2 DEF CallerInv
<1>8. WaitingInv'
  <2>1. /\ workload \in Seq(Item) /\ Len(workload) \in Nat
        /\ \A k \in 1..Len(workload) : ~IsWrite(workload[k]) =>
              /\ workload[k][2] # next
              /\ workload[k][2] \in Callers \ {0} /\ status'[workload[k][2]] = "queued"
    BY <1>2, <1>4, <1>5, LenProperties DEF StoreInv, StoreTypes, DoneInv, WaitingInv, QueuedOnce
  <2>2. CASE workload' = workload
    BY <2>1, <2>2 DEF DoneInv, WaitingInv, QueuedOnce
  <2>3. CASE workload' = Append(workload, <<"work", next>>) /\ s = "queued"
    <3>1. /\ Len(workload') = Len(workload) + 1
          /\ \A k \in 1..Len(workload) : workload'[k] = workload[k]
          /\ workload'[Len(workload) + 1] = <<"work", next>>
      <4>1. <<"work", next>> \in Item
        BY <1>2 DEF Item
      <4> QED BY <2>1, <2>3, <4>1, AppendProperties
    <3>2. status'[next] = "queued" /\ next \in Callers \ {0}
      BY <1>2, <1>3, <1>5, <2>3
    <3>3. \A k \in 1..Len(workload') : ~IsWrite(workload'[k]) =>
              workload'[k][2] \in Callers \ {0} /\ status'[workload'[k][2]] = "queued"
      BY <2>1, <3>1, <3>2
    <3>4. ASSUME NEW k \in 1..Len(workload'), NEW l \in 1..Len(workload'), k < l,
                 ~IsWrite(workload'[k]), ~IsWrite(workload'[l])
          PROVE  workload'[k][2] # workload'[l][2]
      <4>1. k \in 1..Len(workload) /\ workload'[k] = workload[k]
        BY <2>1, <3>1, <3>4
      <4>2. CASE l = Len(workload) + 1
        BY <2>1, <3>1, <3>4, <4>1, <4>2
      <4>3. CASE l \in 1..Len(workload)
        BY <3>1, <3>4, <4>1, <4>3 DEF DoneInv, WaitingInv, QueuedOnce
      <4> QED BY <2>1, <3>1, <4>2, <4>3
    <3> QED BY <3>3, <3>4 DEF WaitingInv, QueuedOnce
  <2>4. \/ workload' = workload
        \/ workload' = Append(workload, <<"work", next>>) /\ s = "queued"
    <3>1. status' = [status EXCEPT ![next] = "queued"] => s = "queued"
      BY <1>2, <1>3, <1>5
    <3> QED BY <3>1 DEF addWork
  <2> QED BY <2>2, <2>3, <2>4
<1>9. HeldInv'
  <2>1. \A w \in Callers : hold[w] # 0 => w # next /\ status'[w] = status[w]
    BY <1>2, <1>3, <1>4, <1>5 DEF DoneInv, HeldInv
  <2> QED BY <1>1, <2>1 DEF DoneInv, HeldInv
<1>10. TracesInv'
  <2>1. status'[0] = status[0]
    BY <1>2, <1>3, <1>5
  <2> QED BY <1>1, <2>1, TracesKept DEF Untouched
<1>11. DivisionInv'
  <2>1. nrthreads \in Nat
    BY <1>1 DEF DoneInv, DivisionInv, Dividable
  <2> QED BY <1>1, <1>2, <2>1 DEF DoneInv, DivisionInv
<1> QED BY <1>1, <1>6, <1>7, <1>8, <1>9, <1>10, <1>11 DEF DoneInv, ReturnedInv

LEMMA OwnDone ==
    ASSUME DoneInv, RunOwn
    PROVE  DoneInv'
<1>1. /\ cpc = "add" /\ cpc' = "own" /\ status' = [status EXCEPT ![0] = "running"]
      /\ UNCHANGED <<scenario, next, hold, failed, nrthreads, members, result, nexttrace,
                     outputs, announced, writing, written, workload>>
  BY DEF RunOwn, barrierVars, storerVars
<1>2. next \in Nat \ {0} /\ status \in [Callers -> Statuses]
  BY DEF DoneInv, DoneTypes
<1>3. status'[0] = "running" /\ \A w \in Callers \ {0} : status'[w] = status[w]
  BY <1>1, <1>2, ZeroIsCaller
<1>4. DoneTypes'
  BY <1>1, <1>2 DEF DoneInv, DoneTypes, ScenarioOK, Statuses
<1>5. CallerInv' /\ HeldInv'
  BY <1>1, <1>2, <1>3, ZeroIsCaller DEF DoneInv, CallerInv, HeldInv
<1>6. WaitingInv'
  BY <1>1, <1>3 DEF DoneInv, WaitingInv, QueuedOnce
<1>7. TracesInv'
  BY <1>1, <1>3, TracesKept DEF Untouched
<1> QED BY <1>1, <1>4, <1>5, <1>6, <1>7 DEF DoneInv, DivisionInv, ReturnedInv

LEMMA FinishDone ==
    ASSUME StoreInv, DoneInv, Finish
    PROVE  DoneInv'
<1>1. /\ cpc = "wait" /\ cpc' = "returned" /\ AllFinished
      /\ UNCHANGED <<scenario, next, status, hold, failed, nrthreads, members, nexttrace,
                     announced, writing, written, workload>>
      /\ outputs' \in {outputs, {}}
  BY DEF Finish, barrierVars, storerVars, finishWrite
<1>2. DoneTypes' /\ CallerInv' /\ WaitingInv' /\ HeldInv' /\ DivisionInv'
  BY <1>1 DEF DoneInv, DoneTypes, ScenarioOK, CallerInv, WaitingInv, QueuedOnce, HeldInv,
      DivisionInv
<1>3. \A w \in members : status[w] = "done"
  <2>1. members = 0..nrthreads - 1 /\ nrthreads \in Nat
    BY <1>1 DEF DoneInv, DivisionInv, Dividable
  <2>2. status[0] = "done"
    BY <1>1 DEF DoneInv, CallerInv
  <2> QED BY <1>1, <2>1, <2>2 DEF AllFinished
<1>4. CASE scenario.use # "store"
  <2>1. UNCHANGED outputs
    BY <1>4 DEF Finish, storerVars
  <2>2. TracesInv'
    BY <1>1, <2>1, TracesKept DEF Untouched
  <2> QED BY <1>1, <1>2, <1>3, <1>4, <2>2 DEF DoneInv, ReturnedInv
<1>5. CASE scenario.use = "store"
  <2>1. finishWrite /\ result' = (~failed /\ uirv) /\ outputs' = {}
    BY <1>5 DEF Finish, finishWrite
  <2>2. /\ workload \in Seq(Item) /\ Len(workload) \in Nat
        /\ announced \in Seq(Nat) /\ Len(announced) \in Nat
        /\ written \in Seq(Nat) /\ Len(written) \in Nat
        /\ nexttrace \in Nat
        /\ DOMAIN workload = 1..Len(workload)
    BY LenProperties DEF StoreInv, StoreTypes
  <2>3. writing = 0 /\ NoTraces(workload)
    <3> DEFINE writes == {i \in DOMAIN workload : IsWrite(workload[i])}
    <3>1. writing = 0 /\ Cardinality(writes) = 0
      BY <2>1 DEF finishWrite, Drained, queueSize
    <3>2. IsFiniteSet(writes)
      <4>1. IsFiniteSet(1..Len(workload))
        BY <2>2, FS_Interval
      <4> QED BY <2>2, <4>1, FS_Subset
    <3>3. writes = {}
      <4> HIDE DEF writes
      <4> QED BY <3>1, <3>2, FS_EmptySet
    <3> QED BY <2>2, <3>1, <3>3 DEF NoTraces
  <2>4. \A w \in Callers : hold[w] = 0 \/ w \notin members
    BY <1>3 DEF DoneInv, HeldInv
  <2>5. ~failed => announced = <<>>
    <3> SUFFICES ASSUME ~failed, announced # <<>> PROVE FALSE
      OBVIOUS
    <3>1. 1 \in 1..Len(announced)
      BY <2>2, EmptySeq
    <3>2. IsThere(announced[1]) /\ announced[1] \notin outputs
      BY <3>1 DEF DoneInv, TracesInv
    <3>3. PICK w \in Callers : hold[w] = announced[1]
      BY <3>2 DEF IsThere
    <3>4. announced[1] # 0
      BY <2>2, <3>1 DEF StoreInv, StoreTypes, AnnouncedInv
    <3>5. status[w] = "running"
      BY <3>3, <3>4 DEF DoneInv, HeldInv
    <3>6. w \in members
      <4>1. members = 0..nrthreads - 1 /\ nrthreads \in Nat
        BY <1>1 DEF DoneInv, DivisionInv, Dividable
      <4>2. w < next
        BY <3>5, ZeroIsCaller DEF DoneInv, CallerInv, DoneTypes
      <4>3. next <= nrthreads
        BY <1>1 DEF DoneInv, DivisionInv
      <4> QED BY <4>1, <4>2, <4>3, ZeroIsCaller DEF DoneInv, DoneTypes
    <3> QED BY <1>3, <3>5, <3>6
  <2>6. TracesInv'
    <3>1. ~failed => Len(announced) = 0
      BY <2>5, EmptySeq
    <3> QED BY <1>1, <2>1, <2>2, <3>1 DEF DoneInv, TracesInv
  <2>7. result' => written = [i \in 1..NrTraces |-> i]
    <3> SUFFICES ASSUME ~failed, uirv PROVE written = [i \in 1..NrTraces |-> i]
      BY <2>1
    <3>1. announced = <<>> /\ Len(announced) = 0
      BY <2>2, <2>5, EmptySeq
    <3>2. nexttrace = NrTraces + 1
      BY <1>1, <1>5 DEF DoneInv, CallerInv, TracesInv
    <3>3. Foremost = NrTraces + 1 /\ NrTraces \in Nat
      BY <2>2, <3>1, <3>2, StorerAssumption DEF Foremost
    <3>4. Begun = Len(written) /\ ~BeingStored
      BY <2>3 DEF Begun, BeingStored
    <3>5. /\ \A i \in 1..Len(written) : written[i] = i
          /\ Len(written) < NrTraces + 1
          /\ \A t \in Len(written) + 1..NrTraces :
                \E k \in 1..Len(workload) : IsTrace(k, t)
      <4>1. Foremost - 1 = NrTraces
        BY <3>3
      <4> QED BY <3>3, <3>4, <4>1 DEF StoreInv, CompleteInv
    <3>6. ~ \E t \in Len(written) + 1..NrTraces : TRUE
      BY <2>3, <3>5 DEF NoTraces, IsTrace
    <3>7. Len(written) = NrTraces
      BY <2>2, <3>3, <3>5, <3>6
    <3>8. written = [i \in 1..Len(written) |-> written[i]]
      BY <2>2, LenProperties
    <3> QED BY <3>5, <3>7, <3>8
  <2> QED BY <1>1, <1>2, <1>3, <2>3, <2>6, <2>7 DEF DoneInv, ReturnedInv
<1> QED BY <1>4, <1>5

\* A pool thread has done something else and takes what is next.
LEMMA AskedDone ==
    ASSUME StoreInv, DoneInv, UNCHANGED <<scenario, cpc, next, hold, failed, nrthreads,
                                          members, result, written>>,
           Untouched, NEW busy, busy \in {0, writing}, AskForMore(workload, busy, status)
    PROVE  DoneInv'
<1>1. workload \in Seq(Item) /\ status \in [Callers -> Statuses]
  BY DEF StoreInv, StoreTypes, DoneInv, DoneTypes
<1>2. /\ status' \in [Callers -> Statuses] /\ WaitingInv'
      /\ \A w \in Callers : status[w] # "queued" => status'[w] = status[w]
      /\ NoTraces(workload) => writing' = busy /\ NoTraces(workload)'
  BY <1>1, TakenFromQueue DEF DoneInv, WaitingInv
<1>3. status[0] # "queued" /\ status'[0] = status[0]
  <2>1. status[0] # "queued"
    BY DEF DoneInv, CallerInv, DoneTypes
  <2> QED BY <1>2, <2>1, ZeroIsCaller
<1>4. DoneTypes' /\ DivisionInv' /\ CallerInv' /\ HeldInv'
  BY <1>2, <1>3 DEF DoneInv, DoneTypes, ScenarioOK, DivisionInv, CallerInv, HeldInv, Untouched
<1>5. TracesInv'
  BY <1>3, TracesKept
<1>6. ReturnedInv'
  <2> SUFFICES ASSUME cpc = "returned" PROVE ReturnedInv'
    BY DEF ReturnedInv
  <2>1. members \subseteq Callers /\ \A w \in members : status'[w] = "done"
    BY <1>2 DEF DoneInv, DivisionInv, ReturnedInv
  <2>2. scenario.use = "store" => writing' = 0 /\ NoTraces(workload)'
    BY <1>2 DEF DoneInv, ReturnedInv
  <2> QED BY <2>1, <2>2 DEF DoneInv, ReturnedInv
<1> QED BY <1>2, <1>4, <1>5, <1>6 DEF DoneInv

\* A work that runs is one of the task's, so the task has not returned.
LEMMA RunningIsMember ==
    ASSUME DoneInv, NEW w \in Callers, status[w] = "running"
    PROVE  cpc \notin {"start", "returned"}
<1>1. next \in Nat /\ w \in Nat /\ w < next
  BY ZeroIsCaller DEF DoneInv, DoneTypes, CallerInv
<1>2. cpc # "start"
  <2> SUFFICES ASSUME cpc = "start" PROVE FALSE
    OBVIOUS
  <2>1. next = 1 /\ status[0] = "new"
    BY DEF DoneInv, DivisionInv, CallerInv
  <2> QED BY <1>1, <2>1
<1>3. members = 0..nrthreads - 1 /\ nrthreads \in Nat /\ next <= nrthreads
  BY <1>2 DEF DoneInv, DivisionInv, Dividable
<1>4. w \in members
  BY <1>1, <1>3
<1> QED BY <1>2, <1>4 DEF DoneInv, ReturnedInv

\* A work ends.  Only then the caller goes on, if the work was its own.
LEMMA EndedDone ==
    ASSUME StoreInv, DoneInv, NEW w \in Callers, NEW res \in BOOLEAN, EndRun(w, res),
           status[w] = "running", UNCHANGED <<nrthreads, members>>,
           hold' = [hold EXCEPT ![w] = 0] \/ (hold' = hold /\ hold[w] = 0),
           res /\ scenario.use = "store" => nexttrace > NrTraces,
           res => hold[w] = 0
    PROVE  DoneInv'
<1>1. /\ UNCHANGED <<scenario, next, result, written>> /\ Untouched
      /\ failed' = (failed \/ ~res)
  BY DEF EndRun, Untouched
<1>2. /\ workload \in Seq(Item) /\ nexttrace \in Nat
      /\ status \in [Callers -> Statuses] /\ hold \in [Callers -> Nat] /\ failed \in BOOLEAN
      /\ next \in Nat \ {0} /\ next \in Nat
      /\ cpc \in {"start", "add", "inline", "own", "wait", "returned"}
  BY DEF StoreInv, StoreTypes, DoneInv, DoneTypes
<1>3. PICK st : st = [status EXCEPT ![w] = "done"]
  OBVIOUS
<1>4. /\ st \in [Callers -> Statuses] /\ st[w] = "done"
      /\ \A v \in Callers \ {w} : st[v] = status[v]
  BY <1>2, <1>3 DEF Statuses
<1>5. w = 0 => cpc = "own"
  BY <1>2 DEF DoneInv, CallerInv
<1>6. QueuedOnce(workload, st)
  <2>1. \A k \in 1..Len(workload) : ~IsWrite(workload[k]) => workload[k][2] # w
    BY DEF DoneInv, WaitingInv, QueuedOnce
  <2> QED BY <1>4, <2>1 DEF DoneInv, WaitingInv, QueuedOnce
<1>7. /\ status' \in [Callers -> Statuses] /\ WaitingInv'
      /\ \A v \in Callers : st[v] # "queued" => status'[v] = st[v]
  <2>1. CASE ByCaller(w)
    <3>1. status' = st /\ workload' = workload
      BY <1>3, <2>1 DEF EndRun
    <3> QED BY <1>4, <1>6, <3>1 DEF WaitingInv
  <2>2. CASE ~ByCaller(w)
    <3>1. AskForMore(workload, writing, st)
      BY <1>3, <2>2 DEF EndRun
    <3> QED BY <1>2, <1>4, <1>6, <3>1, TakenFromQueue
  <2> QED BY <2>1, <2>2
<1>8. /\ w = 0 => cpc' = "wait"
      /\ w # 0 => cpc' = cpc \/ (cpc = "inline" /\ cpc' = "add")
  BY DEF EndRun, ByCaller
<1>9. cpc # "returned" /\ cpc' # "returned" /\ (cpc = "start" <=> cpc' = "start")
  <2>1. cpc # "returned"
    BY RunningIsMember
  <2> QED BY <1>5, <1>8, <2>1
<1>10. hold' \in [Callers -> Nat] /\ hold'[w] = 0 /\ \A v \in Callers \ {w} : hold'[v] = hold[v]
  BY <1>2
<1>11. DoneTypes'
  <2>1. failed' \in BOOLEAN
    BY <1>1
  <2>2. cpc' \in {"start", "add", "inline", "own", "wait", "returned"}
    BY <1>2, <1>8
  <2> QED BY <1>1, <1>7, <1>10, <2>1, <2>2 DEF DoneInv, DoneTypes, ScenarioOK
<1>12. DivisionInv'
  BY <1>1, <1>9 DEF DoneInv, DivisionInv
<1>13. CallerInv'
  <2>1. status'[0] = st[0]
    <3>1. status[0] # "queued"
      BY <1>2 DEF DoneInv, CallerInv
    <3>2. st[0] # "queued"
      BY <1>4, <3>1, ZeroIsCaller
    <3> QED BY <1>7, <3>2, ZeroIsCaller
  <2>2. CASE w = 0
    <3>1. cpc' = "wait" /\ status'[0] = "done"
      BY <1>4, <1>8, <2>1, <2>2
    <3>2. \A v \in Callers : v >= next => status'[v] = "new"
      BY <1>1, <1>2, <1>4, <1>7, <2>2 DEF DoneInv, CallerInv
    <3> QED BY <1>1, <3>1, <3>2 DEF CallerInv
  <2>3. CASE w # 0
    <3>1. status'[0] = status[0]
      BY <1>4, <2>1, <2>3, ZeroIsCaller
    <3>2. \A v \in Callers : v >= next => v # w /\ status'[v] = "new"
      BY <1>2, <1>4, <1>7 DEF DoneInv, CallerInv
    <3> QED BY <1>1, <1>8, <2>3, <3>1, <3>2 DEF DoneInv, CallerInv
  <2> QED BY <2>2, <2>3
<1>14. HeldInv'
  <2>1. \A v \in Callers : hold'[v] # 0 => v # w /\ hold'[v] = hold[v] /\ status'[v] = "running"
    BY <1>4, <1>7, <1>10 DEF DoneInv, HeldInv
  <2> QED BY <1>1, <2>1 DEF DoneInv, HeldInv, Untouched
<1>15. TracesInv'
  <2>1. ~failed' => ~failed /\ res
    BY <1>1
  <2>2. ~failed' => hold' = hold
    <3>1. hold[w] = 0 => hold' = hold
      BY <1>2
    <3> QED BY <2>1, <3>1
  <2>3. ~failed' => \A i \in 1..Len(announced) : IsThere(announced[i])'
    BY <1>1, <2>1, <2>2 DEF DoneInv, TracesInv, IsThere, Untouched
  <2>4. scenario.use = "store" /\ status'[0] = "done" /\ ~failed' => nexttrace = NrTraces + 1
    <3> SUFFICES ASSUME scenario.use = "store", status'[0] = "done", ~failed'
                 PROVE  nexttrace = NrTraces + 1
      OBVIOUS
    <3> QED BY <1>2, <2>1, StorerAssumption DEF DoneInv, TracesInv
  <2> QED BY <1>1, <2>3, <2>4 DEF DoneInv, TracesInv, Untouched
<1>16. ReturnedInv'
  BY <1>9 DEF ReturnedInv
<1> QED BY <1>7, <1>11, <1>12, <1>13, <1>14, <1>15, <1>16 DEF DoneInv

\* The Storer has stored a trace, or has failed and the rest is dropped.
LEMMA StoredDone ==
    ASSUME StoreInv, DoneInv, NEW isok \in BOOLEAN, execute(isok), Unmoved
    PROVE  DoneInv'
<1>1. writing # 0 /\ Untouched
  BY DEF execute, Untouched
<1>2. ReturnedInv'
  BY <1>1 DEF DoneInv, ReturnedInv, Unmoved
<1>3. TracesInv'
  BY <1>1, TracesKept DEF Unmoved
<1>4. WaitingInv'
  <2>1. CASE isok
    BY <2>1 DEF execute, reportWrite, Unmoved, DoneInv, WaitingInv
  <2>2. CASE ~isok
    <3>1. workload' \in WithoutWrites(workload)
      BY <2>2 DEF execute, reportWrite
    <3>2. workload \in Seq(Item) /\ Len(workload) \in Nat
      BY LenProperties DEF StoreInv, StoreTypes
    <3> DEFINE kept == {item \in ToSet(workload) : ~IsWrite(item)}
    <3>3. Cardinality(kept) \in Nat
      BY <3>2, KeptIsFinite
    <3>4. /\ workload' \in [1..Cardinality(kept) -> kept]
          /\ \A k, l \in 1..Cardinality(kept) : k # l => workload'[k] # workload'[l]
      BY <3>1 DEF WithoutWrites, SetToSeqs
    <3>5. \A x \in kept : \E k \in 1..Len(workload) : x = workload[k] /\ ~IsWrite(x) /\ x \in Item
      BY <3>2, LenProperties, ElementOfSeq DEF ToSet
    <3> HIDE DEF kept
    <3>6. DOMAIN workload' = 1..Cardinality(kept) /\ Len(workload') = Cardinality(kept)
      <4>1. workload' \in Seq(kept)
        BY <3>3, <3>4, SeqDef
      <4> QED BY <3>3, <3>4, <4>1, LenProperties
    <3>7. \A k \in 1..Len(workload') : workload'[k] \in kept
      BY <3>4, <3>6
    <3>8. \A x, y \in kept : x # y => x[2] # y[2]
      <4>1. \A x \in kept : x \in Item /\ x[1] # "write"
        BY <3>5 DEF IsWrite
      <4>2. \A x \in kept : x = <<"work", x[2]>>
        BY <4>1 DEF Item
      <4> QED BY <4>2
    <3>9. \A k, l \in 1..Len(workload') : k < l => workload'[k] # workload'[l]
      BY <3>3, <3>4, <3>6
    <3>10. \A k \in 1..Len(workload') :
              workload'[k][2] \in Callers \ {0} /\ status'[workload'[k][2]] = "queued"
      BY <3>5, <3>7 DEF DoneInv, WaitingInv, QueuedOnce, Unmoved
    <3> QED BY <3>7, <3>8, <3>9, <3>10 DEF WaitingInv, QueuedOnce
  <2> QED BY <2>1, <2>2
<1> QED BY <1>1, <1>2, <1>3, <1>4 DEF Unmoved, Untouched, DoneInv, DoneTypes, ScenarioOK,
       DivisionInv, CallerInv, HeldInv

LEMMA AnnouncedDone ==
    ASSUME StoreInv, DoneInv, NEW w \in Callers, Announce(w)
    PROVE  DoneInv'
<1>1. /\ scenario.use = "store" /\ status[w] = "running"
      /\ hold[w] = 0 /\ nexttrace <= NrTraces
      /\ hold' = [hold EXCEPT ![w] = nexttrace]
      /\ announced' = Append(announced, nexttrace) /\ nexttrace' = nexttrace + 1
      /\ UNCHANGED <<scenario, cpc, next, status, failed, result, nrthreads, members,
                     outputs, workload, writing, written>>
  BY DEF Announce, announceTrace, parallelVars, barrierVars
<1>2. /\ announced \in Seq(Nat) /\ Len(announced) \in Nat
      /\ nexttrace \in Nat \ {0} /\ NrTraces \in Nat
      /\ \A i \in 1..Len(announced) : announced[i] \in Nat \ {0}
  <2>1. announced \in Seq(Nat) /\ Len(announced) \in Nat /\ nexttrace \in Nat
    BY LenProperties DEF StoreInv, StoreTypes
  <2>2. Foremost \in Nat \ {0} /\ Foremost = nexttrace - Len(announced)
    BY DEF StoreInv, StoreTypes, Foremost
  <2>3. \A i \in 1..Len(announced) : announced[i] = Foremost + i - 1
    BY DEF StoreInv, AnnouncedInv
  <2> QED BY <2>1, <2>2, <2>3, StorerAssumption
<1>3. /\ Len(announced') = Len(announced) + 1
      /\ \A i \in 1..Len(announced) : announced'[i] = announced[i]
      /\ announced'[Len(announced) + 1] = nexttrace
  BY <1>1, <1>2, AppendProperties
<1>4. /\ hold' \in [Callers -> Nat] /\ hold'[w] = nexttrace
      /\ \A v \in Callers \ {w} : hold'[v] = hold[v]
  BY <1>1, <1>2 DEF DoneInv, DoneTypes
<1>5. DoneTypes'
  BY <1>1, <1>4 DEF DoneInv, DoneTypes, ScenarioOK
<1>6. HeldInv'
  <2>1. \A v \in Callers : hold'[v] # 0 => hold'[v] < nexttrace + 1 /\ status[v] = "running"
    BY <1>1, <1>2, <1>4 DEF DoneInv, DoneTypes, HeldInv
  <2> QED BY <1>1, <2>1 DEF HeldInv
<1>7. TracesInv'
  <2>1. nexttrace' <= NrTraces + 1 /\ outputs' \subseteq 1..nexttrace' - 1
    BY <1>1, <1>2 DEF DoneInv, TracesInv
  <2>2. announced'[1] \notin outputs'
    <3>1. CASE announced = <<>>
      <4>1. announced'[1] = nexttrace
        BY <1>3, <3>1, EmptySeq
      <4>2. nexttrace \notin 1..nexttrace - 1
        BY <1>2
      <4> QED BY <1>1, <4>1, <4>2 DEF DoneInv, TracesInv
    <3>2. CASE announced # <<>>
      <4>1. 1 \in 1..Len(announced)
        BY <1>2, <3>2, EmptySeq
      <4> QED BY <1>1, <1>3, <3>2, <4>1 DEF DoneInv, TracesInv
    <3> QED BY <3>1, <3>2
  <2>3. ASSUME ~failed, NEW i \in 1..Len(announced') PROVE IsThere(announced[i])'
    <3>1. CASE i = Len(announced) + 1
      <4>1. announced'[i] = nexttrace
        BY <1>3, <3>1
      <4> QED BY <1>4, <4>1 DEF IsThere
    <3>2. CASE i \in 1..Len(announced)
      <4>1. announced'[i] = announced[i] /\ announced[i] # 0 /\ IsThere(announced[i])
        BY <1>2, <1>3, <2>3, <3>2 DEF DoneInv, TracesInv
      <4>2. announced[i] \in outputs \/ \E v \in Callers \ {w} : hold[v] = announced[i]
        BY <1>1, <4>1 DEF IsThere
      <4> QED BY <1>1, <1>4, <4>1, <4>2 DEF IsThere
    <3> QED BY <1>2, <1>3, <3>1, <3>2
  <2>4. ~(status[0] = "done" /\ ~failed)
    BY <1>1, <1>2 DEF DoneInv, TracesInv
  <2> QED BY <1>1, <2>1, <2>2, <2>3, <2>4 DEF TracesInv
<1> QED BY <1>1, <1>5, <1>6, <1>7 DEF DoneInv, DivisionInv, CallerInv, WaitingInv, QueuedOnce,
       ReturnedInv, NoTraces

LEMMA SubmittedDone ==
    ASSUME StoreInv, DoneInv, NEW w \in Callers, Submit(w)
    PROVE  DoneInv'
<1>1. PICK now \in BOOLEAN : submitTrace(w, now)
  BY DEF Submit
<1> DEFINE out == outputs \cup {hold[w]}
<1>2. PICK ready : ready = Ready(out)
  OBVIOUS
<1>3. PICK n : n = ReadyIn(out)
  OBVIOUS
<1>4. /\ announced \in Seq(Nat) /\ Len(announced) \in Nat /\ nexttrace \in Nat
      /\ \A i \in 1..Len(announced) : announced[i] = Foremost + i - 1
      /\ Foremost \in Nat
      /\ workload \in Seq(Item) /\ Len(workload) \in Nat
  BY LenProperties DEF StoreInv, StoreTypes, AnnouncedInv
<1>5. /\ ready \in Seq(Nat) /\ Len(ready) = n /\ n \in 0..Len(announced)
      /\ \A i \in 1..n : ready[i] = announced[i]
      /\ n < Len(announced) => announced[n + 1] \notin out
  BY <1>2, <1>3, <1>4, ReadyPart
<1>6. PICK q : q = WriteItems(IF now THEN Tail(ready) ELSE ready)
  OBVIOUS
<1>7. /\ hold[w] # 0 /\ hold' = [hold EXCEPT ![w] = 0]
      /\ now => ready # <<>>
      /\ announced' = SubSeq(announced, n + 1, Len(announced))
      /\ outputs' = out \ ToSet(ready)
      /\ workload' = workload \o q
      /\ UNCHANGED <<nexttrace, written, scenario, cpc, next, status, failed, result,
                     nrthreads, members>>
  <2>1. status[w] = "running"
    BY DEF Submit
  <2> QED BY <1>1, <1>2, <1>5, <1>6 DEF Submit, submitTrace, iterateBuffer, barrierVars
<1> HIDE DEF out
<1>8. /\ announced' \in Seq(Nat) /\ Len(announced') = Len(announced) - n
      /\ \A i \in 1..Len(announced) - n : announced'[i] = announced[n + i]
  <2>1. \A i \in n + 1..Len(announced) : announced[i] \in Nat
    BY <1>4, <1>5, ElementOfSeq
  <2>2. n + 1 \in Int /\ Len(announced) \in Int
    BY <1>4, <1>5
  <2>3. /\ SubSeq(announced, n + 1, Len(announced)) \in Seq(Nat)
        /\ Len(SubSeq(announced, n + 1, Len(announced)))
              = IF n + 1 <= Len(announced) THEN Len(announced) - (n + 1) + 1 ELSE 0
        /\ \A i \in 1..Len(announced) - (n + 1) + 1 :
              SubSeq(announced, n + 1, Len(announced))[i] = announced[(n + 1) + i - 1]
    BY <2>1, <2>2, SubSeqProperties
  <2>4. /\ (IF n + 1 <= Len(announced) THEN Len(announced) - (n + 1) + 1 ELSE 0)
              = Len(announced) - n
        /\ Len(announced) - (n + 1) + 1 = Len(announced) - n
    BY ONLY <1>4, <1>5
  <2>5. \A i \in 1..Len(announced) - n : (n + 1) + i - 1 = n + i
    BY ONLY <1>4, <1>5
  <2> QED BY <1>7, <2>3, <2>4, <2>5
<1>9. /\ hold' \in [Callers -> Nat] /\ hold'[w] = 0
      /\ \A v \in Callers \ {w} : hold'[v] = hold[v]
  BY <1>7 DEF DoneInv, DoneTypes
<1>10. /\ status[w] = "running" /\ hold[w] \in Nat \ {0} /\ hold[w] < nexttrace
       /\ cpc # "returned"
  BY <1>7, RunningIsMember DEF DoneInv, DoneTypes, HeldInv
<1>11. DoneTypes'
  BY <1>7, <1>9 DEF DoneInv, DoneTypes, ScenarioOK
<1>12. HeldInv'
  <2>1. \A v \in Callers : hold'[v] # 0 => v # w /\ hold'[v] = hold[v]
    BY <1>9
  <2> QED BY <1>7, <2>1 DEF DoneInv, HeldInv
<1>13. WaitingInv'
  <2>1. /\ q \in Seq(Item) /\ Len(q) \in Nat /\ \A j \in 1..Len(q) : IsWrite(q[j])
    <3>1. PICK ts : ts = IF now THEN Tail(ready) ELSE ready
      OBVIOUS
    <3>2. ts \in Seq(Nat)
      <4>1. now => Tail(ready) \in Seq(Nat)
        BY <1>5, <1>7, HeadTailProperties
      <4> QED BY <1>5, <3>1, <4>1
    <3>3. q = WriteItems(ts)
      BY <1>6, <3>1
    <3> QED BY <3>2, <3>3, WriteItemsOf, LenProperties DEF IsWrite
  <2>2. /\ Len(workload') = Len(workload) + Len(q)
        /\ \A k \in 1..Len(workload) : workload'[k] = workload[k]
        /\ \A k \in 1..Len(workload') : k > Len(workload) => IsWrite(workload'[k])
    <3>1. /\ Len(workload') = Len(workload) + Len(q)
          /\ \A k \in 1..Len(workload) + Len(q) :
                workload'[k] = IF k <= Len(workload) THEN workload[k]
                                                     ELSE q[k - Len(workload)]
      BY <1>4, <1>7, <2>1, ConcatProperties
    <3>2. \A k \in 1..Len(workload') : k > Len(workload) => k - Len(workload) \in 1..Len(q)
      BY <1>4, <2>1, <3>1
    <3>3. \A k \in 1..Len(workload) : k \in 1..Len(workload) + Len(q) /\ k <= Len(workload)
      BY <1>4, <2>1
    <3>4. ASSUME NEW k \in 1..Len(workload'), k > Len(workload) PROVE IsWrite(workload'[k])
      <4>1. workload'[k] = q[k - Len(workload)]
        <5>1. k \in 1..Len(workload) + Len(q) /\ ~(k <= Len(workload))
          BY <1>4, <2>1, <3>1, <3>4
        <5> QED BY <3>1, <5>1
      <4> QED BY <2>1, <3>2, <3>4, <4>1
    <3> QED BY <3>1, <3>3, <3>4
  <2>3. \A k \in 1..Len(workload') : ~IsWrite(workload'[k]) =>
            k \in 1..Len(workload) /\ workload'[k] = workload[k]
    BY <1>4, <2>1, <2>2
  <2> QED BY <1>7, <2>3 DEF DoneInv, WaitingInv, QueuedOnce
<1>14. TracesInv'
  <2>1. out \subseteq 1..nexttrace - 1 /\ outputs' \subseteq 1..nexttrace' - 1
    <3>1. outputs \subseteq 1..nexttrace - 1
      BY DEF DoneInv, TracesInv
    <3>2. hold[w] \in 1..nexttrace - 1
      BY <1>4, <1>10
    <3>3. out \subseteq 1..nexttrace - 1
      BY <3>1, <3>2 DEF out
    <3> QED BY <1>7, <3>3
  <2>2. announced' # <<>> => announced'[1] \notin outputs'
    <3> SUFFICES ASSUME announced' # <<>> PROVE announced'[1] \notin outputs'
      OBVIOUS
    <3>1. n < Len(announced) /\ announced'[1] = announced[n + 1]
      <4>1. Len(announced') # 0
        BY <1>8, EmptySeq
      <4> QED BY <1>4, <1>5, <1>8, <4>1
    <3> QED BY <1>5, <1>7, <3>1
  <2>3. ASSUME ~failed, NEW i \in 1..Len(announced') PROVE IsThere(announced[i])'
    <3>1. n + i \in 1..Len(announced) /\ announced'[i] = announced[n + i]
      BY <1>4, <1>5, <1>8
    <3>2. announced[n + i] \notin ToSet(ready)
      <4>1. ToSet(ready) = {ready[j] : j \in 1..n}
        BY <1>5, LenProperties DEF ToSet
      <4>2. \A j \in 1..n : ready[j] = Foremost + j - 1
        <5>1. \A j \in 1..n : j \in 1..Len(announced)
          BY <1>4, <1>5
        <5> QED BY <1>4, <1>5, <5>1
      <4>3. announced[n + i] = Foremost + (n + i) - 1
        BY <1>4, <3>1
      <4>4. \A j \in 1..n : Foremost + j - 1 # Foremost + (n + i) - 1
        BY <1>4, <1>5, <3>1
      <4> QED BY <4>1, <4>2, <4>3, <4>4
    <3>3. IsThere(announced[n + i])
      BY <2>3, <3>1 DEF DoneInv, TracesInv
    <3>4. \/ announced[n + i] \in out
          \/ \E v \in Callers \ {w} : hold[v] = announced[n + i]
      BY <3>3 DEF IsThere, out
    <3> QED BY <1>7, <1>9, <3>1, <3>2, <3>4 DEF IsThere
  <2> QED BY <1>7, <2>1, <2>2, <2>3 DEF DoneInv, TracesInv
<1>15. ReturnedInv'
  BY <1>7, <1>10 DEF ReturnedInv
<1> QED BY <1>7, <1>11, <1>12, <1>13, <1>14, <1>15 DEF DoneInv, DivisionInv, CallerInv

-----------------------------------------------------------------------------
\* One step for each action of the task.
LEMMA DoneStep ==
    ASSUME StoreInv, DoneInv, [Next]_vars
    PROVE  DoneInv'
<1> USE DEF Untouched
<1>1. CASE executeParallel
  BY <1>1, PrepareDone
<1>2. CASE addWork
  BY <1>2, AddDone
<1>3. CASE RunOwn
  BY <1>3, OwnDone
<1>4. CASE Finish
  BY <1>4, FinishDone
<1>5. CASE Stop \/ OtherStarts
  BY <1>5, DoneKept DEF Stop, OtherStarts, Unmoved, storerVars, barrierVars
<1>6. CASE OtherEnds
  <2>1. AskForMore(workload, writing, status)
    BY <1>6 DEF OtherEnds
  <2> QED BY <1>6, <2>1, AskedDone DEF OtherEnds, barrierVars
<1>7. CASE WriteEnds
  <2>1. AskForMore(workload, 0, status)
    BY <1>7 DEF WriteEnds
  <2> QED BY <1>7, <2>1, AskedDone DEF WriteEnds, barrierVars
<1>8. ASSUME NEW isok \in BOOLEAN, Store(isok) PROVE DoneInv'
  BY <1>8, StoredDone DEF Store, Unmoved, parallelVars, barrierVars, execute
<1>9. ASSUME NEW w \in Callers, AtBarrier(w) PROVE DoneInv'
  <2>1. UNCHANGED <<nrthreads, members>>
    <3>1. Fixed
      BY <1>9 DEF AtBarrier, BarrierStep, waitForAll, WakeAtGate, WakeInRound, releaseAll, unLock
    <3> QED BY <3>1 DEF Fixed
  <2>2. UNCHANGED <<parallelVars, storerVars>>
    BY <1>9 DEF AtBarrier
  <2> QED BY <2>1, <2>2, DoneKept DEF Unmoved, parallelVars, storerVars
<1>10. ASSUME NEW w \in Callers, EndAtBarrier(w) PROVE DoneInv'
  <2>1. PICK res \in BOOLEAN : EndRun(w, res)
    BY <1>10 DEF EndAtBarrier
  <2>2. /\ scenario.use # "store" /\ status[w] = "running" /\ hold' = hold
        /\ UNCHANGED <<nrthreads, members>>
    BY <1>10 DEF EndAtBarrier, barrierVars
  <2>3. hold[w] = 0
    BY <2>2 DEF DoneInv, HeldInv
  <2> QED BY <2>1, <2>2, <2>3, EndedDone
<1>11. ASSUME NEW w \in Callers, Announce(w) PROVE DoneInv'
  BY <1>11, AnnouncedDone
<1>12. ASSUME NEW w \in Callers, Submit(w) PROVE DoneInv'
  BY <1>12, SubmittedDone
<1>13. ASSUME NEW w \in Callers, Resume(w) PROVE DoneInv'
  BY <1>13, DoneKept DEF Resume, ResumeSubmit, Unmoved, parallelVars, barrierVars
<1>14. ASSUME NEW w \in Callers, EndStore(w) PROVE DoneInv'
  <2>1. /\ status[w] = "running" /\ hold' = [hold EXCEPT ![w] = 0]
        /\ UNCHANGED <<nrthreads, members>>
    BY <1>14 DEF EndStore, barrierVars
  <2>2. PICK res \in BOOLEAN :
            EndRun(w, res) /\ (res => hold[w] = 0 /\ nexttrace > NrTraces)
    BY <1>14 DEF EndStore
  <2> QED BY <2>1, <2>2, EndedDone
<1>15. CASE UNCHANGED vars
  BY <1>15, DoneKept DEF vars, parallelVars, storerVars, barrierVars, Unmoved
<1> QED BY <1>1, <1>2, <1>3, <1>4, <1>5, <1>6, <1>7, <1>8, <1>9, <1>10, <1>11, <1>12, <1>13,
       <1>14, <1>15 DEF Next, DoWork

\* Once all works are done each iteration has been done by one of them.
LEMMA DoneIsComplete == DoneInv => DoneWhenReturned
<1> SUFFICES ASSUME DoneInv, cpc = "returned", result PROVE DoneWhenReturned
  BY DEF DoneWhenReturned
<1>1. /\ Dividable(scenario.size, nrthreads) /\ members = 0..nrthreads - 1
      /\ \A w \in members : status[w] = "done"
      /\ scenario.use = "store" => written = [i \in 1..NrTraces |-> i]
  BY DEF DoneInv, DivisionInv, ReturnedInv
<1>2. ASSUME NEW i \in 0..scenario.size - 1
      PROVE  Cardinality({w \in members : status[w] = "done"
                   /\ i \in Iterations(scenario.size, nrthreads, w)}) = 1
  <2>1. PICK w : {v \in members : i \in Iterations(scenario.size, nrthreads, v)} = {w}
    <3>1. \E v \in 0..nrthreads - 1 :
             {u \in 0..nrthreads - 1 : i \in Iterations(scenario.size, nrthreads, u)} = {v}
      BY <1>1, EachIterationOnce
    <3> QED BY <1>1, <3>1
  <2>2. {v \in members : status[v] = "done"
             /\ i \in Iterations(scenario.size, nrthreads, v)} = {w}
    BY <1>1, <2>1
  <2> QED BY <2>2, FS_Singleton
<1> QED BY <1>1, <1>2 DEF DoneWhenReturned

\* ParallelTask::executeParallel: when it returns true each iteration has been done by exactly
\* one work, and all that the works made is stored in order; for any size, smallest part,
\* number of processors and of traces, and whatever else the pool does in between.
THEOREM DoneWhenReturnedCorrect == Spec => []DoneWhenReturned
<1>1. Init => StoreInv /\ DoneInv
  BY StoreInit, DoneInit
<1>2. StoreInv /\ DoneInv /\ [Next]_vars => (StoreInv /\ DoneInv)'
  BY StoreStep, DoneStep
<1> QED BY <1>1, <1>2, DoneIsComplete, PTL DEF Spec
=============================================================================
