----------------------------- MODULE Barrier_proofs -----------------------------
(***************************************************************************)
(* The rounds of a Barrier are separate, for any number of callers and of  *)
(* rounds, whether the last to arrive releases the others or the caller    *)
(* does.                                                                   *)
(*                                                                         *)
(* The invariant counts the rounds.  firsts is the number of rounds that   *)
(* are complete.  A caller that is not waiting has arrived and returned    *)
(* that often; one that waits has arrived once more than it has returned,  *)
(* in the next round as long as that is being gathered, in the last one    *)
(* once that is released or its first caller is about to release it.       *)
(***************************************************************************)
EXTENDS Barrier, FiniteSetTheorems, TLAPS

Places == {"out", "gate", "wait", "lead", "section"}
Waiting == {w \in Callers : where[w] = "wait"}

CountersOK ==
    /\ members \subseteq Callers
    /\ where \in [Callers -> Places]
    /\ threadcount \in Nat
    /\ dorelease \in BOOLEAN
    /\ immediaterelease \in BOOLEAN
    /\ arrived \in [Callers -> Nat]
    /\ passed \in [Callers -> Nat]
    /\ firsts \in Nat

\* Only members come to the barrier.
OnlyMembers ==
    /\ members # {} => nrthreads = Cardinality(members)
    /\ members = {} => firsts = 0
    /\ \A w \in Callers \ members : where[w] = "out" /\ arrived[w] = 0

CountIsWaiting == threadcount = Cardinality(Waiting)

\* The last round has been, or is about to be, released.
Released == dorelease \/ \E w \in Callers : where[w] = "lead"

RoundOf(w) ==
    IF where[w] # "wait" THEN arrived[w] = firsts /\ passed[w] = firsts
    ELSE IF Released THEN arrived[w] = firsts /\ passed[w] = firsts - 1
    ELSE arrived[w] = firsts + 1 /\ passed[w] = firsts

\* Who is first in a round is alone with those who wait for its release.
LeadIsAlone ==
    \A w \in Callers : where[w] = "lead" =>
        /\ ~dorelease
        /\ \A v \in members \ {w} : where[v] = "wait"

\* While a round is gathered somebody has not come yet.
SomebodyIsMissing ==
    ~Released /\ members # {} => \E w \in members : where[w] # "wait"

RoundInv ==
    /\ CountersOK
    /\ OnlyMembers
    /\ CountIsWaiting
    /\ \A w \in members : RoundOf(w)
    /\ LeadIsAlone
    /\ SomebodyIsMissing

UnlocksOK == unlocks \in [Callers -> BOOLEAN]

BarrierInv == RoundInv /\ UnlocksOK

-----------------------------------------------------------------------------
\* A finite set that one element less than fills another leaves out just that one.
LEMMA AllButOne ==
    ASSUME NEW S, IsFiniteSet(S), NEW T \in SUBSET S, NEW x \in S, x \notin T
    PROVE  /\ Cardinality(T) \in Nat
           /\ Cardinality(S) \in Nat
           /\ Cardinality(T) + 1 = Cardinality(S) <=> T = S \ {x}
           /\ Cardinality(T \cup {x}) = Cardinality(T) + 1
           /\ Cardinality(T \cup {x}) = Cardinality(S) <=> T \cup {x} = S
<1>1. /\ IsFiniteSet(T)
      /\ Cardinality(T) \in Nat
      /\ Cardinality(S) \in Nat
  BY FS_Subset, FS_CardinalityType
<1>2. /\ IsFiniteSet(T \cup {x})
      /\ Cardinality(T \cup {x}) = Cardinality(T) + 1
  BY <1>1, FS_AddElement
<1>3. T \cup {x} \in SUBSET S
  OBVIOUS
<1>4. Cardinality(T \cup {x}) = Cardinality(S) => T \cup {x} = S
  BY <1>3, FS_Subset
<1>. QED BY <1>1, <1>2, <1>4

LEMMA FewerWait ==
    ASSUME NEW T, IsFiniteSet(T), NEW x \in T
    PROVE  /\ Cardinality(T) \in Nat
           /\ Cardinality(T \ {x}) = Cardinality(T) - 1
           /\ Cardinality(T) = 1 <=> T = {x}
<1>1. /\ Cardinality(T) \in Nat
      /\ Cardinality(T \ {x}) = Cardinality(T) - 1
  BY FS_RemoveElement, FS_CardinalityType
<1>2. IsFiniteSet(T \ {x})
  BY FS_RemoveElement
<1>3. Cardinality(T \ {x}) = 0 <=> T \ {x} = {}
  BY <1>2, FS_EmptySet
<1>. QED BY <1>1, <1>3

LEMMA WaitingIsFinite ==
    ASSUME RoundInv
    PROVE  /\ IsFiniteSet(Waiting)
           /\ IsFiniteSet(members)
           /\ Waiting \in SUBSET members
           /\ threadcount = 0 <=> Waiting = {}
<1>1. Waiting \in SUBSET members
  BY DEF RoundInv, OnlyMembers, Waiting
<1>2. IsFiniteSet(members) /\ IsFiniteSet(Waiting)
  BY <1>1, BarrierAssumption, FS_Subset DEF RoundInv, CountersOK
<1>3. Cardinality(Waiting) = 0 <=> Waiting = {}
  BY <1>2, FS_EmptySet
<1>. QED BY <1>1, <1>2, <1>3 DEF RoundInv, CountIsWaiting

-----------------------------------------------------------------------------
LEMMA InitRounds == BarrierInit => RoundInv
<1>. SUFFICES ASSUME BarrierInit PROVE RoundInv
  OBVIOUS
<1>1. Waiting = {}
  BY DEF BarrierInit, Waiting
<1>2. CountIsWaiting
  BY <1>1, FS_EmptySet DEF BarrierInit, CountIsWaiting
<1>. QED BY <1>2 DEF BarrierInit, RoundInv, CountersOK, Places, OnlyMembers, RoundOf,
         LeadIsAlone, SomebodyIsMissing

\* All are out, and none of those that have come once is: nothing has happened yet.
LEMMA SetNumber ==
    ASSUME RoundInv, NEW S \in SUBSET Callers, setNrThreads(S)
    PROVE  RoundInv'
<1>1. /\ members' = S /\ S # {} /\ nrthreads' = Cardinality(S)
      /\ UNCHANGED <<threadcount, dorelease, immediaterelease, where, arrived, passed, firsts>>
      /\ \A w \in Callers : where[w] = "out" /\ passed[w] = 0
  BY DEF setNrThreads
<1>2. firsts = 0 /\ \A w \in Callers : arrived[w] = 0
  BY <1>1 DEF RoundInv, OnlyMembers, RoundOf, CountersOK
<1>3. CountersOK' /\ OnlyMembers'
  BY <1>1, <1>2 DEF RoundInv, CountersOK, OnlyMembers
<1>4. CountIsWaiting'
  BY <1>1 DEF RoundInv, CountIsWaiting, Waiting
<1>5. \A w \in members' : RoundOf(w)'
  BY <1>1, <1>2 DEF RoundOf
<1>6. LeadIsAlone' /\ SomebodyIsMissing'
  BY <1>1 DEF LeadIsAlone, SomebodyIsMissing
<1>. QED BY <1>3, <1>4, <1>5, <1>6 DEF RoundInv

\* Whoever can be counted in is not in a round that is being left.
LEMMA Gathered ==
    ASSUME RoundInv, PreviousRoundIsOut, NEW w \in members, where[w] \in {"out", "gate"}
    PROVE  /\ ~\E v \in Callers : where[v] = "lead"
           /\ dorelease => Waiting = {}
           /\ \A v \in members : where[v] = "wait" => arrived[v] = firsts + 1
                                                      /\ passed[v] = firsts
<1>1. ~\E v \in Callers : where[v] = "lead"
  BY DEF RoundInv, LeadIsAlone, OnlyMembers
<1>2. dorelease => Waiting = {}
  BY WaitingIsFinite DEF PreviousRoundIsOut, RoundInv, CountersOK
<1>3. ASSUME NEW v \in members, where[v] = "wait"
      PROVE  arrived[v] = firsts + 1 /\ passed[v] = firsts
  <2>1. v \in Waiting
    BY <1>3 DEF Waiting, RoundInv, CountersOK
  <2>2. ~Released
    BY <1>1, <1>2, <2>1 DEF Released
  <2>. QED BY <1>3, <2>2 DEF RoundInv, RoundOf
<1>. QED BY <1>1, <1>2, <1>3

LEMMA LastArrives ==
    ASSUME RoundInv, PreviousRoundIsOut, NEW w \in members, where[w] \in {"out", "gate"},
           NEW unlock \in BOOLEAN, ArriveLast(w, unlock),
           arrived' = [arrived EXCEPT ![w] = @ + 1], Fixed
    PROVE  RoundInv'
<1>1. /\ w \in Callers /\ w \notin Waiting
      /\ members # {} /\ nrthreads = Cardinality(members)
  BY DEF RoundInv, CountersOK, OnlyMembers, Waiting
<1>2. /\ threadcount + 1 = nrthreads /\ threadcount' = threadcount
      /\ passed' = [passed EXCEPT ![w] = @ + 1]
      /\ firsts' = firsts + 1
      /\ members' = members /\ nrthreads' = nrthreads
      /\ immediaterelease' = immediaterelease
      /\ dorelease' = (threadcount # 0 /\ (immediaterelease \/ dorelease))
  BY DEF ArriveLast, Return, Fixed
<1>3. PICK place \in {"lead", "out", "section"} :
          /\ where' = [where EXCEPT ![w] = place]
          /\ place = "lead" <=> ~immediaterelease
  BY DEF ArriveLast, Return, RoundInv, CountersOK
<1>4. Waiting = members \ {w}
  BY <1>1, <1>2, WaitingIsFinite, AllButOne DEF RoundInv, CountIsWaiting
<1>5. Waiting' = Waiting
  BY <1>1, <1>3 DEF Waiting, RoundInv, CountersOK
<1>6. /\ ~\E v \in Callers : where[v] = "lead"
      /\ dorelease => Waiting = {}
      /\ \A v \in members : where[v] = "wait" => arrived[v] = firsts + 1 /\ passed[v] = firsts
  BY Gathered
<1>7. dorelease' = (Waiting # {} /\ immediaterelease)
  BY <1>2, <1>6, WaitingIsFinite
<1>8. arrived[w] = firsts /\ passed[w] = firsts
  BY DEF RoundInv, RoundOf
<1>9. CountersOK'
  BY <1>1, <1>2, <1>3, <1>7 DEF RoundInv, CountersOK, Places
<1>10. OnlyMembers' /\ CountIsWaiting'
  BY <1>1, <1>2, <1>3, <1>5 DEF RoundInv, CountersOK, OnlyMembers, CountIsWaiting
<1>11. \A v \in members : v # w => where[v] = "wait" /\ where'[v] = "wait"
  BY <1>3, <1>4 DEF Waiting, RoundInv, CountersOK
<1>12. where'[w] = place
  BY <1>1, <1>3 DEF RoundInv, CountersOK
<1>13. (\E v \in members : v # w) => Released'
  <2>. HAVE \E v \in members : v # w
  <2>1. Waiting # {}
    BY <1>4
  <2>2. CASE immediaterelease
    BY <1>7, <2>1, <2>2 DEF Released
  <2>3. CASE ~immediaterelease
    BY <1>1, <1>3, <1>12, <2>3 DEF Released
  <2>. QED BY <2>2, <2>3
<1>14. \A v \in members' : RoundOf(v)'
  <2>. TAKE v \in members'
  <2>1. CASE v = w
    BY <1>1, <1>2, <1>8, <1>12, <2>1 DEF RoundOf, RoundInv, CountersOK
  <2>2. CASE v # w
    BY <1>2, <1>6, <1>11, <1>13, <2>2 DEF RoundOf, RoundInv, CountersOK
  <2>. QED BY <2>1, <2>2
<1>15. LeadIsAlone'
  BY <1>2, <1>3, <1>6, <1>7, <1>11 DEF LeadIsAlone, RoundInv, CountersOK
<1>16. SomebodyIsMissing'
  BY <1>2, <1>12 DEF SomebodyIsMissing
<1>. QED BY <1>9, <1>10, <1>14, <1>15, <1>16 DEF RoundInv

LEMMA AnotherWaits ==
    ASSUME RoundInv, PreviousRoundIsOut, NEW w \in members, where[w] \in {"out", "gate"},
           ArriveAndWait(w), arrived' = [arrived EXCEPT ![w] = @ + 1], Fixed
    PROVE  RoundInv'
<1>1. /\ w \in Callers /\ w \notin Waiting
      /\ members # {} /\ nrthreads = Cardinality(members)
  BY DEF RoundInv, CountersOK, OnlyMembers, Waiting
<1>2. /\ threadcount + 1 # nrthreads /\ threadcount' = threadcount + 1
      /\ UNCHANGED <<passed, firsts, members, nrthreads, immediaterelease>>
      /\ dorelease' = FALSE
      /\ where' = [where EXCEPT ![w] = "wait"]
  BY DEF ArriveAndWait, Fixed
<1>3. Waiting' = Waiting \cup {w}
  BY <1>1, <1>2 DEF Waiting, RoundInv, CountersOK
<1>4. /\ Cardinality(Waiting') = threadcount + 1
      /\ Waiting' # members
  <2>1. threadcount = Cardinality(Waiting)
    BY DEF RoundInv, CountIsWaiting
  <2>2. /\ IsFiniteSet(members) /\ Waiting \in SUBSET members
    BY WaitingIsFinite
  <2>3. /\ Cardinality(Waiting \cup {w}) = Cardinality(Waiting) + 1
        /\ Cardinality(Waiting \cup {w}) = Cardinality(members) <=> Waiting \cup {w} = members
    BY <1>1, <2>2, AllButOne
  <2>. QED BY <1>1, <1>2, <1>3, <2>1, <2>3
<1>5. /\ ~\E v \in Callers : where[v] = "lead"
      /\ \A v \in members : where[v] = "wait" => arrived[v] = firsts + 1 /\ passed[v] = firsts
  BY Gathered
<1>6. ~Released'
  <2>1. where \in [Callers -> Places]
    BY DEF RoundInv, CountersOK
  <2>2. \A v \in Callers : where'[v] # "lead"
    BY <1>1, <1>2, <1>5, <2>1
  <2>. QED BY <1>2, <2>2 DEF Released
<1>7. CountersOK'
  <2>1. where' \in [Callers -> Places] /\ arrived' \in [Callers -> Nat]
    BY <1>1, <1>2 DEF RoundInv, CountersOK, Places
  <2>2. members' \subseteq Callers /\ threadcount' \in Nat /\ firsts' \in Nat
    BY <1>2 DEF RoundInv, CountersOK
  <2>3. passed' \in [Callers -> Nat]
    BY <1>2 DEF RoundInv, CountersOK
  <2>4. dorelease' \in BOOLEAN /\ immediaterelease' \in BOOLEAN
    BY <1>2 DEF RoundInv, CountersOK
  <2>. QED BY <2>1, <2>2, <2>3, <2>4 DEF CountersOK
<1>8. OnlyMembers' /\ CountIsWaiting'
  BY <1>1, <1>2, <1>4 DEF RoundInv, CountersOK, OnlyMembers, CountIsWaiting
<1>9. \A v \in members' : RoundOf(v)'
  <2>. TAKE v \in members'
  <2>1. CASE v = w
    BY <1>1, <1>2, <1>6, <2>1 DEF RoundOf, RoundInv, CountersOK
  <2>2. CASE v # w
    BY <1>2, <1>5, <1>6, <2>2 DEF RoundOf, RoundInv, CountersOK
  <2>. QED BY <2>1, <2>2
<1>10. LeadIsAlone'
  BY <1>2, <1>5 DEF LeadIsAlone, RoundInv, CountersOK
<1>11. SomebodyIsMissing'
  BY <1>2, <1>3, <1>4, WaitingIsFinite DEF SomebodyIsMissing, Waiting, RoundInv, CountersOK
<1>. QED BY <1>7, <1>8, <1>9, <1>10, <1>11 DEF RoundInv

\* Between two places where nothing is counted.
LEMMA Moves ==
    ASSUME RoundInv, NEW w \in members, where[w] \in {"out", "gate", "section"},
           NEW place \in {"out", "gate", "section"},
           where' = [where EXCEPT ![w] = place],
           UNCHANGED <<threadcount, dorelease, arrived, passed, firsts>>, Fixed
    PROVE  RoundInv'
<1>1. w \in Callers /\ UNCHANGED <<nrthreads, immediaterelease, members>>
  BY DEF RoundInv, CountersOK, Fixed
<1>2. CountersOK' /\ OnlyMembers'
  BY <1>1 DEF RoundInv, CountersOK, Places, OnlyMembers
<1>3. \A v \in Callers : /\ where'[v] = "wait" <=> where[v] = "wait"
                         /\ where'[v] = "lead" <=> where[v] = "lead"
  BY <1>1 DEF RoundInv, CountersOK
<1>4. Waiting' = Waiting /\ Released' = Released
  BY <1>3 DEF Waiting, Released
<1>5. CountIsWaiting'
  BY <1>4 DEF RoundInv, CountIsWaiting
<1>6. \A v \in members' : RoundOf(v)'
  BY <1>1, <1>3, <1>4 DEF RoundInv, RoundOf, CountersOK
<1>7. LeadIsAlone' /\ SomebodyIsMissing'
  BY <1>1, <1>3, <1>4 DEF RoundInv, LeadIsAlone, SomebodyIsMissing, CountersOK
<1>. QED BY <1>2, <1>5, <1>6, <1>7 DEF RoundInv

LEMMA Leaves ==
    ASSUME RoundInv, NEW w \in members, where[w] = "wait", Leave(w),
           UNCHANGED arrived, Fixed
    PROVE  RoundInv'
<1>1. PICK place \in {"out", "section"} : where' = [where EXCEPT ![w] = place]
  BY DEF Leave, Return
<1>2. /\ w \in Callers /\ w \in Waiting
      /\ dorelease /\ threadcount' = threadcount - 1
      /\ dorelease' = (threadcount # 1)
      /\ passed' = [passed EXCEPT ![w] = @ + 1]
      /\ UNCHANGED <<arrived, firsts, members, nrthreads, immediaterelease>>
  BY DEF Leave, Return, Fixed, RoundInv, CountersOK, Waiting
<1>3. Waiting' = Waiting \ {w}
  BY <1>1, <1>2 DEF Waiting, RoundInv, CountersOK
<1>4. /\ threadcount \in Nat /\ threadcount # 0
      /\ Cardinality(Waiting') = threadcount - 1
      /\ threadcount = 1 <=> Waiting = {w}
  BY <1>2, <1>3, WaitingIsFinite, FewerWait DEF RoundInv, CountIsWaiting
<1>5. CountersOK'
  BY <1>1, <1>2, <1>4 DEF RoundInv, CountersOK, Places
<1>6. OnlyMembers' /\ CountIsWaiting'
  BY <1>1, <1>2, <1>4 DEF RoundInv, CountersOK, OnlyMembers, CountIsWaiting
<1>7. ~\E v \in Callers : where[v] = "lead" \/ where'[v] = "lead"
  BY <1>1, <1>2 DEF RoundInv, LeadIsAlone, CountersOK
<1>8. Released
  BY <1>2 DEF Released
<1>9. \A v \in members' : RoundOf(v)'
  <2>. TAKE v \in members'
  <2>1. CASE v = w
    BY <1>1, <1>2, <1>8, <2>1 DEF RoundOf, RoundInv, CountersOK
  <2>2. CASE v # w /\ where[v] = "wait"
    <3>1. v \in Waiting
      BY <1>2, <2>2 DEF Waiting, RoundInv, CountersOK
    <3>2. threadcount # 1
      BY <1>4, <2>2, <3>1
    <3>3. Released'
      BY <1>2, <3>2 DEF Released
    <3>. QED BY <1>1, <1>2, <1>8, <2>2, <3>3 DEF RoundOf, RoundInv, CountersOK
  <2>3. CASE v # w /\ where[v] # "wait"
    BY <1>1, <1>2, <2>3 DEF RoundOf, RoundInv, CountersOK
  <2>. QED BY <2>1, <2>2, <2>3
<1>10. LeadIsAlone'
  BY <1>7 DEF LeadIsAlone
<1>11. where'[w] # "wait"
  BY <1>1, <1>2 DEF RoundInv, CountersOK
<1>12. SomebodyIsMissing'
  BY <1>2, <1>11 DEF SomebodyIsMissing
<1>. QED BY <1>5, <1>6, <1>9, <1>10, <1>12 DEF RoundInv

LEMMA LeadReleases ==
    ASSUME RoundInv, NEW w \in Callers, releaseAll(w)
    PROVE  RoundInv'
<1>1. PICK place \in {"out", "section"} : where' = [where EXCEPT ![w] = place]
  BY DEF releaseAll
<1>2. /\ where[w] = "lead" /\ dorelease'
      /\ UNCHANGED <<threadcount, arrived, passed, firsts, members, nrthreads,
                     immediaterelease>>
  BY DEF releaseAll, Fixed
<1>3. w \in members /\ \A v \in members \ {w} : where[v] = "wait"
  BY <1>2 DEF RoundInv, OnlyMembers, LeadIsAlone
<1>4. \A v \in Callers : where'[v] = "wait" <=> where[v] = "wait"
  BY <1>1, <1>2 DEF RoundInv, CountersOK
<1>5. Waiting' = Waiting /\ Released /\ Released'
  BY <1>2, <1>4 DEF Waiting, Released
<1>6. CountersOK' /\ OnlyMembers'
  BY <1>1, <1>2, <1>3 DEF RoundInv, CountersOK, Places, OnlyMembers, releaseAll
<1>7. CountIsWaiting'
  BY <1>2, <1>5 DEF RoundInv, CountIsWaiting
<1>8. \A v \in members' : RoundOf(v)'
  BY <1>2, <1>4, <1>5 DEF RoundInv, RoundOf, CountersOK
<1>9. ~\E v \in Callers : where'[v] = "lead"
  BY <1>1, <1>2, <1>3 DEF RoundInv, CountersOK, OnlyMembers
<1>10. LeadIsAlone' /\ SomebodyIsMissing'
  BY <1>5, <1>9 DEF LeadIsAlone, SomebodyIsMissing
<1>. QED BY <1>6, <1>7, <1>8, <1>10 DEF RoundInv

-----------------------------------------------------------------------------
LEMMA EnterKeeps ==
    ASSUME RoundInv, NEW w \in members, where[w] \in {"out", "gate"}, NEW unlock \in BOOLEAN,
           Enter(w, unlock), Fixed
    PROVE  RoundInv'
<1>1. CASE PreviousRoundIsOut /\ arrived' = [arrived EXCEPT ![w] = @ + 1]
                              /\ ArriveLast(w, unlock)
  BY <1>1, LastArrives
<1>2. CASE PreviousRoundIsOut /\ arrived' = [arrived EXCEPT ![w] = @ + 1] /\ ArriveAndWait(w)
  BY <1>2, AnotherWaits
<1>3. CASE ~PreviousRoundIsOut
  <2>1. /\ where' = [where EXCEPT ![w] = "gate"]
        /\ UNCHANGED <<threadcount, dorelease, arrived, passed, firsts>>
    BY <1>3 DEF Enter
  <2>. QED BY <2>1, Moves
<1>. QED BY <1>1, <1>2, <1>3 DEF Enter

LEMMA StepKeeps ==
    ASSUME BarrierInv, NEW w \in Callers, BarrierStep(w)
    PROVE  BarrierInv'
<1>1. ASSUME NEW unlock \in BOOLEAN, waitForAll(w, unlock)
      PROVE  BarrierInv'
  BY <1>1, EnterKeeps DEF waitForAll, BarrierInv, UnlocksOK
<1>2. ASSUME WakeAtGate(w)
      PROVE  BarrierInv'
  <2>1. w \in members
    BY <1>2 DEF WakeAtGate, BarrierInv, RoundInv, OnlyMembers
  <2>. QED BY <1>2, <2>1, EnterKeeps DEF WakeAtGate, BarrierInv, UnlocksOK
<1>3. ASSUME WakeInRound(w)
      PROVE  BarrierInv'
  <2>1. w \in members
    BY <1>3 DEF WakeInRound, BarrierInv, RoundInv, OnlyMembers
  <2>2. CASE Leave(w)
    BY <1>3, <2>1, <2>2, Leaves DEF WakeInRound, BarrierInv, UnlocksOK
  <2>3. CASE SleepOn(w)
    <3>1. UNCHANGED <<nrthreads, threadcount, dorelease, immediaterelease, where, members,
                      arrived, passed, firsts>>
      BY <1>3, <2>3 DEF WakeInRound, SleepOn, Fixed
    <3>2. RoundInv'
      BY <3>1 DEF BarrierInv, RoundInv, CountersOK, OnlyMembers, CountIsWaiting, Waiting, RoundOf,
                  Released, LeadIsAlone, SomebodyIsMissing
    <3>. QED BY <1>3, <3>2 DEF WakeInRound, BarrierInv, UnlocksOK
  <2>. QED BY <1>3, <2>2, <2>3 DEF WakeInRound
<1>4. ASSUME releaseAll(w)
      PROVE  BarrierInv'
  BY <1>4, LeadReleases DEF releaseAll, BarrierInv, UnlocksOK
<1>5. ASSUME unLock(w)
      PROVE  BarrierInv'
  <2>1. w \in members
    BY <1>5 DEF unLock, BarrierInv, RoundInv, OnlyMembers
  <2>. QED BY <1>5, <2>1, Moves DEF unLock, BarrierInv, UnlocksOK
<1>. QED BY <1>1, <1>2, <1>3, <1>4, <1>5 DEF BarrierStep

LEMMA RoundsKept ==
    BarrierInv /\ [BarrierNext]_barrierVars
        => BarrierInv'
<1>. SUFFICES ASSUME BarrierInv, [BarrierNext]_barrierVars
              PROVE  BarrierInv'
  OBVIOUS
<1>1. ASSUME NEW S \in SUBSET Callers, setNrThreads(S)
      PROVE  BarrierInv'
  BY <1>1, SetNumber DEF setNrThreads, BarrierInv, UnlocksOK
<1>2. ASSUME NEW w \in Callers, BarrierStep(w)
      PROVE  BarrierInv'
  BY <1>2, StepKeeps
<1>3. CASE UNCHANGED barrierVars
  BY <1>3 DEF barrierVars, BarrierInv, UnlocksOK, RoundInv, CountersOK, OnlyMembers, CountIsWaiting, Waiting,
              RoundOf, Released, LeadIsAlone, SomebodyIsMissing
<1>. QED BY <1>1, <1>2, <1>3 DEF BarrierNext

\* What the runs check follows from where the callers are in their rounds.
LEMMA RoundsApart == BarrierInv => RoundsAreSeparate
<1>. SUFFICES ASSUME BarrierInv, NEW v \in members, NEW w \in members
              PROVE  passed[w] <= firsts /\ firsts <= arrived[v] /\ firsts <= passed[v] + 1
  BY DEF RoundsAreSeparate
<1>. QED BY DEF BarrierInv, RoundInv, RoundOf, CountersOK

\* Barrier::waitForAll: no member returns from a round before all have come to it, and one
\* call in each round returns true, before the others of the round return.
THEOREM RoundsAreSeparateCorrect == BarrierSpec => []RoundsAreSeparate
<1>1. BarrierInit => BarrierInv
  BY InitRounds DEF BarrierInit, BarrierInv, UnlocksOK
<1>. QED BY <1>1, RoundsKept, RoundsApart, PTL DEF BarrierSpec
=============================================================================
