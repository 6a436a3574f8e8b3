------------------------------- MODULE Barrier -------------------------------
(***************************************************************************)
(* Threads::Barrier: "Waits for a number of threads to reach a certain     *)
(* point (i.e. the call to Barrier::waitForAll).  Once everyone has        *)
(* arrived, everyone is released" (thread.h:240).                          *)
(*                                                                         *)
(* condvar_ is a mutex and a condition in one.  A call goes from one       *)
(* condvar_.wait() to the next, or to its return, in one action, because   *)
(* the mutex is held throughout.  A call that was given unlock = false     *)
(* returns with the mutex; its caller is then in its "section" until       *)
(* mutex().unLock().                                                       *)
(*                                                                         *)
(* where says what a caller is doing:                                      *)
(*   out      outside the barrier                                          *)
(*   gate     in the first loop of waitForAll, behind the previous round   *)
(*   wait     counted, in the second loop                                  *)
(*   lead     the call returned true and the others must still be released *)
(*   section  returned, and holding the mutex                              *)
(***************************************************************************)
EXTENDS Integers, FiniteSets

CONSTANTS
    Callers,    \* the threads that may take part
    NoCaller,
    MaxRounds   \* bound: calls of waitForAll by one caller

ASSUME BarrierAssumption ==
    /\ IsFiniteSet(Callers)
    /\ NoCaller \notin Callers
    /\ MaxRounds \in Nat

VARIABLES
    nrthreads,        \* nrthreads_
    threadcount,      \* threadcount_
    dorelease,        \* dorelease_
    immediaterelease, \* immediaterelease_, given to the constructor
    holder,           \* who holds the mutex between two actions
    where,
    unlocks,          \* the argument of the call under way
    asleep,           \* the callers inside condvar_.wait()
    members,          \* the callers that nrthreads_ was set for
    arrived,          \* how often a caller was counted ...
    passed,           \* ... and has returned
    firsts            \* how often the call returned true

barrierVars == <<nrthreads, threadcount, dorelease, immediaterelease, holder,
                 where, unlocks, asleep, members, arrived, passed, firsts>>

Fixed == UNCHANGED <<nrthreads, immediaterelease, members>>

BarrierInit ==
    /\ nrthreads = -1
    /\ threadcount = 0
    /\ dorelease = FALSE
    /\ immediaterelease \in BOOLEAN
    /\ holder = NoCaller
    /\ where = [w \in Callers |-> "out"]
    /\ unlocks = [w \in Callers |-> TRUE]
    /\ asleep = {}
    /\ members = {}
    /\ arrived = [w \in Callers |-> 0]
    /\ passed = [w \in Callers |-> 0]
    /\ firsts = 0

\* A task sets the number in doPrepare, before any of its works runs.
setNrThreads(S) ==
    /\ S # {}
    /\ \A w \in Callers : where[w] = "out" /\ passed[w] = 0
    /\ threadcount = 0
    /\ nrthreads' = Cardinality(S)
    /\ members' = S
    /\ UNCHANGED <<threadcount, dorelease, immediaterelease, holder, where,
                   unlocks, asleep, arrived, passed, firsts>>

-----------------------------------------------------------------------------
\* The end of a call: who was first must release the others by itself unless
\* that has been done.
Return(w, unlock, first) ==
    /\ passed' = [passed EXCEPT ![w] = @ + 1]
    /\ firsts' = IF first THEN firsts + 1 ELSE firsts
    /\ holder' = IF unlock THEN NoCaller ELSE w
    /\ where' = [where EXCEPT ![w] =
                     IF first /\ ~immediaterelease THEN "lead"
                     ELSE IF unlock THEN "out" ELSE "section"]

\* The last one to arrive takes itself out of the count again.
ArriveLast(w, unlock) ==
    /\ threadcount + 1 = nrthreads
    /\ dorelease' = (threadcount # 0 /\ (immediaterelease \/ dorelease))
    /\ asleep' = IF immediaterelease \/ threadcount = 0 THEN {} ELSE asleep
    /\ UNCHANGED threadcount
    /\ Return(w, unlock, TRUE)

ArriveAndWait(w) ==
    /\ threadcount + 1 # nrthreads
    /\ threadcount' = threadcount + 1
    /\ dorelease' = FALSE
    /\ asleep' = asleep \cup {w}
    /\ where' = [where EXCEPT ![w] = "wait"]
    /\ UNCHANGED <<holder, passed, firsts>>

\* Mistake (PreviousRoundIsOut): the loop at the start of waitForAll is left
\* out, so the next round may be entered while the last one is being left.
AlwaysOut == TRUE

\* Not everybody is out of the previous round.
PreviousRoundIsOut == ~(threadcount # 0 /\ dorelease)

\* The call from the first loop on.
Enter(w, unlock) ==
    \/ /\ PreviousRoundIsOut
       /\ arrived' = [arrived EXCEPT ![w] = @ + 1]
       /\ ArriveLast(w, unlock) \/ ArriveAndWait(w)
    \/ /\ ~PreviousRoundIsOut
       /\ where' = [where EXCEPT ![w] = "gate"]
       /\ asleep' = asleep \cup {w}
       /\ UNCHANGED <<threadcount, dorelease, holder, arrived, passed, firsts>>

waitForAll(w, unlock) ==
    /\ w \in members
    /\ where[w] = "out"
    /\ arrived[w] < MaxRounds
    /\ holder = NoCaller
    /\ unlocks' = [unlocks EXCEPT ![w] = unlock]
    /\ Enter(w, unlock)
    /\ Fixed

\* condvar_.wait() returns and the loop tests its condition again, although no
\* signal of this class comes while the condition still holds.
WakeAtGate(w) ==
    /\ where[w] = "gate"
    /\ w \notin asleep
    /\ holder = NoCaller
    /\ Enter(w, unlocks[w])
    /\ UNCHANGED unlocks
    /\ Fixed

\* The last one out closes the round and wakes those at the gate.
Leave(w) ==
    /\ dorelease
    /\ threadcount' = threadcount - 1
    /\ dorelease' = (threadcount # 1)
    /\ asleep' = IF threadcount = 1 THEN {} ELSE asleep
    /\ Return(w, unlocks[w], FALSE)

SleepOn(w) ==
    /\ ~dorelease
    /\ asleep' = asleep \cup {w}
    /\ UNCHANGED <<threadcount, dorelease, holder, where, passed, firsts>>

WakeInRound(w) ==
    /\ where[w] = "wait"
    /\ w \notin asleep
    /\ holder = NoCaller
    /\ Leave(w) \/ SleepOn(w)
    /\ UNCHANGED <<unlocks, arrived>>
    /\ Fixed

\* releaseAll, or releaseAllNoLock if the caller has kept the mutex.
releaseAll(w) ==
    /\ where[w] = "lead"
    /\ holder \in {w, NoCaller}
    /\ dorelease' = TRUE
    /\ asleep' = {}
    /\ where' = [where EXCEPT ![w] = IF holder = w THEN "section" ELSE "out"]
    /\ UNCHANGED <<threadcount, holder, unlocks, arrived, passed, firsts>>
    /\ Fixed

\* mutex().unLock() by a caller that came back with the mutex.
unLock(w) ==
    /\ where[w] = "section"
    /\ holder' = NoCaller
    /\ where' = [where EXCEPT ![w] = "out"]
    /\ UNCHANGED <<threadcount, dorelease, unlocks, asleep, arrived, passed,
                   firsts>>
    /\ Fixed

BarrierStep(w) ==
    \/ \E unlock \in BOOLEAN : waitForAll(w, unlock)
    \/ WakeAtGate(w)
    \/ WakeInRound(w)
    \/ releaseAll(w)
    \/ unLock(w)

BarrierNext ==
    \/ \E S \in SUBSET Callers : setNrThreads(S)
    \/ \E w \in Callers : BarrierStep(w)

BarrierSpec == BarrierInit /\ [][BarrierNext]_barrierVars

-----------------------------------------------------------------------------
\* Nobody returns from a round before every member has come to it, and of each
\* round exactly one call returns true: the others that have returned from the
\* round have been preceded by it, and the next true comes after all have left
\* (thread.h:252: "true if current thread is the first one to return").
RoundsAreSeparate ==
    \A v, w \in members :
        /\ passed[w] <= firsts
        /\ firsts <= arrived[v]
        /\ firsts <= passed[v] + 1
=============================================================================
