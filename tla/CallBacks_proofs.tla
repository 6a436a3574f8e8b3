--------------------------- MODULE CallBacks_proofs ---------------------------
(***************************************************************************)
(* Theorems about CallBacks, for every number of threads, objects,         *)
(* notifiers and calls.                                                    *)
(***************************************************************************)
EXTENDS CallBacks, SequenceTheorems, WellFoundedInduction, TLAPS

LEMMA NatMin ==
    ASSUME NEW T, T \subseteq Nat, T # {}
    PROVE  \E x \in T : \A y \in T : x <= y
<1>. DEFINE R == OpToRel(<, Nat)
<1>1. IsWellFoundedOn(R, Nat)
  BY NatLessThanWellFounded
<1>. HIDE DEF R
<1>2. PICK x \in T : \A y \in T : ~ (<<y, x>> \in R)
  BY <1>1, WFMin
<1>3. \A y \in T : ~(y < x)
  BY <1>2 DEF R, OpToRel
<1>. QED BY <1>3

\* Without takes out all of one kind.
LEMMA WithoutLeavesOut ==
    ASSUME NEW S, NEW s \in Seq(S), NEW o
    PROVE  Without(s, o) \in Seq(S \ {o})
<1>. DEFINE N == Len(s)
            More(p, i) == IF s[i] = o THEN p ELSE Append(p, s[i])
            Body(g, n) == [i \in 0..n |-> IF i = 0 THEN <<>> ELSE More(g[i-1], i)]
            kept == CHOOSE g : g = Body(g, N)
<1>1. N \in Nat /\ \A i \in 1..N : s[i] \in S
  BY LenProperties, ElementOfSeq
<1>2. Without(s, o) = kept[N]
  BY DEF Without
<1>3. \A i \in 1..N : \A p \in Seq(S \ {o}) : More(p, i) \in Seq(S \ {o})
  BY <1>1
<1>. HIDE DEF N, More
<1>4. kept = Body(kept, N)
  <2>. DEFINE T == {n \in 0..N : ~ \E g : g = Body(g, n)}
  <2>1. ASSUME T # {} PROVE FALSE
    <3>0. T \subseteq Nat
      BY <1>1
    <3>1. PICK x \in T : \A y \in T : x <= y
      <4>. HIDE DEF T
      <4>. QED BY <2>1, <3>0, NatMin
    <3>2. CASE x = 0
      <4>. DEFINE g == [i \in 0..0 |-> <<>>]
      <4>1. g = Body(g, 0)
        OBVIOUS
      <4>. QED BY <4>1, <3>2
    <3>3. CASE x # 0
      <4>1. x \in 1..N /\ x-1 \in 0..N /\ ~(x <= x-1)
        BY <3>3, <1>1
      <4>2. PICK g : g = Body(g, x-1)
        BY <4>1, <3>1
      <4>3. \A i \in 0..x-1 : g[i] = IF i = 0 THEN <<>> ELSE More(g[i-1], i)
        BY <4>2
      <4>. DEFINE h == [i \in 0..x |-> IF i = x THEN More(g[x-1], x) ELSE g[i]]
      <4>4. \A i \in 0..x : h[i] = IF i = 0 THEN <<>> ELSE More(h[i-1], i)
        <5>. SUFFICES ASSUME NEW i \in 0..x PROVE h[i] = IF i = 0 THEN <<>> ELSE More(h[i-1], i)
          OBVIOUS
        <5>1. CASE i = x
          <6>1. h[i] = More(g[x-1], x) /\ h[i-1] = g[x-1] /\ i # 0
            BY <5>1, <4>1
          <6>. QED BY <6>1, <5>1
        <5>2. CASE i # x
          <6>1. i \in 0..x-1 /\ h[i] = g[i] /\ (i # 0 => h[i-1] = g[i-1])
            BY <5>2, <4>1
          <6>. QED BY <6>1, <4>3
        <5>. QED BY <5>1, <5>2
      <4>5. h = Body(h, x)
        BY <4>4
      <4>. QED BY <4>5, <3>1
    <3>. QED BY <3>2, <3>3
  <2>2. \E g : g = Body(g, N)
    BY <2>1, <1>1
  <2>. QED BY <2>2
<1>. HIDE DEF kept
<1>5. \A i \in 0..N : kept[i] = IF i = 0 THEN <<>> ELSE More(kept[i-1], i)
  BY <1>4
<1>6. \A i \in 0..N : kept[i] \in Seq(S \ {o})
  <2>. DEFINE T == {n \in 0..N : kept[n] \notin Seq(S \ {o})}
  <2>1. ASSUME T # {} PROVE FALSE
    <3>0. T \subseteq Nat
      BY <1>1
    <3>1. PICK x \in T : \A y \in T : x <= y
      <4>. HIDE DEF T
      <4>. QED BY <2>1, <3>0, NatMin
    <3>2. CASE x = 0
      <4>1. kept[x] = <<>>
        BY <3>2, <1>5
      <4>2. <<>> \in Seq(S \ {o})
        OBVIOUS
      <4>. QED BY <4>1, <4>2
    <3>3. CASE x # 0
      <4>1. x \in 1..N /\ x-1 \in 0..N /\ ~(x <= x-1)
        BY <3>3, <1>1
      <4>2. kept[x-1] \in Seq(S \ {o})
        BY <4>1, <3>1
      <4>3. kept[x] = More(kept[x-1], x)
        BY <1>5, <4>1
      <4>. QED BY <4>1, <4>2, <4>3, <1>3
    <3>. QED BY <3>2, <3>3
  <2>. QED BY <2>1
<1>. QED BY <1>1, <1>2, <1>6

LEMMA WithoutIsSeq ==
    ASSUME NEW S, NEW s \in Seq(S), NEW o
    PROVE  Without(s, o) \in Seq(S)
<1>1. Without(s, o) \in Seq(S \ {o})
  BY WithoutLeavesOut
<1>. QED BY <1>1

LEMMA ToSetOfSeq ==
    ASSUME NEW S, NEW s \in Seq(S)
    PROVE  ToSet(s) \subseteq S /\ s \in Seq(ToSet(s))
BY DEF ToSet

LEMMA NatMax ==
    ASSUME NEW n \in Nat, NEW T, T \subseteq 0..n, T # {}
    PROVE  \E x \in T : \A y \in T : y <= x
<1>. DEFINE U == {i \in 0..n : n - i \in T}
<1>1. PICK j \in T : j \in 0..n
  OBVIOUS
<1>2. n - j \in 0..n /\ n - (n - j) = j
  BY <1>1
<1>3. U \subseteq Nat /\ U # {}
  BY <1>1, <1>2
<1>4. PICK x \in U : \A y \in U : x <= y
  <2>. HIDE DEF U
  <2>. QED BY <1>3, NatMin
<1>5. \A i \in T : i \in 0..n /\ n - i \in 0..n /\ n - (n - i) = i
  OBVIOUS
<1>6. \A i \in T : n - i \in U
  BY <1>5
<1>7. \A i \in T : x <= n - i
  BY <1>4, <1>6
<1>8. x \in 0..n /\ n - x \in T
  BY <1>4
<1>9. \A i \in T : i <= n - x
  BY <1>5, <1>7, <1>8
<1>. QED BY <1>8, <1>9

LEMMA RemoveAtIsSeq ==
    ASSUME NEW S, NEW s \in Seq(S), NEW i \in DOMAIN s
    PROVE  RemoveAt(s, i) \in Seq(S)
BY DEF RemoveAt

LEMMA LastOfIsIn ==
    ASSUME NEW S, NEW s \in Seq(S), NEW o \in ToSet(s)
    PROVE  LastOf(s, o) \in DOMAIN s
<1>. DEFINE I == {i \in DOMAIN s : s[i] = o}
<1>1. DOMAIN s = 1..Len(s) /\ Len(s) \in Nat
  BY LenProperties
<1>2. I # {} /\ I \subseteq 0..Len(s)
  BY <1>1 DEF ToSet
<1>3. PICK i \in I : \A j \in I : j <= i
  <2>. HIDE DEF I
  <2>. QED BY <1>1, <1>2, NatMax
<1>4. i \in DOMAIN s /\ s[i] = o /\ \A j \in DOMAIN s : s[j] = o => j <= i
  BY <1>3
<1>. QED BY <1>4 DEF LastOf

-----------------------------------------------------------------------------
(***************************************************************************)
(* Typing                                                                  *)
(***************************************************************************)
\* The calls an object and a notifier have part in, those of an object that
\* ends, and those of a notifier that ends.
PairLabels == {"subscribe", "record", "remove", "willcall", "unsub", "relock"}
EndLabels == {"threadcalls", "waitqueue", "lockall", "removewith",
              "unsubscribe", "members"}
ShutLabels == {"locksubs", "shutdown"}

\* What a call is about is known while it lasts.
PlaceOK ==
    \A t \in Threads :
        /\ pc[t] \in PairLabels => obj[t] \in Objects /\ ntf[t] \in Notifiers
        /\ pc[t] \in EndLabels => obj[t] \in Objects
        /\ pc[t] = "removewith" => todo[t] \subseteq Notifiers
        /\ pc[t] = "unsubscribe" =>
               ntf[t] \in Notifiers /\ todo[t] \subseteq Notifiers
        /\ pc[t] \in ShutLabels => ntf[t] \in Notifiers
        /\ pc[t] = "shutdown" => todo[t] \subseteq Objects

TypeInv == TypeOK /\ PlaceOK

ObjectTypes ==
    /\ life \in [Objects -> {"alive", "ending", "detached", "gone"}]
    /\ attached \in [Objects -> SUBSET Notifiers]
    /\ alock \in [Objects -> Threads \cup {Nobody}]

NotifierTypes ==
    /\ nlife \in [Notifiers -> {"alive", "ending", "gone"}]
    /\ cbs \in [Notifiers -> Seq(Objects)]
    /\ cber \in [Notifiers -> Objects \cup {Nobody}]
    /\ subscribers \in [Notifiers -> SUBSET Objects]
    /\ slock \in [Notifiers -> Threads \cup {Nobody}]

CallTypes ==
    /\ pc \in [Threads -> Labels]
    /\ obj \in [Threads -> Objects \cup {Nobody}]
    /\ ntf \in [Threads -> Notifiers \cup {Nobody}]
    /\ todo \in [Threads -> SUBSET (Objects \cup Notifiers)]

FrameTypes == frames \in [Threads -> Seq(Frames)] /\ nrcalls \in 0..MaxCalls

LEMMA TypeGroups ==
    TypeOK <=> ReceiverTypeOK /\ ObjectTypes /\ NotifierTypes /\ CallTypes
                   /\ FrameTypes
BY DEF TypeOK, ObjectTypes, NotifierTypes, CallTypes, FrameTypes

LEMMA TypeGroupsNext ==
    TypeOK' <=> ReceiverTypeOK' /\ ObjectTypes' /\ NotifierTypes' /\ CallTypes'
                   /\ FrameTypes'
BY DEF TypeOK, ObjectTypes, NotifierTypes, CallTypes, FrameTypes

LEMMA MayCounts ==
    ASSUME TypeOK, NEW t, NEW call, NEW o, NEW n, May(t, call, o, n)
    PROVE  nrcalls' \in 0..MaxCalls
<1>1. nrcalls \in 0..MaxCalls /\ nrcalls < MaxCalls /\ nrcalls' = nrcalls + 1
  BY DEF TypeOK, May
<1>2. MaxCalls \in Nat
  BY CallBacksAssumption
<1>. QED BY <1>1, <1>2

LEMMA TopIsFrame ==
    ASSUME TypeOK, NEW t \in Threads, frames[t] # <<>>
    PROVE  /\ frames[t] \in Seq(Frames) /\ Len(frames[t]) \in Nat \ {0}
           /\ Top(t) = frames[t][1] /\ Top(t) \in Frames
           /\ Tail(frames[t]) \in Seq(Frames)
<1>1. frames[t] \in Seq(Frames)
  BY DEF TypeOK
<1>. QED BY <1>1, HeadTailProperties, LenProperties, EmptySeq, ElementOfSeq
    DEF Top

LEMMA StepKeepsFrames ==
    ASSUME TypeOK, NEW t \in Threads, frames[t] # <<>>, NEW idx \in Nat,
           NEW at \in {"loop", "call", "body"}, Step(t, idx, at)
    PROVE  frames' \in [Threads -> Seq(Frames)]
<1>. DEFINE s == frames[t]
            f == [s[1] EXCEPT !.idx = idx, !.at = at]
            r == [s EXCEPT ![1] = f]
<1>1. s \in Seq(Frames) /\ 1 \in 1..Len(s) /\ s[1] \in Frames
  BY TopIsFrame
<1>2. f \in Frames
  BY <1>1 DEF Frames
<1>3. r \in Seq(Frames)
  <2>. HIDE DEF f, s
  <2>. QED BY <1>1, <1>2, ExceptSeq
<1>4. frames \in [Threads -> Seq(Frames)]
  BY DEF TypeOK
<1>5. frames' = [frames EXCEPT ![t] = r]
  BY <1>1, <1>4 DEF Step
<1>. QED BY <1>3, <1>4, <1>5

LEMMA PushKeepsFrames ==
    ASSUME TypeOK, NEW t \in Threads, NEW n \in Notifiers \cup {Nobody},
           NEW s \in Seq(Objects), Push(t, n, s)
    PROVE  frames' \in [Threads -> Seq(Frames)]
<1>. DEFINE f == [ntf |-> n, copy |-> s, idx |-> 1, at |-> "loop"]
<1>1. f \in Frames
  BY DEF Frames
<1>. HIDE DEF f
<1>2. <<f>> \o frames[t] \in Seq(Frames)
  BY <1>1, ConcatProperties DEF TypeOK
<1>3. frames \in [Threads -> Seq(Frames)] /\ frames' = [frames EXCEPT ![t] = <<f>> \o @]
  BY DEF TypeOK, Push, f
<1>. QED BY <1>2, <1>3

LEMMA ReleaseTypes ==
    ASSUME TypeOK, NEW t \in Threads, NEW n \in Notifiers, Release(t, n)
    PROVE  /\ nlife' \in [Notifiers -> {"alive", "ending", "gone"}]
           /\ cbs' \in [Notifiers -> Seq(Objects)]
           /\ pc' \in [Threads -> Labels]
           /\ ntf' \in [Threads -> Notifiers \cup {Nobody}]
<1>1. cbs' = cbs \/ cbs' = [cbs EXCEPT ![n] = <<>>]
  BY DEF Release
<1>. QED BY <1>1 DEF TypeOK, Release, Labels

LEMMA ShutdownGoesOnTypes ==
    ASSUME TypeOK, NEW t \in Threads, ntf[t] \in Notifiers, NEW left \in SUBSET Objects,
           NEW still, ShutdownGoesOn(t, left, still)
    PROVE  /\ nlife' \in [Notifiers -> {"alive", "ending", "gone"}]
           /\ cbs' \in [Notifiers -> Seq(Objects)]
           /\ slock' \in [Notifiers -> Threads \cup {Nobody}]
           /\ pc' \in [Threads -> Labels]
           /\ ntf' \in [Threads -> Notifiers \cup {Nobody}]
           /\ todo' \in [Threads -> SUBSET (Objects \cup Notifiers)]
<1>1. /\ slock' \in [Notifiers -> Threads \cup {Nobody}]
      /\ todo' \in [Threads -> SUBSET (Objects \cup Notifiers)]
  BY DEF TypeOK, ShutdownGoesOn
<1>2. CASE left = {} /\ still = {}
  BY <1>1, <1>2, ReleaseTypes DEF ShutdownGoesOn
<1>3. CASE ~(left = {} /\ still = {})
  BY <1>1, <1>3 DEF ShutdownGoesOn, TypeOK, Labels
<1>. QED BY <1>2, <1>3

LEMMA AddShutdownSubscriptionTypes ==
    ASSUME TypeInv, NEW t \in Threads, AddShutdownSubscription(t)
    PROVE  TypeInv'
<1>. USE CallBacksAssumption DEF TypeInv, PairLabels, EndLabels, ShutLabels
<1>1. ReceiverTypeOK' /\ ObjectTypes' /\ FrameTypes'
  BY TypeGroups
  DEF ReceiverTypeOK, ObjectTypes, FrameTypes, AddShutdownSubscription, At,
      Goto, Return, receiverVars, objectVars
<1>2. NotifierTypes'
  BY TypeGroups
  DEF PlaceOK, CallTypes, ObjectTypes, NotifierTypes, AddShutdownSubscription,
      At, Goto, Return
<1>3. CallTypes'
  BY TypeGroups
  DEF PlaceOK, CallTypes, ObjectTypes, NotifierTypes, AddShutdownSubscription,
      At, Goto, Return, Labels
<1>4. PlaceOK'
  BY TypeGroups
  DEF PlaceOK, CallTypes, ObjectTypes, NotifierTypes, AddShutdownSubscription,
      At, Goto, Return
<1>. QED BY <1>1, <1>2, <1>3, <1>4, TypeGroupsNext

LEMMA AttachEndsTypes ==
    ASSUME TypeInv, NEW t \in Threads, AttachEnds(t)
    PROVE  TypeInv'
<1>. USE CallBacksAssumption DEF TypeInv, PairLabels, EndLabels, ShutLabels
<1>1. ReceiverTypeOK' /\ NotifierTypes' /\ FrameTypes'
  BY TypeGroups
  DEF ReceiverTypeOK, NotifierTypes, FrameTypes, AttachEnds, At, Goto, Return,
      receiverVars, notifierVars
<1>2. ObjectTypes'
  BY TypeGroups
  DEF PlaceOK, CallTypes, ObjectTypes, NotifierTypes, AttachEnds, At, Goto,
      Return
<1>3. CallTypes'
  BY TypeGroups
  DEF PlaceOK, CallTypes, ObjectTypes, NotifierTypes, AttachEnds, At, Goto,
      Return, Labels
<1>4. PlaceOK'
  BY TypeGroups
  DEF PlaceOK, CallTypes, ObjectTypes, NotifierTypes, AttachEnds, At, Goto,
      Return
<1>. QED BY <1>1, <1>2, <1>3, <1>4, TypeGroupsNext

LEMMA RemoveCBTypes ==
    ASSUME TypeInv, NEW t \in Threads, RemoveCB(t)
    PROVE  TypeInv'
<1>. USE CallBacksAssumption DEF TypeInv, PairLabels, EndLabels, ShutLabels
<1>1. ReceiverTypeOK' /\ ObjectTypes' /\ FrameTypes'
  BY TypeGroups
  DEF ReceiverTypeOK, ObjectTypes, FrameTypes, RemoveCB, At, Goto, Return,
      receiverVars, objectVars
<1>2. NotifierTypes'
  BY TypeGroups, RemoveAtIsSeq, LastOfIsIn
  DEF PlaceOK, CallTypes, ObjectTypes, NotifierTypes, RemoveCB, At, Goto,
      Return
<1>3. CallTypes'
  BY TypeGroups
  DEF PlaceOK, CallTypes, ObjectTypes, NotifierTypes, RemoveCB, At, Goto,
      Return, Labels
<1>4. PlaceOK'
  BY TypeGroups
  DEF PlaceOK, CallTypes, ObjectTypes, NotifierTypes, RemoveCB, At, Goto,
      Return
<1>. QED BY <1>1, <1>2, <1>3, <1>4, TypeGroupsNext

LEMMA WillCallTypes ==
    ASSUME TypeInv, NEW t \in Threads, WillCall(t)
    PROVE  TypeInv'
<1>. USE CallBacksAssumption DEF TypeInv, PairLabels, EndLabels, ShutLabels
<1>1. ReceiverTypeOK' /\ NotifierTypes' /\ FrameTypes'
  BY TypeGroups
  DEF ReceiverTypeOK, NotifierTypes, FrameTypes, WillCall, At, Goto, Return,
      receiverVars, notifierVars
<1>2. ObjectTypes'
  BY TypeGroups
  DEF PlaceOK, CallTypes, ObjectTypes, NotifierTypes, WillCall, At, Goto,
      Return
<1>3. CallTypes'
  BY TypeGroups
  DEF PlaceOK, CallTypes, ObjectTypes, NotifierTypes, WillCall, At, Goto,
      Return, Labels
<1>4. PlaceOK'
  BY TypeGroups
  DEF PlaceOK, CallTypes, ObjectTypes, NotifierTypes, WillCall, At, Goto,
      Return
<1>. QED BY <1>1, <1>2, <1>3, <1>4, TypeGroupsNext

LEMMA DetachEndsTypes ==
    ASSUME TypeInv, NEW t \in Threads, DetachEnds(t)
    PROVE  TypeInv'
<1>. USE CallBacksAssumption DEF TypeInv, PairLabels, EndLabels, ShutLabels
<1>1. ReceiverTypeOK' /\ FrameTypes'
  BY TypeGroups
  DEF ReceiverTypeOK, FrameTypes, DetachEnds, At, Goto, Return, receiverVars
<1>2. ObjectTypes'
  BY TypeGroups
  DEF PlaceOK, CallTypes, ObjectTypes, NotifierTypes, DetachEnds, At, Goto,
      Return
<1>3. NotifierTypes'
  BY TypeGroups
  DEF PlaceOK, CallTypes, ObjectTypes, NotifierTypes, DetachEnds, At, Goto,
      Return
<1>4. CallTypes'
  BY TypeGroups
  DEF PlaceOK, CallTypes, ObjectTypes, NotifierTypes, DetachEnds, At, Goto,
      Return, Labels
<1>5. PlaceOK'
  BY TypeGroups
  DEF PlaceOK, CallTypes, ObjectTypes, NotifierTypes, DetachEnds, At, Goto,
      Return
<1>. QED BY <1>1, <1>2, <1>3, <1>4, <1>5, TypeGroupsNext

LEMMA DetachSleepsTypes ==
    ASSUME TypeInv, NEW t \in Threads, DetachSleeps(t)
    PROVE  TypeInv'
<1>. USE CallBacksAssumption DEF TypeInv, PairLabels, EndLabels, ShutLabels
<1>1. ReceiverTypeOK' /\ NotifierTypes' /\ FrameTypes'
  BY TypeGroups
  DEF ReceiverTypeOK, NotifierTypes, FrameTypes, DetachSleeps, At, Goto,
      Return, receiverVars, notifierVars
<1>2. ObjectTypes'
  BY TypeGroups
  DEF PlaceOK, CallTypes, ObjectTypes, NotifierTypes, DetachSleeps, At, Goto,
      Return
<1>3. CallTypes'
  BY TypeGroups
  DEF PlaceOK, CallTypes, ObjectTypes, NotifierTypes, DetachSleeps, At, Goto,
      Return, Labels
<1>4. PlaceOK'
  BY TypeGroups
  DEF PlaceOK, CallTypes, ObjectTypes, NotifierTypes, DetachSleeps, At, Goto,
      Return
<1>. QED BY <1>1, <1>2, <1>3, <1>4, TypeGroupsNext

LEMMA DetachRetriesTypes ==
    ASSUME TypeInv, NEW t \in Threads, DetachRetries(t)
    PROVE  TypeInv'
<1>. USE CallBacksAssumption DEF TypeInv, PairLabels, EndLabels, ShutLabels
<1>1. ReceiverTypeOK' /\ NotifierTypes' /\ FrameTypes'
  BY TypeGroups
  DEF ReceiverTypeOK, NotifierTypes, FrameTypes, DetachRetries, At, Goto,
      Return, receiverVars, notifierVars
<1>2. ObjectTypes'
  <2>1. alock' = alock \/ alock' = [alock EXCEPT ![obj[t]] = t]
    BY DEF DetachRetries
  <2>. QED BY <2>1, TypeGroups DEF ObjectTypes, DetachRetries
<1>3. CallTypes'
  <2>1. CASE ntf[t] \in attached[obj[t]]
    BY <2>1, TypeGroups DEF CallTypes, DetachRetries, Goto, Labels
  <2>2. CASE ntf[t] \notin attached[obj[t]]
    BY <2>2, TypeGroups DEF CallTypes, DetachRetries, Return, Labels
  <2>. QED BY <2>1, <2>2
<1>4. PlaceOK'
  BY TypeGroups
  DEF PlaceOK, CallTypes, ObjectTypes, NotifierTypes, DetachRetries, At, Goto,
      Return
<1>. QED BY <1>1, <1>2, <1>3, <1>4, TypeGroupsNext

LEMMA RemoveFromThreadCallsTypes ==
    ASSUME TypeInv, NEW t \in Threads, RemoveFromThreadCalls(t)
    PROVE  TypeInv'
<1>. USE CallBacksAssumption DEF TypeInv, PairLabels, EndLabels, ShutLabels
<1>1. ObjectTypes' /\ NotifierTypes' /\ FrameTypes'
  BY TypeGroups
  DEF ObjectTypes, NotifierTypes, FrameTypes, RemoveFromThreadCalls, removeBy,
      At, Goto, Return, objectVars, notifierVars
<1>2. ReceiverTypeOK'
  BY TypeGroups, WithoutIsSeq
  DEF PlaceOK, CallTypes, ObjectTypes, NotifierTypes, ReceiverTypeOK,
      RemoveFromThreadCalls, removeBy, At, Goto, Return
<1>3. CallTypes'
  BY TypeGroups
  DEF PlaceOK, CallTypes, ObjectTypes, NotifierTypes, RemoveFromThreadCalls,
      removeBy, At, Goto, Return, Labels
<1>4. PlaceOK'
  BY TypeGroups
  DEF PlaceOK, CallTypes, ObjectTypes, NotifierTypes, RemoveFromThreadCalls,
      removeBy, At, Goto, Return
<1>. QED BY <1>1, <1>2, <1>3, <1>4, TypeGroupsNext

LEMMA WaitForQueueTypes ==
    ASSUME TypeInv, NEW t \in Threads, WaitForQueue(t)
    PROVE  TypeInv'
<1>. USE CallBacksAssumption DEF TypeInv, PairLabels, EndLabels, ShutLabels
<1>1. ObjectTypes' /\ NotifierTypes' /\ FrameTypes'
  BY TypeGroups
  DEF ObjectTypes, NotifierTypes, FrameTypes, WaitForQueue, removeByEnds, At,
      Goto, Return, objectVars, notifierVars
<1>2. ReceiverTypeOK'
  BY TypeGroups
  DEF PlaceOK, CallTypes, ObjectTypes, NotifierTypes, ReceiverTypeOK,
      WaitForQueue, removeByEnds, At, Goto, Return
<1>3. CallTypes'
  BY TypeGroups
  DEF PlaceOK, CallTypes, ObjectTypes, NotifierTypes, WaitForQueue,
      removeByEnds, At, Goto, Return, Labels
<1>4. PlaceOK'
  BY TypeGroups
  DEF PlaceOK, CallTypes, ObjectTypes, NotifierTypes, WaitForQueue,
      removeByEnds, At, Goto, Return
<1>. QED BY <1>1, <1>2, <1>3, <1>4, TypeGroupsNext

LEMMA StartPassTypes ==
    ASSUME TypeInv, NEW t \in Threads, StartPass(t)
    PROVE  TypeInv'
<1>. USE CallBacksAssumption DEF TypeInv, PairLabels, EndLabels, ShutLabels
<1>1. ReceiverTypeOK' /\ NotifierTypes' /\ FrameTypes'
  BY TypeGroups
  DEF ReceiverTypeOK, NotifierTypes, FrameTypes, StartPass, At, Goto, Return,
      receiverVars, notifierVars
<1>2. ObjectTypes'
  <2>1. obj[t] \in Objects
    BY DEF StartPass, At, PlaceOK
  <2>2. CASE attached[obj[t]] = {}
    BY <2>1, <2>2, TypeGroups DEF ObjectTypes, StartPass
  <2>3. CASE attached[obj[t]] # {}
    BY <2>1, <2>3, TypeGroups DEF ObjectTypes, StartPass
  <2>. QED BY <2>2, <2>3
<1>3. CallTypes'
  <2>1. obj[t] \in Objects
    BY DEF StartPass, At, PlaceOK
  <2>2. CASE attached[obj[t]] = {}
    BY <2>1, <2>2, TypeGroups DEF CallTypes, StartPass, Labels
  <2>3. CASE attached[obj[t]] # {}
    BY <2>1, <2>3, TypeGroups DEF CallTypes, ObjectTypes, StartPass, Labels
  <2>. QED BY <2>2, <2>3
<1>4. PlaceOK'
  BY TypeGroups
  DEF PlaceOK, CallTypes, ObjectTypes, NotifierTypes, StartPass, At, Goto,
      Return
<1>. QED BY <1>1, <1>2, <1>3, <1>4, TypeGroupsNext

LEMMA RemoveWithTypes ==
    ASSUME TypeInv, NEW t \in Threads, RemoveWith(t)
    PROVE  TypeInv'
<1>. USE CallBacksAssumption DEF TypeInv, PairLabels, EndLabels, ShutLabels
<1>1. ReceiverTypeOK' /\ ObjectTypes' /\ FrameTypes'
  BY TypeGroups
  DEF ReceiverTypeOK, ObjectTypes, FrameTypes, RemoveWith, At, Goto, Return,
      receiverVars, objectVars
<1>2. NotifierTypes'
  BY TypeGroups, WithoutIsSeq
  DEF PlaceOK, CallTypes, ObjectTypes, NotifierTypes, RemoveWith, At, Goto,
      Return
<1>3. CallTypes'
  BY TypeGroups
  DEF PlaceOK, CallTypes, ObjectTypes, NotifierTypes, RemoveWith, At, Goto,
      Return, Labels
<1>4. PlaceOK'
  BY TypeGroups
  DEF PlaceOK, CallTypes, ObjectTypes, NotifierTypes, RemoveWith, At, Goto,
      Return
<1>. QED BY <1>1, <1>2, <1>3, <1>4, TypeGroupsNext

LEMMA RemoveWithFailsTypes ==
    ASSUME TypeInv, NEW t \in Threads, RemoveWithFails(t)
    PROVE  TypeInv'
<1>. USE CallBacksAssumption DEF TypeInv, PairLabels, EndLabels, ShutLabels
<1>1. ReceiverTypeOK' /\ NotifierTypes' /\ FrameTypes'
  BY TypeGroups
  DEF ReceiverTypeOK, NotifierTypes, FrameTypes, RemoveWithFails, PassGoesOn,
      At, Goto, Return, receiverVars, notifierVars
<1>2. ObjectTypes'
  BY TypeGroups
  DEF PlaceOK, CallTypes, ObjectTypes, NotifierTypes, RemoveWithFails,
      PassGoesOn, At, Goto, Return
<1>3. CallTypes'
  BY TypeGroups
  DEF PlaceOK, CallTypes, ObjectTypes, NotifierTypes, RemoveWithFails,
      PassGoesOn, At, Goto, Return, Labels
<1>4. PlaceOK'
  BY TypeGroups
  DEF PlaceOK, CallTypes, ObjectTypes, NotifierTypes, RemoveWithFails,
      PassGoesOn, At, Goto, Return
<1>. QED BY <1>1, <1>2, <1>3, <1>4, TypeGroupsNext

LEMMA UnsubscribeTypes ==
    ASSUME TypeInv, NEW t \in Threads, Unsubscribe(t)
    PROVE  TypeInv'
<1>. USE CallBacksAssumption DEF TypeInv, PairLabels, EndLabels, ShutLabels
<1>1. ReceiverTypeOK' /\ FrameTypes'
  BY TypeGroups
  DEF ReceiverTypeOK, FrameTypes, Unsubscribe, PassGoesOn, At, Goto, Return,
      receiverVars
<1>2. ObjectTypes'
  BY TypeGroups
  DEF PlaceOK, CallTypes, ObjectTypes, NotifierTypes, Unsubscribe, PassGoesOn,
      At, Goto, Return
<1>3. NotifierTypes'
  BY TypeGroups
  DEF PlaceOK, CallTypes, ObjectTypes, NotifierTypes, Unsubscribe, PassGoesOn,
      At, Goto, Return
<1>4. CallTypes'
  BY TypeGroups
  DEF PlaceOK, CallTypes, ObjectTypes, NotifierTypes, Unsubscribe, PassGoesOn,
      At, Goto, Return, Labels
<1>5. PlaceOK'
  BY TypeGroups
  DEF PlaceOK, CallTypes, ObjectTypes, NotifierTypes, Unsubscribe, PassGoesOn,
      At, Goto, Return
<1>. QED BY <1>1, <1>2, <1>3, <1>4, <1>5, TypeGroupsNext

LEMMA UnsubscribeFailsTypes ==
    ASSUME TypeInv, NEW t \in Threads, UnsubscribeFails(t)
    PROVE  TypeInv'
<1>. USE CallBacksAssumption DEF TypeInv, PairLabels, EndLabels, ShutLabels
<1>1. ReceiverTypeOK' /\ NotifierTypes' /\ FrameTypes'
  BY TypeGroups
  DEF ReceiverTypeOK, NotifierTypes, FrameTypes, UnsubscribeFails, PassGoesOn,
      At, Goto, Return, receiverVars, notifierVars
<1>2. ObjectTypes'
  BY TypeGroups
  DEF PlaceOK, CallTypes, ObjectTypes, NotifierTypes, UnsubscribeFails,
      PassGoesOn, At, Goto, Return
<1>3. CallTypes'
  BY TypeGroups
  DEF PlaceOK, CallTypes, ObjectTypes, NotifierTypes, UnsubscribeFails,
      PassGoesOn, At, Goto, Return, Labels
<1>4. PlaceOK'
  BY TypeGroups
  DEF PlaceOK, CallTypes, ObjectTypes, NotifierTypes, UnsubscribeFails,
      PassGoesOn, At, Goto, Return
<1>. QED BY <1>1, <1>2, <1>3, <1>4, TypeGroupsNext

LEMMA EndMemberTypes ==
    ASSUME TypeInv, NEW t \in Threads, EndMember(t)
    PROVE  TypeInv'
<1>. USE CallBacksAssumption DEF TypeInv, PairLabels, EndLabels, ShutLabels
<1>1. ReceiverTypeOK' /\ ObjectTypes' /\ FrameTypes'
  BY TypeGroups
  DEF ReceiverTypeOK, ObjectTypes, FrameTypes, EndMember, At, Goto, Return,
      receiverVars, objectVars
<1>2. NotifierTypes'
  BY TypeGroups
  DEF PlaceOK, CallTypes, ObjectTypes, NotifierTypes, EndMember, At, Goto,
      Return
<1>3. CallTypes'
  BY TypeGroups
  DEF PlaceOK, CallTypes, ObjectTypes, NotifierTypes, EndMember, At, Goto,
      Return, Labels
<1>4. PlaceOK'
  BY TypeGroups
  DEF PlaceOK, CallTypes, ObjectTypes, NotifierTypes, EndMember, At, Goto,
      Return
<1>. QED BY <1>1, <1>2, <1>3, <1>4, TypeGroupsNext

LEMMA DestroyObjectTypes ==
    ASSUME TypeInv, NEW t \in Threads, DestroyObject(t)
    PROVE  TypeInv'
<1>. USE CallBacksAssumption DEF TypeInv, PairLabels, EndLabels, ShutLabels
<1>1. ReceiverTypeOK' /\ NotifierTypes' /\ FrameTypes'
  BY TypeGroups
  DEF ReceiverTypeOK, NotifierTypes, FrameTypes, DestroyObject, At, Goto,
      Return, receiverVars, notifierVars
<1>2. ObjectTypes'
  BY TypeGroups
  DEF PlaceOK, CallTypes, ObjectTypes, NotifierTypes, DestroyObject, At, Goto,
      Return
<1>3. CallTypes'
  BY TypeGroups
  DEF PlaceOK, CallTypes, ObjectTypes, NotifierTypes, DestroyObject, At, Goto,
      Return, Labels
<1>4. PlaceOK'
  BY TypeGroups
  DEF PlaceOK, CallTypes, ObjectTypes, NotifierTypes, DestroyObject, At, Goto,
      Return
<1>. QED BY <1>1, <1>2, <1>3, <1>4, TypeGroupsNext

LEMMA StartShutdownTypes ==
    ASSUME TypeInv, NEW t \in Threads, StartShutdown(t)
    PROVE  TypeInv'
<1>. USE CallBacksAssumption DEF TypeInv, PairLabels, EndLabels, ShutLabels
<1>1. ReceiverTypeOK' /\ ObjectTypes' /\ FrameTypes'
  BY TypeGroups
  DEF ReceiverTypeOK, ObjectTypes, FrameTypes, StartShutdown, Release, At,
      Goto, Return, receiverVars, objectVars
<1>2. NotifierTypes'
  <2>1. ntf[t] \in Notifiers
    BY DEF StartShutdown, At, PlaceOK
  <2>2. CASE subscribers[ntf[t]] = {}
    BY <2>1, <2>2, ReleaseTypes, TypeGroups DEF NotifierTypes, StartShutdown
  <2>3. CASE subscribers[ntf[t]] # {}
    BY <2>1, <2>3, TypeGroups DEF NotifierTypes, StartShutdown
  <2>. QED BY <2>2, <2>3
<1>3. CallTypes'
  <2>1. ntf[t] \in Notifiers /\ subscribers[ntf[t]] \subseteq Objects
    BY TypeGroups DEF StartShutdown, At, PlaceOK, NotifierTypes
  <2>2. CASE subscribers[ntf[t]] = {}
    BY <2>1, <2>2, ReleaseTypes, TypeGroups DEF CallTypes, StartShutdown
  <2>3. CASE subscribers[ntf[t]] # {}
    BY <2>1, <2>3, TypeGroups DEF CallTypes, StartShutdown, Labels
  <2>. QED BY <2>2, <2>3
<1>4. PlaceOK'
  <2>1. ntf[t] \in Notifiers /\ subscribers[ntf[t]] \subseteq Objects
    BY TypeGroups DEF StartShutdown, At, PlaceOK, NotifierTypes
  <2>2. CASE subscribers[ntf[t]] = {}
    BY <2>1, <2>2, TypeGroups
    DEF CallTypes, StartShutdown, Release, PlaceOK, At
  <2>3. CASE subscribers[ntf[t]] # {}
    BY <2>1, <2>3, TypeGroups DEF CallTypes, StartShutdown, PlaceOK, At
  <2>. QED BY <2>2, <2>3
<1>. QED BY <1>1, <1>2, <1>3, <1>4, TypeGroupsNext

LEMMA NotifyShutdownTypes ==
    ASSUME TypeInv, NEW t \in Threads, NotifyShutdown(t)
    PROVE  TypeInv'
<1>. USE CallBacksAssumption DEF TypeInv, PairLabels, EndLabels, ShutLabels
<1>1. ReceiverTypeOK' /\ FrameTypes'
  BY TypeGroups
  DEF ReceiverTypeOK, FrameTypes, NotifyShutdown, ShutdownGoesOn, Release, At,
      Goto, Return, receiverVars
<1>2. ObjectTypes'
  BY TypeGroups
  DEF PlaceOK, CallTypes, ObjectTypes, NotifierTypes, NotifyShutdown,
      ShutdownGoesOn, Release, At, Goto, Return
<1>3. NotifierTypes'
  <2>1. ntf[t] \in Notifiers /\ todo[t] \subseteq Objects
    BY DEF NotifyShutdown, At, PlaceOK
  <2>2. PICK o \in todo[t] :
            /\ subscribers' = [subscribers EXCEPT ![ntf[t]] = @ \ {o}]
            /\ ShutdownGoesOn(t, todo[t] \ {o}, subscribers[ntf[t]] \ {o})
    BY DEF NotifyShutdown
  <2>3. subscribers' \in [Notifiers -> SUBSET Objects] /\ cber' = cber
    BY <2>1, <2>2, TypeGroups DEF NotifierTypes, NotifyShutdown
  <2>. QED BY <2>1, <2>2, <2>3, ShutdownGoesOnTypes, TypeGroups
      DEF NotifierTypes
<1>4. CallTypes'
  <2>1. ntf[t] \in Notifiers /\ todo[t] \subseteq Objects
    BY DEF NotifyShutdown, At, PlaceOK
  <2>2. PICK o \in todo[t] : ShutdownGoesOn(t, todo[t] \ {o}, subscribers[ntf[t]] \ {o})
    BY DEF NotifyShutdown
  <2>. QED BY <2>1, <2>2, ShutdownGoesOnTypes, TypeGroups
      DEF CallTypes, NotifyShutdown
<1>5. PlaceOK'
  BY TypeGroups
  DEF PlaceOK, CallTypes, ObjectTypes, NotifierTypes, NotifyShutdown,
      ShutdownGoesOn, Release, At, Goto, Return
<1>. QED BY <1>1, <1>2, <1>3, <1>4, <1>5, TypeGroupsNext

LEMMA NotifyShutdownFailsTypes ==
    ASSUME TypeInv, NEW t \in Threads, NotifyShutdownFails(t)
    PROVE  TypeInv'
<1>. USE CallBacksAssumption DEF TypeInv, PairLabels, EndLabels, ShutLabels
<1>1. ReceiverTypeOK' /\ ObjectTypes' /\ FrameTypes'
  BY TypeGroups
  DEF ReceiverTypeOK, ObjectTypes, FrameTypes, NotifyShutdownFails,
      ShutdownGoesOn, Release, At, Goto, Return, receiverVars, objectVars
<1>2. NotifierTypes'
  <2>1. ntf[t] \in Notifiers /\ todo[t] \subseteq Objects
    BY DEF NotifyShutdownFails, At, PlaceOK
  <2>2. PICK o \in todo[t] : ShutdownGoesOn(t, todo[t] \ {o}, subscribers[ntf[t]])
    BY DEF NotifyShutdownFails
  <2>. QED BY <2>1, <2>2, ShutdownGoesOnTypes, TypeGroups
      DEF NotifierTypes, NotifyShutdownFails
<1>3. CallTypes'
  <2>1. ntf[t] \in Notifiers /\ todo[t] \subseteq Objects
    BY DEF NotifyShutdownFails, At, PlaceOK
  <2>2. PICK o \in todo[t] : ShutdownGoesOn(t, todo[t] \ {o}, subscribers[ntf[t]])
    BY DEF NotifyShutdownFails
  <2>. QED BY <2>1, <2>2, ShutdownGoesOnTypes, TypeGroups
      DEF CallTypes, NotifyShutdownFails
<1>4. PlaceOK'
  BY TypeGroups
  DEF PlaceOK, CallTypes, ObjectTypes, NotifierTypes, NotifyShutdownFails,
      ShutdownGoesOn, Release, At, Goto, Return
<1>. QED BY <1>1, <1>2, <1>3, <1>4, TypeGroupsNext

LEMMA NextCallTypes ==
    ASSUME TypeInv, NEW t \in Threads, NextCall(t)
    PROVE  TypeInv'
<1>. USE CallBacksAssumption DEF TypeInv, PairLabels, EndLabels, ShutLabels
<1>1. ReceiverTypeOK' /\ ObjectTypes' /\ NotifierTypes' /\ CallTypes'
  BY TypeGroups
  DEF ReceiverTypeOK, ObjectTypes, NotifierTypes, CallTypes, NextCall, InLoop,
      Top, Step, List, At, Goto, Return, receiverVars, objectVars,
      notifierVars, callVars
<1>2. FrameTypes'
  <2>1. frames[t] # <<>>
    BY DEF NextCall, InLoop
  <2>2. Top(t).idx \in Nat
    BY <2>1, TopIsFrame DEF Frames
  <2>3. frames' \in [Threads -> Seq(Frames)]
    BY <2>1, <2>2, StepKeepsFrames DEF NextCall
  <2>. QED BY <2>3, TypeGroups DEF FrameTypes, NextCall
<1>3. PlaceOK'
  BY DEF PlaceOK, NextCall, InLoop, Top, Step, List, At, Goto, Return, callVars
<1>. QED BY <1>1, <1>2, <1>3, TypeGroupsNext

LEMMA StartCallTypes ==
    ASSUME TypeInv, NEW t \in Threads, StartCall(t)
    PROVE  TypeInv'
<1>. USE CallBacksAssumption DEF TypeInv, PairLabels, EndLabels, ShutLabels
<1>1. ReceiverTypeOK' /\ ObjectTypes' /\ NotifierTypes' /\ CallTypes'
  BY TypeGroups
  DEF ReceiverTypeOK, ObjectTypes, NotifierTypes, CallTypes, StartCall, Top,
      Step, At, Goto, Return, receiverVars, objectVars, notifierVars, callVars
<1>2. FrameTypes'
  <2>1. frames[t] # <<>>
    BY DEF StartCall
  <2>2. Top(t).idx \in Nat
    BY <2>1, TopIsFrame DEF Frames
  <2>3. frames' \in [Threads -> Seq(Frames)]
    BY <2>1, <2>2, StepKeepsFrames DEF StartCall
  <2>. QED BY <2>3, TypeGroups DEF FrameTypes, StartCall
<1>3. PlaceOK'
  BY DEF PlaceOK, StartCall, Top, Step, At, Goto, Return, callVars
<1>. QED BY <1>1, <1>2, <1>3, TypeGroupsNext

LEMMA CallReturnsTypes ==
    ASSUME TypeInv, NEW t \in Threads, CallReturns(t)
    PROVE  TypeInv'
<1>. USE CallBacksAssumption DEF TypeInv, PairLabels, EndLabels, ShutLabels
<1>1. ReceiverTypeOK' /\ ObjectTypes' /\ NotifierTypes' /\ CallTypes'
  BY TypeGroups
  DEF ReceiverTypeOK, ObjectTypes, NotifierTypes, CallTypes, CallReturns, Top,
      Step, InBody, At, Goto, Return, receiverVars, objectVars, notifierVars,
      callVars
<1>2. FrameTypes'
  <2>1. frames[t] # <<>>
    BY DEF CallReturns, InBody
  <2>2. Top(t).idx \in Nat
    BY <2>1, TopIsFrame DEF Frames
  <2>3. frames' \in [Threads -> Seq(Frames)]
    BY <2>1, <2>2, StepKeepsFrames DEF CallReturns
  <2>. QED BY <2>3, TypeGroups DEF FrameTypes, CallReturns
<1>3. PlaceOK'
  BY DEF PlaceOK, CallReturns, Top, Step, InBody, At, Goto, Return, callVars
<1>. QED BY <1>1, <1>2, <1>3, TypeGroupsNext

LEMMA LoopEndsTypes ==
    ASSUME TypeInv, NEW t \in Threads, LoopEnds(t)
    PROVE  TypeInv'
<1>. USE CallBacksAssumption DEF TypeInv, PairLabels, EndLabels, ShutLabels
<1>1. ObjectTypes' /\ CallTypes'
  BY TypeGroups
  DEF ObjectTypes, CallTypes, LoopEnds, eventEnds, InLoop, Top, List, At, Goto,
      Return, objectVars, callVars
<1>2. ReceiverTypeOK'
  <2>1. CASE Top(t).ntf = Nobody
    BY <2>1, TypeGroups DEF ReceiverTypeOK, LoopEnds, eventEnds
  <2>2. CASE Top(t).ntf # Nobody
    BY <2>2, TypeGroups DEF ReceiverTypeOK, LoopEnds, receiverVars
  <2>. QED BY <2>1, <2>2
<1>3. NotifierTypes'
  <2>1. frames[t] # <<>>
    BY DEF LoopEnds, InLoop
  <2>2. Top(t).ntf # Nobody => Top(t).ntf \in Notifiers
    BY <2>1, TopIsFrame DEF Frames
  <2>3. \/ cbs' = cbs
        \/ \E n \in Notifiers : cbs' = [cbs EXCEPT ![n] = <<>>]
    BY <2>2 DEF LoopEnds
  <2>4. cbs \in [Notifiers -> Seq(Objects)] /\ <<>> \in Seq(Objects)
    BY TypeGroups DEF NotifierTypes
  <2>5. cbs' \in [Notifiers -> Seq(Objects)]
    BY <2>3, <2>4
  <2>. QED BY <2>5, TypeGroups DEF NotifierTypes, LoopEnds
<1>4. FrameTypes'
  <2>1. Tail(frames[t]) \in Seq(Frames)
    BY TopIsFrame DEF LoopEnds, InLoop
  <2>. QED BY <2>1, TypeGroups DEF FrameTypes, LoopEnds
<1>5. PlaceOK'
  BY DEF PlaceOK, LoopEnds, eventEnds, InLoop, Top, List, At, Goto, Return,
         callVars
<1>. QED BY <1>1, <1>2, <1>3, <1>4, <1>5, TypeGroupsNext

LEMMA AttachCBTypes ==
    ASSUME TypeInv, NEW t \in Threads, NEW o \in Objects, NEW n \in Notifiers, AttachCB(t, o, n)
    PROVE  TypeInv'
<1>. USE CallBacksAssumption DEF TypeInv, PairLabels, EndLabels, ShutLabels
<1>1. ReceiverTypeOK' /\ ObjectTypes'
  BY TypeGroups
  DEF ReceiverTypeOK, ObjectTypes, AttachCB, May, Enter, At, Goto, Return,
      receiverVars, objectVars
<1>2. NotifierTypes'
  BY TypeGroups
  DEF PlaceOK, CallTypes, ObjectTypes, NotifierTypes, AttachCB, May, Enter, At,
      Goto, Return
<1>3. CallTypes'
  BY TypeGroups
  DEF PlaceOK, CallTypes, ObjectTypes, NotifierTypes, AttachCB, May, Enter, At,
      Goto, Return, Labels
<1>4. FrameTypes'
  <2>1. nrcalls' \in 0..MaxCalls
    BY MayCounts DEF AttachCB
  <2>. QED BY <2>1, TypeGroups DEF FrameTypes, AttachCB
<1>5. PlaceOK'
  BY TypeGroups
  DEF PlaceOK, CallTypes, ObjectTypes, NotifierTypes, AttachCB, May, Enter, At,
      Goto, Return
<1>. QED BY <1>1, <1>2, <1>3, <1>4, <1>5, TypeGroupsNext

LEMMA DetachCBTypes ==
    ASSUME TypeInv, NEW t \in Threads, NEW o \in Objects, NEW n \in Notifiers, DetachCB(t, o, n)
    PROVE  TypeInv'
<1>. USE CallBacksAssumption DEF TypeInv, PairLabels, EndLabels, ShutLabels
<1>1. ReceiverTypeOK' /\ NotifierTypes'
  BY TypeGroups
  DEF ReceiverTypeOK, NotifierTypes, DetachCB, May, Enter, At, Goto, Return,
      receiverVars, notifierVars
<1>2. ObjectTypes'
  BY TypeGroups
  DEF PlaceOK, CallTypes, ObjectTypes, NotifierTypes, DetachCB, May, Enter, At,
      Goto, Return
<1>3. CallTypes'
  BY TypeGroups
  DEF PlaceOK, CallTypes, ObjectTypes, NotifierTypes, DetachCB, May, Enter, At,
      Goto, Return, Labels
<1>4. FrameTypes'
  <2>1. nrcalls' \in 0..MaxCalls
    BY MayCounts DEF DetachCB
  <2>. QED BY <2>1, TypeGroups DEF FrameTypes, DetachCB
<1>5. PlaceOK'
  BY TypeGroups
  DEF PlaceOK, CallTypes, ObjectTypes, NotifierTypes, DetachCB, May, Enter, At,
      Goto, Return
<1>. QED BY <1>1, <1>2, <1>3, <1>4, <1>5, TypeGroupsNext

LEMMA EndObjectTypes ==
    ASSUME TypeInv, NEW t \in Threads, NEW o \in Objects, EndObject(t, o)
    PROVE  TypeInv'
<1>. USE CallBacksAssumption DEF TypeInv, PairLabels, EndLabels, ShutLabels
<1>1. ReceiverTypeOK' /\ NotifierTypes'
  BY TypeGroups
  DEF ReceiverTypeOK, NotifierTypes, EndObject, May, Enter, At, Goto, Return,
      receiverVars, notifierVars
<1>2. ObjectTypes'
  BY TypeGroups
  DEF PlaceOK, CallTypes, ObjectTypes, NotifierTypes, EndObject, May, Enter,
      At, Goto, Return
<1>3. CallTypes'
  BY TypeGroups
  DEF PlaceOK, CallTypes, ObjectTypes, NotifierTypes, EndObject, May, Enter,
      At, Goto, Return, Labels
<1>4. FrameTypes'
  <2>1. nrcalls' \in 0..MaxCalls
    BY MayCounts DEF EndObject
  <2>. QED BY <2>1, TypeGroups DEF FrameTypes, EndObject
<1>5. PlaceOK'
  BY TypeGroups
  DEF PlaceOK, CallTypes, ObjectTypes, NotifierTypes, EndObject, May, Enter,
      At, Goto, Return
<1>. QED BY <1>1, <1>2, <1>3, <1>4, <1>5, TypeGroupsNext

LEMMA EndNotifierTypes ==
    ASSUME TypeInv, NEW t \in Threads, NEW n \in Notifiers, EndNotifier(t, n)
    PROVE  TypeInv'
<1>. USE CallBacksAssumption DEF TypeInv, PairLabels, EndLabels, ShutLabels
<1>1. ReceiverTypeOK' /\ ObjectTypes'
  BY TypeGroups
  DEF ReceiverTypeOK, ObjectTypes, EndNotifier, May, Enter, At, Goto, Return,
      receiverVars, objectVars
<1>2. NotifierTypes'
  BY TypeGroups
  DEF PlaceOK, CallTypes, ObjectTypes, NotifierTypes, EndNotifier, May, Enter,
      At, Goto, Return
<1>3. CallTypes'
  BY TypeGroups
  DEF PlaceOK, CallTypes, ObjectTypes, NotifierTypes, EndNotifier, May, Enter,
      At, Goto, Return, Labels
<1>4. FrameTypes'
  <2>1. nrcalls' \in 0..MaxCalls
    BY MayCounts DEF EndNotifier
  <2>. QED BY <2>1, TypeGroups DEF FrameTypes, EndNotifier
<1>5. PlaceOK'
  BY TypeGroups
  DEF PlaceOK, CallTypes, ObjectTypes, NotifierTypes, EndNotifier, May, Enter,
      At, Goto, Return
<1>. QED BY <1>1, <1>2, <1>3, <1>4, <1>5, TypeGroupsNext

LEMMA TriggerTypes ==
    ASSUME TypeInv, NEW t \in Threads, NEW n \in Notifiers, Trigger(t, n)
    PROVE  TypeInv'
<1>. USE CallBacksAssumption DEF TypeInv, PairLabels, EndLabels, ShutLabels
<1>1. ReceiverTypeOK' /\ ObjectTypes' /\ NotifierTypes' /\ CallTypes'
  BY TypeGroups
  DEF ReceiverTypeOK, ObjectTypes, NotifierTypes, CallTypes, Trigger, May,
      Push, At, Goto, Return, receiverVars, objectVars, notifierVars, callVars
<1>2. FrameTypes'
  <2>1. nrcalls' \in 0..MaxCalls
    BY MayCounts DEF Trigger
  <2>2. cbs[n] \in Seq(Objects)
    BY TypeGroups DEF NotifierTypes
  <2>3. frames' \in [Threads -> Seq(Frames)]
    BY <2>2, PushKeepsFrames DEF Trigger
  <2>. QED BY <2>1, <2>3 DEF FrameTypes
<1>3. PlaceOK'
  BY DEF PlaceOK, Trigger, May, Push, At, Goto, Return, callVars
<1>. QED BY <1>1, <1>2, <1>3, TypeGroupsNext

LEMMA PostTypes ==
    ASSUME TypeInv, NEW t \in Threads, NEW o \in Objects, Post(t, o)
    PROVE  TypeInv'
<1>. USE CallBacksAssumption DEF TypeInv, PairLabels, EndLabels, ShutLabels
<1>1. ObjectTypes' /\ NotifierTypes' /\ CallTypes'
  BY TypeGroups
  DEF ObjectTypes, NotifierTypes, CallTypes, Post, May, add, eventsFor, At,
      Goto, Return, objectVars, notifierVars, callVars
<1>2. ReceiverTypeOK'
  BY TypeGroups
  DEF PlaceOK, CallTypes, ObjectTypes, NotifierTypes, ReceiverTypeOK, Post,
      May, add, eventsFor, At, Goto, Return
<1>3. FrameTypes'
  <2>1. nrcalls' \in 0..MaxCalls
    BY MayCounts DEF Post
  <2>. QED BY <2>1, TypeGroups DEF FrameTypes, Post
<1>4. PlaceOK'
  BY DEF PlaceOK, Post, May, add, eventsFor, At, Goto, Return, callVars
<1>. QED BY <1>1, <1>2, <1>3, <1>4, TypeGroupsNext

LEMMA EventTypes ==
    ASSUME TypeInv, Event
    PROVE  TypeInv'
<1>. USE CallBacksAssumption DEF TypeInv, PairLabels, EndLabels, ShutLabels
<1>1. ObjectTypes' /\ NotifierTypes' /\ CallTypes'
  BY TypeGroups
  DEF ObjectTypes, NotifierTypes, CallTypes, Event, event, Push, At, Goto,
      Return, objectVars, notifierVars, callVars
<1>2. ReceiverTypeOK'
  BY TypeGroups
  DEF PlaceOK, CallTypes, ObjectTypes, NotifierTypes, ReceiverTypeOK, Event,
      event, Push, At, Goto, Return
<1>3. FrameTypes'
  <2>1. Main \in Threads /\ Nobody \in Notifiers \cup {Nobody} /\ <<>> \in Seq(Objects)
    OBVIOUS
  <2>2. frames' \in [Threads -> Seq(Frames)]
    BY <2>1, PushKeepsFrames DEF Event
  <2>. QED BY <2>2, TypeGroups DEF FrameTypes, Event
<1>4. PlaceOK'
  BY DEF PlaceOK, Event, event, Push, At, Goto, Return, callVars
<1>. QED BY <1>1, <1>2, <1>3, <1>4, TypeGroupsNext

LEMMA TypeInvInit ==
    Init => TypeInv
<1>. SUFFICES ASSUME Init PROVE TypeInv
  OBVIOUS
<1>1. /\ <<>> \in Seq(Objects) /\ <<>> \in Seq(Frames)
      /\ 0 \in 0..MaxCalls
  BY CallBacksAssumption
<1>2. TypeOK
  BY <1>1, CallBacksAssumption
  DEF Init, ReceiverInit, TypeOK, ReceiverTypeOK, Labels
<1>3. PlaceOK
  BY DEF Init, PlaceOK, PairLabels, EndLabels, ShutLabels
<1>. QED BY <1>2, <1>3 DEF TypeInv

LEMMA TypeInvStep ==
    TypeInv /\ [Next]_vars => TypeInv'
<1>. SUFFICES ASSUME TypeInv, [Next]_vars PROVE TypeInv'
  OBVIOUS
<1>1. CASE Event
  BY <1>1, EventTypes
<1>2. ASSUME NEW t \in Threads, Call(t) PROVE TypeInv'
  BY <1>2, AttachCBTypes, DetachCBTypes, EndObjectTypes, PostTypes,
     EndNotifierTypes, TriggerTypes DEF Call
<1>3. ASSUME NEW t \in Threads, Proceeds(t) PROVE TypeInv'
  BY <1>3, AddShutdownSubscriptionTypes, AttachEndsTypes, RemoveCBTypes,
     WillCallTypes, DetachRetriesTypes, RemoveFromThreadCallsTypes,
     WaitForQueueTypes, StartPassTypes, EndMemberTypes, DestroyObjectTypes,
     StartShutdownTypes, NextCallTypes, StartCallTypes, CallReturnsTypes,
     LoopEndsTypes DEF Proceeds
<1>4. ASSUME NEW t \in Threads, Succeeds(t) PROVE TypeInv'
  BY <1>4, DetachEndsTypes, RemoveWithTypes, UnsubscribeTypes,
     NotifyShutdownTypes DEF Succeeds
<1>5. ASSUME NEW t \in Threads, Fails(t) PROVE TypeInv'
  BY <1>5, DetachSleepsTypes, RemoveWithFailsTypes, UnsubscribeFailsTypes,
     NotifyShutdownFailsTypes DEF Fails
<1>6. CASE UNCHANGED vars
  BY <1>6 DEF vars, receiverVars, objectVars, notifierVars, callVars, TypeInv,
     TypeOK, ReceiverTypeOK, PlaceOK
<1>. QED BY <1>1, <1>2, <1>3, <1>4, <1>5, <1>6 DEF Next

(***************************************************************************)
(* Every variable keeps its type: locks are had by threads or by nobody,   *)
(* and a call knows its object and its notifier.                           *)
(***************************************************************************)
THEOREM TypeCorrect == Spec => []TypeOK
<1>1. TypeInv => TypeOK
  BY DEF TypeInv
<1>. QED BY <1>1, TypeInvInit, TypeInvStep, PTL DEF Spec

-----------------------------------------------------------------------------
(***************************************************************************)
(* The inductive invariant                                                 *)
(***************************************************************************)
\* An object is used by one thread at a time: by OneUserAssumption the same
\* one for all of its calls.
UsesOf(t) == {c \in Calls : c.by = t /\ c.call \in {"attach", "detach", "end"}}

UserInv ==
    \A t \in Threads :
        obj[t] # Nobody => pc[t] # "none" /\ \E c \in UsesOf(t) : c.obj = obj[t]

\* How far the two sides of a call have come with their ends.
StageInv ==
    \A t \in Threads :
        /\ pc[t] \in PairLabels => life[obj[t]] = "alive"
        /\ pc[t] \in EndLabels => life[obj[t]] \in {"ending", "detached"}
        /\ pc[t] = "members" => life[obj[t]] = "detached"
        /\ pc[t] \in {"subscribe", "record"} => Usable(ntf[t])
        /\ pc[t] \in ShutLabels =>
               /\ nlife[ntf[t]] = "ending" /\ Owner[ntf[t]] = obj[t]
               /\ obj[t] # Nobody => life[obj[t]] = "detached"

\* One thread ends a notifier.
OnceInv ==
    \A t, u \in Threads :
        {pc[t], pc[u]} \subseteq ShutLabels /\ ntf[t] = ntf[u] => t = u

\* What a thread with a lock holds on to: nobody else changes it.
LockInv ==
    \A t \in Threads :
        /\ pc[t] \in {"remove", "willcall", "unsub"} =>
               alock[obj[t]] = t /\ ntf[t] \in attached[obj[t]]
        /\ pc[t] \in {"removewith", "unsubscribe"} =>
               alock[obj[t]] = t /\ todo[t] \subseteq attached[obj[t]]
        /\ pc[t] = "unsubscribe" => ntf[t] \in todo[t]
        /\ pc[t] = "shutdown" =>
               slock[ntf[t]] = t /\ todo[t] \subseteq subscribers[ntf[t]]

\* Only a member of an object has it for cber, and till its end at most.
MemberInv ==
    /\ \A n \in Notifiers : cber[n] \in {Owner[n], Nobody}
    /\ \A o \in Objects : life[o] \in {"detached", "gone"} => attached[o] = {}

\* A notifier that an object is attached to will tell it of its end.
TellsInv ==
    /\ \A o \in Objects : \A n \in attached[o] :
         o \in subscribers[n] \/ (Owner[n] = o /\ (cber[n] = o \/ life[o] # "alive"))
    /\ \A t \in Threads : pc[t] = "record" =>
         obj[t] \in subscribers[ntf[t]] \/ cber[ntf[t]] = obj[t]

\* An object that a notifier will tell of its end is attached to it, or will
\* be when its call returns.
Records(t, o, n) == pc[t] = "record" /\ obj[t] = o /\ ntf[t] = n

ToldInv ==
    \A n \in Notifiers : \A o \in subscribers[n] :
        n \in attached[o] \/ \E t \in Threads : Records(t, o, n)

\* Nobody is attached to what is gone.
GoneInv ==
    \A n \in Notifiers : nlife[n] = "gone" =>
        subscribers[n] = {} /\ \A o \in Objects : n \notin attached[o]

EndsInv ==
    /\ UserInv /\ StageInv /\ OnceInv /\ LockInv /\ MemberInv
    /\ TellsInv /\ ToldInv /\ GoneInv

\* For AttachmentIsMutual: a callback belongs to an attachment.
OwnInv ==
    /\ \A n \in Notifiers : cber[n] \notin subscribers[n]
    /\ \A t \in Threads : pc[t] = "subscribe" => cber[ntf[t]] # obj[t]

Attaches(t, o, n) == pc[t] \in {"subscribe", "record"} /\ obj[t] = o /\ ntf[t] = n

CallInv ==
    \A o \in Objects, n \in Notifiers :
        life[o] = "alive" /\ nlife[n] = "alive" /\ o \in ToSet(cbs[n]) =>
            n \in attached[o] \/ \E t \in Threads : Attaches(t, o, n)

UncalledInv ==
    \A t \in Threads : pc[t] \in {"unsub", "relock"} =>
        obj[t] \notin ToSet(cbs[ntf[t]])

MutualInv == EndsInv /\ OwnInv /\ CallInv /\ UncalledInv

LEMMA OneUser ==
    ASSUME TypeOK, UserInv, NEW t \in Threads, NEW u \in Threads,
           obj[t] = obj[u], obj[t] # Nobody
    PROVE  t = u
<1>1. PICK c \in UsesOf(t) : c.obj = obj[t]
  BY DEF UserInv
<1>2. PICK d \in UsesOf(u) : d.obj = obj[u]
  BY DEF UserInv
<1>3. c \in Calls /\ d \in Calls /\ c.by = t /\ d.by = u
      /\ {c.call, d.call} \subseteq {"attach", "detach", "end"}
  BY DEF UsesOf
<1>. QED BY <1>1, <1>2, <1>3, OneUserAssumption

LEMMA ReleaseFacts ==
    ASSUME NEW t, NEW n, Release(t, n)
    PROVE  /\ nlife' = [nlife EXCEPT ![n] = "gone"]
           /\ cbs' = cbs \/ cbs' = [cbs EXCEPT ![n] = <<>>]
           /\ pc' = [pc EXCEPT ![t] = IF obj[t] = Nobody THEN "none" ELSE "members"]
           /\ ntf' = [ntf EXCEPT ![t] = Nobody]
BY DEF Release

LEMMA ToSetAppend ==
    ASSUME NEW S, NEW s \in Seq(S), NEW o \in S
    PROVE  ToSet(Append(s, o)) = ToSet(s) \cup {o}
<1>1. /\ DOMAIN s = 1..Len(s) /\ Len(s) \in Nat
      /\ DOMAIN Append(s, o) = 1..Len(s)+1
      /\ \A i \in 1..Len(s) : Append(s, o)[i] = s[i]
      /\ Append(s, o)[Len(s)+1] = o
  BY AppendProperties, LenProperties
<1>2. ToSet(s) = {s[i] : i \in 1..Len(s)}
  BY <1>1 DEF ToSet
<1>3. ToSet(Append(s, o)) = {Append(s, o)[i] : i \in 1..Len(s)+1}
  BY <1>1 DEF ToSet
<1>. QED BY <1>1, <1>2, <1>3

LEMMA ToSetShrinks ==
    ASSUME NEW S, NEW s \in Seq(S), NEW o
    PROVE  /\ ToSet(Without(s, o)) \subseteq ToSet(s)
           /\ \A i \in DOMAIN s : ToSet(RemoveAt(s, i)) \subseteq ToSet(s)
           /\ ToSet(<<>>) = {}
<1>1. s \in Seq(ToSet(s))
  BY ToSetOfSeq
<1>2. Without(s, o) \in Seq(ToSet(s))
  BY <1>1, WithoutIsSeq
<1>3. \A i \in DOMAIN s : RemoveAt(s, i) \in Seq(ToSet(s))
  BY <1>1, RemoveAtIsSeq
<1>4. ToSet(<<>>) = {}
  BY DEF ToSet
<1>. QED BY <1>2, <1>3, <1>4, ToSetOfSeq

\* The callbacks of the notifiers are among those they had.
FewerCalls ==
    \A n \in Notifiers : ToSet(cbs'[n]) \subseteq ToSet(cbs[n])

-----------------------------------------------------------------------------
(***************************************************************************)
(* Each action keeps the inductive invariant                               *)
(***************************************************************************)
LEMMA AddShutdownSubscriptionInv ==
    ASSUME TypeInv, MutualInv, NEW t \in Threads,
           AddShutdownSubscription(t)
    PROVE  MutualInv'
<1>. USE CallBacksAssumption, ReceiverAssumption, OneUser, TypeGroups
         DEF TypeInv, MutualInv, EndsInv, PlaceOK, PairLabels, EndLabels,
         ShutLabels,
         CallTypes
<1>1. UserInv'
  BY DEF AddShutdownSubscription, At, Goto, objectVars, UserInv, UsesOf
<1>2. StageInv'
  BY DEF ObjectTypes, NotifierTypes, AddShutdownSubscription, At, Goto,
         objectVars, StageInv, Usable
<1>3. OnceInv'
  BY DEF ObjectTypes, NotifierTypes, AddShutdownSubscription, At, Goto,
         objectVars, OnceInv
<1>4. LockInv'
  BY DEF ObjectTypes, NotifierTypes, AddShutdownSubscription, At, Goto,
         objectVars, LockInv
<1>5. MemberInv'
  BY DEF ObjectTypes, NotifierTypes, AddShutdownSubscription, At, Goto,
         objectVars, MemberInv
<1>6. TellsInv'
  BY DEF ObjectTypes, NotifierTypes, AddShutdownSubscription, At, Goto,
         objectVars, TellsInv
<1>7. ToldInv'
  BY DEF ObjectTypes, NotifierTypes, AddShutdownSubscription, At, Goto,
         objectVars, ToldInv, Records
<1>8. GoneInv'
  BY DEF ObjectTypes, NotifierTypes, AddShutdownSubscription, At, Goto,
         objectVars, GoneInv, StageInv, Usable
<1>9. OwnInv'
  BY DEF ObjectTypes, NotifierTypes, AddShutdownSubscription, At, Goto,
         objectVars, OwnInv
<1>10. CallInv'
  BY DEF NotifierTypes, AddShutdownSubscription, At, Goto, objectVars, CallInv,
         Attaches
<1>11. UncalledInv'
  BY DEF NotifierTypes, AddShutdownSubscription, At, Goto, objectVars,
         UncalledInv
<1>. QED BY <1>1, <1>2, <1>3, <1>4, <1>5, <1>6, <1>7, <1>8, <1>9, <1>10, <1>11

LEMMA AttachEndsInv ==
    ASSUME TypeInv, MutualInv, NEW t \in Threads,
           AttachEnds(t)
    PROVE  MutualInv'
<1>. USE CallBacksAssumption, ReceiverAssumption, OneUser, TypeGroups
         DEF TypeInv, MutualInv, EndsInv, PlaceOK, PairLabels, EndLabels,
         ShutLabels,
         CallTypes
<1>1. UserInv'
  BY DEF AttachEnds, At, Return, notifierVars, UserInv, UsesOf
<1>2. StageInv'
  BY DEF ObjectTypes, NotifierTypes, AttachEnds, At, Return, notifierVars,
         StageInv, Usable
<1>3. OnceInv'
  BY DEF ObjectTypes, NotifierTypes, AttachEnds, At, Return, notifierVars,
         OnceInv
<1>4. LockInv'
  BY DEF ObjectTypes, NotifierTypes, AttachEnds, At, Return, notifierVars,
         LockInv
<1>5. MemberInv'
  BY DEF ObjectTypes, NotifierTypes, AttachEnds, At, Return, notifierVars,
         MemberInv, StageInv
<1>6. TellsInv'
  BY DEF ObjectTypes, NotifierTypes, AttachEnds, At, Return, notifierVars,
         TellsInv, StageInv, MemberInv
<1>7. ToldInv'
  BY DEF ObjectTypes, NotifierTypes, AttachEnds, At, Return, notifierVars,
         ToldInv, Records
<1>8. GoneInv'
  BY DEF ObjectTypes, NotifierTypes, AttachEnds, At, Return, notifierVars,
         GoneInv, StageInv, Usable
<1>9. OwnInv'
  BY DEF ObjectTypes, NotifierTypes, AttachEnds, At, Return, notifierVars,
         OwnInv
<1>10. CallInv'
  BY DEF ObjectTypes, AttachEnds, At, Return, notifierVars, CallInv, Attaches
<1>11. UncalledInv'
  BY DEF ObjectTypes, AttachEnds, At, Return, notifierVars, UncalledInv
<1>. QED BY <1>1, <1>2, <1>3, <1>4, <1>5, <1>6, <1>7, <1>8, <1>9, <1>10, <1>11

LEMMA RemoveCBInv ==
    ASSUME TypeInv, MutualInv, NEW t \in Threads,
           RemoveCB(t)
    PROVE  MutualInv'
<1>. USE CallBacksAssumption, ReceiverAssumption, OneUser, TypeGroups
         DEF TypeInv, MutualInv, EndsInv, PlaceOK, PairLabels, EndLabels,
         ShutLabels,
         CallTypes
<1>1. UserInv'
  BY DEF RemoveCB, At, Goto, objectVars, UserInv, UsesOf
<1>2. StageInv'
  BY DEF ObjectTypes, NotifierTypes, RemoveCB, At, Goto, objectVars, StageInv,
         Usable
<1>3. OnceInv'
  BY DEF ObjectTypes, NotifierTypes, RemoveCB, At, Goto, objectVars, OnceInv
<1>4. LockInv'
  BY DEF ObjectTypes, NotifierTypes, RemoveCB, At, Goto, objectVars, LockInv
<1>5. MemberInv'
  BY DEF ObjectTypes, NotifierTypes, RemoveCB, At, Goto, objectVars, MemberInv
<1>6. TellsInv'
  BY DEF ObjectTypes, NotifierTypes, RemoveCB, At, Goto, objectVars, TellsInv
<1>7. ToldInv'
  BY DEF ObjectTypes, NotifierTypes, RemoveCB, At, Goto, objectVars, ToldInv,
         Records
<1>8. GoneInv'
  BY DEF ObjectTypes, NotifierTypes, RemoveCB, At, Goto, objectVars, GoneInv
<1>9. OwnInv'
  BY DEF ObjectTypes, NotifierTypes, RemoveCB, At, Goto, objectVars, OwnInv
<1>10. CallInv'
  <2>1. FewerCalls
    <3>1. /\ cbs \in [Notifiers -> Seq(Objects)] /\ ntf[t] \in Notifiers
      BY DEF RemoveCB, At, NotifierTypes
    <3>2. cbs[ntf[t]] \in Seq(Objects)
      BY <3>1
    <3>3. CASE obj[t] \in ToSet(cbs[ntf[t]])
      <4>1. cbs' = [cbs EXCEPT ![ntf[t]] = RemoveAt(cbs[ntf[t]], LastOf(cbs[ntf[t]], obj[t]))]
        BY <3>3 DEF RemoveCB
      <4>2. LastOf(cbs[ntf[t]], obj[t]) \in DOMAIN cbs[ntf[t]]
        BY <3>2, <3>3, LastOfIsIn
      <4>3. ToSet(RemoveAt(cbs[ntf[t]], LastOf(cbs[ntf[t]], obj[t]))) \subseteq ToSet(cbs[ntf[t]])
        BY <3>2, <4>2, ToSetShrinks
      <4>. QED BY <3>1, <4>1, <4>3 DEF FewerCalls
    <3>4. CASE obj[t] \notin ToSet(cbs[ntf[t]])
      BY <3>1, <3>4 DEF RemoveCB, FewerCalls
    <3>. QED BY <3>3, <3>4
  <2>2. /\ UNCHANGED <<life, nlife, attached, obj, ntf>>
        /\ pc[t] = "remove" /\ pc' = [pc EXCEPT ![t] = "willcall"]
    BY DEF RemoveCB, At, Goto, objectVars
  <2>3. CallInv
    BY DEF MutualInv
  <2>. SUFFICES ASSUME NEW p \in Objects, NEW m \in Notifiers, life'[p] = "alive",
                       nlife'[m] = "alive", p \in ToSet(cbs'[m])
                PROVE  m \in attached'[p] \/ \E u \in Threads : Attaches(u, p, m)'
    BY DEF CallInv, Attaches
  <2>4. m \in attached[p] \/ \E u \in Threads : Attaches(u, p, m)
    BY <2>1, <2>2, <2>3 DEF FewerCalls, CallInv
  <2>5. CASE m \in attached[p]
    BY <2>2, <2>5
  <2>6. ASSUME NEW u \in Threads, Attaches(u, p, m) PROVE Attaches(u, p, m)'
    BY <2>2, <2>6 DEF Attaches
  <2>. QED BY <2>4, <2>5, <2>6
<1>11. UncalledInv'
  <2>1. FewerCalls
    <3>1. /\ cbs \in [Notifiers -> Seq(Objects)] /\ ntf[t] \in Notifiers
      BY DEF RemoveCB, At, NotifierTypes
    <3>2. cbs[ntf[t]] \in Seq(Objects)
      BY <3>1
    <3>3. CASE obj[t] \in ToSet(cbs[ntf[t]])
      <4>1. cbs' = [cbs EXCEPT ![ntf[t]] = RemoveAt(cbs[ntf[t]], LastOf(cbs[ntf[t]], obj[t]))]
        BY <3>3 DEF RemoveCB
      <4>2. LastOf(cbs[ntf[t]], obj[t]) \in DOMAIN cbs[ntf[t]]
        BY <3>2, <3>3, LastOfIsIn
      <4>3. ToSet(RemoveAt(cbs[ntf[t]], LastOf(cbs[ntf[t]], obj[t]))) \subseteq ToSet(cbs[ntf[t]])
        BY <3>2, <4>2, ToSetShrinks
      <4>. QED BY <3>1, <4>1, <4>3 DEF FewerCalls
    <3>4. CASE obj[t] \notin ToSet(cbs[ntf[t]])
      BY <3>1, <3>4 DEF RemoveCB, FewerCalls
    <3>. QED BY <3>3, <3>4
  <2>. QED BY <2>1 DEF RemoveCB, At, Goto, objectVars, FewerCalls, UncalledInv
<1>. QED BY <1>1, <1>2, <1>3, <1>4, <1>5, <1>6, <1>7, <1>8, <1>9, <1>10, <1>11

LEMMA WillCallInv ==
    ASSUME TypeInv, MutualInv, NEW t \in Threads,
           WillCall(t)
    PROVE  MutualInv'
<1>. USE CallBacksAssumption, ReceiverAssumption, OneUser, TypeGroups
         DEF TypeInv, MutualInv, EndsInv, PlaceOK, PairLabels, EndLabels,
         ShutLabels,
         CallTypes
<1>1. UserInv'
  <2>1. CASE StillCalled(obj[t], ntf[t])
    BY <2>1 DEF WillCall, At, Goto, Return, notifierVars, UserInv, UsesOf
  <2>2. CASE ~(StillCalled(obj[t], ntf[t]))
    BY <2>2 DEF WillCall, At, Goto, Return, notifierVars, UserInv, UsesOf
  <2>. QED BY <2>1, <2>2
<1>2. StageInv'
  <2>1. CASE StillCalled(obj[t], ntf[t])
    BY <2>1
    DEF ObjectTypes, NotifierTypes, WillCall, At, Goto, Return, notifierVars,
        StageInv, Usable
  <2>2. CASE ~(StillCalled(obj[t], ntf[t]))
    BY <2>2
    DEF ObjectTypes, NotifierTypes, WillCall, At, Goto, Return, notifierVars,
        StageInv, Usable
  <2>. QED BY <2>1, <2>2
<1>3. OnceInv'
  <2>1. CASE StillCalled(obj[t], ntf[t])
    BY <2>1
    DEF ObjectTypes, NotifierTypes, WillCall, At, Goto, Return, notifierVars,
        OnceInv
  <2>2. CASE ~(StillCalled(obj[t], ntf[t]))
    BY <2>2
    DEF ObjectTypes, NotifierTypes, WillCall, At, Goto, Return, notifierVars,
        OnceInv
  <2>. QED BY <2>1, <2>2
<1>4. LockInv'
  <2>1. CASE StillCalled(obj[t], ntf[t])
    BY <2>1
    DEF ObjectTypes, NotifierTypes, WillCall, At, Goto, Return, notifierVars,
        LockInv
  <2>2. CASE ~(StillCalled(obj[t], ntf[t]))
    BY <2>2
    DEF ObjectTypes, NotifierTypes, WillCall, At, Goto, Return, notifierVars,
        LockInv
  <2>. QED BY <2>1, <2>2
<1>5. MemberInv'
  <2>1. CASE StillCalled(obj[t], ntf[t])
    BY <2>1
    DEF ObjectTypes, NotifierTypes, WillCall, At, Goto, Return, notifierVars,
        MemberInv
  <2>2. CASE ~(StillCalled(obj[t], ntf[t]))
    BY <2>2
    DEF ObjectTypes, NotifierTypes, WillCall, At, Goto, Return, notifierVars,
        MemberInv
  <2>. QED BY <2>1, <2>2
<1>6. TellsInv'
  <2>1. CASE StillCalled(obj[t], ntf[t])
    BY <2>1
    DEF ObjectTypes, NotifierTypes, WillCall, At, Goto, Return, notifierVars,
        TellsInv
  <2>2. CASE ~(StillCalled(obj[t], ntf[t]))
    BY <2>2
    DEF ObjectTypes, NotifierTypes, WillCall, At, Goto, Return, notifierVars,
        TellsInv
  <2>. QED BY <2>1, <2>2
<1>7. ToldInv'
  <2>1. CASE StillCalled(obj[t], ntf[t])
    BY <2>1
    DEF ObjectTypes, WillCall, At, Goto, Return, notifierVars, ToldInv, Records
  <2>2. CASE ~(StillCalled(obj[t], ntf[t]))
    BY <2>2
    DEF ObjectTypes, WillCall, At, Goto, Return, notifierVars, ToldInv, Records
  <2>. QED BY <2>1, <2>2
<1>8. GoneInv'
  <2>1. CASE StillCalled(obj[t], ntf[t])
    BY <2>1
    DEF ObjectTypes, NotifierTypes, WillCall, At, Goto, Return, notifierVars,
        GoneInv
  <2>2. CASE ~(StillCalled(obj[t], ntf[t]))
    BY <2>2
    DEF ObjectTypes, NotifierTypes, WillCall, At, Goto, Return, notifierVars,
        GoneInv
  <2>. QED BY <2>1, <2>2
<1>9. OwnInv'
  <2>1. CASE StillCalled(obj[t], ntf[t])
    BY <2>1 DEF ObjectTypes, WillCall, At, Goto, Return, notifierVars, OwnInv
  <2>2. CASE ~(StillCalled(obj[t], ntf[t]))
    BY <2>2 DEF ObjectTypes, WillCall, At, Goto, Return, notifierVars, OwnInv
  <2>. QED BY <2>1, <2>2
<1>10. CallInv'
  <2>1. CASE StillCalled(obj[t], ntf[t])
    BY <2>1
    DEF ObjectTypes, WillCall, At, Goto, Return, notifierVars, CallInv,
        Attaches
  <2>2. CASE ~(StillCalled(obj[t], ntf[t]))
    BY <2>2
    DEF ObjectTypes, WillCall, At, Goto, Return, notifierVars, CallInv,
        Attaches
  <2>. QED BY <2>1, <2>2
<1>11. UncalledInv'
  <2>1. CASE StillCalled(obj[t], ntf[t])
    BY <2>1
    DEF ObjectTypes, WillCall, At, Goto, Return, notifierVars, UncalledInv,
        StillCalled
  <2>2. CASE ~(StillCalled(obj[t], ntf[t]))
    BY <2>2
    DEF ObjectTypes, WillCall, At, Goto, Return, notifierVars, UncalledInv,
        StillCalled
  <2>. QED BY <2>1, <2>2
<1>. QED BY <1>1, <1>2, <1>3, <1>4, <1>5, <1>6, <1>7, <1>8, <1>9, <1>10, <1>11

LEMMA DetachEndsInv ==
    ASSUME TypeInv, MutualInv, NEW t \in Threads,
           DetachEnds(t)
    PROVE  MutualInv'
<1>. USE CallBacksAssumption, ReceiverAssumption, OneUser, TypeGroups
         DEF TypeInv, MutualInv, EndsInv, PlaceOK, PairLabels, EndLabels,
         ShutLabels,
         CallTypes
<1>1. UserInv'
  BY DEF DetachEnds, At, Return, UserInv, UsesOf
<1>2. StageInv'
  BY DEF ObjectTypes, NotifierTypes, DetachEnds, At, Return, StageInv, Usable
<1>3. OnceInv'
  BY DEF ObjectTypes, NotifierTypes, DetachEnds, At, Return, OnceInv
<1>4. LockInv'
  BY DEF ObjectTypes, NotifierTypes, DetachEnds, At, Return, LockInv, StageInv
<1>5. MemberInv'
  BY DEF ObjectTypes, NotifierTypes, DetachEnds, At, Return, MemberInv
<1>6. TellsInv'
  BY DEF ObjectTypes, NotifierTypes, DetachEnds, At, Return, TellsInv
<1>7. ToldInv'
  BY DEF ObjectTypes, NotifierTypes, DetachEnds, At, Return, ToldInv, Records
<1>8. GoneInv'
  BY DEF ObjectTypes, NotifierTypes, DetachEnds, At, Return, GoneInv
<1>9. OwnInv'
  BY DEF ObjectTypes, NotifierTypes, DetachEnds, At, Return, OwnInv
<1>10. CallInv'
  BY DEF ObjectTypes, NotifierTypes, DetachEnds, At, Return, CallInv, Attaches,
         UncalledInv
<1>11. UncalledInv'
  BY DEF ObjectTypes, NotifierTypes, DetachEnds, At, Return, UncalledInv
<1>. QED BY <1>1, <1>2, <1>3, <1>4, <1>5, <1>6, <1>7, <1>8, <1>9, <1>10, <1>11

LEMMA DetachSleepsInv ==
    ASSUME TypeInv, MutualInv, NEW t \in Threads,
           DetachSleeps(t)
    PROVE  MutualInv'
<1>. USE CallBacksAssumption, ReceiverAssumption, OneUser, TypeGroups
         DEF TypeInv, MutualInv, EndsInv, PlaceOK, PairLabels, EndLabels,
         ShutLabels,
         CallTypes
<1>1. UserInv'
  BY DEF DetachSleeps, At, Goto, notifierVars, UserInv, UsesOf
<1>2. StageInv'
  BY DEF ObjectTypes, NotifierTypes, DetachSleeps, At, Goto, notifierVars,
         StageInv, Usable
<1>3. OnceInv'
  BY DEF ObjectTypes, NotifierTypes, DetachSleeps, At, Goto, notifierVars,
         OnceInv
<1>4. LockInv'
  BY DEF ObjectTypes, NotifierTypes, DetachSleeps, At, Goto, notifierVars,
         LockInv
<1>5. MemberInv'
  BY DEF ObjectTypes, NotifierTypes, DetachSleeps, At, Goto, notifierVars,
         MemberInv
<1>6. TellsInv'
  BY DEF ObjectTypes, NotifierTypes, DetachSleeps, At, Goto, notifierVars,
         TellsInv
<1>7. ToldInv'
  BY DEF ObjectTypes, NotifierTypes, DetachSleeps, At, Goto, notifierVars,
         ToldInv, Records
<1>8. GoneInv'
  BY DEF ObjectTypes, NotifierTypes, DetachSleeps, At, Goto, notifierVars,
         GoneInv
<1>9. OwnInv'
  BY DEF ObjectTypes, NotifierTypes, DetachSleeps, At, Goto, notifierVars,
         OwnInv
<1>10. CallInv'
  BY DEF ObjectTypes, DetachSleeps, At, Goto, notifierVars, CallInv, Attaches
<1>11. UncalledInv'
  BY DEF ObjectTypes, DetachSleeps, At, Goto, notifierVars, UncalledInv
<1>. QED BY <1>1, <1>2, <1>3, <1>4, <1>5, <1>6, <1>7, <1>8, <1>9, <1>10, <1>11

LEMMA DetachRetriesInv ==
    ASSUME TypeInv, MutualInv, NEW t \in Threads,
           DetachRetries(t)
    PROVE  MutualInv'
<1>. USE CallBacksAssumption, ReceiverAssumption, OneUser, TypeGroups
         DEF TypeInv, MutualInv, EndsInv, PlaceOK, PairLabels, EndLabels,
         ShutLabels,
         CallTypes
<1>1. UserInv'
  <2>1. CASE ntf[t] \in attached[obj[t]]
    BY <2>1 DEF DetachRetries, At, Goto, Return, notifierVars, UserInv, UsesOf
  <2>2. CASE ~(ntf[t] \in attached[obj[t]])
    BY <2>2 DEF DetachRetries, At, Goto, Return, notifierVars, UserInv, UsesOf
  <2>. QED BY <2>1, <2>2
<1>2. StageInv'
  <2>1. CASE ntf[t] \in attached[obj[t]]
    BY <2>1
    DEF ObjectTypes, NotifierTypes, DetachRetries, At, Goto, Return,
        notifierVars, StageInv, Usable
  <2>2. CASE ~(ntf[t] \in attached[obj[t]])
    BY <2>2
    DEF ObjectTypes, NotifierTypes, DetachRetries, At, Goto, Return,
        notifierVars, StageInv, Usable
  <2>. QED BY <2>1, <2>2
<1>3. OnceInv'
  <2>1. CASE ntf[t] \in attached[obj[t]]
    BY <2>1
    DEF ObjectTypes, DetachRetries, At, Goto, Return, notifierVars, OnceInv
  <2>2. CASE ~(ntf[t] \in attached[obj[t]])
    BY <2>2
    DEF ObjectTypes, DetachRetries, At, Goto, Return, notifierVars, OnceInv
  <2>. QED BY <2>1, <2>2
<1>4. LockInv'
  <2>1. CASE ntf[t] \in attached[obj[t]]
    BY <2>1
    DEF ObjectTypes, NotifierTypes, DetachRetries, At, Goto, Return,
        notifierVars, LockInv
  <2>2. CASE ntf[t] \notin attached[obj[t]]
    <3>1. /\ pc' = [pc EXCEPT ![t] = "none"]
          /\ \A u \in Threads \ {t} : obj'[u] = obj[u] /\ ntf'[u] = ntf[u]
          /\ UNCHANGED <<todo, alock, attached, slock, subscribers>>
      BY <2>2 DEF DetachRetries, Return, notifierVars
    <3>. QED BY <3>1 DEF LockInv
  <2>. QED BY <2>1, <2>2
<1>5. MemberInv'
  <2>1. CASE ntf[t] \in attached[obj[t]]
    BY <2>1
    DEF ObjectTypes, NotifierTypes, DetachRetries, At, Goto, Return,
        notifierVars, MemberInv
  <2>2. CASE ~(ntf[t] \in attached[obj[t]])
    BY <2>2
    DEF ObjectTypes, NotifierTypes, DetachRetries, At, Goto, Return,
        notifierVars, MemberInv
  <2>. QED BY <2>1, <2>2
<1>6. TellsInv'
  <2>1. CASE ntf[t] \in attached[obj[t]]
    BY <2>1
    DEF ObjectTypes, DetachRetries, At, Goto, Return, notifierVars, TellsInv
  <2>2. CASE ~(ntf[t] \in attached[obj[t]])
    BY <2>2
    DEF ObjectTypes, DetachRetries, At, Goto, Return, notifierVars, TellsInv
  <2>. QED BY <2>1, <2>2
<1>7. ToldInv'
  <2>1. CASE ntf[t] \in attached[obj[t]]
    BY <2>1
    DEF ObjectTypes, NotifierTypes, DetachRetries, At, Goto, Return,
        notifierVars, ToldInv, Records
  <2>2. CASE ~(ntf[t] \in attached[obj[t]])
    BY <2>2
    DEF ObjectTypes, NotifierTypes, DetachRetries, At, Goto, Return,
        notifierVars, ToldInv, Records
  <2>. QED BY <2>1, <2>2
<1>8. GoneInv'
  <2>1. CASE ntf[t] \in attached[obj[t]]
    BY <2>1
    DEF ObjectTypes, DetachRetries, At, Goto, Return, notifierVars, GoneInv
  <2>2. CASE ~(ntf[t] \in attached[obj[t]])
    BY <2>2
    DEF ObjectTypes, DetachRetries, At, Goto, Return, notifierVars, GoneInv
  <2>. QED BY <2>1, <2>2
<1>9. OwnInv'
  <2>1. CASE ntf[t] \in attached[obj[t]]
    BY <2>1
    DEF ObjectTypes, DetachRetries, At, Goto, Return, notifierVars, OwnInv
  <2>2. CASE ~(ntf[t] \in attached[obj[t]])
    BY <2>2
    DEF ObjectTypes, DetachRetries, At, Goto, Return, notifierVars, OwnInv
  <2>. QED BY <2>1, <2>2
<1>10. CallInv'
  <2>1. CASE ntf[t] \in attached[obj[t]]
    BY <2>1
    DEF ObjectTypes, DetachRetries, At, Goto, Return, notifierVars, CallInv,
        Attaches
  <2>2. CASE ~(ntf[t] \in attached[obj[t]])
    BY <2>2
    DEF ObjectTypes, DetachRetries, At, Goto, Return, notifierVars, CallInv,
        Attaches
  <2>. QED BY <2>1, <2>2
<1>11. UncalledInv'
  <2>1. CASE ntf[t] \in attached[obj[t]]
    BY <2>1
    DEF ObjectTypes, DetachRetries, At, Goto, Return, notifierVars, UncalledInv
  <2>2. CASE ~(ntf[t] \in attached[obj[t]])
    BY <2>2
    DEF ObjectTypes, DetachRetries, At, Goto, Return, notifierVars, UncalledInv
  <2>. QED BY <2>1, <2>2
<1>. QED BY <1>1, <1>2, <1>3, <1>4, <1>5, <1>6, <1>7, <1>8, <1>9, <1>10, <1>11

LEMMA RemoveFromThreadCallsInv ==
    ASSUME TypeInv, MutualInv, NEW t \in Threads,
           RemoveFromThreadCalls(t)
    PROVE  MutualInv'
<1>. USE CallBacksAssumption, ReceiverAssumption, OneUser, TypeGroups
         DEF TypeInv, MutualInv, EndsInv, PlaceOK, PairLabels, EndLabels,
         ShutLabels,
         CallTypes
<1>1. UserInv'
  BY DEF RemoveFromThreadCalls, At, Goto, objectVars, notifierVars, UserInv,
         UsesOf
<1>2. StageInv'
  BY DEF ObjectTypes, NotifierTypes, RemoveFromThreadCalls, At, Goto,
         objectVars, notifierVars, StageInv, Usable
<1>3. OnceInv'
  BY DEF ObjectTypes, NotifierTypes, RemoveFromThreadCalls, At, Goto,
         objectVars, notifierVars, OnceInv
<1>4. LockInv'
  BY DEF ObjectTypes, NotifierTypes, RemoveFromThreadCalls, At, Goto,
         objectVars, notifierVars, LockInv
<1>5. MemberInv'
  BY DEF ObjectTypes, NotifierTypes, RemoveFromThreadCalls, At, Goto,
         objectVars, notifierVars, MemberInv
<1>6. TellsInv'
  BY DEF ObjectTypes, NotifierTypes, RemoveFromThreadCalls, At, Goto,
         objectVars, notifierVars, TellsInv
<1>7. ToldInv'
  BY DEF ObjectTypes, NotifierTypes, RemoveFromThreadCalls, At, Goto,
         objectVars, notifierVars, ToldInv, Records
<1>8. GoneInv'
  BY DEF ObjectTypes, NotifierTypes, RemoveFromThreadCalls, At, Goto,
         objectVars, notifierVars, GoneInv
<1>9. OwnInv'
  BY DEF ObjectTypes, NotifierTypes, RemoveFromThreadCalls, At, Goto,
         objectVars, notifierVars, OwnInv
<1>10. CallInv'
  BY DEF RemoveFromThreadCalls, At, Goto, objectVars, notifierVars, CallInv,
         Attaches
<1>11. UncalledInv'
  BY DEF RemoveFromThreadCalls, At, Goto, objectVars, notifierVars, UncalledInv
<1>. QED BY <1>1, <1>2, <1>3, <1>4, <1>5, <1>6, <1>7, <1>8, <1>9, <1>10, <1>11

LEMMA WaitForQueueInv ==
    ASSUME TypeInv, MutualInv, NEW t \in Threads,
           WaitForQueue(t)
    PROVE  MutualInv'
<1>. USE CallBacksAssumption, ReceiverAssumption, OneUser, TypeGroups
         DEF TypeInv, MutualInv, EndsInv, PlaceOK, PairLabels, EndLabels,
         ShutLabels,
         CallTypes
<1>1. UserInv'
  BY DEF WaitForQueue, At, Goto, objectVars, notifierVars, UserInv, UsesOf
<1>2. StageInv'
  BY DEF ObjectTypes, NotifierTypes, WaitForQueue, At, Goto, objectVars,
         notifierVars, StageInv, Usable
<1>3. OnceInv'
  BY DEF ObjectTypes, NotifierTypes, WaitForQueue, At, Goto, objectVars,
         notifierVars, OnceInv
<1>4. LockInv'
  BY DEF ObjectTypes, NotifierTypes, WaitForQueue, At, Goto, objectVars,
         notifierVars, LockInv
<1>5. MemberInv'
  BY DEF ObjectTypes, NotifierTypes, WaitForQueue, At, Goto, objectVars,
         notifierVars, MemberInv
<1>6. TellsInv'
  BY DEF ObjectTypes, NotifierTypes, WaitForQueue, At, Goto, objectVars,
         notifierVars, TellsInv
<1>7. ToldInv'
  BY DEF ObjectTypes, NotifierTypes, WaitForQueue, At, Goto, objectVars,
         notifierVars, ToldInv, Records
<1>8. GoneInv'
  BY DEF ObjectTypes, NotifierTypes, WaitForQueue, At, Goto, objectVars,
         notifierVars, GoneInv
<1>9. OwnInv'
  BY DEF ObjectTypes, NotifierTypes, WaitForQueue, At, Goto, objectVars,
         notifierVars, OwnInv
<1>10. CallInv'
  BY DEF WaitForQueue, At, Goto, objectVars, notifierVars, CallInv, Attaches
<1>11. UncalledInv'
  BY DEF WaitForQueue, At, Goto, objectVars, notifierVars, UncalledInv
<1>. QED BY <1>1, <1>2, <1>3, <1>4, <1>5, <1>6, <1>7, <1>8, <1>9, <1>10, <1>11

LEMMA StartPassInv ==
    ASSUME TypeInv, MutualInv, NEW t \in Threads,
           StartPass(t)
    PROVE  MutualInv'
<1>. USE CallBacksAssumption, ReceiverAssumption, OneUser, TypeGroups
         DEF TypeInv, MutualInv, EndsInv, PlaceOK, PairLabels, EndLabels,
         ShutLabels,
         CallTypes
<1>1. UserInv'
  BY DEF StartPass, At, notifierVars, UserInv, UsesOf
<1>2. StageInv'
  BY DEF ObjectTypes, NotifierTypes, StartPass, At, notifierVars, StageInv,
         Usable
<1>3. OnceInv'
  BY DEF ObjectTypes, NotifierTypes, StartPass, At, notifierVars, OnceInv
<1>4. LockInv'
  BY DEF ObjectTypes, NotifierTypes, StartPass, At, notifierVars, LockInv
<1>5. MemberInv'
  BY DEF ObjectTypes, NotifierTypes, StartPass, At, notifierVars, MemberInv
<1>6. TellsInv'
  BY DEF ObjectTypes, NotifierTypes, StartPass, At, notifierVars, TellsInv
<1>7. ToldInv'
  BY DEF ObjectTypes, NotifierTypes, StartPass, At, notifierVars, ToldInv,
         Records
<1>8. GoneInv'
  BY DEF ObjectTypes, NotifierTypes, StartPass, At, notifierVars, GoneInv
<1>9. OwnInv'
  BY DEF ObjectTypes, NotifierTypes, StartPass, At, notifierVars, OwnInv
<1>10. CallInv'
  BY DEF ObjectTypes, StartPass, At, notifierVars, CallInv, Attaches
<1>11. UncalledInv'
  BY DEF ObjectTypes, StartPass, At, notifierVars, UncalledInv
<1>. QED BY <1>1, <1>2, <1>3, <1>4, <1>5, <1>6, <1>7, <1>8, <1>9, <1>10, <1>11

LEMMA RemoveWithInv ==
    ASSUME TypeInv, MutualInv, NEW t \in Threads,
           RemoveWith(t)
    PROVE  MutualInv'
<1>. USE CallBacksAssumption, ReceiverAssumption, OneUser, TypeGroups
         DEF TypeInv, MutualInv, EndsInv, PlaceOK, PairLabels, EndLabels,
         ShutLabels,
         CallTypes
<1>1. UserInv'
  BY DEF RemoveWith, At, objectVars, UserInv, UsesOf
<1>2. StageInv'
  BY DEF ObjectTypes, NotifierTypes, RemoveWith, At, objectVars, StageInv,
         Usable
<1>3. OnceInv'
  BY DEF ObjectTypes, NotifierTypes, RemoveWith, At, objectVars, OnceInv
<1>4. LockInv'
  BY DEF ObjectTypes, NotifierTypes, RemoveWith, At, objectVars, LockInv
<1>5. MemberInv'
  BY DEF ObjectTypes, NotifierTypes, RemoveWith, At, objectVars, MemberInv
<1>6. TellsInv'
  <2>1. PICK n \in todo[t] :
            /\ cber' = IF cber[n] = obj[t] THEN [cber EXCEPT ![n] = Nobody] ELSE cber
            /\ ntf' = [ntf EXCEPT ![t] = n]
    BY DEF RemoveWith
  <2>2. /\ pc[t] = "removewith" /\ pc' = [pc EXCEPT ![t] = "unsubscribe"]
        /\ UNCHANGED <<life, attached, subscribers, obj>>
    BY DEF RemoveWith, At, objectVars
  <2>3. n \in Notifiers /\ obj[t] \in Objects /\ cber \in [Notifiers -> Objects \cup {Nobody}]
    BY <2>2 DEF NotifierTypes
  <2>4. \A m \in Notifiers : cber'[m] # cber[m] =>
            cber[m] = obj[t] /\ Owner[m] = obj[t] /\ life[obj[t]] # "alive"
    BY <2>1, <2>2, <2>3 DEF MemberInv, StageInv
  <2>5. \A o \in Objects : \A m \in attached'[o] :
            \/ o \in subscribers'[m]
            \/ Owner[m] = o /\ (cber'[m] = o \/ life'[o] # "alive")
    BY <2>2, <2>4 DEF TellsInv, ObjectTypes
  <2>6. ASSUME NEW u \in Threads, pc'[u] = "record"
        PROVE  obj'[u] \in subscribers'[ntf'[u]] \/ cber'[ntf'[u]] = obj'[u]
    <3>1. u # t /\ pc[u] = "record" /\ ntf'[u] = ntf[u] /\ obj'[u] = obj[u]
      BY <2>1, <2>2, <2>6
    <3>2. life[obj[u]] = "alive"
      BY <3>1 DEF StageInv
    <3>. QED BY <2>2, <2>4, <3>1, <3>2 DEF TellsInv
  <2>. QED BY <2>5, <2>6 DEF TellsInv
<1>7. ToldInv'
  BY DEF ObjectTypes, NotifierTypes, RemoveWith, At, objectVars, ToldInv,
         Records
<1>8. GoneInv'
  BY DEF ObjectTypes, NotifierTypes, RemoveWith, At, objectVars, GoneInv
<1>9. OwnInv'
  BY DEF ObjectTypes, NotifierTypes, RemoveWith, At, objectVars, OwnInv
<1>10. CallInv'
  <2>1. FewerCalls
    <3>1. PICK n \in todo[t] :
             cbs' = [cbs EXCEPT ![n] = IF cber[n] = obj[t] THEN <<>>
                                       ELSE Without(@, obj[t])]
      BY DEF RemoveWith
    <3>2. n \in Notifiers /\ cbs \in [Notifiers -> Seq(Objects)]
      BY DEF RemoveWith, At, NotifierTypes
    <3>3. cbs[n] \in Seq(Objects)
      BY <3>2
    <3>4. ToSet(<<>>) = {} /\ ToSet(Without(cbs[n], obj[t])) \subseteq ToSet(cbs[n])
      BY <3>3, ToSetShrinks
    <3>. QED BY <3>1, <3>2, <3>4 DEF FewerCalls
  <2>2. /\ UNCHANGED <<life, nlife, attached, obj>>
        /\ pc[t] = "removewith" /\ pc' = [pc EXCEPT ![t] = "unsubscribe"]
        /\ \A u \in Threads \ {t} : ntf'[u] = ntf[u]
    BY DEF RemoveWith, At, objectVars
  <2>3. CallInv
    BY DEF MutualInv
  <2>. SUFFICES ASSUME NEW p \in Objects, NEW m \in Notifiers, life'[p] = "alive",
                       nlife'[m] = "alive", p \in ToSet(cbs'[m])
                PROVE  m \in attached'[p] \/ \E u \in Threads : Attaches(u, p, m)'
    BY DEF CallInv, Attaches
  <2>4. m \in attached[p] \/ \E u \in Threads : Attaches(u, p, m)
    BY <2>1, <2>2, <2>3 DEF FewerCalls, CallInv
  <2>5. CASE m \in attached[p]
    BY <2>2, <2>5
  <2>6. ASSUME NEW u \in Threads, Attaches(u, p, m) PROVE Attaches(u, p, m)'
    BY <2>2, <2>6 DEF Attaches
  <2>. QED BY <2>4, <2>5, <2>6
<1>11. UncalledInv'
  <2>1. FewerCalls
    <3>1. PICK n \in todo[t] :
             cbs' = [cbs EXCEPT ![n] = IF cber[n] = obj[t] THEN <<>>
                                       ELSE Without(@, obj[t])]
      BY DEF RemoveWith
    <3>2. n \in Notifiers /\ cbs \in [Notifiers -> Seq(Objects)]
      BY DEF RemoveWith, At, NotifierTypes
    <3>3. cbs[n] \in Seq(Objects)
      BY <3>2
    <3>4. ToSet(<<>>) = {} /\ ToSet(Without(cbs[n], obj[t])) \subseteq ToSet(cbs[n])
      BY <3>3, ToSetShrinks
    <3>. QED BY <3>1, <3>2, <3>4 DEF FewerCalls
  <2>. QED BY <2>1
      DEF RemoveWith, At, objectVars, StageInv, FewerCalls, UncalledInv
<1>. QED BY <1>1, <1>2, <1>3, <1>4, <1>5, <1>6, <1>7, <1>8, <1>9, <1>10, <1>11

LEMMA RemoveWithFailsInv ==
    ASSUME TypeInv, MutualInv, NEW t \in Threads,
           RemoveWithFails(t)
    PROVE  MutualInv'
<1>. USE CallBacksAssumption, ReceiverAssumption, OneUser, TypeGroups
         DEF TypeInv, MutualInv, EndsInv, PlaceOK, PairLabels, EndLabels,
         ShutLabels,
         CallTypes
<1>1. UserInv'
  BY DEF RemoveWithFails, PassGoesOn, At, notifierVars, UserInv, UsesOf
<1>2. StageInv'
  BY DEF ObjectTypes, NotifierTypes, RemoveWithFails, PassGoesOn, At,
         notifierVars, StageInv, Usable
<1>3. OnceInv'
  BY DEF ObjectTypes, NotifierTypes, RemoveWithFails, PassGoesOn, At,
         notifierVars, OnceInv
<1>4. LockInv'
  BY DEF ObjectTypes, NotifierTypes, RemoveWithFails, PassGoesOn, At,
         notifierVars, LockInv
<1>5. MemberInv'
  BY DEF ObjectTypes, NotifierTypes, RemoveWithFails, PassGoesOn, At,
         notifierVars, MemberInv
<1>6. TellsInv'
  BY DEF ObjectTypes, NotifierTypes, RemoveWithFails, PassGoesOn, At,
         notifierVars, TellsInv
<1>7. ToldInv'
  BY DEF ObjectTypes, NotifierTypes, RemoveWithFails, PassGoesOn, At,
         notifierVars, ToldInv, Records
<1>8. GoneInv'
  BY DEF ObjectTypes, NotifierTypes, RemoveWithFails, PassGoesOn, At,
         notifierVars, GoneInv
<1>9. OwnInv'
  BY DEF ObjectTypes, NotifierTypes, RemoveWithFails, PassGoesOn, At,
         notifierVars, OwnInv
<1>10. CallInv'
  BY DEF ObjectTypes, RemoveWithFails, PassGoesOn, At, notifierVars, CallInv,
         Attaches
<1>11. UncalledInv'
  BY DEF ObjectTypes, RemoveWithFails, PassGoesOn, At, notifierVars,
         UncalledInv
<1>. QED BY <1>1, <1>2, <1>3, <1>4, <1>5, <1>6, <1>7, <1>8, <1>9, <1>10, <1>11

LEMMA UnsubscribeInv ==
    ASSUME TypeInv, MutualInv, NEW t \in Threads,
           Unsubscribe(t)
    PROVE  MutualInv'
<1>. USE CallBacksAssumption, ReceiverAssumption, OneUser, TypeGroups
         DEF TypeInv, MutualInv, EndsInv, PlaceOK, PairLabels, EndLabels,
         ShutLabels,
         CallTypes
<1>1. UserInv'
  BY DEF Unsubscribe, PassGoesOn, At, UserInv, UsesOf
<1>2. StageInv'
  BY DEF ObjectTypes, NotifierTypes, Unsubscribe, PassGoesOn, At, StageInv,
         Usable
<1>3. OnceInv'
  BY DEF ObjectTypes, NotifierTypes, Unsubscribe, PassGoesOn, At, OnceInv
<1>4. LockInv'
  BY DEF ObjectTypes, NotifierTypes, Unsubscribe, PassGoesOn, At, LockInv
<1>5. MemberInv'
  BY DEF ObjectTypes, NotifierTypes, Unsubscribe, PassGoesOn, At, MemberInv
<1>6. TellsInv'
  BY DEF ObjectTypes, NotifierTypes, Unsubscribe, PassGoesOn, At, TellsInv
<1>7. ToldInv'
  BY DEF ObjectTypes, NotifierTypes, Unsubscribe, PassGoesOn, At, ToldInv,
         Records
<1>8. GoneInv'
  BY DEF ObjectTypes, NotifierTypes, Unsubscribe, PassGoesOn, At, GoneInv
<1>9. OwnInv'
  BY DEF ObjectTypes, NotifierTypes, Unsubscribe, PassGoesOn, At, OwnInv
<1>10. CallInv'
  BY DEF ObjectTypes, NotifierTypes, Unsubscribe, PassGoesOn, At, CallInv,
         Attaches, StageInv
<1>11. UncalledInv'
  BY DEF ObjectTypes, NotifierTypes, Unsubscribe, PassGoesOn, At, UncalledInv
<1>. QED BY <1>1, <1>2, <1>3, <1>4, <1>5, <1>6, <1>7, <1>8, <1>9, <1>10, <1>11

LEMMA UnsubscribeFailsInv ==
    ASSUME TypeInv, MutualInv, NEW t \in Threads,
           UnsubscribeFails(t)
    PROVE  MutualInv'
<1>. USE CallBacksAssumption, ReceiverAssumption, OneUser, TypeGroups
         DEF TypeInv, MutualInv, EndsInv, PlaceOK, PairLabels, EndLabels,
         ShutLabels,
         CallTypes
<1>1. UserInv'
  BY DEF UnsubscribeFails, PassGoesOn, At, notifierVars, UserInv, UsesOf
<1>2. StageInv'
  BY DEF ObjectTypes, NotifierTypes, UnsubscribeFails, PassGoesOn, At,
         notifierVars, StageInv, Usable
<1>3. OnceInv'
  BY DEF ObjectTypes, NotifierTypes, UnsubscribeFails, PassGoesOn, At,
         notifierVars, OnceInv
<1>4. LockInv'
  BY DEF ObjectTypes, NotifierTypes, UnsubscribeFails, PassGoesOn, At,
         notifierVars, LockInv
<1>5. MemberInv'
  BY DEF ObjectTypes, NotifierTypes, UnsubscribeFails, PassGoesOn, At,
         notifierVars, MemberInv
<1>6. TellsInv'
  BY DEF ObjectTypes, NotifierTypes, UnsubscribeFails, PassGoesOn, At,
         notifierVars, TellsInv
<1>7. ToldInv'
  BY DEF ObjectTypes, NotifierTypes, UnsubscribeFails, PassGoesOn, At,
         notifierVars, ToldInv, Records
<1>8. GoneInv'
  BY DEF ObjectTypes, NotifierTypes, UnsubscribeFails, PassGoesOn, At,
         notifierVars, GoneInv
<1>9. OwnInv'
  BY DEF ObjectTypes, NotifierTypes, UnsubscribeFails, PassGoesOn, At,
         notifierVars, OwnInv
<1>10. CallInv'
  BY DEF ObjectTypes, UnsubscribeFails, PassGoesOn, At, notifierVars, CallInv,
         Attaches
<1>11. UncalledInv'
  BY DEF ObjectTypes, UnsubscribeFails, PassGoesOn, At, notifierVars,
         UncalledInv
<1>. QED BY <1>1, <1>2, <1>3, <1>4, <1>5, <1>6, <1>7, <1>8, <1>9, <1>10, <1>11

LEMMA EndMemberInv ==
    ASSUME TypeInv, MutualInv, NEW t \in Threads,
           EndMember(t)
    PROVE  MutualInv'
<1>. USE CallBacksAssumption, ReceiverAssumption, OneUser, TypeGroups
         DEF TypeInv, MutualInv, EndsInv, PlaceOK, PairLabels, EndLabels,
         ShutLabels,
         CallTypes
<1>1. UserInv'
  BY DEF EndMember, At, objectVars, UserInv, UsesOf
<1>2. StageInv'
  BY DEF ObjectTypes, NotifierTypes, EndMember, At, objectVars, StageInv,
         Usable
<1>3. OnceInv'
  BY DEF ObjectTypes, NotifierTypes, EndMember, At, objectVars, OnceInv,
         StageInv
<1>4. LockInv'
  BY DEF ObjectTypes, NotifierTypes, EndMember, At, objectVars, LockInv
<1>5. MemberInv'
  BY DEF ObjectTypes, NotifierTypes, EndMember, At, objectVars, MemberInv
<1>6. TellsInv'
  BY DEF ObjectTypes, NotifierTypes, EndMember, At, objectVars, TellsInv
<1>7. ToldInv'
  BY DEF ObjectTypes, NotifierTypes, EndMember, At, objectVars, ToldInv,
         Records
<1>8. GoneInv'
  BY DEF ObjectTypes, NotifierTypes, EndMember, At, objectVars, GoneInv
<1>9. OwnInv'
  BY DEF ObjectTypes, NotifierTypes, EndMember, At, objectVars, OwnInv
<1>10. CallInv'
  BY DEF NotifierTypes, EndMember, At, objectVars, CallInv, Attaches
<1>11. UncalledInv'
  BY DEF NotifierTypes, EndMember, At, objectVars, UncalledInv
<1>. QED BY <1>1, <1>2, <1>3, <1>4, <1>5, <1>6, <1>7, <1>8, <1>9, <1>10, <1>11

LEMMA DestroyObjectInv ==
    ASSUME TypeInv, MutualInv, NEW t \in Threads,
           DestroyObject(t)
    PROVE  MutualInv'
<1>. USE CallBacksAssumption, ReceiverAssumption, OneUser, TypeGroups
         DEF TypeInv, MutualInv, EndsInv, PlaceOK, PairLabels, EndLabels,
         ShutLabels,
         CallTypes
<1>1. UserInv'
  <2>1. CASE attached[obj[t]] # {} \/ obj[t] \in toremove
    BY <2>1 DEF DestroyObject, At, Goto, Return, notifierVars, UserInv, UsesOf
  <2>2. CASE ~(attached[obj[t]] # {} \/ obj[t] \in toremove)
    BY <2>2 DEF DestroyObject, At, Goto, Return, notifierVars, UserInv, UsesOf
  <2>. QED BY <2>1, <2>2
<1>2. StageInv'
  <2>1. CASE attached[obj[t]] # {} \/ obj[t] \in toremove
    BY <2>1
    DEF ObjectTypes, NotifierTypes, DestroyObject, At, Goto, Return,
        notifierVars, StageInv, Usable
  <2>2. CASE ~(attached[obj[t]] # {} \/ obj[t] \in toremove)
    BY <2>2
    DEF ObjectTypes, NotifierTypes, DestroyObject, At, Goto, Return,
        notifierVars, StageInv, Usable
  <2>. QED BY <2>1, <2>2
<1>3. OnceInv'
  <2>1. CASE attached[obj[t]] # {} \/ obj[t] \in toremove
    BY <2>1
    DEF ObjectTypes, DestroyObject, At, Goto, Return, notifierVars, OnceInv
  <2>2. CASE ~(attached[obj[t]] # {} \/ obj[t] \in toremove)
    BY <2>2
    DEF ObjectTypes, DestroyObject, At, Goto, Return, notifierVars, OnceInv
  <2>. QED BY <2>1, <2>2
<1>4. LockInv'
  <2>1. CASE attached[obj[t]] # {} \/ obj[t] \in toremove
    BY <2>1
    DEF ObjectTypes, NotifierTypes, DestroyObject, At, Goto, Return,
        notifierVars, LockInv
  <2>2. CASE ~(attached[obj[t]] # {} \/ obj[t] \in toremove)
    BY <2>2
    DEF ObjectTypes, NotifierTypes, DestroyObject, At, Goto, Return,
        notifierVars, LockInv
  <2>. QED BY <2>1, <2>2
<1>5. MemberInv'
  <2>1. CASE attached[obj[t]] # {} \/ obj[t] \in toremove
    BY <2>1
    DEF ObjectTypes, NotifierTypes, DestroyObject, At, Goto, Return,
        notifierVars, MemberInv
  <2>2. CASE ~(attached[obj[t]] # {} \/ obj[t] \in toremove)
    BY <2>2
    DEF ObjectTypes, NotifierTypes, DestroyObject, At, Goto, Return,
        notifierVars, MemberInv
  <2>. QED BY <2>1, <2>2
<1>6. TellsInv'
  <2>1. CASE attached[obj[t]] # {} \/ obj[t] \in toremove
    BY <2>1
    DEF ObjectTypes, NotifierTypes, DestroyObject, At, Goto, Return,
        notifierVars, TellsInv
  <2>2. CASE ~(attached[obj[t]] # {} \/ obj[t] \in toremove)
    BY <2>2
    DEF ObjectTypes, NotifierTypes, DestroyObject, At, Goto, Return,
        notifierVars, TellsInv
  <2>. QED BY <2>1, <2>2
<1>7. ToldInv'
  <2>1. CASE attached[obj[t]] # {} \/ obj[t] \in toremove
    BY <2>1
    DEF ObjectTypes, NotifierTypes, DestroyObject, At, Goto, Return,
        notifierVars, ToldInv, Records
  <2>2. CASE ~(attached[obj[t]] # {} \/ obj[t] \in toremove)
    BY <2>2
    DEF ObjectTypes, NotifierTypes, DestroyObject, At, Goto, Return,
        notifierVars, ToldInv, Records
  <2>. QED BY <2>1, <2>2
<1>8. GoneInv'
  <2>1. CASE attached[obj[t]] # {} \/ obj[t] \in toremove
    BY <2>1
    DEF ObjectTypes, NotifierTypes, DestroyObject, At, Goto, Return,
        notifierVars, GoneInv
  <2>2. CASE ~(attached[obj[t]] # {} \/ obj[t] \in toremove)
    BY <2>2
    DEF ObjectTypes, NotifierTypes, DestroyObject, At, Goto, Return,
        notifierVars, GoneInv
  <2>. QED BY <2>1, <2>2
<1>9. OwnInv'
  <2>1. CASE attached[obj[t]] # {} \/ obj[t] \in toremove
    BY <2>1
    DEF ObjectTypes, NotifierTypes, DestroyObject, At, Goto, Return,
        notifierVars, OwnInv
  <2>2. CASE ~(attached[obj[t]] # {} \/ obj[t] \in toremove)
    BY <2>2
    DEF ObjectTypes, NotifierTypes, DestroyObject, At, Goto, Return,
        notifierVars, OwnInv
  <2>. QED BY <2>1, <2>2
<1>10. CallInv'
  <2>1. CASE attached[obj[t]] # {} \/ obj[t] \in toremove
    BY <2>1
    DEF ObjectTypes, DestroyObject, At, Goto, Return, notifierVars, CallInv,
        Attaches
  <2>2. CASE ~(attached[obj[t]] # {} \/ obj[t] \in toremove)
    BY <2>2
    DEF ObjectTypes, DestroyObject, At, Goto, Return, notifierVars, CallInv,
        Attaches
  <2>. QED BY <2>1, <2>2
<1>11. UncalledInv'
  <2>1. CASE attached[obj[t]] # {} \/ obj[t] \in toremove
    BY <2>1
    DEF ObjectTypes, DestroyObject, At, Goto, Return, notifierVars, UncalledInv
  <2>2. CASE ~(attached[obj[t]] # {} \/ obj[t] \in toremove)
    BY <2>2
    DEF ObjectTypes, DestroyObject, At, Goto, Return, notifierVars, UncalledInv
  <2>. QED BY <2>1, <2>2
<1>. QED BY <1>1, <1>2, <1>3, <1>4, <1>5, <1>6, <1>7, <1>8, <1>9, <1>10, <1>11

LEMMA StartShutdownInv ==
    ASSUME TypeInv, MutualInv, NEW t \in Threads,
           StartShutdown(t)
    PROVE  MutualInv'
<1>. USE CallBacksAssumption, ReceiverAssumption, OneUser, TypeGroups
         DEF TypeInv, MutualInv, EndsInv, PlaceOK, PairLabels, EndLabels,
         ShutLabels,
         CallTypes
<1>. DEFINE m == ntf[t]
<1>1. pc[t] = "locksubs" /\ m \in Notifiers /\ UNCHANGED <<life, alock, cber, obj>>
  BY DEF StartShutdown, At, objectVars
<1>2. UNCHANGED <<attached, subscribers>>
  BY DEF StartShutdown, objectVars
<1>3. CASE subscribers[m] = {}
  <2>1. /\ nlife' = [nlife EXCEPT ![m] = "gone"]
        /\ cbs' = cbs \/ cbs' = [cbs EXCEPT ![m] = <<>>]
        /\ pc' = [pc EXCEPT ![t] = IF obj[t] = Nobody THEN "none" ELSE "members"]
        /\ ntf' = [ntf EXCEPT ![t] = Nobody]
        /\ UNCHANGED <<slock, todo>>
    BY <1>3, ReleaseFacts DEF StartShutdown
  <2>2. UserInv'
    BY <1>1, <1>2, <1>3, <2>1 DEF ObjectTypes, NotifierTypes, UserInv
  <2>3. StageInv'
    BY <1>1, <1>2, <1>3, <2>1
    DEF ObjectTypes, NotifierTypes, StageInv, OnceInv, Usable
  <2>4. OnceInv'
    BY <1>1, <1>2, <1>3, <2>1 DEF ObjectTypes, NotifierTypes, OnceInv
  <2>5. LockInv'
    BY <1>1, <1>2, <1>3, <2>1 DEF ObjectTypes, NotifierTypes, LockInv, OnceInv
  <2>6. MemberInv'
    BY <1>1, <1>2, <1>3, <2>1 DEF ObjectTypes, NotifierTypes, MemberInv
  <2>7. TellsInv'
    BY <1>1, <1>2, <1>3, <2>1
    DEF ObjectTypes, NotifierTypes, TellsInv, StageInv, Usable
  <2>8. ToldInv'
    BY <1>1, <1>2, <1>3, <2>1 DEF ObjectTypes, NotifierTypes, ToldInv, Records
  <2>9. GoneInv'
    <3>1. ASSUME NEW o \in Objects, m \in attached[o] PROVE FALSE
      <4>1. Owner[m] = o /\ Owner[m] = obj[t] /\ o # Nobody
        BY <1>1, <1>3, <3>1 DEF TellsInv, StageInv
      <4>. QED BY <1>1, <3>1, <4>1 DEF StageInv, MemberInv
    <3>. QED BY <1>1, <1>2, <1>3, <2>1, <3>1 DEF NotifierTypes, GoneInv
  <2>10. OwnInv'
    BY <1>1, <1>2, <1>3, <2>1 DEF ObjectTypes, NotifierTypes, OwnInv
  <2>11. CallInv'
    <3>1. \A n \in Notifiers \ {m} : cbs'[n] = cbs[n]
      BY <1>1, <2>1 DEF NotifierTypes
    <3>2. ToSet(cbs'[m]) \subseteq ToSet(cbs[m])
      <4>1. cbs'[m] \in {cbs[m], <<>>} /\ cbs[m] \in Seq(Objects)
        BY <1>1, <2>1 DEF NotifierTypes
      <4>. QED BY <4>1, ToSetShrinks
    <3>. QED BY <1>1, <1>2, <1>3, <2>1, <3>1, <3>2
        DEF ObjectTypes, NotifierTypes, CallInv, Attaches, StageInv
  <2>12. UncalledInv'
    <3>1. \A n \in Notifiers \ {m} : cbs'[n] = cbs[n]
      BY <1>1, <2>1 DEF NotifierTypes
    <3>2. ToSet(cbs'[m]) \subseteq ToSet(cbs[m])
      <4>1. cbs'[m] \in {cbs[m], <<>>} /\ cbs[m] \in Seq(Objects)
        BY <1>1, <2>1 DEF NotifierTypes
      <4>. QED BY <4>1, ToSetShrinks
    <3>. QED BY <1>1, <1>2, <1>3, <2>1, <3>1, <3>2
        DEF ObjectTypes, NotifierTypes, UncalledInv
  <2>. QED BY <2>2, <2>3, <2>4, <2>5, <2>6, <2>7, <2>8, <2>9, <2>10, <2>11, <2>12
<1>4. CASE subscribers[m] # {}
  <2>1. /\ slock[m] = Nobody /\ slock' = [slock EXCEPT ![m] = t]
        /\ todo' = [todo EXCEPT ![t] = subscribers[m]]
        /\ pc' = [pc EXCEPT ![t] = "shutdown"]
        /\ UNCHANGED <<nlife, cbs, ntf>>
    BY <1>4 DEF StartShutdown
  <2>2. UserInv'
    BY <1>1, <1>2, <1>4, <2>1 DEF ObjectTypes, NotifierTypes, UserInv
  <2>3. StageInv'
    BY <1>1, <1>2, <1>4, <2>1
    DEF ObjectTypes, NotifierTypes, StageInv, OnceInv, Usable
  <2>4. OnceInv'
    BY <1>1, <1>2, <1>4, <2>1 DEF ObjectTypes, NotifierTypes, OnceInv
  <2>5. LockInv'
    BY <1>1, <1>2, <1>4, <2>1 DEF ObjectTypes, NotifierTypes, LockInv, OnceInv
  <2>6. MemberInv'
    BY <1>1, <1>2, <1>4, <2>1 DEF ObjectTypes, NotifierTypes, MemberInv
  <2>7. TellsInv'
    BY <1>1, <1>2, <1>4, <2>1
    DEF ObjectTypes, NotifierTypes, TellsInv, StageInv, Usable
  <2>8. ToldInv'
    BY <1>1, <1>2, <1>4, <2>1 DEF ObjectTypes, NotifierTypes, ToldInv, Records
  <2>9. GoneInv'
    BY <1>1, <1>2, <1>4, <2>1
    DEF ObjectTypes, NotifierTypes, GoneInv, StageInv, MemberInv, TellsInv
  <2>10. OwnInv'
    BY <1>1, <1>2, <1>4, <2>1 DEF ObjectTypes, NotifierTypes, OwnInv
  <2>11. CallInv'
    BY <1>1, <1>2, <1>4, <2>1
    DEF ObjectTypes, NotifierTypes, CallInv, Attaches, StageInv
  <2>12. UncalledInv'
    BY <1>1, <1>2, <1>4, <2>1 DEF ObjectTypes, NotifierTypes, UncalledInv
  <2>. QED BY <2>2, <2>3, <2>4, <2>5, <2>6, <2>7, <2>8, <2>9, <2>10, <2>11, <2>12
<1>. QED BY <1>3, <1>4

LEMMA NotifyShutdownInv ==
    ASSUME TypeInv, MutualInv, NEW t \in Threads,
           NotifyShutdown(t)
    PROVE  MutualInv'
<1>. USE CallBacksAssumption, ReceiverAssumption, OneUser, TypeGroups
         DEF TypeInv, MutualInv, EndsInv, PlaceOK, PairLabels, EndLabels,
         ShutLabels,
         CallTypes
<1>. DEFINE m == ntf[t]
<1>1. pc[t] = "shutdown" /\ m \in Notifiers /\ UNCHANGED <<life, alock, cber, obj>>
  BY DEF NotifyShutdown, At, objectVars
<1>2. PICK o \in todo[t] :
            /\ alock[o] = Nobody
            /\ attached' = [attached EXCEPT ![o] = @ \ {m}]
            /\ subscribers' = [subscribers EXCEPT ![m] = @ \ {o}]
            /\ ShutdownGoesOn(t, todo[t] \ {o}, subscribers[m] \ {o})
  BY DEF NotifyShutdown
<1>3. o \in Objects /\ o \in subscribers[m] /\ slock[m] = t
  BY <1>1, <1>2 DEF LockInv
<1>5. todo' = [todo EXCEPT ![t] = @ \ {o}]
  BY <1>2 DEF ShutdownGoesOn
<1>6. CASE todo[t] \ {o} = {} /\ subscribers[m] \ {o} = {}
  <2>1. /\ nlife' = [nlife EXCEPT ![m] = "gone"]
        /\ cbs' = cbs \/ cbs' = [cbs EXCEPT ![m] = <<>>]
        /\ pc' = [pc EXCEPT ![t] = IF obj[t] = Nobody THEN "none" ELSE "members"]
        /\ ntf' = [ntf EXCEPT ![t] = Nobody]
        /\ slock' = [slock EXCEPT ![m] = Nobody]
    BY <1>2, <1>6, ReleaseFacts DEF ShutdownGoesOn
  <2>2. UserInv'
    BY <1>1, <1>2, <1>3, <1>5, <1>6, <2>1
    DEF ObjectTypes, NotifierTypes, UserInv
  <2>3. StageInv'
    BY <1>1, <1>2, <1>3, <1>5, <1>6, <2>1
    DEF ObjectTypes, NotifierTypes, StageInv, OnceInv, Usable
  <2>4. OnceInv'
    BY <1>1, <1>2, <1>3, <1>5, <1>6, <2>1
    DEF ObjectTypes, NotifierTypes, OnceInv
  <2>5. LockInv'
    BY <1>1, <1>2, <1>3, <1>5, <1>6, <2>1
    DEF ObjectTypes, NotifierTypes, LockInv, OnceInv
  <2>6. MemberInv'
    BY <1>1, <1>2, <1>3, <1>5, <1>6, <2>1
    DEF ObjectTypes, NotifierTypes, MemberInv
  <2>7. TellsInv'
    BY <1>1, <1>2, <1>3, <1>5, <1>6, <2>1
    DEF ObjectTypes, NotifierTypes, TellsInv, StageInv, Usable
  <2>8. ToldInv'
    BY <1>1, <1>2, <1>3, <1>5, <1>6, <2>1
    DEF ObjectTypes, NotifierTypes, ToldInv, Records
  <2>9. GoneInv'
    BY <1>1, <1>2, <1>3, <1>5, <1>6, <2>1
    DEF ObjectTypes, NotifierTypes, GoneInv, StageInv, MemberInv, TellsInv
  <2>10. OwnInv'
    BY <1>1, <1>2, <1>3, <1>5, <1>6, <2>1
    DEF ObjectTypes, NotifierTypes, OwnInv
  <2>11. CallInv'
    <3>1. \A n \in Notifiers \ {m} : cbs'[n] = cbs[n]
      BY <1>1, <2>1 DEF NotifierTypes
    <3>2. ToSet(cbs'[m]) \subseteq ToSet(cbs[m])
      <4>1. cbs'[m] \in {cbs[m], <<>>} /\ cbs[m] \in Seq(Objects)
        BY <1>1, <2>1 DEF NotifierTypes
      <4>. QED BY <4>1, ToSetShrinks
    <3>. QED BY <1>1, <1>2, <1>3, <1>5, <1>6, <2>1, <3>1, <3>2
        DEF ObjectTypes, NotifierTypes, CallInv, Attaches, StageInv
  <2>12. UncalledInv'
    <3>1. \A n \in Notifiers \ {m} : cbs'[n] = cbs[n]
      BY <1>1, <2>1 DEF NotifierTypes
    <3>2. ToSet(cbs'[m]) \subseteq ToSet(cbs[m])
      <4>1. cbs'[m] \in {cbs[m], <<>>} /\ cbs[m] \in Seq(Objects)
        BY <1>1, <2>1 DEF NotifierTypes
      <4>. QED BY <4>1, ToSetShrinks
    <3>. QED BY <1>1, <1>2, <1>3, <1>5, <1>6, <2>1, <3>1, <3>2
        DEF ObjectTypes, NotifierTypes, UncalledInv
  <2>. QED BY <2>2, <2>3, <2>4, <2>5, <2>6, <2>7, <2>8, <2>9, <2>10, <2>11, <2>12
<1>7. CASE ~(todo[t] \ {o} = {} /\ subscribers[m] \ {o} = {})
  <2>1. /\ slock' = IF todo[t] \ {o} = {} THEN [slock EXCEPT ![m] = Nobody] ELSE slock
        /\ pc' = [pc EXCEPT ![t] = IF todo[t] \ {o} = {} THEN "locksubs" ELSE "shutdown"]
        /\ UNCHANGED <<nlife, cbs, ntf>>
    BY <1>2, <1>7 DEF ShutdownGoesOn
  <2>2. UserInv'
    BY <1>1, <1>2, <1>3, <1>5, <1>7, <2>1
    DEF ObjectTypes, NotifierTypes, UserInv
  <2>3. StageInv'
    BY <1>1, <1>2, <1>3, <1>5, <1>7, <2>1
    DEF ObjectTypes, NotifierTypes, StageInv, OnceInv, Usable
  <2>4. OnceInv'
    BY <1>1, <1>2, <1>3, <1>5, <1>7, <2>1
    DEF ObjectTypes, NotifierTypes, OnceInv
  <2>5. LockInv'
    BY <1>1, <1>2, <1>3, <1>5, <1>7, <2>1
    DEF ObjectTypes, NotifierTypes, LockInv, OnceInv
  <2>6. MemberInv'
    BY <1>1, <1>2, <1>3, <1>5, <1>7, <2>1
    DEF ObjectTypes, NotifierTypes, MemberInv
  <2>7. TellsInv'
    BY <1>1, <1>2, <1>3, <1>5, <1>7, <2>1
    DEF ObjectTypes, NotifierTypes, TellsInv, StageInv, Usable
  <2>8. ToldInv'
    BY <1>1, <1>2, <1>3, <1>5, <1>7, <2>1
    DEF ObjectTypes, NotifierTypes, ToldInv, Records
  <2>9. GoneInv'
    BY <1>1, <1>2, <1>3, <1>5, <1>7, <2>1
    DEF ObjectTypes, NotifierTypes, GoneInv, StageInv, MemberInv, TellsInv
  <2>10. OwnInv'
    BY <1>1, <1>2, <1>3, <1>5, <1>7, <2>1
    DEF ObjectTypes, NotifierTypes, OwnInv
  <2>11. CallInv'
    BY <1>1, <1>2, <1>3, <1>5, <1>7, <2>1
    DEF ObjectTypes, NotifierTypes, CallInv, Attaches, StageInv
  <2>12. UncalledInv'
    BY <1>1, <1>2, <1>3, <1>5, <1>7, <2>1
    DEF ObjectTypes, NotifierTypes, UncalledInv
  <2>. QED BY <2>2, <2>3, <2>4, <2>5, <2>6, <2>7, <2>8, <2>9, <2>10, <2>11, <2>12
<1>. QED BY <1>6, <1>7

LEMMA NotifyShutdownFailsInv ==
    ASSUME TypeInv, MutualInv, NEW t \in Threads,
           NotifyShutdownFails(t)
    PROVE  MutualInv'
<1>. USE CallBacksAssumption, ReceiverAssumption, OneUser, TypeGroups
         DEF TypeInv, MutualInv, EndsInv, PlaceOK, PairLabels, EndLabels,
         ShutLabels,
         CallTypes
<1>. DEFINE m == ntf[t]
<1>1. pc[t] = "shutdown" /\ m \in Notifiers /\ UNCHANGED <<life, alock, cber, obj>>
  BY DEF NotifyShutdownFails, At, objectVars
<1>2. PICK o \in todo[t] :
            ShutdownGoesOn(t, todo[t] \ {o}, subscribers[m])
  BY DEF NotifyShutdownFails
<1>3. o \in Objects /\ o \in subscribers[m] /\ slock[m] = t
  BY <1>1, <1>2 DEF LockInv
<1>4. UNCHANGED <<attached, subscribers>>
  BY DEF NotifyShutdownFails, objectVars
<1>5. todo' = [todo EXCEPT ![t] = @ \ {o}]
  BY <1>2 DEF ShutdownGoesOn
<1>6. CASE todo[t] \ {o} = {} /\ subscribers[m] = {}
  <2>1. /\ nlife' = [nlife EXCEPT ![m] = "gone"]
        /\ cbs' = cbs \/ cbs' = [cbs EXCEPT ![m] = <<>>]
        /\ pc' = [pc EXCEPT ![t] = IF obj[t] = Nobody THEN "none" ELSE "members"]
        /\ ntf' = [ntf EXCEPT ![t] = Nobody]
        /\ slock' = [slock EXCEPT ![m] = Nobody]
    BY <1>2, <1>6, ReleaseFacts DEF ShutdownGoesOn
  <2>. QED BY <1>3, <1>6
<1>7. CASE ~(todo[t] \ {o} = {} /\ subscribers[m] = {})
  <2>1. /\ slock' = IF todo[t] \ {o} = {} THEN [slock EXCEPT ![m] = Nobody] ELSE slock
        /\ pc' = [pc EXCEPT ![t] = IF todo[t] \ {o} = {} THEN "locksubs" ELSE "shutdown"]
        /\ UNCHANGED <<nlife, cbs, ntf>>
    BY <1>2, <1>7 DEF ShutdownGoesOn
  <2>2. UserInv'
    BY <1>1, <1>2, <1>3, <1>4, <1>5, <1>7, <2>1
    DEF ObjectTypes, NotifierTypes, UserInv
  <2>3. StageInv'
    BY <1>1, <1>2, <1>3, <1>4, <1>5, <1>7, <2>1
    DEF ObjectTypes, NotifierTypes, StageInv, OnceInv, Usable
  <2>4. OnceInv'
    BY <1>1, <1>2, <1>3, <1>4, <1>5, <1>7, <2>1
    DEF ObjectTypes, NotifierTypes, OnceInv
  <2>5. LockInv'
    BY <1>1, <1>2, <1>3, <1>4, <1>5, <1>7, <2>1
    DEF ObjectTypes, NotifierTypes, LockInv, OnceInv
  <2>6. MemberInv'
    BY <1>1, <1>2, <1>3, <1>4, <1>5, <1>7, <2>1
    DEF ObjectTypes, NotifierTypes, MemberInv
  <2>7. TellsInv'
    BY <1>1, <1>2, <1>3, <1>4, <1>5, <1>7, <2>1
    DEF ObjectTypes, NotifierTypes, TellsInv, StageInv, Usable
  <2>8. ToldInv'
    BY <1>1, <1>2, <1>3, <1>4, <1>5, <1>7, <2>1
    DEF ObjectTypes, NotifierTypes, ToldInv, Records
  <2>9. GoneInv'
    BY <1>1, <1>2, <1>3, <1>4, <1>5, <1>7, <2>1
    DEF ObjectTypes, NotifierTypes, GoneInv, StageInv, MemberInv, TellsInv
  <2>10. OwnInv'
    BY <1>1, <1>2, <1>3, <1>4, <1>5, <1>7, <2>1
    DEF ObjectTypes, NotifierTypes, OwnInv
  <2>11. CallInv'
    BY <1>1, <1>2, <1>3, <1>4, <1>5, <1>7, <2>1
    DEF ObjectTypes, NotifierTypes, CallInv, Attaches, StageInv
  <2>12. UncalledInv'
    BY <1>1, <1>2, <1>3, <1>4, <1>5, <1>7, <2>1
    DEF ObjectTypes, NotifierTypes, UncalledInv
  <2>. QED BY <2>2, <2>3, <2>4, <2>5, <2>6, <2>7, <2>8, <2>9, <2>10, <2>11, <2>12
<1>. QED BY <1>6, <1>7

LEMMA AttachCBInv ==
    ASSUME TypeInv, MutualInv, NEW t \in Threads, NEW o \in Objects, NEW n \in Notifiers,
           AttachCB(t, o, n)
    PROVE  MutualInv'
<1>. USE CallBacksAssumption, ReceiverAssumption, OneUser, TypeGroups
         DEF TypeInv, MutualInv, EndsInv, PlaceOK, PairLabels, EndLabels,
         ShutLabels,
         CallTypes
<1>1. UserInv'
  BY DEF AttachCB, Enter, May, Usable, objectVars, UserInv, UsesOf
<1>2. StageInv'
  BY DEF ObjectTypes, NotifierTypes, AttachCB, Enter, May, Usable, objectVars,
         StageInv
<1>3. OnceInv'
  BY DEF ObjectTypes, NotifierTypes, AttachCB, Enter, May, Usable, objectVars,
         OnceInv
<1>4. LockInv'
  BY DEF ObjectTypes, NotifierTypes, AttachCB, Enter, May, Usable, objectVars,
         LockInv
<1>5. MemberInv'
  BY DEF ObjectTypes, NotifierTypes, AttachCB, Enter, May, Usable, objectVars,
         MemberInv
<1>6. TellsInv'
  BY DEF ObjectTypes, NotifierTypes, AttachCB, Enter, May, Usable, objectVars,
         TellsInv
<1>7. ToldInv'
  BY DEF ObjectTypes, NotifierTypes, AttachCB, Enter, May, Usable, objectVars,
         ToldInv, Records
<1>8. GoneInv'
  BY DEF ObjectTypes, NotifierTypes, AttachCB, Enter, May, Usable, objectVars,
         GoneInv
<1>9. OwnInv'
  BY DEF ObjectTypes, NotifierTypes, AttachCB, Enter, May, Usable, objectVars,
         OwnInv
<1>10. CallInv'
  <2>1. ToSet(cbs'[n]) = ToSet(cbs[n]) \cup {o}
    BY ToSetAppend DEF AttachCB, NotifierTypes
  <2>2. \A m \in Notifiers \ {n} : cbs'[m] = cbs[m]
    BY DEF AttachCB, NotifierTypes
  <2>3. Attaches(t, o, n)'
    BY DEF AttachCB, Enter, Attaches
  <2>. QED BY <2>1, <2>2, <2>3
      DEF AttachCB, Enter, May, objectVars, CallInv, Attaches
<1>11. UncalledInv'
  <2>1. ToSet(cbs'[n]) = ToSet(cbs[n]) \cup {o}
    BY ToSetAppend DEF AttachCB, NotifierTypes
  <2>2. \A m \in Notifiers \ {n} : cbs'[m] = cbs[m]
    BY DEF AttachCB, NotifierTypes
  <2>3. \A u \in Threads \ {t} : pc[u] \in {"unsub", "relock"} => obj[u] # o
    <3>1. [by |-> t, call |-> "attach", obj |-> o, ntf |-> n] \in UsesOf(t)
      BY DEF AttachCB, May, UsesOf
    <3>. QED BY <3>1, OneUserAssumption DEF UserInv, UsesOf
  <2>. QED BY <2>1, <2>2, <2>3 DEF AttachCB, Enter, May, UncalledInv
<1>. QED BY <1>1, <1>2, <1>3, <1>4, <1>5, <1>6, <1>7, <1>8, <1>9, <1>10, <1>11

LEMMA DetachCBInv ==
    ASSUME TypeInv, MutualInv, NEW t \in Threads, NEW o \in Objects, NEW n \in Notifiers,
           DetachCB(t, o, n)
    PROVE  MutualInv'
<1>. USE CallBacksAssumption, ReceiverAssumption, OneUser, TypeGroups
         DEF TypeInv, MutualInv, EndsInv, PlaceOK, PairLabels, EndLabels,
         ShutLabels,
         CallTypes
<1>1. UserInv'
  BY DEF DetachCB, Enter, May, notifierVars, UserInv, UsesOf
<1>2. StageInv'
  BY DEF ObjectTypes, NotifierTypes, DetachCB, Enter, May, notifierVars,
         StageInv, Usable
<1>3. OnceInv'
  BY DEF ObjectTypes, NotifierTypes, DetachCB, Enter, May, notifierVars,
         OnceInv
<1>4. LockInv'
  BY DEF ObjectTypes, NotifierTypes, DetachCB, Enter, May, notifierVars,
         LockInv
<1>5. MemberInv'
  BY DEF ObjectTypes, NotifierTypes, DetachCB, Enter, May, notifierVars,
         MemberInv
<1>6. TellsInv'
  BY DEF ObjectTypes, NotifierTypes, DetachCB, Enter, May, notifierVars,
         TellsInv
<1>7. ToldInv'
  BY DEF ObjectTypes, NotifierTypes, DetachCB, Enter, May, notifierVars,
         ToldInv, Records
<1>8. GoneInv'
  BY DEF ObjectTypes, NotifierTypes, DetachCB, Enter, May, notifierVars,
         GoneInv
<1>9. OwnInv'
  BY DEF ObjectTypes, NotifierTypes, DetachCB, Enter, May, notifierVars, OwnInv
<1>10. CallInv'
  BY DEF ObjectTypes, DetachCB, Enter, May, notifierVars, CallInv, Attaches
<1>11. UncalledInv'
  BY DEF ObjectTypes, DetachCB, Enter, May, notifierVars, UncalledInv
<1>. QED BY <1>1, <1>2, <1>3, <1>4, <1>5, <1>6, <1>7, <1>8, <1>9, <1>10, <1>11

LEMMA EndObjectInv ==
    ASSUME TypeInv, MutualInv, NEW t \in Threads, NEW o \in Objects,
           EndObject(t, o)
    PROVE  MutualInv'
<1>. USE CallBacksAssumption, ReceiverAssumption, OneUser, TypeGroups
         DEF TypeInv, MutualInv, EndsInv, PlaceOK, PairLabels, EndLabels,
         ShutLabels,
         CallTypes
<1>1. UserInv'
  BY DEF EndObject, Enter, May, ObjectIsFree, NotifierIsFree, notifierVars,
         UserInv, UsesOf
<1>2. StageInv'
  BY DEF ObjectTypes, NotifierTypes, EndObject, Enter, May, ObjectIsFree,
         NotifierIsFree, notifierVars, StageInv, Usable
<1>3. OnceInv'
  BY DEF ObjectTypes, NotifierTypes, EndObject, Enter, May, ObjectIsFree,
         NotifierIsFree, notifierVars, OnceInv
<1>4. LockInv'
  BY DEF ObjectTypes, NotifierTypes, EndObject, Enter, May, ObjectIsFree,
         NotifierIsFree, notifierVars, LockInv
<1>5. MemberInv'
  BY DEF ObjectTypes, NotifierTypes, EndObject, Enter, May, ObjectIsFree,
         NotifierIsFree, notifierVars, MemberInv
<1>6. TellsInv'
  BY DEF ObjectTypes, NotifierTypes, EndObject, Enter, May, ObjectIsFree,
         NotifierIsFree, notifierVars, TellsInv
<1>7. ToldInv'
  BY DEF ObjectTypes, NotifierTypes, EndObject, Enter, May, ObjectIsFree,
         NotifierIsFree, notifierVars, ToldInv, Records
<1>8. GoneInv'
  BY DEF ObjectTypes, NotifierTypes, EndObject, Enter, May, ObjectIsFree,
         NotifierIsFree, notifierVars, GoneInv
<1>9. OwnInv'
  BY DEF ObjectTypes, NotifierTypes, EndObject, Enter, May, ObjectIsFree,
         NotifierIsFree, notifierVars, OwnInv
<1>10. CallInv'
  BY DEF ObjectTypes, EndObject, Enter, May, ObjectIsFree, NotifierIsFree,
         notifierVars, CallInv, Attaches
<1>11. UncalledInv'
  BY DEF ObjectTypes, EndObject, Enter, May, ObjectIsFree, NotifierIsFree,
         notifierVars, UncalledInv
<1>. QED BY <1>1, <1>2, <1>3, <1>4, <1>5, <1>6, <1>7, <1>8, <1>9, <1>10, <1>11

LEMMA EndNotifierInv ==
    ASSUME TypeInv, MutualInv, NEW t \in Threads, NEW n \in Notifiers,
           EndNotifier(t, n)
    PROVE  MutualInv'
<1>. USE CallBacksAssumption, ReceiverAssumption, OneUser, TypeGroups
         DEF TypeInv, MutualInv, EndsInv, PlaceOK, PairLabels, EndLabels,
         ShutLabels,
         CallTypes
<1>1. UserInv'
  BY DEF EndNotifier, Enter, May, NotifierIsFree, objectVars, UserInv, UsesOf
<1>2. StageInv'
  BY DEF ObjectTypes, NotifierTypes, EndNotifier, Enter, May, NotifierIsFree,
         objectVars, StageInv, Usable
<1>3. OnceInv'
  BY DEF ObjectTypes, NotifierTypes, EndNotifier, Enter, May, NotifierIsFree,
         objectVars, OnceInv, StageInv
<1>4. LockInv'
  BY DEF ObjectTypes, NotifierTypes, EndNotifier, Enter, May, NotifierIsFree,
         objectVars, LockInv
<1>5. MemberInv'
  BY DEF ObjectTypes, NotifierTypes, EndNotifier, Enter, May, NotifierIsFree,
         objectVars, MemberInv
<1>6. TellsInv'
  BY DEF ObjectTypes, NotifierTypes, EndNotifier, Enter, May, NotifierIsFree,
         objectVars, TellsInv
<1>7. ToldInv'
  BY DEF ObjectTypes, NotifierTypes, EndNotifier, Enter, May, NotifierIsFree,
         objectVars, ToldInv, Records
<1>8. GoneInv'
  BY DEF ObjectTypes, NotifierTypes, EndNotifier, Enter, May, NotifierIsFree,
         objectVars, GoneInv
<1>9. OwnInv'
  BY DEF ObjectTypes, NotifierTypes, EndNotifier, Enter, May, NotifierIsFree,
         objectVars, OwnInv
<1>10. CallInv'
  <2>1. /\ UNCHANGED <<life, attached, cbs>>
        /\ nlife[n] = "alive" /\ nlife' = [nlife EXCEPT ![n] = "ending"]
        /\ pc[t] = "none" /\ pc' = [pc EXCEPT ![t] = "locksubs"]
        /\ obj' = [obj EXCEPT ![t] = Nobody] /\ ntf' = [ntf EXCEPT ![t] = n]
    BY DEF EndNotifier, Enter, May, objectVars
  <2>. SUFFICES ASSUME NEW p \in Objects, NEW m \in Notifiers, life'[p] = "alive",
                       nlife'[m] = "alive", p \in ToSet(cbs'[m])
                PROVE  m \in attached'[p] \/ \E u \in Threads : Attaches(u, p, m)'
    BY DEF CallInv, Attaches
  <2>2. nlife[m] = "alive"
    BY <2>1 DEF NotifierTypes
  <2>3. m \in attached[p] \/ \E u \in Threads : Attaches(u, p, m)
    BY <2>1, <2>2 DEF CallInv
  <2>5. CASE m \in attached[p]
    BY <2>1, <2>5
  <2>6. ASSUME NEW u \in Threads, Attaches(u, p, m) PROVE Attaches(u, p, m)'
    BY <2>1, <2>6 DEF Attaches
  <2>. QED BY <2>3, <2>5, <2>6
<1>11. UncalledInv'
  BY DEF NotifierTypes, EndNotifier, Enter, May, NotifierIsFree, objectVars,
         UncalledInv
<1>. QED BY <1>1, <1>2, <1>3, <1>4, <1>5, <1>6, <1>7, <1>8, <1>9, <1>10, <1>11

LEMMA InertInv ==
    ASSUME MutualInv, UNCHANGED <<objectVars, callVars, nlife, cber, subscribers, slock>>,
           UNCHANGED cbs \/ (cbs \in [Notifiers -> Seq(Objects)] /\ FewerCalls),
           PlaceOK
    PROVE  MutualInv'
<1>. USE DEF objectVars, callVars, MutualInv, EndsInv
<1>1. UserInv' /\ OnceInv'
  BY DEF UserInv, UsesOf, OnceInv
<1>2. StageInv' /\ LockInv'
  BY DEF StageInv, Usable, LockInv
<1>3. MemberInv' /\ TellsInv' /\ ToldInv' /\ GoneInv' /\ OwnInv'
  BY DEF MemberInv, TellsInv, ToldInv, Records, GoneInv, OwnInv
<1>4. CASE UNCHANGED cbs
  BY <1>1, <1>2, <1>3, <1>4 DEF CallInv, UncalledInv, Attaches
<1>5. CASE FewerCalls
  <2>1. CallInv'
    BY <1>5 DEF FewerCalls, CallInv, Attaches
  <2>2. UncalledInv'
    BY <1>5 DEF FewerCalls, UncalledInv, PlaceOK, PairLabels
  <2>. QED BY <1>1, <1>2, <1>3, <2>1, <2>2
<1>. QED BY <1>4, <1>5

LEMMA LoopEndsInv ==
    ASSUME TypeInv, MutualInv, NEW t \in Threads, LoopEnds(t)
    PROVE  MutualInv'
<1>1. frames[t] # <<>>
  BY DEF LoopEnds, InLoop
<1>2. Top(t).ntf \in Notifiers \cup {Nobody}
  BY <1>1, TopIsFrame DEF Frames, TypeInv
<1>3. cbs' = cbs \/ \E n \in Notifiers : cbs' = [cbs EXCEPT ![n] = <<>>]
  BY <1>2 DEF LoopEnds
<1>4. cbs \in [Notifiers -> Seq(Objects)]
  BY DEF TypeInv, TypeOK
<1>5. FewerCalls
  <2>1. ToSet(<<>>) = {}
    BY DEF ToSet
  <2>. QED BY <1>3, <1>4, <2>1 DEF FewerCalls
<1>. QED BY <1>4, <1>5, InertInv DEF LoopEnds, objectVars, callVars, TypeInv

LEMMA MutualInvInit ==
    Init => MutualInv
<1>. SUFFICES ASSUME Init PROVE MutualInv
  OBVIOUS
<1>1. ToSet(<<>>) = {}
  BY DEF ToSet
<1>. USE CallBacksAssumption, ReceiverAssumption DEF Init
<1>2. UserInv /\ StageInv /\ OnceInv /\ LockInv
  BY DEF UserInv, StageInv, OnceInv, LockInv, PairLabels, EndLabels, ShutLabels
<1>3. MemberInv /\ TellsInv /\ ToldInv /\ GoneInv
  BY DEF MemberInv, TellsInv, ToldInv, GoneInv
<1>4. OwnInv /\ CallInv /\ UncalledInv
  BY <1>1 DEF OwnInv, CallInv, UncalledInv
<1>. QED BY <1>2, <1>3, <1>4 DEF MutualInv, EndsInv

LEMMA MutualInvStep ==
    TypeInv /\ MutualInv /\ [Next]_vars => MutualInv'
<1>. SUFFICES ASSUME TypeInv, MutualInv, [Next]_vars PROVE MutualInv'
  OBVIOUS
<1>. DEFINE Inert == UNCHANGED <<objectVars, notifierVars, callVars>>
<1>1. Inert => MutualInv'
  BY InertInv DEF notifierVars, TypeInv
<1>2. CASE Event
  BY <1>1, <1>2 DEF Event
<1>3. ASSUME NEW t \in Threads, Call(t) PROVE MutualInv'
  <2>1. ASSUME NEW o \in Objects, Post(t, o) PROVE Inert
    BY <2>1 DEF Post
  <2>2. ASSUME NEW n \in Notifiers, Trigger(t, n) PROVE Inert
    BY <2>2 DEF Trigger
  <2>. HIDE DEF Inert
  <2>. QED BY <1>1, <1>3, <2>1, <2>2, AttachCBInv, DetachCBInv, EndObjectInv,
              EndNotifierInv DEF Call
<1>4. ASSUME NEW t \in Threads, Proceeds(t) PROVE MutualInv'
  <2>1. NextCall(t) \/ StartCall(t) \/ CallReturns(t) => Inert
    BY DEF NextCall, StartCall, CallReturns
  <2>. HIDE DEF Inert
  <2>. QED BY <1>1, <1>4, <2>1, AddShutdownSubscriptionInv, AttachEndsInv,
              RemoveCBInv, WillCallInv, DetachRetriesInv,
              RemoveFromThreadCallsInv, WaitForQueueInv, StartPassInv,
              EndMemberInv, DestroyObjectInv, StartShutdownInv, LoopEndsInv
           DEF Proceeds
<1>5. ASSUME NEW t \in Threads, Succeeds(t) PROVE MutualInv'
  BY <1>5, DetachEndsInv, RemoveWithInv, UnsubscribeInv, NotifyShutdownInv
  DEF Succeeds
<1>6. ASSUME NEW t \in Threads, Fails(t) PROVE MutualInv'
  BY <1>6, DetachSleepsInv, RemoveWithFailsInv, UnsubscribeFailsInv,
     NotifyShutdownFailsInv DEF Fails
<1>7. CASE UNCHANGED vars
  BY <1>1, <1>7 DEF vars
<1>. QED BY <1>2, <1>3, <1>4, <1>5, <1>6, <1>7 DEF Next

LEMMA MutualInvAlways == Spec => [](TypeInv /\ MutualInv)
BY TypeInvInit, TypeInvStep, MutualInvInit, MutualInvStep, PTL DEF Spec

LEMMA NothingDanglesHere ==
    ASSUME TypeInv, EndsInv
    PROVE  NothingDangles
<1>. USE DEF TypeInv, EndsInv, PlaceOK
<1>1. \A o \in Objects, n \in Notifiers : n \in attached[o] => nlife[n] # "gone"
  BY DEF GoneInv
<1>2. \A o \in Objects, n \in Notifiers : o \in subscribers[n] => life[o] # "gone"
  BY DEF ToldInv, Records, MemberInv, StageInv, PairLabels
<1>3. TouchesWhatExists
  <2>. SUFFICES ASSUME NEW t \in Threads
                PROVE  /\ pc[t] \in {"remove", "willcall", "unsub", "unsubscribe"} =>
                              nlife[ntf[t]] # "gone"
                       /\ pc[t] = "removewith" => \A n \in todo[t] : nlife[n] # "gone"
                       /\ pc[t] = "shutdown" => \A o \in todo[t] : life[o] # "gone"
    BY DEF TouchesWhatExists
  <2>1. pc[t] \in {"remove", "willcall", "unsub"} => nlife[ntf[t]] # "gone"
    BY <1>1 DEF LockInv, PairLabels
  <2>2. pc[t] = "unsubscribe" => nlife[ntf[t]] # "gone"
    BY <1>1 DEF LockInv, EndLabels
  <2>3. pc[t] = "removewith" => \A n \in todo[t] : nlife[n] # "gone"
    BY <1>1 DEF LockInv, EndLabels
  <2>4. pc[t] = "shutdown" => \A o \in todo[t] : life[o] # "gone"
    BY <1>2 DEF LockInv, ShutLabels
  <2>. QED BY <2>1, <2>2, <2>3, <2>4
<1>. QED BY <1>1, <1>2, <1>3 DEF NothingDangles

(***************************************************************************)
(* Whoever detaches or ends, in whatever thread, reaches only objects and  *)
(* notifiers that still exist, and neither remembers one of the other that *)
(* is gone.                                                                *)
(***************************************************************************)
THEOREM NothingDanglesCorrect == Spec => []NothingDangles
<1>1. TypeInv /\ MutualInv => NothingDangles
  BY NothingDanglesHere DEF MutualInv
<1>. QED BY <1>1, MutualInvAlways, PTL

LEMMA AttachmentIsMutualHere ==
    ASSUME TypeInv, MutualInv
    PROVE  AttachmentIsMutual
<1>. SUFFICES ASSUME NEW o \in Objects, NEW n \in Notifiers, Quiet(o, n)
              PROVE  /\ o \in ToSet(cbs[n]) => n \in attached[o]
                     /\ n \in attached[o] /\ cber[n] # o <=> o \in subscribers[n]
  BY DEF AttachmentIsMutual
<1>1. \A t \in Threads : ~Attaches(t, o, n) /\ ~Records(t, o, n)
  BY DEF Quiet, Attaches, Records
<1>2. life[o] = "alive" /\ nlife[n] = "alive"
  BY DEF Quiet
<1>3. o \in ToSet(cbs[n]) => n \in attached[o]
  BY <1>1, <1>2 DEF MutualInv, CallInv
<1>4. n \in attached[o] /\ cber[n] # o => o \in subscribers[n]
  BY <1>2 DEF MutualInv, EndsInv, TellsInv
<1>5. o \in subscribers[n] => n \in attached[o]
  BY <1>1 DEF MutualInv, EndsInv, ToldInv
<1>6. o \in subscribers[n] => cber[n] # o
  BY DEF MutualInv, OwnInv
<1>. QED BY <1>3, <1>4, <1>5, <1>6

(***************************************************************************)
(* Between calls an object that a notifier can call is attached to it, and *)
(* an attachment to a notifier of another object is known on both sides.   *)
(***************************************************************************)
THEOREM AttachmentIsMutualCorrect == Spec => []AttachmentIsMutual
<1>1. TypeInv /\ MutualInv => AttachmentIsMutual
  BY AttachmentIsMutualHere
<1>. QED BY <1>1, MutualInvAlways, PTL

-----------------------------------------------------------------------------
(***************************************************************************)
(* No callback after the end.  That needs two things of the application.   *)
(* An object that a trigger may call ends in the thread that triggers, as  *)
(* a callback that is found in the list is called with no lock held; and   *)
(* no callback of a notifier ends that notifier or what it is a member of, *)
(* as what goes on in the trigger then finds callbacks in the list that    *)
(* their objects can no longer take out.                                   *)
(***************************************************************************)
Attachable(o, n) == \E c \in Calls : c.call = "attach" /\ c.obj = o /\ c.ntf = n

Triggers(t, n) == \E c \in Calls : c.call = "trigger" /\ c.by = t /\ c.ntf = n

Ends(o) == \E c \in Calls : c.call = "end" /\ c.obj = o

CalledAtHome ==
    \A c, d \in Calls :
        c.call = "trigger" /\ d.call = "end" /\ Attachable(d.obj, c.ntf) => c.by = d.by

Calling(t, n) == \E i \in DOMAIN frames[t] : frames[t][i].ntf = n

NoneEndsItsCaller ==
    \A t \in Threads, n \in Notifiers :
        Calling(t, n) => ~EndNotifier(t, n) /\ ~EndObject(t, Owner[n])

\* What a notifier calls belongs to an attachment, of an object that is ending too.
ListedInv ==
    /\ \A n \in Notifiers : \A o \in ToSet(cbs[n]) : Attachable(o, n)
    /\ \A o \in Objects, n \in Notifiers :
         life[o] # "alive" /\ nlife[n] = "alive" /\ o \in ToSet(cbs[n]) => n \in attached[o]
    /\ \A t \in Threads : pc[t] = "unsubscribe" => obj[t] \notin ToSet(cbs[ntf[t]])
    /\ \A o \in Objects : life[o] # "alive" => Ends(o)

\* An object that ends takes back what it has posted, and waits for what is being called.
PostedInv ==
    /\ \A o \in Objects : life[o] \in {"detached", "gone"} =>
           o \notin ToSet(posted) /\ o \notin ToSet(queue)
    /\ \A t \in Threads :
         /\ pc[t] \in {"waitqueue", "lockall", "removewith", "unsubscribe"} =>
                obj[t] \notin ToSet(posted)
         /\ pc[t] \in {"lockall", "removewith", "unsubscribe"} =>
                obj[t] \notin ToSet(queue)

FrameOK(t, f) ==
    /\ f.idx # 0
    /\ f.ntf = Nobody => t = Main
    /\ f.ntf # Nobody =>
           /\ Usable(f.ntf) /\ Triggers(t, f.ntf)
           /\ \A o \in ToSet(f.copy) : Attachable(o, f.ntf)

FramesInv ==
    \A t \in Threads : \A i \in DOMAIN frames[t] :
        FrameOK(t, frames[t][i]) /\ (i # 1 => frames[t][i].at = "body")

\* What is to be called next is there still.
TurnInv ==
    \A t \in Threads : frames[t] # <<>> /\ Top(t).at # "body" =>
        /\ pc[t] = "none"
        /\ Top(t).at = "call" =>
               /\ Top(t).idx <= Len(List(t))
               /\ Top(t).ntf # Nobody => life[Callee(t)] \notin {"detached", "gone"}

HomeInv == ListedInv /\ PostedInv /\ FramesInv /\ TurnInv

-----------------------------------------------------------------------------
(***************************************************************************)
(* What a step may change                                                  *)
(***************************************************************************)
LEMMA LifeMoves ==
    ASSUME TypeInv, StageInv, Next, NEW o \in Objects
    PROVE  \/ life'[o] = life[o]
           \/ life[o] = "alive" /\ life'[o] = "ending" /\ \E t \in Threads : EndObject(t, o)
           \/ \E t \in Threads :
                /\ obj[t] = o /\ life[o] # "alive"
                /\ pc[t] \in {"lockall", "removewith", "unsubscribe", "members"}
                /\ pc[t] = "members" => life[o] = "detached"
<1>. USE DEF At
<1>0. life \in [Objects -> {"alive", "ending", "detached", "gone"}]
  BY DEF TypeInv, TypeOK
<1>1. ASSUME NEW t \in Threads, Call(t), life' # life
      PROVE  \E p \in Objects : EndObject(t, p) /\ life' = [life EXCEPT ![p] = "ending"]
                                /\ life[p] = "alive"
  BY <1>1 DEF Call, AttachCB, DetachCB, EndObject, Post, EndNotifier, Trigger, objectVars
<1>2. ASSUME NEW t \in Threads, life' # life, Proceeds(t) \/ Succeeds(t) \/ Fails(t)
      PROVE  /\ pc[t] \in {"lockall", "removewith", "unsubscribe", "members"}
             /\ \E v : life' = [life EXCEPT ![obj[t]] = v]
  <2>1. CASE Proceeds(t)
    BY <1>2, <2>1 DEF Proceeds, AddShutdownSubscription, AttachEnds, RemoveCB, WillCall,
       DetachRetries, RemoveFromThreadCalls, WaitForQueue, StartPass, EndMember,
       DestroyObject, StartShutdown, NextCall, StartCall, CallReturns, LoopEnds, objectVars
  <2>2. CASE Succeeds(t)
    BY <1>2, <2>2 DEF Succeeds, DetachEnds, RemoveWith, Unsubscribe, NotifyShutdown,
       PassGoesOn, objectVars
  <2>3. CASE Fails(t)
    BY <1>2, <2>3 DEF Fails, DetachSleeps, RemoveWithFails, UnsubscribeFails,
       NotifyShutdownFails, PassGoesOn, objectVars
  <2>. QED BY <1>2, <2>1, <2>2, <2>3
<1>3. CASE Event
  BY <1>3 DEF Event, objectVars
<1>4. ASSUME NEW t \in Threads, pc[t] \in {"lockall", "removewith", "unsubscribe", "members"}
      PROVE  /\ obj[t] \in Objects /\ life[obj[t]] # "alive"
             /\ pc[t] = "members" => life[obj[t]] = "detached"
  BY <1>4 DEF TypeInv, PlaceOK, StageInv, EndLabels
<1>. QED BY <1>0, <1>1, <1>2, <1>3, <1>4 DEF Next

LEMMA NotifierMoves ==
    ASSUME TypeInv, StageInv, Next, NEW n \in Notifiers, nlife'[n] # nlife[n]
    PROVE  /\ nlife'[n] # "alive"
           /\ nlife[n] # "alive" \/ \E t \in Threads :
                  EndNotifier(t, n) \/ (pc[t] = "members" /\ Owner[n] = obj[t])
<1>. USE DEF At
<1>0. nlife \in [Notifiers -> {"alive", "ending", "gone"}]
  BY DEF TypeInv, TypeOK
<1>1. ASSUME NEW t \in Threads, Call(t), nlife' # nlife
      PROVE  \E m \in Notifiers : EndNotifier(t, m) /\ nlife' = [nlife EXCEPT ![m] = "ending"]
  BY <1>1 DEF Call, AttachCB, DetachCB, EndObject, Post, EndNotifier, Trigger, notifierVars
<1>2. ASSUME NEW t \in Threads, nlife' # nlife, Proceeds(t) \/ Succeeds(t) \/ Fails(t)
      PROVE  \/ /\ pc[t] = "members"
                /\ \E m \in Notifiers : Owner[m] = obj[t] /\ nlife' = [nlife EXCEPT ![m] = "ending"]
             \/ pc[t] \in ShutLabels /\ nlife' = [nlife EXCEPT ![ntf[t]] = "gone"]
  <2>1. CASE Proceeds(t)
    BY <1>2, <2>1 DEF Proceeds, AddShutdownSubscription, AttachEnds, RemoveCB, WillCall,
       DetachRetries, RemoveFromThreadCalls, WaitForQueue, StartPass, EndMember,
       DestroyObject, StartShutdown, NextCall, StartCall, CallReturns, LoopEnds,
       notifierVars, Release, ShutLabels
  <2>2. CASE Succeeds(t)
    BY <1>2, <2>2 DEF Succeeds, DetachEnds, RemoveWith, Unsubscribe, NotifyShutdown,
       ShutdownGoesOn, Release, ShutLabels
  <2>3. CASE Fails(t)
    BY <1>2, <2>3 DEF Fails, DetachSleeps, RemoveWithFails, UnsubscribeFails,
       NotifyShutdownFails, ShutdownGoesOn, Release, ShutLabels, notifierVars
  <2>. QED BY <1>2, <2>1, <2>2, <2>3
<1>3. CASE Event
  BY <1>3 DEF Event, notifierVars
<1>4. \A t \in Threads : pc[t] \in ShutLabels => ntf[t] \in Notifiers /\ nlife[ntf[t]] # "alive"
  BY DEF TypeInv, PlaceOK, StageInv
<1>5. ASSUME NEW t \in Threads, Call(t) PROVE nlife'[n] # "alive" /\ EndNotifier(t, n)
  BY <1>0, <1>1, <1>5
<1>6. ASSUME NEW t \in Threads, Proceeds(t) \/ Succeeds(t) \/ Fails(t)
      PROVE  /\ nlife'[n] # "alive"
             /\ nlife[n] # "alive" \/ (pc[t] = "members" /\ Owner[n] = obj[t])
  BY <1>0, <1>2, <1>4, <1>6
<1>. QED BY <1>3, <1>5, <1>6 DEF Next

LEMMA ListMoves ==
    ASSUME TypeInv, Next
    PROVE  \/ FewerCalls
           \/ \E t \in Threads, o \in Objects, n \in Notifiers : AttachCB(t, o, n)
<1>. USE DEF At
<1>0. cbs \in [Notifiers -> Seq(Objects)]
  BY DEF TypeInv, TypeOK
<1>1. ASSUME NEW n \in Notifiers, NEW s, cbs' = [cbs EXCEPT ![n] = s],
             ToSet(s) \subseteq ToSet(cbs[n])
      PROVE  FewerCalls
  BY <1>0, <1>1 DEF FewerCalls
<1>2. \A n \in Notifiers : /\ ToSet(<<>>) \subseteq ToSet(cbs[n])
                           /\ \A o : ToSet(Without(cbs[n], o)) \subseteq ToSet(cbs[n])
                           /\ \A i \in DOMAIN cbs[n] :
                                ToSet(RemoveAt(cbs[n], i)) \subseteq ToSet(cbs[n])
  <2>. TAKE n \in Notifiers
  <2>1. cbs[n] \in Seq(Objects)
    BY <1>0
  <2>. QED BY <2>1, ToSetShrinks
<1>3. cbs' = cbs => FewerCalls
  BY DEF FewerCalls
<1>4. \A n \in Notifiers : cbs' = [cbs EXCEPT ![n] = <<>>] => FewerCalls
  BY <1>1, <1>2
<1>5. ASSUME NEW t \in Threads, Call(t), cbs' # cbs
      PROVE  \E o \in Objects, n \in Notifiers : AttachCB(t, o, n)
  BY <1>5 DEF Call, AttachCB, DetachCB, EndObject, Post, EndNotifier, Trigger, notifierVars
<1>6. ASSUME NEW t \in Threads, RemoveCB(t) PROVE FewerCalls
  <2>1. ntf[t] \in Notifiers
    BY <1>6 DEF RemoveCB, TypeInv, PlaceOK, PairLabels
  <2>2. cbs[ntf[t]] \in Seq(Objects)
    BY <1>0, <2>1
  <2>3. CASE obj[t] \in ToSet(cbs[ntf[t]])
    <3>1. LastOf(cbs[ntf[t]], obj[t]) \in DOMAIN cbs[ntf[t]]
      BY <2>2, <2>3, LastOfIsIn
    <3>2. cbs' = [cbs EXCEPT ![ntf[t]] = RemoveAt(cbs[ntf[t]], LastOf(cbs[ntf[t]], obj[t]))]
      BY <1>6, <2>3 DEF RemoveCB
    <3>. QED BY <1>1, <1>2, <2>1, <3>1, <3>2
  <2>4. CASE obj[t] \notin ToSet(cbs[ntf[t]])
    <3>1. cbs' = [cbs EXCEPT ![ntf[t]] = cbs[ntf[t]]]
      BY <1>6, <2>4 DEF RemoveCB
    <3>. QED BY <1>1, <2>1, <3>1
  <2>. QED BY <2>3, <2>4
<1>7. ASSUME NEW t \in Threads, RemoveWith(t) PROVE FewerCalls
  <2>1. PICK n \in todo[t] :
            cbs' = [cbs EXCEPT ![n] = IF cber[n] = obj[t] THEN <<>>
                                      ELSE Without(cbs[n], obj[t])]
    BY <1>7 DEF RemoveWith
  <2>2. n \in Notifiers
    BY <1>7, <2>1 DEF RemoveWith, TypeInv, PlaceOK
  <2>. QED BY <1>1, <1>2, <2>1, <2>2
<1>8. ASSUME NEW t \in Threads, StartShutdown(t) \/ NotifyShutdown(t) \/ NotifyShutdownFails(t)
      PROVE  FewerCalls
  <2>1. ntf[t] \in Notifiers
    BY <1>8 DEF StartShutdown, NotifyShutdown, NotifyShutdownFails, TypeInv, PlaceOK, ShutLabels
  <2>2. cbs' = cbs \/ cbs' = [cbs EXCEPT ![ntf[t]] = <<>>]
    BY <1>8 DEF StartShutdown, NotifyShutdown, NotifyShutdownFails, ShutdownGoesOn, Release
  <2>. QED BY <1>3, <1>4, <2>1, <2>2
<1>9. ASSUME NEW t \in Threads, LoopEnds(t) PROVE FewerCalls
  <2>1. frames[t] # <<>> /\ Top(t).ntf \in Notifiers \cup {Nobody}
    BY <1>9, TopIsFrame DEF LoopEnds, InLoop, Frames, TypeInv
  <2>2. cbs' = cbs \/ (Top(t).ntf # Nobody /\ cbs' = [cbs EXCEPT ![Top(t).ntf] = <<>>])
    BY <1>9 DEF LoopEnds
  <2>. QED BY <1>3, <1>4, <2>1, <2>2
<1>10. ASSUME NEW t \in Threads, Proceeds(t) PROVE FewerCalls
  <2>1. \/ RemoveCB(t) \/ StartShutdown(t) \/ LoopEnds(t) \/ cbs' = cbs
    BY <1>10 DEF Proceeds, AddShutdownSubscription, AttachEnds, WillCall,
       DetachRetries, RemoveFromThreadCalls, WaitForQueue, StartPass, EndMember,
       DestroyObject, NextCall, StartCall, CallReturns, notifierVars
  <2>. QED BY <1>3, <1>6, <1>8, <1>9, <2>1
<1>11. ASSUME NEW t \in Threads, Succeeds(t) \/ Fails(t) PROVE FewerCalls
  <2>1. \/ RemoveWith(t) \/ NotifyShutdown(t) \/ NotifyShutdownFails(t) \/ cbs' = cbs
    BY <1>11 DEF Succeeds, Fails, DetachEnds, Unsubscribe, DetachSleeps, RemoveWithFails,
       UnsubscribeFails, notifierVars
  <2>. QED BY <1>3, <1>7, <1>8, <2>1
<1>12. CASE Event
  BY <1>3, <1>12 DEF Event, notifierVars
<1>. QED BY <1>3, <1>5, <1>10, <1>11, <1>12 DEF Next

\* Who is taken off while the notifier lives detaches himself, or has taken his callbacks out.
LEMMA AttachedMoves ==
    ASSUME TypeInv, StageInv, Next, NEW o \in Objects, NEW n \in attached[o],
           n \notin attached'[o]
    PROVE  \/ life[o] = "alive" \/ nlife[n] # "alive"
           \/ \E t \in Threads : pc[t] = "unsubscribe" /\ obj[t] = o /\ ntf[t] = n
<1>. USE DEF At
<1>0. attached \in [Objects -> SUBSET Notifiers] /\ attached' # attached
  BY DEF TypeInv, TypeOK
<1>1. ASSUME NEW t \in Threads, Call(t) PROVE attached' = attached
  BY <1>1 DEF Call, AttachCB, DetachCB, EndObject, Post, EndNotifier, Trigger, objectVars
<1>2. ASSUME NEW t \in Threads, Proceeds(t) \/ Succeeds(t) \/ Fails(t)
      PROVE  \/ AttachEnds(t)
             \/ pc[t] = "unsub" /\ attached' = [attached EXCEPT ![obj[t]] = @ \ {ntf[t]}]
             \/ pc[t] = "unsubscribe" /\ attached' = [attached EXCEPT ![obj[t]] = @ \ {ntf[t]}]
             \/ /\ pc[t] = "shutdown"
                /\ \E p : attached' = [attached EXCEPT ![p] = @ \ {ntf[t]}]
  <2>1. CASE Proceeds(t)
    BY <1>0, <2>1 DEF Proceeds, AddShutdownSubscription, RemoveCB, WillCall,
       DetachRetries, RemoveFromThreadCalls, WaitForQueue, StartPass, EndMember,
       DestroyObject, StartShutdown, NextCall, StartCall, CallReturns, LoopEnds, objectVars
  <2>2. CASE Succeeds(t)
    BY <1>0, <2>2 DEF Succeeds, DetachEnds, RemoveWith, Unsubscribe, NotifyShutdown, objectVars
  <2>3. CASE Fails(t)
    BY <1>0, <2>3 DEF Fails, DetachSleeps, RemoveWithFails, UnsubscribeFails,
       NotifyShutdownFails, objectVars
  <2>. QED BY <1>2, <2>1, <2>2, <2>3
<1>3. ASSUME Event PROVE attached' = attached
  BY <1>3 DEF Event, objectVars
<1>4. ASSUME NEW t \in Threads, pc[t] \in {"unsub", "unsubscribe", "shutdown"}
      PROVE  /\ pc[t] = "unsub" => life[obj[t]] = "alive"
             /\ pc[t] = "shutdown" => nlife[ntf[t]] = "ending"
  BY <1>4 DEF StageInv, PairLabels, ShutLabels
<1>5. ASSUME NEW t \in Threads, AttachEnds(t) PROVE FALSE
  BY <1>0, <1>5 DEF AttachEnds
<1>6. \E t \in Threads : Proceeds(t) \/ Succeeds(t) \/ Fails(t)
  <2>1. ~Event /\ \A t \in Threads : ~Call(t)
    BY <1>0, <1>1, <1>3
  <2>. QED BY <2>1 DEF Next
<1>. QED BY <1>0, <1>2, <1>4, <1>5, <1>6

\* How a thread comes to the labels of the end of an object.
PlaceGoes(t) ==
    /\ pc[t] = "none" /\ pc'[t] # "none" =>
           frames'[t] = frames[t] /\ (frames[t] = <<>> \/ InBody(t))
    /\ pc'[t] = "waitqueue" =>
           obj'[t] = obj[t] /\ (pc[t] = "waitqueue" \/ RemoveFromThreadCalls(t))
    /\ pc'[t] \in {"lockall", "removewith", "unsubscribe"} =>
           /\ obj'[t] = obj[t]
           /\ \/ pc[t] \in {"lockall", "removewith", "unsubscribe"}
              \/ WaitForQueue(t) \/ RemoveFromThreadCalls(t)
    /\ pc'[t] = "unsubscribe" =>
           (pc[t] = "unsubscribe" /\ ntf'[t] = ntf[t]) \/ RemoveWith(t)

LEMMA PlaceMoves ==
    ASSUME TypeInv, Next, NEW t \in Threads
    PROVE  PlaceGoes(t)
<1>. USE DEF At
<1>0. pc \in [Threads -> Labels] /\ obj \in [Threads -> Objects \cup {Nobody}]
      /\ ntf \in [Threads -> Notifiers \cup {Nobody}]
  BY DEF TypeInv, TypeOK
<1>. DEFINE Same == pc'[t] = pc[t] /\ obj'[t] = obj[t] /\ ntf'[t] = ntf[t]
            Elsewhere == pc'[t] \notin {"waitqueue", "lockall", "removewith", "unsubscribe"}
            Started == /\ frames'[t] = frames[t] /\ (frames[t] = <<>> \/ InBody(t))
                       /\ Elsewhere
            Went == /\ pc[t] # "none" /\ obj'[t] = obj[t]
                    /\ pc'[t] = "waitqueue" => RemoveFromThreadCalls(t)
                    /\ pc'[t] \in {"lockall", "removewith", "unsubscribe"} =>
                          (\/ pc[t] \in {"lockall", "removewith", "unsubscribe"}
                           \/ WaitForQueue(t) \/ RemoveFromThreadCalls(t))
                    /\ pc'[t] = "unsubscribe" => RemoveWith(t)
            Left == pc[t] # "none" /\ Elsewhere
<1>1. ASSUME NEW u \in Threads, Call(u) PROVE Same \/ Started
  <2>1. CASE \E o \in Objects, n \in Notifiers : AttachCB(u, o, n)
    BY <1>0, <2>1 DEF AttachCB, Enter, May
  <2>2. CASE \E o \in Objects, n \in Notifiers : DetachCB(u, o, n)
    BY <1>0, <2>2 DEF DetachCB, Enter, May
  <2>3. CASE \E o \in Objects : EndObject(u, o)
    BY <1>0, <2>3 DEF EndObject, Enter, May
  <2>4. CASE \E n \in Notifiers : EndNotifier(u, n)
    BY <1>0, <2>4 DEF EndNotifier, Enter, May
  <2>5. CASE (\E o \in Objects : Post(u, o)) \/ (\E n \in Notifiers : Trigger(u, n))
    BY <2>5 DEF Post, Trigger, callVars
  <2>. HIDE DEF Same, Started
  <2>. QED BY <1>1, <2>1, <2>2, <2>3, <2>4, <2>5 DEF Call
<1>2. ASSUME NEW u \in Threads, Proceeds(u) PROVE Same \/ Went \/ Left
  <2>1. CASE AddShutdownSubscription(u) \/ RemoveCB(u) \/ AttachEnds(u) \/ WillCall(u)
             \/ DetachRetries(u) \/ DestroyObject(u) \/ EndMember(u)
    BY <1>0, <2>1 DEF AddShutdownSubscription, RemoveCB, AttachEnds, WillCall, DetachRetries,
       DestroyObject, EndMember, Goto, Return
  <2>2. CASE RemoveFromThreadCalls(u) \/ WaitForQueue(u)
    BY <1>0, <2>2 DEF RemoveFromThreadCalls, WaitForQueue, Goto
  <2>3. CASE StartPass(u)
    BY <1>0, <2>3 DEF StartPass
  <2>4. CASE StartShutdown(u)
    BY <1>0, <2>4 DEF StartShutdown, Release
  <2>5. CASE NextCall(u) \/ StartCall(u) \/ CallReturns(u) \/ LoopEnds(u)
    BY <2>5 DEF NextCall, StartCall, CallReturns, LoopEnds, callVars
  <2>. HIDE DEF Same, Went, Left
  <2>. QED BY <1>2, <2>1, <2>2, <2>3, <2>4, <2>5 DEF Proceeds
<1>3. ASSUME NEW u \in Threads, Succeeds(u) \/ Fails(u) PROVE Same \/ Went \/ Left
  <2>1. CASE DetachEnds(u) \/ DetachSleeps(u)
    BY <1>0, <2>1 DEF DetachEnds, DetachSleeps, Goto, Return
  <2>2. CASE RemoveWith(u)
    BY <1>0, <2>2 DEF RemoveWith
  <2>3. CASE Unsubscribe(u) \/ RemoveWithFails(u) \/ UnsubscribeFails(u)
    BY <1>0, <2>3 DEF Unsubscribe, RemoveWithFails, UnsubscribeFails, PassGoesOn
  <2>4. CASE NotifyShutdown(u) \/ NotifyShutdownFails(u)
    BY <1>0, <2>4 DEF NotifyShutdown, NotifyShutdownFails, ShutdownGoesOn, Release
  <2>. HIDE DEF Same, Went, Left
  <2>. QED BY <1>3, <2>1, <2>2, <2>3, <2>4 DEF Succeeds, Fails
<1>4. Same \/ Started \/ Went \/ Left => PlaceGoes(t)
  BY DEF PlaceGoes
<1>. HIDE DEF Same, Started, Went, Left
<1>5. Same \/ Started \/ Went \/ Left
  <2>1. CASE Event
    <3>. USE DEF Same
    <3>. QED BY <2>1 DEF Event, callVars
  <2>. QED BY <1>1, <1>2, <1>3, <2>1 DEF Next
<1>. QED BY <1>4, <1>5

\* What the event loop may come to call.
LEMMA ReceiverMoves ==
    ASSUME TypeInv, Next
    PROVE  /\ \A o \in Objects : o \in ToSet(posted') => o \in ToSet(posted) \/ life[o] = "alive"
           /\ \A o \in Objects : o \in ToSet(queue') => o \in ToSet(queue) \/ o \in ToSet(posted)
           /\ queue' # queue => \/ frames[Main] = <<>>
                                \/ \E t \in Threads : InLoop(t) /\ Top(t).ntf = Nobody
<1>. USE DEF At
<1>0. posted \in Seq(Objects) /\ queue \in Seq(Objects)
  BY DEF TypeInv, TypeOK, ReceiverTypeOK
<1>1. ToSet(<<>>) = {} /\ \A o : ToSet(Without(posted, o)) \subseteq ToSet(posted)
  BY <1>0, ToSetShrinks
<1>2. \A o \in Objects : ToSet(Append(posted, o)) = ToSet(posted) \cup {o}
  BY <1>0, ToSetAppend
<1>3. ASSUME NEW t \in Threads, Call(t)
      PROVE  /\ queue' = queue
             /\ posted' = posted \/ \E o \in Objects : life[o] = "alive"
                                        /\ posted' = Append(posted, o)
  BY <1>3 DEF Call, AttachCB, DetachCB, EndObject, Post, EndNotifier, Trigger, receiverVars, add
<1>4. ASSUME NEW t \in Threads, Proceeds(t)
      PROVE  \/ queue' = queue /\ posted' = posted
             \/ queue' = queue /\ posted' = Without(posted, obj[t])
             \/ queue' = <<>> /\ posted' = posted /\ InLoop(t) /\ Top(t).ntf = Nobody
  BY <1>4 DEF Proceeds, AddShutdownSubscription, AttachEnds, RemoveCB, WillCall,
       DetachRetries, RemoveFromThreadCalls, WaitForQueue, StartPass, EndMember,
       DestroyObject, StartShutdown, NextCall, StartCall, CallReturns, LoopEnds, receiverVars,
       removeBy, removeByEnds, eventEnds
<1>5. ASSUME NEW t \in Threads, Succeeds(t) \/ Fails(t)
      PROVE  queue' = queue /\ posted' = posted
  BY <1>5 DEF Succeeds, Fails, DetachEnds, RemoveWith, Unsubscribe, NotifyShutdown,
     DetachSleeps, RemoveWithFails, UnsubscribeFails, NotifyShutdownFails, receiverVars
<1>6. ASSUME Event
      PROVE  queue' = posted /\ posted' = <<>> /\ frames[Main] = <<>>
  BY <1>6 DEF Event, event
<1>7. CASE Event
  BY <1>1, <1>6, <1>7
<1>8. ASSUME NEW t \in Threads, Call(t) \/ Proceeds(t) \/ Succeeds(t) \/ Fails(t)
      PROVE  /\ \A o \in Objects : o \in ToSet(posted') => o \in ToSet(posted) \/ life[o] = "alive"
             /\ \A o \in Objects : o \in ToSet(queue') => o \in ToSet(queue)
             /\ queue' # queue => InLoop(t) /\ Top(t).ntf = Nobody
  BY <1>1, <1>2, <1>3, <1>4, <1>5, <1>8
<1>. QED BY <1>7, <1>8 DEF Next

-----------------------------------------------------------------------------
(***************************************************************************)
(* The lists of the notifiers, and of the event loop                       *)
(***************************************************************************)

\* Without takes all out.
LEMMA WithoutIsOut ==
    ASSUME NEW S, NEW s \in Seq(S), NEW o
    PROVE  o \notin ToSet(Without(s, o))
<1>1. Without(s, o) \in Seq(S \ {o})
  BY WithoutLeavesOut
<1>2. ToSet(Without(s, o)) \subseteq S \ {o}
  BY <1>1, ToSetOfSeq
<1>. QED BY <1>2

LEMMA ListedKept ==
    ASSUME TypeInv, MutualInv, ListedInv, Next
    PROVE  ListedInv'
<1>. USE CallBacksAssumption DEF MutualInv, EndsInv
<1>0. /\ cbs \in [Notifiers -> Seq(Objects)] /\ attached \in [Objects -> SUBSET Notifiers]
      /\ nlife \in [Notifiers -> {"alive", "ending", "gone"}]
      /\ life \in [Objects -> {"alive", "ending", "detached", "gone"}]
      /\ \A n \in Notifiers : ToSet(cbs[n]) \subseteq Objects
  <2>1. TypeOK
    BY DEF TypeInv
  <2>2. cbs \in [Notifiers -> Seq(Objects)]
    BY <2>1 DEF TypeOK
  <2>. QED BY <2>1, <2>2, ToSetOfSeq DEF TypeOK
<1>1. ASSUME NEW n \in Notifiers, NEW o \in ToSet(cbs'[n]), o \notin ToSet(cbs[n])
      PROVE  o \in Objects /\ life[o] = "alive" /\ Attachable(o, n)
             /\ \E t \in Threads : AttachCB(t, o, n)
  <2>1. PICK t \in Threads, p \in Objects, m \in Notifiers : AttachCB(t, p, m)
    BY <1>1, ListMoves DEF FewerCalls
  <2>2. /\ life[p] = "alive" /\ cbs' = [cbs EXCEPT ![m] = Append(@, p)]
        /\ [by |-> t, call |-> "attach", obj |-> p, ntf |-> m] \in Calls
    BY <2>1 DEF AttachCB, May
  <2>3. Attachable(p, m)
    BY <2>2 DEF Attachable
  <2>4. ToSet(Append(cbs[m], p)) = ToSet(cbs[m]) \cup {p}
    <3>1. cbs[m] \in Seq(Objects)
      BY <1>0
    <3>. QED BY <3>1, ToSetAppend
  <2>5. n = m /\ o = p
    BY <1>0, <1>1, <2>2, <2>4
  <2>. QED BY <2>1, <2>2, <2>3, <2>5
<1>2. ASSUME NEW n \in Notifiers, NEW o \in ToSet(cbs'[n]) PROVE Attachable(o, n)
  BY <1>1, <1>2 DEF ListedInv
<1>3. ASSUME NEW o \in Objects, life'[o] # "alive" PROVE Ends(o)
  <2>1. CASE \E t \in Threads : EndObject(t, o)
    BY <2>1 DEF EndObject, May, Ends
  <2>2. CASE life[o] # "alive"
    BY <2>2 DEF ListedInv
  <2>. QED BY <1>3, <2>1, <2>2, LifeMoves DEF ListedInv
<1>4. ASSUME NEW o \in Objects, NEW n \in Notifiers, life'[o] # "alive", nlife'[n] = "alive",
             o \in ToSet(cbs'[n])
      PROVE  n \in attached'[o]
  <2>1. nlife[n] = "alive"
    BY <1>4, NotifierMoves
  <2>2. CASE life[o] # "alive"
    <3>1. o \in ToSet(cbs[n])
      BY <1>1, <1>4, <2>2
    <3>2. n \in attached[o]
      BY <2>1, <2>2, <3>1 DEF ListedInv
    <3>3. \A t \in Threads : ~(pc[t] = "unsubscribe" /\ obj[t] = o /\ ntf[t] = n)
      BY <3>1 DEF ListedInv
    <3>. QED BY <2>1, <2>2, <3>2, <3>3, AttachedMoves
  <2>3. CASE life[o] = "alive"
    <3>1. PICK t \in Threads : EndObject(t, o)
      BY <1>4, <2>3, LifeMoves
    <3>2. UNCHANGED <<attached, cbs>> /\ ObjectIsFree(t, o) /\ pc[t] = "none"
      BY <3>1 DEF EndObject, May, notifierVars
    <3>3. n \in attached[o] \/ \E u \in Threads : Attaches(u, o, n)
      BY <1>4, <2>1, <2>3, <3>2 DEF CallInv
    <3>4. \A u \in Threads : ~Attaches(u, o, n)
      BY <3>2 DEF Attaches, ObjectIsFree
    <3>. QED BY <3>2, <3>3, <3>4
  <2>. QED BY <2>2, <2>3
<1>5. ASSUME NEW t \in Threads, pc'[t] = "unsubscribe" PROVE obj'[t] \notin ToSet(cbs'[ntf'[t]])
  <2>1. obj'[t] = obj[t] /\ ((pc[t] = "unsubscribe" /\ ntf'[t] = ntf[t]) \/ RemoveWith(t))
    BY <1>5, PlaceMoves DEF PlaceGoes
  <2>2. CASE pc[t] = "unsubscribe" /\ ntf'[t] = ntf[t]
    <3>1. obj[t] \notin ToSet(cbs[ntf[t]]) /\ ntf[t] \in Notifiers /\ life[obj[t]] # "alive"
      BY <2>2 DEF ListedInv, TypeInv, PlaceOK, StageInv, EndLabels
    <3>. QED BY <1>1, <2>1, <2>2, <3>1
  <2>3. CASE RemoveWith(t)
    <3>1. PICK n \in todo[t] :
              /\ cbs' = [cbs EXCEPT ![n] = IF cber[n] = obj[t] THEN <<>>
                                           ELSE Without(cbs[n], obj[t])]
              /\ ntf' = [ntf EXCEPT ![t] = n]
      BY <2>3 DEF RemoveWith
    <3>2. n \in Notifiers /\ ntf'[t] = n
      BY <2>3, <3>1 DEF RemoveWith, At, TypeInv, PlaceOK, TypeOK
    <3>3. cbs[n] \in Seq(Objects)
      BY <1>0, <3>2
    <3>4. obj[t] \notin ToSet(<<>>) /\ obj[t] \notin ToSet(Without(cbs[n], obj[t]))
      BY <3>3, WithoutIsOut DEF ToSet
    <3>. QED BY <1>0, <2>1, <3>1, <3>2, <3>4
  <2>. QED BY <2>1, <2>2, <2>3
<1>. QED BY <1>2, <1>3, <1>4, <1>5 DEF ListedInv, Attachable, Ends

LEMMA PostedKept ==
    ASSUME TypeInv, MutualInv, PostedInv, Next
    PROVE  PostedInv'
<1>. USE DEF MutualInv, EndsInv
<1>0. /\ life \in [Objects -> {"alive", "ending", "detached", "gone"}]
      /\ posted \in Seq(Objects) /\ pc \in [Threads -> Labels]
  BY DEF TypeInv, TypeOK, ReceiverTypeOK
<1>1. ASSUME NEW o \in Objects, life'[o] \in {"detached", "gone"}
      PROVE  o \notin ToSet(posted') /\ o \notin ToSet(queue')
  <2>1. life[o] # "alive" /\ o \notin ToSet(posted) /\ o \notin ToSet(queue)
    BY <1>0, <1>1, LifeMoves DEF PostedInv
  <2>. QED BY <2>1, ReceiverMoves
<1>2. ASSUME NEW t \in Threads, RemoveFromThreadCalls(t)
      PROVE  /\ obj[t] \notin ToSet(posted')
             /\ pc'[t] # "waitqueue" => obj[t] \notin ToSet(queue')
  <2>1. obj[t] \notin ToSet(Without(posted, obj[t]))
    BY <1>0, WithoutIsOut
  <2>. QED BY <1>0, <1>2, <2>1 DEF RemoveFromThreadCalls, removeBy, IsBeingCalled, Goto
<1>3. ASSUME NEW t \in Threads, WaitForQueue(t)
      PROVE  /\ pc[t] = "waitqueue" /\ posted' = posted
             /\ obj[t] \notin ToSet(queue')
  BY <1>3 DEF WaitForQueue, At, removeByEnds, IsBeingCalled
<1>4. ASSUME NEW t \in Threads, pc[t] \in EndLabels
      PROVE  obj[t] \in Objects /\ life[obj[t]] # "alive"
  BY <1>4 DEF TypeInv, PlaceOK, StageInv
<1>5. ASSUME NEW t \in Threads,
             pc'[t] \in {"waitqueue", "lockall", "removewith", "unsubscribe"}
      PROVE  /\ obj'[t] \notin ToSet(posted')
             /\ pc'[t] # "waitqueue" => obj'[t] \notin ToSet(queue')
  <2>1. PlaceGoes(t)
    BY PlaceMoves
  <2>2. obj'[t] = obj[t]
    BY <1>5, <2>1 DEF PlaceGoes
  <2>3. CASE RemoveFromThreadCalls(t)
    BY <1>2, <2>2, <2>3
  <2>4. CASE WaitForQueue(t)
    BY <1>3, <2>2, <2>4 DEF PostedInv
  <2>5. CASE ~RemoveFromThreadCalls(t) /\ ~WaitForQueue(t)
    <3>1. /\ pc[t] \in {"waitqueue", "lockall", "removewith", "unsubscribe"}
          /\ pc'[t] # "waitqueue" => pc[t] # "waitqueue"
      BY <1>5, <2>1, <2>5 DEF PlaceGoes
    <3>2. obj[t] \in Objects /\ life[obj[t]] # "alive"
      BY <1>4, <3>1 DEF EndLabels
    <3>3. obj[t] \notin ToSet(posted) /\ (pc'[t] # "waitqueue" => obj[t] \notin ToSet(queue))
      BY <3>1 DEF PostedInv
    <3>. QED BY <2>2, <3>2, <3>3, ReceiverMoves
  <2>. QED BY <2>3, <2>4, <2>5
<1>. QED BY <1>1, <1>5 DEF PostedInv

-----------------------------------------------------------------------------
(***************************************************************************)
(* The triggers a thread is in                                             *)
(***************************************************************************)

\* The top frame of a thread goes on with its list.
GoesOn(t, idx, at) ==
    /\ frames[t] # <<>>
    /\ DOMAIN frames'[t] = DOMAIN frames[t] /\ frames'[t] # <<>>
    /\ frames'[t][1].ntf = Top(t).ntf /\ frames'[t][1].copy = Top(t).copy
    /\ frames'[t][1].idx = idx /\ frames'[t][1].at = at
    /\ \A i \in DOMAIN frames[t] \ {1} : frames'[t][i] = frames[t][i]
    /\ \A u \in Threads \ {t} : frames'[u] = frames[u]

LEMMA StepGoesOn ==
    ASSUME TypeOK, NEW t \in Threads, frames[t] # <<>>, NEW idx \in Nat,
           NEW at \in {"loop", "call", "body"}, Step(t, idx, at)
    PROVE  GoesOn(t, idx, at)
<1>. DEFINE s == frames[t]
            f == [s[1] EXCEPT !.idx = idx, !.at = at]
            r == [s EXCEPT ![1] = f]
<1>1. s \in Seq(Frames) /\ 1 \in 1..Len(s) /\ s[1] \in Frames /\ Top(t) = s[1]
  BY TopIsFrame
<1>2. frames \in [Threads -> Seq(Frames)]
  BY DEF TypeOK
<1>3. frames' = [frames EXCEPT ![t] = r]
  BY <1>1, <1>2 DEF Step
<1>4. DOMAIN s = 1..Len(s)
  BY <1>1, LenProperties
<1>5. /\ DOMAIN r = DOMAIN s /\ r[1] = f
      /\ \A i \in DOMAIN s \ {1} : r[i] = s[i]
  <2>. HIDE DEF f, s
  <2>. QED BY <1>1, <1>4
<1>6. f.ntf = s[1].ntf /\ f.copy = s[1].copy /\ f.idx = idx /\ f.at = at
  BY <1>1 DEF Frames
<1>7. r # <<>>
  <2>1. DOMAIN <<>> = {}
    OBVIOUS
  <2>. QED BY <1>1, <1>4, <1>5, <2>1
<1>8. frames'[t] = r /\ \A u \in Threads \ {t} : frames'[u] = frames[u]
  BY <1>2, <1>3
<1>. HIDE DEF f, r
<1>. QED BY <1>1, <1>5, <1>6, <1>7, <1>8 DEF GoesOn

\* A frame comes on top of the others.
Comes(t, n, s) ==
    /\ frames'[t] # <<>>
    /\ frames'[t][1] = [ntf |-> n, copy |-> s, idx |-> 1, at |-> "loop"]
    /\ \A i \in DOMAIN frames'[t] : i # 1 =>
           \E j \in DOMAIN frames[t] : frames'[t][i] = frames[t][j] /\ i = j + 1
    /\ \A u \in Threads \ {t} : frames'[u] = frames[u]

LEMMA PushComes ==
    ASSUME TypeOK, NEW t \in Threads, NEW n \in Notifiers \cup {Nobody},
           NEW s \in Seq(Objects), Push(t, n, s)
    PROVE  Comes(t, n, s)
<1>. DEFINE f == [ntf |-> n, copy |-> s, idx |-> 1, at |-> "loop"]
            r == <<f>> \o frames[t]
<1>1. f \in Frames
  BY DEF Frames
<1>2. frames \in [Threads -> Seq(Frames)] /\ frames[t] \in Seq(Frames)
  BY DEF TypeOK
<1>3. frames' = [frames EXCEPT ![t] = r]
  BY <1>2 DEF Push
<1>. HIDE DEF f
<1>4. <<f>> \in Seq(Frames) /\ Len(<<f>>) = 1 /\ <<f>>[1] = f
  BY <1>1
<1>5. Len(frames[t]) \in Nat /\ DOMAIN frames[t] = 1..Len(frames[t])
  BY <1>2, LenProperties
<1>6. /\ r \in Seq(Frames) /\ Len(r) = 1 + Len(frames[t])
      /\ \A i \in 1..1 + Len(frames[t]) :
           r[i] = IF i <= 1 THEN <<f>>[i] ELSE frames[t][i - 1]
  BY <1>2, <1>4, ConcatProperties
<1>7. DOMAIN r = 1..1 + Len(frames[t])
  BY <1>6, LenProperties
<1>8. r # <<>> /\ r[1] = f
  <2>1. 1 \in 1..1 + Len(frames[t])
    BY <1>5
  <2>. HIDE DEF r
  <2>. QED BY <1>4, <1>6, <1>7, <2>1
<1>9. ASSUME NEW i \in DOMAIN r, i # 1
      PROVE  \E j \in DOMAIN frames[t] : r[i] = frames[t][j] /\ i = j + 1
  <2>. HIDE DEF r
  <2>1. i - 1 \in DOMAIN frames[t] /\ i = (i - 1) + 1 /\ r[i] = frames[t][i - 1]
    BY <1>5, <1>6, <1>7, <1>9
  <2>. QED BY <2>1
<1>10. frames'[t] = r /\ \A u \in Threads \ {t} : frames'[u] = frames[u]
  BY <1>2, <1>3
<1>. QED BY <1>8, <1>9, <1>10 DEF Comes, f

\* The top frame is taken away.
Goes(t) ==
    /\ frames[t] # <<>>
    /\ \A i \in DOMAIN frames'[t] :
           i + 1 \in DOMAIN frames[t] /\ i + 1 # 1 /\ frames'[t][i] = frames[t][i + 1]
    /\ \A u \in Threads \ {t} : frames'[u] = frames[u]

LEMMA LoopEndsGoes ==
    ASSUME TypeOK, NEW t \in Threads, LoopEnds(t)
    PROVE  Goes(t)
<1>1. frames[t] # <<>> /\ frames' = [frames EXCEPT ![t] = Tail(frames[t])]
  BY DEF LoopEnds, InLoop
<1>2. frames \in [Threads -> Seq(Frames)] /\ frames[t] \in Seq(Frames)
  BY DEF TypeOK
<1>3. /\ Tail(frames[t]) \in Seq(Frames) /\ Len(Tail(frames[t])) = Len(frames[t]) - 1
      /\ \A i \in 1..Len(frames[t]) - 1 : Tail(frames[t])[i] = frames[t][i + 1]
      /\ Len(frames[t]) \in Nat
  BY <1>1, <1>2, HeadTailProperties, LenProperties
<1>4. /\ DOMAIN Tail(frames[t]) = 1..Len(frames[t]) - 1
      /\ DOMAIN frames[t] = 1..Len(frames[t])
  BY <1>2, <1>3, LenProperties
<1>5. \A i \in 1..Len(frames[t]) - 1 : i + 1 \in 1..Len(frames[t]) /\ i + 1 # 1
  BY <1>3
<1>6. frames'[t] = Tail(frames[t]) /\ \A u \in Threads \ {t} : frames'[u] = frames[u]
  BY <1>1, <1>2
<1>. QED BY <1>1, <1>3, <1>4, <1>5, <1>6 DEF Goes

\* What a step may do to the frames of a thread.
Advances(t) ==
    /\ NextCall(t)
    /\ \/ IsPresent(Top(t).ntf, Callee(t)) /\ GoesOn(t, Top(t).idx, "call")
       \/ GoesOn(t, Top(t).idx + 1, "loop")

FramesMove(t) ==
    \/ frames'[t] = frames[t]
    \/ \E n \in Notifiers : Trigger(t, n) /\ Comes(t, n, cbs[n])
    \/ Event /\ t = Main /\ Comes(t, Nobody, <<>>)
    \/ Advances(t)
    \/ StartCall(t) /\ GoesOn(t, Top(t).idx, "body")
    \/ CallReturns(t) /\ GoesOn(t, Top(t).idx + 1, "loop")
    \/ LoopEnds(t) /\ Goes(t)

LEMMA FramesMoves ==
    ASSUME TypeInv, Next, NEW t \in Threads
    PROVE  FramesMove(t)
<1>. USE DEF At
<1>0. TypeOK
  BY DEF TypeInv
<1>1. ASSUME NEW u \in Threads, frames[u] # <<>>
      PROVE  Top(u).idx \in Nat /\ Top(u).idx + 1 \in Nat
  BY <1>0, <1>1, TopIsFrame DEF Frames
<1>2. ASSUME NEW u \in Threads, NEW n \in Notifiers, Trigger(u, n)
      PROVE  FramesMove(t)
  <2>1. Push(u, n, cbs[n]) /\ cbs[n] \in Seq(Objects)
    BY <1>0, <1>2 DEF Trigger, TypeOK
  <2>2. Comes(u, n, cbs[n])
    BY <1>0, <2>1, PushComes
  <2>3. u # t => frames'[t] = frames[t]
    BY <2>2 DEF Comes
  <2>. QED BY <1>2, <2>2, <2>3 DEF FramesMove
<1>3. ASSUME Event PROVE FramesMove(t)
  <2>1. Push(Main, Nobody, <<>>) /\ <<>> \in Seq(Objects) /\ Main \in Threads
    BY <1>3, CallBacksAssumption DEF Event
  <2>2. Comes(Main, Nobody, <<>>)
    BY <1>0, <2>1, PushComes
  <2>3. Main # t => frames'[t] = frames[t]
    BY <2>2 DEF Comes
  <2>. QED BY <1>3, <2>2, <2>3 DEF FramesMove
<1>4. ASSUME NEW u \in Threads, NextCall(u) PROVE FramesMove(t)
  <2>1. frames[u] # <<>>
    BY <1>4 DEF NextCall, InLoop
  <2>2. Advances(u)
    <3>1. \/ IsPresent(Top(u).ntf, Callee(u)) /\ Step(u, Top(u).idx, "call")
          \/ Step(u, Top(u).idx + 1, "loop")
      BY <1>4 DEF NextCall, Callee
    <3>2. "call" \in {"loop", "call", "body"} /\ "loop" \in {"loop", "call", "body"}
      OBVIOUS
    <3>3. Step(u, Top(u).idx, "call") => GoesOn(u, Top(u).idx, "call")
      BY <1>0, <1>1, <2>1, <3>2, StepGoesOn
    <3>4. Step(u, Top(u).idx + 1, "loop") => GoesOn(u, Top(u).idx + 1, "loop")
      BY <1>0, <1>1, <2>1, <3>2, StepGoesOn
    <3>. QED BY <1>4, <3>1, <3>3, <3>4 DEF Advances
  <2>3. u # t => frames'[t] = frames[t]
    BY <2>2 DEF Advances, GoesOn
  <2>. QED BY <2>2, <2>3 DEF FramesMove
<1>5. ASSUME NEW u \in Threads, StartCall(u) PROVE FramesMove(t)
  <2>1. frames[u] # <<>> /\ Step(u, Top(u).idx, "body") /\ "body" \in {"loop", "call", "body"}
    BY <1>5 DEF StartCall
  <2>2. GoesOn(u, Top(u).idx, "body")
    BY <1>0, <1>1, <2>1, StepGoesOn
  <2>3. u # t => frames'[t] = frames[t]
    BY <2>2 DEF GoesOn
  <2>. QED BY <1>5, <2>2, <2>3 DEF FramesMove
<1>6. ASSUME NEW u \in Threads, CallReturns(u) PROVE FramesMove(t)
  <2>1. frames[u] # <<>> /\ Step(u, Top(u).idx + 1, "loop") /\ "loop" \in {"loop", "call", "body"}
    BY <1>6 DEF CallReturns, InBody
  <2>2. GoesOn(u, Top(u).idx + 1, "loop")
    BY <1>0, <1>1, <2>1, StepGoesOn
  <2>3. u # t => frames'[t] = frames[t]
    BY <2>2 DEF GoesOn
  <2>. QED BY <1>6, <2>2, <2>3 DEF FramesMove
<1>7. ASSUME NEW u \in Threads, LoopEnds(u) PROVE FramesMove(t)
  <2>1. Goes(u)
    BY <1>0, <1>7, LoopEndsGoes
  <2>2. u # t => frames'[t] = frames[t]
    BY <2>1 DEF Goes
  <2>. QED BY <1>7, <2>1, <2>2 DEF FramesMove
<1>8. frames' = frames => FramesMove(t)
  BY DEF FramesMove
<1>9. ASSUME NEW u \in Threads, Call(u)
      PROVE  frames' = frames \/ \E n \in Notifiers : Trigger(u, n)
  BY <1>9 DEF Call, AttachCB, DetachCB, EndObject, Post, EndNotifier
<1>10. ASSUME NEW u \in Threads, Proceeds(u)
       PROVE  frames' = frames \/ NextCall(u) \/ StartCall(u) \/ CallReturns(u) \/ LoopEnds(u)
  BY <1>10 DEF Proceeds, AddShutdownSubscription, AttachEnds, RemoveCB, WillCall,
     DetachRetries, RemoveFromThreadCalls, WaitForQueue, StartPass, EndMember,
     DestroyObject, StartShutdown
<1>11. ASSUME NEW u \in Threads, Succeeds(u) \/ Fails(u)
       PROVE  frames' = frames
  BY <1>11 DEF Succeeds, Fails, DetachEnds, RemoveWith, Unsubscribe, NotifyShutdown,
     DetachSleeps, RemoveWithFails, UnsubscribeFails, NotifyShutdownFails
<1>. QED BY <1>2, <1>3, <1>4, <1>5, <1>6, <1>7, <1>8, <1>9, <1>10, <1>11 DEF Next

\* A notifier that is being triggered stays as it is, and so does its owner.
LEMMA UsableKept ==
    ASSUME TypeInv, MutualInv, Next, NoneEndsItsCaller,
           NEW t \in Threads, NEW n \in Notifiers, Calling(t, n), Usable(n)
    PROVE  Usable(n)'
<1>. USE DEF MutualInv, EndsInv
<1>0. Owner[n] \in Objects \cup {Nobody} /\ Nobody \notin Objects
  BY CallBacksAssumption, ReceiverAssumption
<1>1. ASSUME NEW u \in Threads, EndNotifier(u, n) PROVE FALSE
  <2>1. CASE u = t
    BY <1>1, <2>1 DEF NoneEndsItsCaller
  <2>2. CASE u # t
    BY <1>1, <2>2 DEF EndNotifier, NotifierIsFree, Calling
  <2>. QED BY <2>1, <2>2
<1>2. ASSUME NEW u \in Threads, EndObject(u, Owner[n]) PROVE FALSE
  <2>1. CASE u = t
    BY <1>2, <2>1 DEF NoneEndsItsCaller
  <2>2. CASE u # t
    BY <1>2, <2>2 DEF EndObject, NotifierIsFree, Calling
  <2>. QED BY <2>1, <2>2
<1>3. nlife'[n] = "alive"
  <2>1. SUFFICES ASSUME nlife'[n] # "alive" PROVE FALSE
    OBVIOUS
  <2>2. PICK u \in Threads : pc[u] = "members" /\ Owner[n] = obj[u]
    BY <1>1, <2>1, NotifierMoves DEF Usable
  <2>3. obj[u] \in Objects /\ life[obj[u]] = "detached"
    BY <2>2 DEF TypeInv, PlaceOK, StageInv, EndLabels
  <2>. QED BY <1>0, <2>2, <2>3 DEF Usable
<1>4. Owner[n] # Nobody => life'[Owner[n]] = "alive"
  BY <1>0, <1>2, LifeMoves DEF Usable
<1>. QED BY <1>3, <1>4 DEF Usable

\* FrameOK after the step, of a frame that is there before or after it.
OKNext(t, f) ==
    /\ f.idx # 0
    /\ f.ntf = Nobody => t = Main
    /\ f.ntf # Nobody =>
           /\ nlife'[f.ntf] = "alive"
           /\ Owner[f.ntf] # Nobody => life'[Owner[f.ntf]] = "alive"
           /\ Triggers(t, f.ntf)
           /\ \A o \in ToSet(f.copy) : Attachable(o, f.ntf)

LEMMA FramesKept ==
    ASSUME TypeInv, MutualInv, ListedInv, FramesInv, Next, NoneEndsItsCaller
    PROVE  FramesInv'
<1>0. /\ TypeOK /\ frames \in [Threads -> Seq(Frames)]
      /\ \A t \in Threads : \A i \in DOMAIN frames[t] : frames[t][i] \in Frames
  <2>1. TypeOK
    BY DEF TypeInv
  <2>. QED BY <2>1, ElementOfSeq, LenProperties DEF TypeOK
<1>1. ASSUME NEW t \in Threads, NEW i \in DOMAIN frames[t]
      PROVE  OKNext(t, frames[t][i])
  <2>1. FrameOK(t, frames[t][i]) /\ frames[t][i].ntf \in Notifiers \cup {Nobody}
    BY <1>0, <1>1 DEF FramesInv, Frames
  <2>2. CASE frames[t][i].ntf = Nobody
    BY <2>1, <2>2 DEF FrameOK, OKNext
  <2>3. CASE frames[t][i].ntf # Nobody
    <3>1. \A n \in Notifiers : frames[t][i].ntf = n => Usable(n) /\ Calling(t, n)
      BY <2>1, <2>3 DEF FrameOK, Calling
    <3>2. \A n \in Notifiers : frames[t][i].ntf = n => Usable(n)'
      BY <3>1, UsableKept
    <3>3. \A n \in Notifiers : frames[t][i].ntf = n =>
              nlife'[n] = "alive" /\ (Owner[n] # Nobody => life'[Owner[n]] = "alive")
      BY <3>2 DEF Usable
    <3>. QED BY <2>1, <2>3, <3>3 DEF FrameOK, OKNext
  <2>. QED BY <2>2, <2>3
<1>2. ASSUME NEW t \in Threads, frames[t] # <<>>
      PROVE  1 \in DOMAIN frames[t] /\ Top(t) = frames[t][1] /\ Top(t).idx \in Nat
  <2>1. /\ frames[t] \in Seq(Frames) /\ Len(frames[t]) \in Nat \ {0}
        /\ Top(t) = frames[t][1] /\ Top(t) \in Frames
    BY <1>0, <1>2, TopIsFrame
  <2>. QED BY <2>1, LenProperties DEF Frames
<1>3. ASSUME NEW t \in Threads, NEW idx \in Nat \ {0}, NEW at, GoesOn(t, idx, at),
             NEW i \in DOMAIN frames'[t]
      PROVE  OKNext(t, frames'[t][i]) /\ (i # 1 => frames'[t][i].at = "body")
  <2>1. CASE i = 1
    <3>1. OKNext(t, Top(t))
      BY <1>1, <1>2, <1>3 DEF GoesOn
    <3>. QED BY <1>3, <2>1, <3>1 DEF GoesOn, OKNext
  <2>2. CASE i # 1
    <3>1. frames'[t][i] = frames[t][i] /\ i \in DOMAIN frames[t]
      BY <1>3, <2>2 DEF GoesOn
    <3>. QED BY <1>1, <2>2, <3>1 DEF FramesInv
  <2>. QED BY <2>1, <2>2
<1>4. ASSUME NEW t \in Threads, NEW n \in Notifiers, Trigger(t, n), Comes(t, n, cbs[n]),
             NEW i \in DOMAIN frames'[t]
      PROVE  OKNext(t, frames'[t][i]) /\ (i # 1 => frames'[t][i].at = "body")
  <2>1. CASE i = 1
    <3>1. frames'[t][i] = [ntf |-> n, copy |-> cbs[n], idx |-> 1, at |-> "loop"]
      BY <1>4, <2>1 DEF Comes
    <3>2. Triggers(t, n)
      BY <1>4 DEF Trigger, May, Triggers
    <3>3. nlife'[n] = "alive" /\ (Owner[n] # Nobody => life'[Owner[n]] = "alive")
      BY <1>4 DEF Trigger, Usable, objectVars, notifierVars
    <3>4. \A o \in ToSet(cbs[n]) : Attachable(o, n)
      BY DEF ListedInv
    <3>5. n # Nobody
      BY CallBacksAssumption
    <3>6. /\ frames'[t][i].ntf = n /\ frames'[t][i].copy = cbs[n] /\ frames'[t][i].idx = 1
      BY <3>1
    <3>. QED BY <2>1, <3>2, <3>3, <3>4, <3>5, <3>6 DEF OKNext
  <2>2. CASE i # 1
    <3>1. PICK j \in DOMAIN frames[t] : frames'[t][i] = frames[t][j]
      BY <1>4, <2>2 DEF Comes
    <3>2. frames[t] # <<>>
      BY <3>1
    <3>3. Top(t).at = "body"
      BY <1>4, <3>2 DEF Trigger, May, InBody
    <3>4. frames[t][j].at = "body"
      BY <1>2, <3>2, <3>3 DEF FramesInv
    <3>. QED BY <1>1, <3>1, <3>4
  <2>. QED BY <2>1, <2>2
<1>5. ASSUME Event, Comes(Main, Nobody, <<>>), NEW i \in DOMAIN frames'[Main]
      PROVE  OKNext(Main, frames'[Main][i]) /\ (i # 1 => frames'[Main][i].at = "body")
  <2>1. i = 1
    <3>1. frames[Main] = <<>>
      BY <1>5 DEF Event
    <3>2. DOMAIN <<>> = {}
      OBVIOUS
    <3>. QED BY <1>5, <3>1, <3>2 DEF Comes
  <2>2. frames'[Main][i] = [ntf |-> Nobody, copy |-> <<>>, idx |-> 1, at |-> "loop"]
    BY <1>5, <2>1 DEF Comes
  <2>. QED BY <2>1, <2>2 DEF OKNext
<1>6. ASSUME NEW t \in Threads, Goes(t), NEW i \in DOMAIN frames'[t]
      PROVE  OKNext(t, frames'[t][i]) /\ (i # 1 => frames'[t][i].at = "body")
  <2>1. i + 1 \in DOMAIN frames[t] /\ i + 1 # 1 /\ frames'[t][i] = frames[t][i + 1]
    BY <1>6 DEF Goes
  <2>2. OKNext(t, frames[t][i + 1]) /\ frames[t][i + 1].at = "body"
    BY <1>1, <2>1 DEF FramesInv
  <2>. QED BY <2>1, <2>2
<1>7. ASSUME NEW t \in Threads, frames[t] # <<>>
      PROVE  Top(t).idx \in Nat \ {0} /\ Top(t).idx + 1 \in Nat \ {0}
  <2>1. Top(t).idx # 0
    BY <1>2, <1>7 DEF FramesInv, FrameOK
  <2>. QED BY <1>2, <1>7, <2>1
<1>8. ASSUME NEW t \in Threads, NEW i \in DOMAIN frames'[t]
      PROVE  OKNext(t, frames'[t][i]) /\ (i # 1 => frames'[t][i].at = "body")
  <2>1. CASE frames'[t] = frames[t]
    BY <1>1, <1>8, <2>1 DEF FramesInv
  <2>2. CASE \E n \in Notifiers : Trigger(t, n) /\ Comes(t, n, cbs[n])
    BY <1>4, <1>8, <2>2
  <2>3. CASE Event /\ t = Main /\ Comes(t, Nobody, <<>>)
    BY <1>5, <1>8, <2>3
  <2>4. CASE Advances(t)
    <3>1. frames[t] # <<>>
      BY <2>4 DEF Advances, GoesOn
    <3>2. GoesOn(t, Top(t).idx, "call") \/ GoesOn(t, Top(t).idx + 1, "loop")
      BY <2>4 DEF Advances
    <3>. QED BY <1>3, <1>7, <1>8, <3>1, <3>2
  <2>5. CASE StartCall(t) /\ GoesOn(t, Top(t).idx, "body")
    <3>1. frames[t] # <<>>
      BY <2>5 DEF GoesOn
    <3>. QED BY <1>3, <1>7, <1>8, <2>5, <3>1
  <2>6. CASE CallReturns(t) /\ GoesOn(t, Top(t).idx + 1, "loop")
    <3>1. frames[t] # <<>>
      BY <2>6 DEF GoesOn
    <3>. QED BY <1>3, <1>7, <1>8, <2>6, <3>1
  <2>7. CASE LoopEnds(t) /\ Goes(t)
    BY <1>6, <1>8, <2>7
  <2>. QED BY <2>1, <2>2, <2>3, <2>4, <2>5, <2>6, <2>7, FramesMoves DEF FramesMove
<1>9. ASSUME NEW t \in Threads, NEW i \in DOMAIN frames'[t], OKNext(t, frames'[t][i])
      PROVE  FrameOK(t, frames[t][i])'
  BY <1>9, Zenon DEF FrameOK, OKNext, Usable, Triggers, Attachable
<1>. QED BY <1>8, <1>9, Zenon DEF FramesInv

\* The top frame after a step.
LEMMA TopNext ==
    ASSUME TypeOK', NEW t \in Threads, frames'[t] # <<>>
    PROVE  Top(t)' = frames'[t][1] /\ 1 \in DOMAIN frames'[t]
<1>1. frames'[t] \in Seq(Frames)
  BY DEF TypeOK
<1>2. Len(frames'[t]) \in Nat \ {0} /\ DOMAIN frames'[t] = 1..Len(frames'[t])
  BY <1>1, LenProperties, EmptySeq
<1>3. Head(frames'[t]) = frames'[t][1]
  BY <1>1, HeadTailProperties
<1>. QED BY <1>2, <1>3 DEF Top

\* While the main thread calls the queue it stays.
LEMMA QueueStays ==
    ASSUME TypeInv, FramesInv, Next, NEW t \in Threads, frames[t] # <<>>,
           Top(t).ntf = Nobody, Top(t).at # "loop"
    PROVE  queue' = queue
<1>1. ASSUME NEW u \in Threads, frames[u] # <<>>, Top(u).ntf = Nobody PROVE u = Main
  <2>1. Top(u) = frames[u][1] /\ 1 \in DOMAIN frames[u]
    BY <1>1, TopIsFrame, LenProperties DEF TypeInv
  <2>. QED BY <1>1, <2>1 DEF FramesInv, FrameOK
<1>. QED BY <1>1, ReceiverMoves DEF InLoop

\* Nobody ends the object that a thread is about to call.
LEMMA CalleeStays ==
    ASSUME CalledAtHome, TypeInv, MutualInv, ListedInv, Next,
           NEW t \in Threads, pc[t] = "none", NEW n \in Notifiers, Triggers(t, n),
           NEW o \in Objects, Attachable(o, n), life[o] \notin {"detached", "gone"}
    PROVE  life'[o] \notin {"detached", "gone"}
<1>. USE DEF MutualInv, EndsInv
<1>0. life \in [Objects -> {"alive", "ending", "detached", "gone"}]
  BY DEF TypeInv, TypeOK
<1>1. ASSUME NEW u \in Threads, obj[u] = o, life[o] # "alive" PROVE u = t
  <2>1. PICK d \in Calls : d.call = "end" /\ d.obj = o
    BY <1>1 DEF ListedInv, Ends
  <2>2. PICK c \in Calls : c.call = "trigger" /\ c.by = t /\ c.ntf = n
    BY DEF Triggers
  <2>3. d.by = t
    BY <2>1, <2>2 DEF CalledAtHome
  <2>4. PICK e \in Calls : e.by = u /\ e.call \in {"attach", "detach", "end"} /\ e.obj = o
    BY <1>1, ReceiverAssumption DEF UserInv, UsesOf
  <2>. QED BY <2>1, <2>3, <2>4, OneUserAssumption
<1>. QED BY <1>0, <1>1, LifeMoves

LEMMA TurnKept ==
    ASSUME CalledAtHome, TypeInv, TypeInv', MutualInv, HomeInv, Next
    PROVE  TurnInv'
<1>. USE DEF HomeInv
<1>0. TypeOK /\ TypeOK'
  BY DEF TypeInv
<1>1. ASSUME NEW t \in Threads, frames[t] # <<>>
      PROVE  /\ Top(t) = frames[t][1] /\ 1 \in DOMAIN frames[t] /\ Top(t) \in Frames
             /\ FrameOK(t, Top(t)) /\ Top(t).copy \in Seq(Objects) /\ Top(t).idx \in Nat
  <2>1. Top(t) = frames[t][1] /\ 1 \in DOMAIN frames[t] /\ Top(t) \in Frames
    BY <1>0, <1>1, TopIsFrame, LenProperties
  <2>. QED BY <2>1 DEF FramesInv, Frames
\* What thread t is about to call, of a notifier.
<1>2. ASSUME NEW t \in Threads, frames[t] # <<>>, Top(t).ntf # Nobody,
             Top(t).idx <= Len(List(t))
      PROVE  /\ Top(t).ntf \in Notifiers /\ Callee(t) \in Objects /\ Usable(Top(t).ntf)
             /\ Triggers(t, Top(t).ntf) /\ Attachable(Callee(t), Top(t).ntf)
  <2>1. Top(t).idx \in 1..Len(Top(t).copy) /\ List(t) = Top(t).copy
    BY <1>1, <1>2, LenProperties DEF FrameOK, List
  <2>2. Callee(t) \in ToSet(Top(t).copy) /\ Callee(t) \in Objects
    BY <1>1, <1>2, <2>1, ElementOfSeq, LenProperties DEF Callee, ToSet
  <2>. QED BY <1>1, <1>2, <2>2 DEF FrameOK, Frames
<1>3. SUFFICES ASSUME NEW t \in Threads, frames'[t] # <<>>, frames'[t][1].at # "body"
               PROVE  /\ pc'[t] = "none"
                      /\ frames'[t][1].at = "call" =>
                           /\ frames'[t][1].idx <= Len(List(t)')
                           /\ frames'[t][1].ntf # Nobody =>
                                life'[Callee(t)'] \notin {"detached", "gone"}
  BY <1>0, TopNext DEF TurnInv
<1>4. Top(t)' = frames'[t][1] /\ 1 \in DOMAIN frames'[t]
  BY <1>0, <1>3, TopNext
\* The list stays, and what is to be called next.
<1>5. ASSUME frames[t] # <<>>, frames'[t][1].ntf = Top(t).ntf,
             frames'[t][1].copy = Top(t).copy, frames'[t][1].idx = Top(t).idx,
             Top(t).ntf = Nobody => queue' = queue
      PROVE  List(t)' = List(t) /\ Callee(t)' = Callee(t)
  <2>1. List(t)' = List(t)
    BY <1>4, <1>5 DEF List
  <2>. QED BY <1>4, <1>5, <2>1 DEF Callee
<1>6. CASE frames'[t] = frames[t]
  <2>1. frames[t] # <<>> /\ Top(t) = frames[t][1] /\ Top(t).at # "body" /\ pc[t] = "none"
    BY <1>1, <1>3, <1>6 DEF TurnInv
  <2>2. pc'[t] = "none"
    BY <2>1, PlaceMoves DEF PlaceGoes, InBody
  <2>3. ASSUME Top(t).at = "call"
        PROVE  /\ Top(t).idx <= Len(List(t)')
               /\ Top(t).ntf # Nobody => life'[Callee(t)'] \notin {"detached", "gone"}
    <3>1. List(t)' = List(t) /\ Callee(t)' = Callee(t)
      BY <1>5, <1>6, <2>1, <2>3, QueueStays
    <3>2. /\ Top(t).idx <= Len(List(t))
          /\ Top(t).ntf # Nobody => life[Callee(t)] \notin {"detached", "gone"}
      BY <2>1, <2>3 DEF TurnInv
    <3>3. Top(t).ntf # Nobody => life'[Callee(t)] \notin {"detached", "gone"}
      BY <1>2, <2>1, <3>2, CalleeStays
    <3>. QED BY <3>1, <3>2, <3>3
  <2>. QED BY <1>6, <2>1, <2>2, <2>3
<1>7. CASE \E n \in Notifiers : Trigger(t, n) /\ Comes(t, n, cbs[n])
  <2>1. pc'[t] = "none"
    BY <1>7 DEF Trigger, May, callVars
  <2>2. frames'[t][1].at = "loop"
    BY <1>7 DEF Comes
  <2>. QED BY <2>1, <2>2
<1>8. CASE Event /\ t = Main /\ Comes(t, Nobody, <<>>)
  <2>1. pc'[t] = "none"
    BY <1>8 DEF Event, callVars
  <2>2. frames'[t][1].at = "loop"
    BY <1>8 DEF Comes
  <2>. QED BY <2>1, <2>2
<1>9. CASE NextCall(t) /\ IsPresent(Top(t).ntf, Callee(t)) /\ GoesOn(t, Top(t).idx, "call")
  <2>1. /\ frames[t] # <<>> /\ frames'[t][1].ntf = Top(t).ntf
        /\ frames'[t][1].copy = Top(t).copy /\ frames'[t][1].idx = Top(t).idx
    BY <1>9 DEF GoesOn
  <2>2. /\ pc[t] = "none" /\ pc'[t] = pc[t] /\ queue' = queue /\ life' = life
        /\ Top(t).idx <= Len(List(t))
    BY <1>9 DEF NextCall, InLoop, callVars, receiverVars, objectVars
  <2>3. List(t)' = List(t) /\ Callee(t)' = Callee(t)
    BY <1>5, <2>1, <2>2
  <2>4. ASSUME Top(t).ntf # Nobody, life[Callee(t)] \in {"detached", "gone"} PROVE FALSE
    <3>1. /\ Top(t).ntf \in Notifiers /\ Callee(t) \in Objects /\ Usable(Top(t).ntf)
      BY <1>2, <2>1, <2>2, <2>4
    <3>2. Callee(t) \in ToSet(cbs[Top(t).ntf])
      BY <1>9, <2>4 DEF IsPresent
    <3>3. Top(t).ntf \in attached[Callee(t)]
      BY <2>4, <3>1, <3>2 DEF ListedInv, Usable
    <3>. QED BY <2>4, <3>1, <3>3 DEF MutualInv, EndsInv, MemberInv
  <2>. QED BY <2>1, <2>2, <2>3, <2>4
<1>10. CASE NextCall(t) /\ GoesOn(t, Top(t).idx + 1, "loop")
  BY <1>10 DEF NextCall, InLoop, callVars, GoesOn
<1>11. CASE StartCall(t) /\ GoesOn(t, Top(t).idx, "body")
  BY <1>3, <1>11 DEF GoesOn
<1>12. CASE CallReturns(t) /\ GoesOn(t, Top(t).idx + 1, "loop")
  BY <1>12 DEF CallReturns, callVars, GoesOn
<1>13. CASE LoopEnds(t) /\ Goes(t)
  <2>1. 1 + 1 \in DOMAIN frames[t] /\ 1 + 1 # 1 /\ frames'[t][1] = frames[t][1 + 1]
    BY <1>4, <1>13 DEF Goes
  <2>2. frames[t][1 + 1].at = "body"
    BY <2>1 DEF FramesInv
  <2>. QED BY <1>3, <2>1, <2>2
<1>14. FramesMove(t)
  BY FramesMoves
<1>15. Advances(t) =>
           \/ NextCall(t) /\ IsPresent(Top(t).ntf, Callee(t)) /\ GoesOn(t, Top(t).idx, "call")
           \/ NextCall(t) /\ GoesOn(t, Top(t).idx + 1, "loop")
  BY DEF Advances
<1>. QED BY <1>6, <1>7, <1>8, <1>9, <1>10, <1>11, <1>12, <1>13, <1>14, <1>15, Zenon
     DEF FramesMove

LEMMA HomeInit == Init => HomeInv
<1>. SUFFICES ASSUME Init PROVE HomeInv
  OBVIOUS
<1>1. ToSet(<<>>) = {} /\ DOMAIN <<>> = {}
  BY DEF ToSet
<1>. USE DEF Init, ReceiverInit
<1>2. ListedInv
  BY <1>1 DEF ListedInv
<1>3. PostedInv
  BY <1>1 DEF PostedInv
<1>4. FramesInv /\ TurnInv
  BY <1>1 DEF FramesInv, TurnInv
<1>. QED BY <1>2, <1>3, <1>4 DEF HomeInv

LEMMA HomeStep ==
    ASSUME CalledAtHome, TypeInv, MutualInv, HomeInv, [Next]_vars, [NoneEndsItsCaller]_vars
    PROVE  HomeInv'
<1>1. CASE UNCHANGED vars
  <2>. USE <1>1 DEF HomeInv, vars, receiverVars, objectVars, notifierVars, callVars
  <2>1. ListedInv'
    BY DEF ListedInv, Attachable, Ends
  <2>2. PostedInv'
    BY DEF PostedInv
  <2>3. FramesInv'
    BY DEF FramesInv, FrameOK, Usable, Triggers, Attachable
  <2>4. TurnInv'
    BY DEF TurnInv, Top, List, Callee
  <2>. QED BY <2>1, <2>2, <2>3, <2>4
<1>2. CASE Next /\ NoneEndsItsCaller
  <2>1. TypeInv'
    BY <1>2, TypeInvStep
  <2>2. ListedInv' /\ PostedInv' /\ FramesInv'
    BY <1>2, ListedKept, PostedKept, FramesKept DEF HomeInv
  <2>3. TurnInv'
    BY <1>2, <2>1, TurnKept
  <2>. QED BY <2>2, <2>3 DEF HomeInv
<1>. QED BY <1>1, <1>2

LEMMA NoCallHere ==
    ASSUME TypeInv, HomeInv, NEW t \in Threads, StartCall(t)
    PROVE  life[Callee(t)] \notin {"detached", "gone"}
<1>1. frames[t] # <<>> /\ Top(t).at = "call"
  BY DEF StartCall
<1>2. /\ Top(t).idx <= Len(List(t))
      /\ Top(t).ntf # Nobody => life[Callee(t)] \notin {"detached", "gone"}
  BY <1>1 DEF HomeInv, TurnInv
<1>3. CASE Top(t).ntf = Nobody
  <2>1. /\ Top(t) = frames[t][1] /\ 1 \in DOMAIN frames[t] /\ Top(t) \in Frames
        /\ queue \in Seq(Objects)
    BY <1>1, TopIsFrame, LenProperties DEF TypeInv, TypeOK, ReceiverTypeOK
  <2>2. Top(t).idx \in 1..Len(queue)
    BY <1>2, <1>3, <2>1, LenProperties DEF HomeInv, FramesInv, FrameOK, Frames, List
  <2>3. Callee(t) \in ToSet(queue) /\ Callee(t) \in Objects
    BY <1>3, <2>1, <2>2, ElementOfSeq, LenProperties DEF Callee, List, ToSet
  <2>. QED BY <2>3 DEF HomeInv, PostedInv
<1>. QED BY <1>2, <1>3

(***************************************************************************)
(* No callback is started on an object that has detached itself in its     *)
(* destructor, neither by a notifier nor by the event loop                 *)
(* (callback.cc:58-66, 540-556), if the objects end in the thread that may *)
(* call them and no callback ends the notifier that calls it.              *)
(***************************************************************************)
THEOREM NoCallAfterEndCorrect ==
    ASSUME CalledAtHome
    PROVE  Spec /\ [][NoneEndsItsCaller]_vars => NoCallAfterEnd
<1>1. Init => TypeInv /\ MutualInv /\ HomeInv
  BY TypeInvInit, MutualInvInit, HomeInit
<1>2. TypeInv /\ MutualInv /\ HomeInv /\ [Next]_vars /\ [NoneEndsItsCaller]_vars
          => (TypeInv /\ MutualInv /\ HomeInv)'
  BY TypeInvStep, MutualInvStep, HomeStep
<1>3. TypeInv /\ HomeInv =>
          \A t \in Threads : StartCall(t) => life[Callee(t)] \notin {"detached", "gone"}
  BY NoCallHere
<1>. QED BY <1>1, <1>2, <1>3, PTL DEF Spec, NoCallAfterEnd
=============================================================================
