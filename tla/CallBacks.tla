------------------------------- MODULE CallBacks -------------------------------
(***************************************************************************)
(* CallBacker, NotifierAccess and CallBackSet: objects attach callbacks to *)
(* notifiers, a notifier that is triggered calls them, and either side may *)
(* end first, in any thread.  An object knows the notifiers it is attached *)
(* to (attached), a notifier the objects to tell of its own end            *)
(* (subscribers); who ends holds its own lock, only tries the other's, and *)
(* starts again after a sleep if it could not have it.                     *)
(*                                                                         *)
(* A callback is known by its object; one attached twice is twice in cbs.  *)
(* A thread is at pc in the call it makes; frames are the triggers and     *)
(* events it is in, and the body of a callback is any sequence of calls.   *)
(* A lock held within one action only has no variable; a try to get it may *)
(* fail all the same.                                                      *)
(***************************************************************************)
EXTENDS EventReceiver, FiniteSets

CONSTANTS
    Main,         \* the main thread
    Notifiers,
    Owner,        \* of a notifier: the object it is a member of, or Nobody
    Calls,        \* who makes which call: [by, call, obj, ntf]
    QueuedCalls,  \* the calls a callback of the event loop may make
    MaxCalls,     \* bound: calls
    MaxDepth      \* bound: triggers and events within each other

CallNames == {"attach", "detach", "end", "endnotifier", "post", "trigger"}

ASSUME CallBacksAssumption ==
    /\ Main \in Threads
    /\ Nobody \notin Notifiers
    /\ Owner \in [Notifiers -> Objects \cup {Nobody}]
    /\ Calls \subseteq [by : Threads, call : CallNames,
                        obj : Objects \cup {Nobody},
                        ntf : Notifiers \cup {Nobody}]
    /\ QueuedCalls \subseteq CallNames
    /\ MaxCalls \in Nat
    /\ MaxDepth \in Nat

\* attachCB, detachCB and the destructor of one object are called in one thread.
ASSUME OneUserAssumption ==
    \A c, d \in Calls :
        c.obj = d.obj /\ {c.call, d.call} \subseteq {"attach", "detach", "end"}
            => c.by = d.by

VARIABLES
    life,         \* of an object: alive, ending, detached, gone
    nlife,        \* of a notifier: alive, ending, gone
    cbs,          \* of a notifier: cbs_
    cber,         \* of a notifier: cber_
    subscribers,  \* of a notifier: shutdownsubscribers_
    slock,        \* of a notifier: who has shutdownsubscriberlock_
    attached,     \* of an object: attachednotifiers_
    alock,        \* of an object: who has attachednotifierslock_
    pc,           \* where a thread is in its call
    obj, ntf,     \* the object and the notifier of the call
    todo,         \* what is left of a pass over attached or subscribers
    frames,       \* the triggers and events a thread is in, the last first
    nrcalls

objectVars == <<life, attached, alock>>
notifierVars == <<nlife, cbs, cber, subscribers, slock>>
callVars == <<pc, obj, ntf, todo>>
vars == <<receiverVars, objectVars, notifierVars, callVars, frames, nrcalls>>

Labels == {"none", "subscribe", "record", "remove", "willcall", "unsub",
           "relock", "threadcalls", "waitqueue", "lockall", "removewith",
           "unsubscribe", "members", "locksubs", "shutdown"}

Frames == [ntf : Notifiers \cup {Nobody}, copy : Seq(Objects), idx : Nat,
           at : {"loop", "call", "body"}]

TypeOK ==
    /\ ReceiverTypeOK
    /\ life \in [Objects -> {"alive", "ending", "detached", "gone"}]
    /\ nlife \in [Notifiers -> {"alive", "ending", "gone"}]
    /\ cbs \in [Notifiers -> Seq(Objects)]
    /\ cber \in [Notifiers -> Objects \cup {Nobody}]
    /\ subscribers \in [Notifiers -> SUBSET Objects]
    /\ slock \in [Notifiers -> Threads \cup {Nobody}]
    /\ attached \in [Objects -> SUBSET Notifiers]
    /\ alock \in [Objects -> Threads \cup {Nobody}]
    /\ pc \in [Threads -> Labels]
    /\ obj \in [Threads -> Objects \cup {Nobody}]
    /\ ntf \in [Threads -> Notifiers \cup {Nobody}]
    /\ todo \in [Threads -> SUBSET (Objects \cup Notifiers)]
    /\ frames \in [Threads -> Seq(Frames)]
    /\ nrcalls \in 0..MaxCalls

Init ==
    /\ ReceiverInit
    /\ life = [o \in Objects |-> "alive"]
    /\ nlife = [n \in Notifiers |-> "alive"]
    /\ cbs = [n \in Notifiers |-> <<>>]
    /\ cber = Owner
    /\ subscribers = [n \in Notifiers |-> {}]
    /\ slock = [n \in Notifiers |-> Nobody]
    /\ attached = [o \in Objects |-> {}]
    /\ alock = [o \in Objects |-> Nobody]
    /\ pc = [t \in Threads |-> "none"]
    /\ obj = [t \in Threads |-> Nobody]
    /\ ntf = [t \in Threads |-> Nobody]
    /\ todo = [t \in Threads |-> {}]
    /\ frames = [t \in Threads |-> <<>>]
    /\ nrcalls = 0

-----------------------------------------------------------------------------
Top(t) == Head(frames[t])

InBody(t) == frames[t] # <<>> /\ Top(t).at = "body"

InEvent(t) == \E i \in DOMAIN frames[t] : frames[t][i].ntf = Nobody

\* The application makes a call, from a callback or not.
May(t, call, o, n) ==
    /\ pc[t] = "none"
    /\ frames[t] = <<>> \/ InBody(t)
    /\ InEvent(t) => call \in QueuedCalls
    /\ nrcalls < MaxCalls
    /\ [by |-> t, call |-> call, obj |-> o, ntf |-> n] \in Calls
    /\ nrcalls' = nrcalls + 1

Enter(t, label, o, n) ==
    /\ pc' = [pc EXCEPT ![t] = label]
    /\ obj' = [obj EXCEPT ![t] = o]
    /\ ntf' = [ntf EXCEPT ![t] = n]
    /\ UNCHANGED todo

At(t, label) == pc[t] = label /\ UNCHANGED <<frames, nrcalls>>

Goto(t, label) ==
    /\ pc' = [pc EXCEPT ![t] = label]
    /\ UNCHANGED <<obj, ntf, todo>>

Return(t) ==
    /\ pc' = [pc EXCEPT ![t] = "none"]
    /\ obj' = [obj EXCEPT ![t] = Nobody]
    /\ ntf' = [ntf EXCEPT ![t] = Nobody]
    /\ UNCHANGED todo

\* The application uses a notifier while it and what it is part of exist.
Usable(n) ==
    /\ nlife[n] = "alive"
    /\ Owner[n] # Nobody => life[Owner[n]] = "alive"

\* Nobody else is in a call for object o, or in one that needs notifier n.
ObjectIsFree(t, o) == \A u \in Threads \ {t} : pc[u] # "none" => obj[u] # o

NotifierIsFree(t, n) ==
    \A u \in Threads \ {t} :
        /\ pc[u] \in {"subscribe", "record"} => ntf[u] # n
        /\ \A i \in DOMAIN frames[u] : frames[u][i].ntf # n

-----------------------------------------------------------------------------
(***************************************************************************)
(* attachCB and detachCB                                                   *)
(***************************************************************************)

\* notify; notifyIfNotNotified returns here if the callback is there already.
AttachCB(t, o, n) ==
    /\ May(t, "attach", o, n)
    /\ life[o] = "alive" /\ Usable(n)
    /\ cbs' = [cbs EXCEPT ![n] = Append(@, o)]
    /\ Enter(t, IF cber[n] = o THEN "record" ELSE "subscribe", o, n)
    /\ UNCHANGED <<receiverVars, objectVars, nlife, cber, subscribers, slock,
                   frames>>

AddShutdownSubscription(t) ==
    /\ At(t, "subscribe")
    /\ slock[ntf[t]] = Nobody
    /\ subscribers' = [subscribers EXCEPT ![ntf[t]] = @ \cup {obj[t]}]
    /\ Goto(t, "record")
    /\ UNCHANGED <<receiverVars, objectVars, nlife, cbs, cber, slock>>

AttachEnds(t) ==
    /\ At(t, "record")
    /\ alock[obj[t]] = Nobody
    /\ attached' = [attached EXCEPT ![obj[t]] = @ \cup {ntf[t]}]
    /\ Return(t)
    /\ UNCHANGED <<receiverVars, life, alock, notifierVars>>

\* The notifier may be gone: it is touched only if it is in attached.
DetachCB(t, o, n) ==
    /\ May(t, "detach", o, n)
    /\ life[o] = "alive"
    /\ alock[o] = Nobody
    /\ n \in attached[o]
    /\ alock' = [alock EXCEPT ![o] = t]
    /\ Enter(t, "remove", o, n)
    /\ UNCHANGED <<receiverVars, life, attached, notifierVars, frames>>

\* operator -= takes the last of equal callbacks.
LastOf(s, o) ==
    CHOOSE i \in DOMAIN s : s[i] = o /\ \A j \in DOMAIN s : s[j] = o => j <= i

RemoveCB(t) ==
    /\ At(t, "remove")
    /\ LET s == cbs[ntf[t]] IN
       cbs' = [cbs EXCEPT ![ntf[t]] =
                   IF obj[t] \in ToSet(s) THEN RemoveAt(s, LastOf(s, obj[t]))
                   ELSE s]
    /\ Goto(t, "willcall")
    /\ UNCHANGED <<receiverVars, objectVars, nlife, cber, subscribers, slock>>

\* Mistake (StillCalled): one callback less is taken for none.
NeverCalled(o, n) == FALSE

StillCalled(o, n) == o \in ToSet(cbs[n])

WillCall(t) ==
    /\ At(t, "willcall")
    /\ IF StillCalled(obj[t], ntf[t])
       THEN alock' = [alock EXCEPT ![obj[t]] = Nobody] /\ Return(t)
       ELSE UNCHANGED alock /\ Goto(t, "unsub")
    /\ UNCHANGED <<receiverVars, life, attached, notifierVars>>

\* removeShutdownSubscription gets the lock.
DetachEnds(t) ==
    /\ At(t, "unsub")
    /\ slock[ntf[t]] = Nobody
    /\ subscribers' = [subscribers EXCEPT ![ntf[t]] = @ \ {obj[t]}]
    /\ attached' = [attached EXCEPT ![obj[t]] = @ \ {ntf[t]}]
    /\ alock' = [alock EXCEPT ![obj[t]] = Nobody]
    /\ Return(t)
    /\ UNCHANGED <<receiverVars, life, nlife, cbs, cber, slock>>

DetachSleeps(t) ==
    /\ At(t, "unsub")
    /\ alock' = [alock EXCEPT ![obj[t]] = Nobody]
    /\ Goto(t, "relock")
    /\ UNCHANGED <<receiverVars, life, attached, notifierVars>>

\* The notifier may have gone while this thread slept.
DetachRetries(t) ==
    /\ At(t, "relock")
    /\ alock[obj[t]] = Nobody
    /\ IF ntf[t] \in attached[obj[t]]
       THEN alock' = [alock EXCEPT ![obj[t]] = t] /\ Goto(t, "unsub")
       ELSE UNCHANGED alock /\ Return(t)
    /\ UNCHANGED <<receiverVars, life, attached, notifierVars>>

-----------------------------------------------------------------------------
(***************************************************************************)
(* The end of an object: detachAllNotifiers in the destructor of its       *)
(* class, then the destructors of its members, then ~CallBacker            *)
(***************************************************************************)

EndObject(t, o) ==
    /\ May(t, "end", o, Nobody)
    /\ life[o] = "alive"
    /\ ObjectIsFree(t, o)
    /\ \A n \in Notifiers : Owner[n] = o => NotifierIsFree(t, n)
    /\ life' = [life EXCEPT ![o] = "ending"]
    /\ Enter(t, "threadcalls", o, Nobody)
    /\ UNCHANGED <<receiverVars, attached, alock, notifierVars, frames>>

RemoveFromThreadCalls(t) ==
    /\ At(t, "threadcalls")
    /\ \E wait \in BOOLEAN :
         /\ removeBy(t, obj[t], wait)
         /\ Goto(t, IF wait THEN "waitqueue" ELSE "lockall")
    /\ UNCHANGED <<objectVars, notifierVars>>

WaitForQueue(t) ==
    /\ At(t, "waitqueue")
    /\ removeByEnds(t, obj[t])
    /\ Goto(t, "lockall")
    /\ UNCHANGED <<objectVars, notifierVars>>

\* The lock of the object, and a new pass over its notifiers.
StartPass(t) ==
    /\ At(t, "lockall")
    /\ LET o == obj[t] IN
       /\ alock[o] = Nobody
       /\ IF attached[o] = {}
          THEN /\ life' = [life EXCEPT ![o] = "detached"]
               /\ pc' = [pc EXCEPT ![t] = "members"]
               /\ UNCHANGED <<alock, todo>>
          ELSE /\ alock' = [alock EXCEPT ![o] = t]
               /\ pc' = [pc EXCEPT ![t] = "removewith"]
               /\ todo' = [todo EXCEPT ![t] = attached[o]]
               /\ UNCHANGED life
    /\ UNCHANGED <<receiverVars, attached, notifierVars, obj, ntf>>

\* The pass goes on, ends, or ends with notifiers left: then the lock is
\* released for a while.
PassGoesOn(t, left, stillattached) ==
    LET o == obj[t]
        ends == left = {} /\ stillattached = {}
        sleeps == left = {} /\ stillattached # {}
    IN
    /\ todo' = [todo EXCEPT ![t] = left]
    /\ pc' = [pc EXCEPT ![t] = IF ends THEN "members"
                               ELSE IF sleeps THEN "lockall" ELSE "removewith"]
    /\ alock' = IF left = {} THEN [alock EXCEPT ![o] = Nobody] ELSE alock
    /\ life' = IF ends THEN [life EXCEPT ![o] = "detached"] ELSE life
    /\ ntf' = [ntf EXCEPT ![t] = Nobody]
    /\ UNCHANGED obj

\* removeWith gets the lock; if the notifier is the object's own, it forgets
\* all callbacks.
RemoveWith(t) ==
    /\ At(t, "removewith")
    /\ \E n \in todo[t] :
         /\ cbs' = [cbs EXCEPT ![n] = IF cber[n] = obj[t] THEN <<>>
                                      ELSE Without(@, obj[t])]
         /\ cber' = IF cber[n] = obj[t] THEN [cber EXCEPT ![n] = Nobody]
                    ELSE cber
         /\ ntf' = [ntf EXCEPT ![t] = n]
    /\ pc' = [pc EXCEPT ![t] = "unsubscribe"]
    /\ UNCHANGED <<receiverVars, objectVars, nlife, subscribers, slock, obj,
                   todo>>

RemoveWithFails(t) ==
    /\ At(t, "removewith")
    /\ \E n \in todo[t] : PassGoesOn(t, todo[t] \ {n}, attached[obj[t]])
    /\ UNCHANGED <<receiverVars, attached, notifierVars>>

Unsubscribe(t) ==
    /\ At(t, "unsubscribe")
    /\ LET o == obj[t]
           n == ntf[t]
       IN
       /\ slock[n] = Nobody
       /\ subscribers' = [subscribers EXCEPT ![n] = @ \ {o}]
       /\ attached' = [attached EXCEPT ![o] = @ \ {n}]
       /\ PassGoesOn(t, todo[t] \ {n}, attached[o] \ {n})
    /\ UNCHANGED <<receiverVars, nlife, cbs, cber, slock>>

UnsubscribeFails(t) ==
    /\ At(t, "unsubscribe")
    /\ PassGoesOn(t, todo[t] \ {ntf[t]}, attached[obj[t]])
    /\ UNCHANGED <<receiverVars, attached, notifierVars>>

\* A member that is a notifier ends like any other.
EndMember(t) ==
    /\ At(t, "members")
    /\ \E n \in Notifiers :
         /\ Owner[n] = obj[t] /\ nlife[n] = "alive"
         /\ nlife' = [nlife EXCEPT ![n] = "ending"]
         /\ ntf' = [ntf EXCEPT ![t] = n]
    /\ pc' = [pc EXCEPT ![t] = "locksubs"]
    /\ UNCHANGED <<receiverVars, objectVars, cbs, cber, subscribers, slock,
                   obj, todo>>

\* ~CallBacker: "Notifiers not disconnected" if something is left.
DestroyObject(t) ==
    /\ At(t, "members")
    /\ LET o == obj[t] IN
       /\ \A n \in Notifiers : Owner[n] = o => nlife[n] = "gone"
       /\ attached[o] = {} => rcvrslock = Nobody
       /\ IF attached[o] # {} \/ o \in toremove
          THEN UNCHANGED life /\ Goto(t, "threadcalls")
          ELSE life' = [life EXCEPT ![o] = "gone"] /\ Return(t)
    /\ UNCHANGED <<receiverVars, attached, alock, notifierVars>>

-----------------------------------------------------------------------------
(***************************************************************************)
(* The end of a notifier                                                   *)
(***************************************************************************)

EndNotifier(t, n) ==
    /\ May(t, "endnotifier", Nobody, n)
    /\ Owner[n] = Nobody /\ nlife[n] = "alive"
    /\ NotifierIsFree(t, n)
    /\ nlife' = [nlife EXCEPT ![n] = "ending"]
    /\ Enter(t, "locksubs", Nobody, n)
    /\ UNCHANGED <<receiverVars, objectVars, cbs, cber, subscribers, slock,
                   frames>>

\* unRef of the callbacks: a trigger of this thread may still have them.
Release(t, n) ==
    /\ nlife' = [nlife EXCEPT ![n] = "gone"]
    /\ cbs' = IF \E i \in DOMAIN frames[t] : frames[t][i].ntf = n THEN cbs
              ELSE [cbs EXCEPT ![n] = <<>>]
    /\ pc' = [pc EXCEPT ![t] = IF obj[t] = Nobody THEN "none" ELSE "members"]
    /\ ntf' = [ntf EXCEPT ![t] = Nobody]

StartShutdown(t) ==
    /\ At(t, "locksubs")
    /\ LET n == ntf[t] IN
       /\ slock[n] = Nobody
       /\ IF subscribers[n] = {}
          THEN Release(t, n) /\ UNCHANGED <<slock, todo>>
          ELSE /\ slock' = [slock EXCEPT ![n] = t]
               /\ todo' = [todo EXCEPT ![t] = subscribers[n]]
               /\ pc' = [pc EXCEPT ![t] = "shutdown"]
               /\ UNCHANGED <<nlife, cbs, ntf>>
    /\ UNCHANGED <<receiverVars, objectVars, cber, subscribers, obj>>

\* Mistake (ShutdownGoesOn): sleeps with the lock.
ShutdownKeepsLock(t, left, stillsubscribed) ==
    LET n == ntf[t] IN
    /\ todo' = [todo EXCEPT ![t] = left]
    /\ IF left = {} /\ stillsubscribed = {}
       THEN Release(t, n) /\ slock' = [slock EXCEPT ![n] = Nobody]
       ELSE /\ pc' = [pc EXCEPT ![t] = IF left = {} THEN "locksubs"
                                       ELSE "shutdown"]
            /\ UNCHANGED <<nlife, cbs, ntf, slock>>

ShutdownGoesOn(t, left, stillsubscribed) ==
    LET n == ntf[t] IN
    /\ todo' = [todo EXCEPT ![t] = left]
    /\ slock' = IF left = {} THEN [slock EXCEPT ![n] = Nobody] ELSE slock
    /\ IF left = {} /\ stillsubscribed = {}
       THEN Release(t, n)
       ELSE /\ pc' = [pc EXCEPT ![t] = IF left = {} THEN "locksubs"
                                       ELSE "shutdown"]
            /\ UNCHANGED <<nlife, cbs, ntf>>

\* notifyShutdown of a subscriber gets the lock.
NotifyShutdown(t) ==
    /\ At(t, "shutdown")
    /\ \E o \in todo[t] :
         LET n == ntf[t] IN
         /\ alock[o] = Nobody
         /\ attached' = [attached EXCEPT ![o] = @ \ {n}]
         /\ subscribers' = [subscribers EXCEPT ![n] = @ \ {o}]
         /\ ShutdownGoesOn(t, todo[t] \ {o}, subscribers[n] \ {o})
    /\ UNCHANGED <<receiverVars, life, alock, cber, obj>>

\* Mistake (NotifyShutdownFails): the subscriber is taken off all the same.
NotifyShutdownForgets(t) ==
    /\ At(t, "shutdown")
    /\ \E o \in todo[t] :
         /\ subscribers' = [subscribers EXCEPT ![ntf[t]] = @ \ {o}]
         /\ ShutdownGoesOn(t, todo[t] \ {o}, subscribers[ntf[t]] \ {o})
    /\ UNCHANGED <<receiverVars, objectVars, cber, obj>>

NotifyShutdownFails(t) ==
    /\ At(t, "shutdown")
    /\ \E o \in todo[t] : ShutdownGoesOn(t, todo[t] \ {o}, subscribers[ntf[t]])
    /\ UNCHANGED <<receiverVars, objectVars, cber, subscribers, obj>>

-----------------------------------------------------------------------------
(***************************************************************************)
(* Notifier::trigger and the event loop                                    *)
(***************************************************************************)

Push(t, n, s) ==
    frames' = [frames EXCEPT ![t] = <<[ntf |-> n, copy |-> s, idx |-> 1,
                                       at |-> "loop"]>> \o @]

Step(t, idx, at) ==
    frames' = [frames EXCEPT ![t][1].idx = idx, ![t][1].at = at]

Trigger(t, n) ==
    /\ May(t, "trigger", Nobody, n)
    /\ Usable(n)
    /\ cbs[n] # <<>>
    /\ Len(frames[t]) < MaxDepth
    /\ Push(t, n, cbs[n])
    /\ UNCHANGED <<receiverVars, objectVars, notifierVars, callVars>>

Post(t, o) ==
    /\ May(t, "post", o, Nobody)
    /\ life[o] = "alive"
    /\ add(o)
    /\ UNCHANGED <<objectVars, notifierVars, callVars, frames>>

\* The loop of the main thread delivers an event.
Event ==
    /\ pc[Main] = "none"
    /\ frames[Main] = <<>>
    /\ event
    /\ Push(Main, Nobody, <<>>)
    /\ UNCHANGED <<objectVars, notifierVars, callVars, nrcalls>>

InLoop(t) == pc[t] = "none" /\ frames[t] # <<>> /\ Top(t).at = "loop"

List(t) == IF Top(t).ntf = Nobody THEN queue ELSE Top(t).copy

IsPresent(n, o) == n = Nobody \/ o \in ToSet(cbs[n])

\* doCall finds the next callback and whether it is to be called still.
NextCall(t) ==
    /\ InLoop(t)
    /\ Top(t).idx <= Len(List(t))
    /\ IF IsPresent(Top(t).ntf, List(t)[Top(t).idx])
       THEN Step(t, Top(t).idx, "call")
       ELSE Step(t, Top(t).idx + 1, "loop")
    /\ UNCHANGED <<receiverVars, objectVars, notifierVars, callVars, nrcalls>>

\* The callback is called, with no lock held.
Callee(t) == List(t)[Top(t).idx]

StartCall(t) ==
    /\ pc[t] = "none"
    /\ frames[t] # <<>> /\ Top(t).at = "call"
    /\ Step(t, Top(t).idx, "body")
    /\ UNCHANGED <<receiverVars, objectVars, notifierVars, callVars, nrcalls>>

CallReturns(t) ==
    /\ pc[t] = "none"
    /\ InBody(t)
    /\ Step(t, Top(t).idx + 1, "loop")
    /\ UNCHANGED <<receiverVars, objectVars, notifierVars, callVars, nrcalls>>

LoopEnds(t) ==
    /\ InLoop(t)
    /\ Top(t).idx > Len(List(t))
    /\ frames' = [frames EXCEPT ![t] = Tail(@)]
    /\ IF Top(t).ntf = Nobody
       THEN eventEnds /\ UNCHANGED cbs
       ELSE /\ cbs' = IF nlife[Top(t).ntf] = "gone"
                      THEN [cbs EXCEPT ![Top(t).ntf] = <<>>] ELSE cbs
            /\ UNCHANGED receiverVars
    /\ UNCHANGED <<objectVars, nlife, cber, subscribers, slock, callVars,
                   nrcalls>>

-----------------------------------------------------------------------------
Call(t) ==
    \/ \E o \in Objects, n \in Notifiers : AttachCB(t, o, n) \/ DetachCB(t, o, n)
    \/ \E o \in Objects : EndObject(t, o) \/ Post(t, o)
    \/ \E n \in Notifiers : EndNotifier(t, n) \/ Trigger(t, n)

Fails(t) ==
    \/ DetachSleeps(t) \/ RemoveWithFails(t)
    \/ UnsubscribeFails(t) \/ NotifyShutdownFails(t)

\* A try that gets its lock.
Succeeds(t) ==
    \/ DetachEnds(t) \/ RemoveWith(t) \/ Unsubscribe(t) \/ NotifyShutdown(t)

Proceeds(t) ==
    \/ AddShutdownSubscription(t) \/ AttachEnds(t)
    \/ RemoveCB(t) \/ WillCall(t) \/ DetachRetries(t)
    \/ RemoveFromThreadCalls(t) \/ WaitForQueue(t) \/ StartPass(t)
    \/ EndMember(t) \/ DestroyObject(t) \/ StartShutdown(t)
    \/ NextCall(t) \/ StartCall(t) \/ CallReturns(t) \/ LoopEnds(t)

Next ==
    \/ Event
    \/ \E t \in Threads : Call(t) \/ Proceeds(t) \/ Succeeds(t) \/ Fails(t)

Spec == Init /\ [][Next]_vars

\* Threads run and callbacks return; a detachCB that finds the lock of the
\* notifier free again and again gets it.
FairSpec ==
    /\ Spec
    /\ WF_vars(Event)
    /\ \A t \in Threads :
         /\ WF_vars(Proceeds(t) \/ Succeeds(t) \/ Fails(t))
         /\ SF_vars(DetachEnds(t))

-----------------------------------------------------------------------------
(***************************************************************************)
(* Who detaches or ends reaches only what still exists, whichever of two   *)
(* threads ends which side first and however often one of them misses the  *)
(* lock of the other (callback.cc:260-288, 344-368, 648-672): a thread     *)
(* that is about to touch a notifier or a subscriber finds it, and neither *)
(* an object nor a notifier remembers one that is gone.                    *)
(***************************************************************************)
TouchesWhatExists ==
    \A t \in Threads :
        /\ pc[t] \in {"remove", "willcall", "unsub", "unsubscribe"} =>
               nlife[ntf[t]] # "gone"
        /\ pc[t] = "removewith" => \A n \in todo[t] : nlife[n] # "gone"
        /\ pc[t] = "shutdown" => \A o \in todo[t] : life[o] # "gone"

NothingDangles ==
    /\ TouchesWhatExists
    /\ \A o \in Objects, n \in Notifiers :
         /\ life[o] # "gone" /\ n \in attached[o] => nlife[n] # "gone"
         /\ nlife[n] # "gone" /\ o \in subscribers[n] => life[o] # "gone"

Quiet(o, n) ==
    /\ life[o] = "alive" /\ nlife[n] = "alive"
    /\ \A t \in Threads : pc[t] # "none" => obj[t] # o /\ ntf[t] # n

(***************************************************************************)
(* attachCB "makes sure it is removed later when object is deleted"        *)
(* (callback.h:190): while nobody is busy with either, an object with a    *)
(* callback in a notifier finds it in attached, and both will be told of   *)
(* each other's end; detachCB leaves no half of that.                      *)
(***************************************************************************)
AttachmentIsMutual ==
    \A o \in Objects, n \in Notifiers : Quiet(o, n) =>
        /\ o \in ToSet(cbs[n]) => n \in attached[o]
        /\ n \in attached[o] /\ cber[n] # o <=> o \in subscribers[n]

(***************************************************************************)
(* No callback is started on an object that has detached itself in its     *)
(* destructor, neither by a notifier nor by the event loop, which works on *)
(* copies of the lists (callback.cc:58-66, 540-556; the comment at         *)
(* 243-251 says that only who does not detach may be called later).        *)
(***************************************************************************)
NoCallAfterEnd ==
    [][\A t \in Threads : StartCall(t) =>
           life[Callee(t)] \notin {"detached", "gone"}]_vars

(***************************************************************************)
(* "Avoid deadlocks (will happen if one thread deletes the notifier while  *)
(* the other thread deletes the callbacker at the same time)"              *)
(* (callback.cc:265, 650): no lock of an object, of a notifier or of the   *)
(* receivers is kept for ever, so that nobody waits for one that is.       *)
(***************************************************************************)
LocksAreReleased ==
    /\ \A o \in Objects : []<>(alock[o] = Nobody)
    /\ \A n \in Notifiers : []<>(slock[n] = Nobody)
    /\ []<>(rcvrslock = Nobody)

IsCalledByLoop(o) ==
    InBody(Main) /\ Top(Main).ntf = Nobody /\ Callee(Main) = o

(***************************************************************************)
(* "Unconditionally add this to main event loop" (callback.h:88): what has *)
(* been posted is called, unless its object ends first, although an event  *)
(* is sent for the first of several callbacks only (callback.cc:84-87);    *)
(* if the main thread comes back from its own calls.                       *)
(***************************************************************************)
PostedIsCalled ==
    []<>(pc[Main] = "none") =>
        \A o \in Objects :
            o \in ToSet(posted) ~> life[o] # "alive" \/ IsCalledByLoop(o)
=============================================================================
