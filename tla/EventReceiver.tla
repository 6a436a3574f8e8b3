----------------------------- MODULE EventReceiver -----------------------------
(***************************************************************************)
(* QCallBackEventReceiver: callbacks that any thread hands to the event    *)
(* loop of a thread, here the main thread's.  What is handed over is kept  *)
(* in posted until the event loop comes to the event that was sent for it, *)
(* and then in queue while it is being called.  An object that ends takes  *)
(* its callbacks back, and waits for those that are being called.          *)
(*                                                                         *)
(* A callback is known by its object.  receiverlock_ is held for one       *)
(* action at most; cb_rcvrs_lock_ is kept while removeBy waits.            *)
(***************************************************************************)
EXTENDS Integers, Sequences, SequencesExt

CONSTANTS
    Threads,
    Objects,   \* the CallBackers
    Nobody

ASSUME ReceiverAssumption == Nobody \notin Threads \cup Objects

VARIABLES
    rcvrslock,  \* who has cb_rcvrs_lock_
    events,     \* events sent to the loop and not delivered
    posted,     \* cbs_
    queue,      \* queue_
    toremove    \* toremove_

receiverVars == <<rcvrslock, events, posted, queue, toremove>>

ReceiverTypeOK ==
    /\ rcvrslock \in Threads \cup {Nobody}
    /\ events \in Nat
    /\ posted \in Seq(Objects)
    /\ queue \in Seq(Objects)
    /\ toremove \subseteq Objects

ReceiverInit ==
    /\ rcvrslock = Nobody
    /\ events = 0
    /\ posted = <<>>
    /\ queue = <<>>
    /\ toremove = {}

-----------------------------------------------------------------------------
\* Mistake (eventsFor): an event is sent only if nothing is being called.
eventsIfIdle == IF posted = <<>> /\ queue = <<>> THEN events + 1 ELSE events

eventsFor == IF posted = <<>> THEN events + 1 ELSE events

\* CallBack::addToThread.
add(o) ==
    /\ rcvrslock = Nobody
    /\ events' = eventsFor
    /\ toremove' = toremove \cup {o}
    /\ posted' = Append(posted, o)
    /\ UNCHANGED <<rcvrslock, queue>>

\* The others, in their order.
Without(s, o) ==
    LET kept[i \in 0..Len(s)] ==
          IF i = 0 THEN <<>>
          ELSE IF s[i] = o THEN kept[i-1] ELSE Append(kept[i-1], s[i])
    IN  kept[Len(s)]

\* Mistake (IsBeingCalled): what is being called is not waited for.
IsForgotten(o) == FALSE

IsBeingCalled(o) == o \in ToSet(queue)

\* CallBack::removeFromThreadCalls: without wait there is nothing to wait for.
removeBy(t, o, wait) ==
    /\ rcvrslock = Nobody
    /\ wait = IsBeingCalled(o)
    /\ posted' = Without(posted, o)
    /\ IF wait
       THEN rcvrslock' = t /\ UNCHANGED toremove
       ELSE toremove' = toremove \ {o} /\ UNCHANGED rcvrslock
    /\ UNCHANGED <<events, queue>>

\* The loop in removeBy ends.
removeByEnds(t, o) ==
    /\ rcvrslock = t
    /\ ~IsBeingCalled(o)
    /\ toremove' = toremove \ {o}
    /\ rcvrslock' = Nobody
    /\ UNCHANGED <<events, posted, queue>>

\* event(), up to the first call.
event ==
    /\ events > 0
    /\ events' = events - 1
    /\ queue' = posted
    /\ posted' = <<>>
    /\ UNCHANGED <<rcvrslock, toremove>>

\* event() returns.
eventEnds ==
    /\ queue' = <<>>
    /\ UNCHANGED <<rcvrslock, events, posted, toremove>>
=============================================================================
