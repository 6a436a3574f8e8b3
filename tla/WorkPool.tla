------------------------------ MODULE WorkPool ------------------------------
(***************************************************************************)
(* What a user of Threads::WorkManager is promised, without threads,       *)
(* counters, locks or indexes (threadwork.h: "Takes work and puts it on a  *)
(* queue for execution either in parallel, singlethread or manual"):       *)
(*                                                                         *)
(*   - a work that is accepted by a queue is done once or dropped, and     *)
(*     only a queue that is emptied or a removeWork drops it;              *)
(*   - a SingleThread queue has at most one work under way;                *)
(*   - a queue that is closing accepts nothing, and it is removed when     *)
(*     nothing of it is left.                                              *)
(***************************************************************************)
EXTENDS Naturals, FiniteSets

CONSTANTS
    Works,
    QueueIds   \* the ids queues may get; 0 is the default queue

VARIABLES
    status,   \* of every work: "new", "waiting", "running", "done", "dropped"
    home,     \* the queue of a work that is waiting or running
    kind,     \* the queues that exist, with their type
    closing   \* those that are being removed

vars == <<status, home, kind, closing>>

Types == {"MultiThread", "SingleThread", "Manual"}

Init ==
    /\ status = [w \in Works |-> "new"]
    /\ home = [w \in Works |-> 0]
    /\ kind = [q \in {0} |-> "MultiThread"]
    /\ closing = {}

Of(q, s) == {w \in Works : status[w] = s /\ home[w] = q}

Queues == UNCHANGED <<kind, closing>>

\* What became of the works that have taken part in a step.
Becomes(S, s) == [w \in Works |-> IF w \in S THEN s ELSE status[w]]

Leave(S) == home' = [w \in Works |-> IF w \in S THEN 0 ELSE home[w]]

Accept(w, q) ==
    /\ status[w] = "new"
    /\ q \in DOMAIN kind \ closing
    /\ status' = Becomes({w}, "waiting")
    /\ home' = [home EXCEPT ![w] = q]
    /\ Queues

\* A work starts, accepted in the same step or before.
Start(w, q) ==
    /\ \/ status[w] = "new" /\ q \in DOMAIN kind \ closing
       \/ status[w] = "waiting" /\ q = home[w]
    /\ kind[q] = "SingleThread" => Of(q, "running") = {}
    /\ status' = Becomes({w}, "running")
    /\ home' = [home EXCEPT ![w] = q]
    /\ Queues

Finish(w) ==
    /\ status[w] = "running"
    /\ status' = Becomes({w}, "done")
    /\ Leave({w})
    /\ Queues

\* The thread that finishes one work takes the next one, of any queue.
FinishAndStart(v, w) ==
    /\ status[v] = "running"
    /\ status[w] = "waiting"
    /\ kind[home[w]] = "SingleThread" => Of(home[w], "running") \subseteq {v}
    /\ status' = [Becomes({w}, "running") EXCEPT ![v] = "done"]
    /\ Leave({v})
    /\ Queues

\* A work that never reaches a queue is refused, or done by its caller.
Refuse(w) ==
    /\ status[w] = "new"
    /\ status' = Becomes({w}, "dropped")
    /\ UNCHANGED home
    /\ Queues

DoneByCaller(w) ==
    /\ status[w] = "new"
    /\ status' = Becomes({w}, "done")
    /\ UNCHANGED home
    /\ Queues

\* removeWork drops one work, emptyQueue all that wait in a queue.
Drop(S) ==
    /\ S # {}
    /\ \A w \in S : status[w] = "waiting"
    /\ Cardinality(S) = 1 \/ \E q \in DOMAIN kind : S = Of(q, "waiting")
    /\ status' = Becomes(S, "dropped")
    /\ Leave(S)
    /\ Queues

Add(q, type) ==
    /\ q \notin DOMAIN kind
    /\ kind' = [r \in DOMAIN kind \cup {q} |-> IF r = q THEN type ELSE kind[r]]
    /\ UNCHANGED <<status, home, closing>>

Close(q) ==
    /\ q \in DOMAIN kind \ closing
    /\ closing' = closing \cup {q}
    /\ UNCHANGED <<status, home, kind>>

Remove(q) ==
    /\ q \in closing
    /\ Of(q, "waiting") = {}
    /\ Of(q, "running") = {}
    /\ kind' = [r \in DOMAIN kind \ {q} |-> kind[r]]
    /\ closing' = closing \ {q}
    /\ UNCHANGED <<status, home>>

Next ==
    \/ \E w \in Works, q \in DOMAIN kind : Accept(w, q) \/ Start(w, q)
    \/ \E w \in Works : Finish(w) \/ Refuse(w) \/ DoneByCaller(w)
    \/ \E v, w \in Works : FinishAndStart(v, w)
    \/ \E S \in SUBSET Works : Drop(S)
    \/ \E q \in QueueIds, type \in Types : Add(q, type)
    \/ \E q \in DOMAIN kind : Close(q) \/ Remove(q)

Spec == Init /\ [][Next]_vars
=============================================================================
