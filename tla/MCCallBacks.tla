------------------------------ MODULE MCCallBacks ------------------------------
(***************************************************************************)
(* Instances of CallBacks for TLC: two threads, a guest of the main        *)
(* thread, and a host with the notifier door as its member.                *)
(***************************************************************************)
EXTENDS CallBacks

CONSTANTS main, worker, guest, host, hall, door

Owned == (hall :> Nobody) @@ (door :> host)

Of(t, call, os, ns) == [by : {t}, call : {call}, obj : os, ntf : ns]

\* An object that is called by a trigger ends in the thread that triggers.
SoundCalls ==
    UNION {Of(main, "attach", {guest}, {hall, door}),
           Of(main, "detach", {guest}, {hall, door}),
           Of(main, "end", {guest}, {Nobody}),
           Of(main, "trigger", {Nobody}, {hall}),
           Of(main, "post", {guest, host}, {Nobody}),
           Of(worker, "attach", {host}, {door}),
           Of(worker, "post", {guest, host}, {Nobody}),
           Of(worker, "end", {host}, {Nobody}),
           Of(worker, "endnotifier", {Nobody}, {hall})}

\* An object that ends in a thread of its own, as in testMulthThreadChaos.
ChaosCalls ==
    UNION {Of(worker, "attach", {guest}, {hall}),
           Of(worker, "end", {guest}, {Nobody}),
           Of(main, "trigger", {Nobody}, {hall})}
=============================================================================
