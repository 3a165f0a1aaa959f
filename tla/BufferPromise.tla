--------------------------- MODULE BufferPromise ---------------------------
(***************************************************************************)
(* What explicit synchronisation promises a client of the buffers it       *)
(* commits, with no queues, surfaces, messages or fences in it.  A buffer, *)
(* known by its release point, goes one way: from a commit that waits, to  *)
(* the screen, off it while something drawn is left of it, and back to the *)
(* client, who may write it again.  It may be given back early, but never  *)
(* twice, never while it can be read, and is never forgotten; and it is    *)
(* read only once it is ready.                                             *)
(***************************************************************************)

CONSTANTS
    Points,  \* the buffers, each commit of one being another
    Frames   \* frames the GPU may be drawing

VARIABLES
    queued,    \* committed, and not applied yet
    onScreen,  \* shown by a surface
    leaving,   \* shown by none, and kept for what is still drawn of it
    given,     \* given back to the client
    ready,     \* written: the client's GPU has finished
    reads      \* what the GPU reads for each frame

vars == <<queued, onScreen, leaving, given, ready, reads>>

Committed == queued \cup onScreen \cup leaving \cup given

Init ==
    /\ queued = {} /\ onScreen = {} /\ leaving = {} /\ given = {}
    /\ ready = {}
    /\ reads = [f \in Frames |-> {}]

\* Buffers go on, or stay where they are; no frame reads one given back.
GoOn ==
    /\ queued' \cap (Committed \ queued) = {}
    /\ onScreen' \subseteq onScreen \cup queued
    /\ leaving' \subseteq leaving \cup onScreen
    /\ given \subseteq given'
    /\ Committed \subseteq Committed' /\ Committed' \subseteq Points
    /\ queued' \cap onScreen' = {} /\ (queued' \cup onScreen') \cap leaving' = {}
    /\ given' \cap (queued' \cup onScreen' \cup leaving') = {}
    /\ \A f \in Frames : reads'[f] \subseteq onScreen' \cup leaving'

\* The client commits, the queues move, surfaces and pictures go.
HandOn == GoOn /\ UNCHANGED <<ready, reads>>

\* The client's GPU has finished a buffer committed.
Reach(p) ==
    /\ p \in Committed
    /\ ready' = ready \cup {p}
    /\ UNCHANGED <<queued, onScreen, leaving, given, reads>>

\* A frame is drawn from what is there to be drawn, and ready.
Draw(f, seen) ==
    /\ reads[f] = {}
    /\ seen \subseteq (onScreen \cup leaving) \cap ready
    /\ reads' = [reads EXCEPT ![f] = seen]
    /\ GoOn /\ UNCHANGED ready

\* The GPU has finished a frame.
Finish(f) ==
    /\ reads' = [reads EXCEPT ![f] = {}]
    /\ GoOn /\ UNCHANGED ready

Next ==
    \/ HandOn
    \/ \E p \in Points : Reach(p)
    \/ \E f \in Frames : Finish(f) \/ \E seen \in SUBSET Points : Draw(f, seen)

Spec == Init /\ [][Next]_vars
=============================================================================
