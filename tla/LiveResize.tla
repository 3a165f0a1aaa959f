----------------------------- MODULE LiveResize -----------------------------
(***************************************************************************)
(* Windows resized by an edge drag (state/resize_bridge.rs, resizing.rs,   *)
(* state/round.rs, input/resize.rs).  The pointer's motions are recorded   *)
(* and settled once a pass of the loop, by the layout if it claims them.   *)
(* While a window's drag lasts, and until its client has answered, a hold  *)
(* makes the pane's slot the authority on its size in place of what the    *)
(* client last committed.  Under resize.sync the panes a layout moves are  *)
(* told together, in rounds, and their clients' answers are held back.     *)
(*                                                                         *)
(* Rectangles are sizes here, and resize.tell_hz is uncapped.  The panes   *)
(* whose client has been silent for long, or has yet to be sent that it is *)
(* being resized, are any set in a pass.                                   *)
(***************************************************************************)
EXTENDS Naturals, Sequences

CONSTANTS
    Panes,
    Sizes,
    Worlds,      \* what the configuration is and the clients may do
    MaxQueue,    \* bound: a client answers one of its newest MaxQueue configures
    NoPane, NoSize, NoHold, NoAnswer

\* The size every pane begins with; whether resize.sync is set; X11 windows;
\* the sizes a client may choose over those asked; windows that may close;
\* panes something else than a drag may resize; and, a bound, how many times
\* a drag, that or a client resizes one.
WorldStates ==
    [first : Sizes, sync : BOOLEAN, x11 : SUBSET Panes,
     own : [Panes -> SUBSET Sizes], closing : SUBSET Panes,
     placed : SUBSET Panes, changes : Nat]

VARIABLES
    alive,      \* panes that still have their window
    pane,       \* each pane and its client
    dragging,   \* Solium::resizes: the pane dragged by the pointer or a finger
    pending,    \* pending_resize
    bridge,     \* resize_bridge.window
    ended,      \* resize_ended
    round,      \* seam_round
    world,      \* the configuration and the clients
    changes     \* how many times panes were resized

vars == <<alive, pane, dragging, pending, bridge, ended, round, world, changes>>

Maybe(S, none) == S \cup {none}
Answers == [size : Sizes, to : Maybe(Sizes, NoSize)]
\* resizing::Hold, and whether it is resize_hold ("drag") or in the bridge.
Holds == [by : {"drag", "layout"}, since : Sizes, asked : Sizes,
          released : {"no", "yes", "late"}, declined : Maybe(Sizes, NoSize)]
Asks == UNION {[1..n -> Sizes] : n \in 0..MaxQueue}
PaneStates ==
    [slot      : Sizes,
     committed : Sizes,                \* what the client last committed
     acked     : Maybe(Sizes, NoSize), \* the configure it was drawn for, if said
     told      : Sizes,                \* the newest configure sent
     asks      : Asks,                 \* the configures unanswered
     hold      : Maybe(Holds, NoHold),
     waits     : 0..MaxQueue,          \* the round's configure, if unanswered
     stuck     : Maybe(Answers, NoAnswer)]  \* commits behind the round's barrier
Requests == [pane : Panes, wanted : Sizes]
NoRequest == [pane |-> NoPane]
NoRound == [members |-> {}, late |-> FALSE]

ASSUME LiveResizeAssumption ==
    /\ NoPane \notin Panes /\ NoSize \notin Sizes
    /\ NoHold \notin Holds /\ NoAnswer \notin Answers
    /\ Worlds \subseteq WorldStates
    /\ MaxQueue \in Nat \ {0}

HeldBy(x, by) == x.hold # NoHold /\ x.hold.by = by

TypeOK ==
    /\ alive \subseteq Panes
    /\ pane \in [Panes -> PaneStates]
    /\ \A p, q \in Panes :
         HeldBy(pane[p], "drag") /\ HeldBy(pane[q], "drag") => p = q
    /\ dragging \in Maybe(Panes, NoPane)
    /\ pending \in Maybe(Requests, NoRequest)
    /\ bridge \in Maybe(Panes, NoPane)
    /\ ended \in Maybe(Panes, NoPane)
    /\ round \in [members : SUBSET Panes, late : BOOLEAN]
    /\ world \in Worlds /\ changes \in Nat

Init ==
    /\ world \in Worlds /\ alive = Panes
    /\ pane = [p \in Panes |->
         [slot |-> world.first, committed |-> world.first,
          acked |-> IF p \in world.x11 THEN NoSize ELSE world.first,
          told |-> world.first, asks |-> <<>>, hold |-> NoHold,
          waits |-> 0, stuck |-> NoAnswer]]
    /\ dragging = NoPane /\ pending = NoRequest
    /\ bridge = NoPane /\ ended = NoPane
    /\ round = NoRound
    /\ changes = 0

-----------------------------------------------------------------------------
(* A pane, its client and its hold.                                        *)

\* A configure goes out; one that repeats the newest unanswered adds nothing
\* to it, and the oldest of too many is not answered by itself.
Send(x, size) ==
    LET again == x.asks # <<>> /\ size = x.told
        all == IF again THEN x.asks ELSE Append(x.asks, size)
        full == Len(all) > MaxQueue
    IN  [x EXCEPT !.told = size,
                  !.asks = IF full THEN Tail(all) ELSE all,
                  !.waits = IF full /\ @ > 1 THEN @ - 1 ELSE @]

\* size_window: nothing goes to an xdg client already told the size.
Tell(x, size) ==
    IF size = x.told /\ x.acked # NoSize THEN x ELSE Send(x, size)

\* Mutant: every answer is judged against the newest ask.
NotedByTheNewest(x, to) ==
    IF x.committed = x.hold.since THEN x
    ELSE [x EXCEPT !.hold.since = x.committed,
                   !.hold.declined =
                     IF x.committed = x.hold.asked THEN NoSize ELSE x.hold.asked]

\* Whatever the client has committed is judged against the configure it
\* answers, or against the newest ask when that is not known (NoSize).
Noted(x, to) ==
    LET answered == IF to = NoSize THEN x.hold.asked ELSE to
    IN  IF x.committed = x.hold.since THEN x
        ELSE [x EXCEPT !.hold.since = x.committed,
                       !.hold.declined =
                         IF x.committed = answered THEN NoSize ELSE answered]

\* Mutant: a client that is behind is not told after the button is up either.
OfferThrottledForEver(x, wanted, to, prompt) ==
    LET n == Noted(x, to)
        behind == to \notin {NoSize, n.hold.asked}
    IN  IF wanted = n.hold.asked \/ (behind /\ ~prompt) THEN n
        ELSE Tell([n EXCEPT !.hold.asked = wanted], wanted)

\* offered: while the drag lasts a client still drawing for an older ask
\* hears no other, unless `prompt`: it has been silent for long, or the offer
\* is not throttled.
Offer(x, wanted, to, prompt) ==
    LET n == Noted(x, to)
        behind == n.hold.released = "no" /\ to \notin {NoSize, n.hold.asked}
    IN  IF wanted = n.hold.asked \/ (behind /\ ~prompt) THEN n
        ELSE Tell([n EXCEPT !.hold.asked = wanted], wanted)

\* The configure always goes: it takes the resizing state off.
ReleasedTo(x, wanted) ==
    Send([Noted(x, x.acked) EXCEPT !.hold.asked = wanted,
                                   !.hold.released = "yes"], wanted)

Rearmed(x, released) == [x EXCEPT !.hold.released = released]

New(x, by, asked, released) ==
    [x EXCEPT !.hold = [by |-> by, since |-> x.committed, asked |-> asked,
                        released |-> released, declined |-> NoSize]]

\* No hold: the pane is the size its client committed, which sync_panes
\* copies from the space.
Landed(x) == [x EXCEPT !.hold = NoHold, !.slot = x.committed]

\* Mutant: a silent client is waited for.
SettledByAnswer(x) ==
    LET n == Noted(x, x.acked)
        h == n.hold
    IN  IF h.released # "no" /\ (x.committed = h.asked \/ h.declined = h.asked)
        THEN Landed(n) ELSE n

Settled(x) ==
    LET n == Noted(x, x.acked)
        h == n.hold
    IN  IF h.released # "no"
           /\ (x.committed = h.asked \/ h.declined = h.asked \/ h.released = "late")
        THEN Landed(n) ELSE n

-----------------------------------------------------------------------------
(* The gesture.                                                            *)

Busy == pending # NoRequest \/ dragging # NoPane

\* A press on a border, the modifier and the right button, or a finger's.
Begin(p) ==
    /\ ~Busy /\ p \in alive
    /\ pane' = [q \in Panes |->
         LET x == pane[q] IN
         IF q = p /\ HeldBy(x, "drag") THEN Landed(x)
         ELSE IF bridge = p /\ HeldBy(x, "layout") THEN Rearmed(x, "no")
         ELSE x]
    /\ dragging' = p /\ ended' = NoPane
    /\ UNCHANGED <<alive, pending, bridge, round, world, changes>>

Motion(p, size) ==
    /\ dragging = p /\ changes < world.changes
    /\ pending' = [pane |-> p, wanted |-> size]
    /\ UNCHANGED <<alive, pane, dragging, bridge, ended, round, world, changes>>

Release(p) ==
    /\ dragging = p
    /\ dragging' = NoPane /\ ended' = p
    /\ pane' = [q \in Panes |->
         LET x == pane[q] IN
         IF q \notin alive THEN x
         ELSE IF bridge = p /\ HeldBy(x, "layout")
              THEN IF world.sync THEN Rearmed(x, "yes") ELSE ReleasedTo(x, x.slot)
         ELSE IF q = p /\ HeldBy(x, "drag")
              THEN ReleasedTo(x, IF pending = NoRequest THEN x.slot ELSE pending.wanted)
         ELSE x]
    /\ UNCHANGED <<alive, pending, bridge, round, world, changes>>

-----------------------------------------------------------------------------
(* A pass of the loop.                                                     *)

\* Mutant: a hold is always born for a drag under way.
BornHeld == "no"

\* A hold made or carried on for a gesture whose button is up is released.
Born == IF ended = pending.pane THEN "yes" ELSE "no"

Armed(x) ==
    IF ~HeldBy(x, "layout") THEN x
    ELSE IF bridge = pending.pane THEN Rearmed(x, Born) ELSE Landed(x)

\* The layout, asked about the drag, places a pane.  One it leaves as it is
\* is told again if the drag's `resizing` state is still to be sent to it.
Swept(x, size, prompt) ==
    LET y == [x EXCEPT !.slot = size]
        carried == [y EXCEPT !.hold.by = "layout", !.hold.released = Born]
    IN  CASE HeldBy(x, "layout") ->
               IF world.sync THEN y ELSE Offer(y, size, x.acked, prompt)
          [] ~HeldBy(x, "layout") /\ size = x.committed ->
               IF prompt /\ Born = "no" /\ ~world.sync THEN Tell(y, size) ELSE y
          [] HeldBy(x, "drag") /\ size # x.committed ->
               IF world.sync THEN carried ELSE Offer(carried, size, x.acked, prompt)
          [] x.hold = NoHold /\ size # x.committed ->
               IF world.sync THEN New(y, "layout", x.committed, Born)
               ELSE Tell(New(y, "layout", size, Born), size)

\* The layout did not claim the drag: its window floats with the pointer.
Floated(x, size, prompt) ==
    LET y == [x EXCEPT !.slot = size]
    IN  CASE HeldBy(x, "drag") -> Offer(y, size, x.acked, prompt)
          [] HeldBy(x, "layout") ->
               Offer([y EXCEPT !.hold.by = "drag", !.hold.released = Born],
                     size, x.acked, prompt)
          [] OTHER -> Tell(New(y, "drag", size, Born), size)

\* Mutant: the hold of an earlier drag's window is kept.
DecidedBesides(places, claimed, prompt) ==
    [p \in Panes |->
       LET x == Armed(pane[p])
           y == IF p \in DOMAIN places THEN Swept(x, places[p], p \in prompt) ELSE x
       IN  IF pending = NoRequest THEN pane[p]
           ELSE IF claimed
                THEN IF p = pending.pane /\ HeldBy(y, "drag") THEN Landed(y) ELSE y
           ELSE IF p = pending.pane /\ p \in alive
                THEN Floated(y, pending.wanted, p \in prompt) ELSE y]

\* The request of this pass, which a layout answers with `places`.
Decided(places, claimed, prompt) ==
    [p \in Panes |->
       LET x == Armed(pane[p])
           y == IF p \in DOMAIN places THEN Swept(x, places[p], p \in prompt) ELSE x
       IN  IF pending = NoRequest THEN pane[p]
           ELSE IF claimed
                THEN IF p = pending.pane /\ HeldBy(y, "drag") THEN Landed(y) ELSE y
           ELSE IF pending.pane \notin alive THEN y
           ELSE IF p = pending.pane THEN Floated(y, pending.wanted, p \in prompt)
           ELSE IF HeldBy(y, "drag") THEN Landed(y) ELSE y]

\* What the throttle kept back.
Flushed(panes, prompt) ==
    [p \in Panes |->
       LET x == panes[p] IN
       IF p \in alive /\ x.hold # NoHold /\ (HeldBy(x, "drag") \/ ~world.sync)
       THEN Offer(x, x.slot, x.acked, p \in prompt) ELSE x]

\* Mutants: a round is over with its first answer; its time never runs out.
RoundOverAtOne(panes) ==
    /\ round.members # {}
    /\ \/ round.late
       \/ \E p \in round.members : panes[p].waits = 0 \/ ~HeldBy(panes[p], "layout")
RoundOverByAnswers(panes) ==
    /\ round.members # {}
    /\ \A p \in round.members : panes[p].waits = 0 \/ ~HeldBy(panes[p], "layout")

RoundOver(panes) ==
    /\ round.members # {}
    /\ \/ round.late
       \/ \A p \in round.members : panes[p].waits = 0 \/ ~HeldBy(panes[p], "layout")

\* The barrier is signalled: the commits behind it are applied.
LetGo(x) ==
    LET y == [x EXCEPT !.waits = 0, !.stuck = NoAnswer]
        z == IF x.stuck = NoAnswer THEN y
             ELSE [y EXCEPT !.committed = x.stuck.size, !.acked = x.stuck.to]
    IN  IF z.hold = NoHold THEN Landed(z) ELSE z

\* Mutant: only the panes the bridge still holds are let go.
EndRoundOfTheHeld(panes) ==
    [p \in Panes |-> IF p \in round.members /\ HeldBy(panes[p], "layout")
                     THEN LetGo(panes[p]) ELSE panes[p]]

EndRound(panes) ==
    [p \in Panes |-> IF p \in round.members THEN LetGo(panes[p]) ELSE panes[p]]

Moved(panes) ==
    {p \in alive : HeldBy(panes[p], "layout") /\ panes[p].slot # panes[p].hold.asked}

\* The round's configure, whose answer it waits for; start_round offers with
\* the committed size alone.
Joined(x) ==
    LET y == Offer(x, x.slot, NoSize, TRUE)
    IN  [y EXCEPT !.waits =
           IF x.acked # NoSize /\ x.slot # x.told THEN Len(y.asks) ELSE 0]

StartRound(panes, moved) ==
    [p \in Panes |->
       LET x == panes[p] IN
       IF p \in moved THEN Joined(x)
       ELSE IF p \in alive /\ HeldBy(x, "layout") THEN Noted(x, NoSize)
       ELSE x]

Finished(p, x, members) ==
    IF x.hold = NoHold THEN x
    ELSE IF p \notin alive THEN Landed(x)
    ELSE IF world.sync /\ HeldBy(x, "layout") /\ (p \in members \/ x.slot # x.hold.asked)
         THEN x
    ELSE Settled(x)

\* settle_resize, and sync_panes at the end of the pass.
Settle(decided, prompt) ==
    \E flushed \in {Flushed(decided, prompt)} :
    \E let \in {IF RoundOver(flushed) THEN EndRound(flushed) ELSE flushed} :
    LET starts == world.sync /\ (round.members = {} \/ RoundOver(flushed))
        moved == Moved(let)
    IN  \E told \in {IF starts THEN StartRound(let, moved) ELSE let} :
        LET members == IF ~starts THEN round.members
                       ELSE IF \E p \in Panes : told[p].waits # 0 THEN moved ELSE {}
        IN  /\ pane' = [p \in Panes |-> Finished(p, told[p], members)]
            /\ round' = [members |-> members, late |-> ~starts /\ round.late]

Turn(places, claimed, prompt) ==
    /\ Settle(Decided(places, claimed, prompt), prompt)
    /\ bridge' = IF \A p \in Panes : ~HeldBy(pane'[p], "layout") THEN NoPane
                 ELSE IF pending = NoRequest THEN bridge ELSE pending.pane
    /\ ended' = IF \A p \in Panes : pane'[p].hold = NoHold THEN NoPane ELSE ended

\* Any layout's answer.  `prompt` is told apart for the panes it matters to.
Pass ==
    LET held == {p \in alive : pane[p].hold # NoHold}
    IN  /\ pending' = NoRequest
        /\ changes' = IF pending = NoRequest THEN changes ELSE changes + 1
        /\ UNCHANGED <<alive, dragging, world>>
        /\ IF pending = NoRequest
           THEN \E prompt \in SUBSET held : Turn(<<>>, FALSE, prompt)
           ELSE \E placed \in SUBSET alive, claimed \in BOOLEAN :
                \E places \in [placed -> Sizes], prompt \in SUBSET (placed \cup held) :
                  Turn(places, claimed, prompt)

PatienceRuns(p) ==
    /\ pane[p].hold # NoHold /\ pane[p].hold.released = "yes"
    /\ pane' = [pane EXCEPT ![p].hold.released = "late"]
    /\ UNCHANGED <<alive, dragging, pending, bridge, ended, round, world, changes>>

RoundLate ==
    /\ round.members # {} /\ ~round.late
    /\ round' = [round EXCEPT !.late = TRUE]
    /\ UNCHANGED <<alive, pane, dragging, pending, bridge, ended, world, changes>>

-----------------------------------------------------------------------------
(* Other changes of a pane, and its client.                                *)

\* A placement that is not the drag's.  Only the bridge's holds hear of it.
Place(p, size) ==
    LET x == pane[p]
        y == [x EXCEPT !.slot = IF x.hold = NoHold THEN x.committed ELSE size]
    IN  /\ p \in alive \cap world.placed /\ changes < world.changes
        /\ changes' = changes + 1
        /\ pane' = [pane EXCEPT ![p] =
             IF HeldBy(x, "layout") THEN Offer(y, size, x.acked, TRUE)
             ELSE IF size # x.committed THEN Tell(y, size) ELSE y]
        /\ UNCHANGED <<alive, dragging, pending, bridge, ended, round, world>>

\* A change of style keeps the outer rectangle: another size for the client.
Restyle(p, size) ==
    LET x == pane[p]
    IN  /\ p \in alive \cap world.placed /\ changes < world.changes
        /\ changes' = changes + 1
        /\ pane' = [pane EXCEPT ![p] =
             IF x.hold = NoHold THEN Tell(x, size)
             ELSE Offer([x EXCEPT !.slot = size], size, x.acked, TRUE)]
        /\ UNCHANGED <<alive, dragging, pending, bridge, ended, round, world>>

\* A commit, kept behind the barrier if it answers the round's configure or
\* follows one that does.
Committed(x, size, to, answers) ==
    IF answers \/ x.stuck # NoAnswer
    THEN [x EXCEPT !.stuck = [size |-> size, to |-> to], !.waits = 0]
    ELSE [x EXCEPT !.committed = size, !.acked = to,
                   !.slot = IF x.hold = NoHold THEN size ELSE @]

\* The client draws for its i-th unanswered configure, passing over the older.
Answer(p, i, size) ==
    LET x == pane[p]
        to == IF x.acked = NoSize THEN NoSize ELSE x.asks[i]
        answers == x.waits # 0 /\ i >= x.waits
    IN  /\ p \in alive /\ i \in 1..Len(x.asks)
        /\ size \in {x.asks[i]} \cup world.own[p]
        /\ pane' = [pane EXCEPT ![p] =
             Committed([x EXCEPT !.asks = SubSeq(@, i + 1, Len(@)),
                                 !.waits = IF @ > i THEN @ - i ELSE 0],
                       size, to, answers)]
        /\ UNCHANGED <<alive, dragging, pending, bridge, ended, round, world, changes>>

\* The client chooses a size of its own, answering nothing.
Draw(p, size) ==
    LET x == pane[p]
        to == IF x.stuck = NoAnswer THEN x.acked ELSE x.stuck.to
    IN  /\ p \in alive /\ size \in world.own[p] /\ changes < world.changes
        /\ changes' = changes + 1
        /\ pane' = [pane EXCEPT ![p] = Committed(x, size, to, FALSE)]
        /\ UNCHANGED <<alive, dragging, pending, bridge, ended, round, world>>

Close(p) ==
    /\ p \in alive \cap world.closing
    /\ alive' = alive \ {p}
    /\ pane' = [pane EXCEPT ![p].asks = <<>>, ![p].stuck = NoAnswer]
    /\ UNCHANGED <<dragging, pending, bridge, ended, round, world, changes>>

Gesture == \E p \in Panes : Begin(p) \/ Release(p) \/ \E s \in Sizes : Motion(p, s)
Elsewhere ==
    \E p \in Panes, s \in Sizes : Restyle(p, s) \/ Place(p, s)
Client ==
    \E p \in Panes :
      \/ Close(p)
      \/ \E s \in Sizes : Draw(p, s) \/ \E i \in 1..MaxQueue : Answer(p, i, s)

Next ==
    \/ Gesture \/ Pass \/ Elsewhere \/ Client \/ RoundLate
    \/ \E p \in Panes : PatienceRuns(p)

Spec == Init /\ [][Next]_vars

\* The loop makes a pass every few milliseconds, and time passes.  Where an action
\* ends the one condition that enables it, its weak fairness is that the condition
\* does not last for ever: a request (Pass), a round within its time (RoundLate), a
\* hold within its patience (PatienceRuns).
FairSpec ==
    /\ Spec /\ WF_vars(pending = NoRequest /\ Pass)
    /\ []<>(pending = NoRequest)
    /\ []<>(round.members = {} \/ round.late)
    /\ \A p \in Panes : []<>~(pane[p].hold # NoHold /\ pane[p].hold.released = "yes")
-----------------------------------------------------------------------------
(* Properties.                                                             *)

\* A hold that is not released belongs to the drag under way: none is born, or
\* left, for a gesture whose button is up, and so permanent.
NoHoldOutlivesItsDrag ==
    \A p \in alive :
      pane[p].hold # NoHold /\ pane[p].hold.released = "no" =>
        dragging # NoPane /\ dragging = IF pane[p].hold.by = "drag" THEN p ELSE bridge

\* A client that takes every size it is told, late as it may be, is never seen
\* as having declined one (#402).
TakenAtItsWord ==
    \A p \in alive :
      pane[p].hold # NoHold /\ world.own[p] = {} /\ p \notin world.x11 =>
        pane[p].hold.declined = NoSize

\* The same while panes are not told in rounds.
TakenAtItsWordAlone == ~world.sync => TakenAtItsWord

\* Once the button is up and the last motion settled, the last size the client
\* has heard is the one the gesture ended on, unless it is that size already.
\* (A floating window placed meanwhile is told around its hold: Place.  Under
\* resize.sync a round tells the client later, and a hold born for one names
\* the drawn size as asked: Swept.)
EndIsTold ==
    \A p \in alive \ world.placed :
      LET x == pane[p] IN
      /\ ~world.sync /\ pending = NoRequest
      /\ x.hold # NoHold /\ x.hold.released # "no"
      => x.slot \in {x.told, x.committed}

\* An answer is behind the barrier of the round under way, which will let it
\* go, whatever became of the bridge.
NothingHeldBack == \A p \in Panes : pane[p].stuck # NoAnswer => p \in round.members

\* The answers of a round are let go in one step, once all it still waits for
\* are in or its time is up.
HeldBackTogether ==
    [][ \A p \in alive' :
          pane[p].stuck # NoAnswer /\ pane'[p].stuck = NoAnswer =>
            \A q \in round.members :
              /\ pane'[q].stuck = NoAnswer
              /\ pane[q].waits # 0 /\ HeldBy(pane'[q], "layout") => round.late ]_vars

\* Whatever the client does or does not, a pane is held no longer than a drag
\* goes on and its patience after it.
EveryHoldEnds ==
    \A p \in Panes : []<>(pane[p].hold = NoHold \/ dragging # NoPane)

\* No commit waits for ever behind a round.
EveryAnswerLands == \A p \in Panes : []<>(pane[p].stuck = NoAnswer)
=============================================================================
