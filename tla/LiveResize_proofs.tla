-------------------------- MODULE LiveResize_proofs --------------------------
(***************************************************************************)
(* Proofs about LiveResize: a hold ends with its drag, the client hears    *)
(* where it ended, and a round's answers are let go together.              *)
(***************************************************************************)
EXTENDS LiveResize, SequenceTheorems, TLAPS

USE LiveResizeAssumption

Held(x) == x.hold # NoHold
Released(x) == x.hold.released # "no"

\* The request waiting for the pass is of the drag under way, or of the last one.
RequestIsOfTheDrag ==
    /\ pending # NoRequest =>
         pending.pane = dragging \/ (dragging = NoPane /\ ended = pending.pane)
    /\ ended # NoPane => dragging = NoPane

\* The window dragged has no hold of a drag before.
DragHoldIsFresh ==
    \A p \in alive : dragging = p /\ HeldBy(pane[p], "drag") => ~Released(pane[p])

\* Only a pane of the round has a configure it waits for, or an answer kept back,
\* and there are rounds under resize.sync alone.
RoundsAreWhole ==
    /\ \A p \in Panes : pane[p].waits # 0 \/ pane[p].stuck # NoAnswer => p \in round.members
    /\ ~world.sync => round.members = {}

\* The client that takes what it is told has drawn what it acknowledged.
Obedient(p) == world.own[p] = {} /\ p \notin world.x11
ObedientDrawsWhatItAcks ==
    ~world.sync => \A p \in Panes : Obedient(p) =>
      /\ pane[p].acked = pane[p].committed
      /\ Held(pane[p]) => pane[p].hold.declined = NoSize

\* A client was told what its released hold asks, which is where its slot is, or
\* will be once the last motion is settled.
ReleasedIsTold ==
    ~world.sync => \A p \in alive \ world.placed :
      LET x == pane[p] IN
      Held(x) /\ Released(x) =>
        /\ x.told = x.hold.asked
        /\ \/ x.slot = x.hold.asked
           \/ pending # NoRequest /\ pending.pane = p /\ x.hold.by = "drag"

IInv ==
    /\ TypeOK /\ RequestIsOfTheDrag /\ NoHoldOutlivesItsDrag /\ DragHoldIsFresh
    /\ RoundsAreWhole /\ ObedientDrawsWhatItAcks /\ ReleasedIsTold

-----------------------------------------------------------------------------
(* What is done to one pane.                                               *)

LEMMA AsksAreShort ==
    \A a : a \in Asks <=> a \in Seq(Sizes) /\ Len(a) <= MaxQueue
<1>1. ASSUME NEW a \in Asks PROVE a \in Seq(Sizes) /\ Len(a) <= MaxQueue
  <2>1. PICK n \in 0 .. MaxQueue : a \in [1 .. n -> Sizes]
    BY DEF Asks
  <2>2. n \in Nat /\ a \in Seq(Sizes)
    BY <2>1, SeqDef
  <2>3. Len(a) = n
    BY <2>1, <2>2, LenProperties
  <2> QED
    BY <2>1, <2>2, <2>3
<1>2. ASSUME NEW a \in Seq(Sizes), Len(a) <= MaxQueue PROVE a \in Asks
  <2>1. Len(a) \in 0 .. MaxQueue /\ a \in [1 .. Len(a) -> Sizes]
    BY <1>2, LenProperties
  <2> QED
    BY <2>1 DEF Asks
<1> QED
  BY <1>1, <1>2

LEMMA WorldTyped ==
    ASSUME TypeOK
    PROVE  /\ world.sync \in BOOLEAN /\ world.first \in Sizes /\ world.changes \in Nat
           /\ world.own \in [Panes -> SUBSET Sizes] /\ world.x11 \in SUBSET Panes
  BY DEF TypeOK, WorldStates

LEMMA HoldTyped ==
    ASSUME NEW x \in PaneStates
    PROVE  /\ Held(x) <=> x.hold \in Holds
           /\ Held(x) <=> HeldBy(x, "drag") \/ HeldBy(x, "layout")
           /\ ~(HeldBy(x, "drag") /\ HeldBy(x, "layout"))
           /\ \A by : HeldBy(x, by) => Held(x)
  BY DEF PaneStates, Held, HeldBy, Maybe, Holds

\* A configure sent changes nothing of what the pane shows, and leaves waiting a
\* pane that waits.
SentOnly(x, y) ==
    /\ y \in PaneStates
    /\ y.slot = x.slot /\ y.committed = x.committed /\ y.acked = x.acked
    /\ y.hold = x.hold /\ y.stuck = x.stuck /\ (y.waits = 0 <=> x.waits = 0)

LEMMA SendDoes ==
    ASSUME NEW x \in PaneStates, NEW size \in Sizes
    PROVE  SentOnly(x, Send(x, size)) /\ Send(x, size).told = size
<1> DEFINE again == x.asks # <<>> /\ size = x.told
           all == IF again THEN x.asks ELSE Append(x.asks, size)
           full == Len(all) > MaxQueue
           left == IF full THEN Tail(all) ELSE all
           waits == IF full /\ x.waits > 1 THEN x.waits - 1 ELSE x.waits
<1>1. x.asks \in Seq(Sizes) /\ Len(x.asks) <= MaxQueue /\ Len(x.asks) \in Nat
  BY AsksAreShort, LenProperties DEF PaneStates
<1>2. all \in Seq(Sizes) /\ Len(all) <= MaxQueue + 1 /\ Len(all) \in Nat
  BY <1>1, AppendProperties
<1>3. left \in Asks
  <2> HIDE DEF all
  <2>1. CASE full
    <3>1. all # <<>>
      BY <1>2, <2>1, EmptySeq
    <3>2. Tail(all) \in Seq(Sizes) /\ Len(Tail(all)) = Len(all) - 1
      BY <1>2, <3>1, HeadTailProperties
    <3>3. Len(Tail(all)) <= MaxQueue
      BY <1>2, <3>2
    <3>4. Tail(all) \in Asks
      BY <3>2, <3>3, AsksAreShort
    <3> QED
      BY <2>1, <3>4
  <2>2. CASE ~full
    BY <1>2, <2>2, AsksAreShort
  <2> QED
    BY <2>1, <2>2
<1>4. waits \in 0 .. MaxQueue /\ (waits = 0 <=> x.waits = 0)
  <2> HIDE DEF full
  <2>1. x.waits \in 0 .. MaxQueue
    BY DEF PaneStates
  <2> QED
    BY <2>1
<1>5. Send(x, size) = [x EXCEPT !.told = size, !.asks = left, !.waits = waits]
  BY DEF Send
<1> HIDE DEF left, waits
<1> QED
  BY <1>3, <1>4, <1>5 DEF SentOnly, PaneStates

LEMMA TellDoes ==
    ASSUME NEW x \in PaneStates, NEW size \in Sizes
    PROVE  SentOnly(x, Tell(x, size)) /\ Tell(x, size).told = size
  BY SendDoes DEF Tell, SentOnly

\* A hold goes on: only what it has seen of the client is brought up to date.
GoesOn(x, y) ==
    /\ y \in PaneStates /\ Held(y)
    /\ y.hold.by = x.hold.by /\ y.hold.released = x.hold.released
    /\ y.slot = x.slot /\ y.committed = x.committed /\ y.acked = x.acked
    /\ y.stuck = x.stuck /\ (y.waits = 0 <=> x.waits = 0)

\* A client that has drawn what it acknowledged has declined nothing.
Meek(x) == x.acked = x.committed /\ (Held(x) => x.hold.declined = NoSize)

LEMMA NotedDoes ==
    ASSUME NEW x \in PaneStates, Held(x), NEW to \in Maybe(Sizes, NoSize)
    PROVE  /\ GoesOn(x, Noted(x, to))
           /\ Noted(x, to).hold.asked = x.hold.asked /\ Noted(x, to).told = x.told
           /\ Meek(x) /\ to = x.acked => Meek(Noted(x, to))
<1>1. x.hold \in Holds /\ x.committed \in Sizes
  BY HoldTyped DEF PaneStates
<1> DEFINE answered == IF to = NoSize THEN x.hold.asked ELSE to
           declined == IF x.committed = answered THEN NoSize ELSE answered
           hold == [x.hold EXCEPT !.since = x.committed, !.declined = declined]
<1>2. declined \in Maybe(Sizes, NoSize) /\ (Meek(x) /\ to = x.acked => declined = NoSize)
  BY <1>1 DEF Holds, Maybe, Meek
<1>3. hold \in Holds /\ hold.by = x.hold.by /\ hold.released = x.hold.released
      /\ hold.asked = x.hold.asked /\ hold.declined = declined
  <2> HIDE DEF declined
  <2> QED
    BY <1>1, <1>2 DEF Holds
<1>4. Noted(x, to) = IF x.committed = x.hold.since THEN x ELSE [x EXCEPT !.hold = hold]
  BY DEF Noted
<1> HIDE DEF hold, declined
<1>5. hold # NoHold /\ [x EXCEPT !.hold = hold] \in PaneStates
  BY <1>3 DEF PaneStates, Maybe
<1> QED
  BY <1>2, <1>3, <1>4, <1>5 DEF GoesOn, Meek, Held, PaneStates

LEMMA OfferDoes ==
    ASSUME NEW x \in PaneStates, Held(x), NEW wanted \in Sizes,
           NEW to \in Maybe(Sizes, NoSize), NEW prompt \in BOOLEAN
    PROVE  LET y == Offer(x, wanted, to, prompt)
           IN  /\ GoesOn(x, y)
               /\ Meek(x) /\ to = x.acked => Meek(y)
               /\ Released(x) => /\ y.hold.asked = wanted
                                 /\ y.told = wanted \/ (x.hold.asked = wanted /\ y.told = x.told)
<1> DEFINE n == Noted(x, to)
           m == [n EXCEPT !.hold.asked = wanted]
           behind == n.hold.released = "no" /\ to \notin {NoSize, n.hold.asked}
<1>1. /\ GoesOn(x, n) /\ n.hold.asked = x.hold.asked /\ n.told = x.told
      /\ Meek(x) /\ to = x.acked => Meek(n)
  BY NotedDoes
<1>2. Offer(x, wanted, to, prompt) =
        IF wanted = n.hold.asked \/ (behind /\ ~prompt) THEN n ELSE Tell(m, wanted)
  BY DEF Offer
<1> HIDE DEF n
<1>3. n \in PaneStates /\ n.hold \in Holds /\ n.hold # NoHold
  BY <1>1, HoldTyped DEF GoesOn
<1>4. /\ m \in PaneStates /\ m.hold \in Holds /\ m.hold.asked = wanted
      /\ m.hold.by = n.hold.by /\ m.hold.released = n.hold.released
      /\ m.hold.declined = n.hold.declined
      /\ m.slot = n.slot /\ m.committed = n.committed /\ m.acked = n.acked
      /\ m.stuck = n.stuck /\ m.waits = n.waits
  BY <1>3 DEF PaneStates, Holds, Maybe
<1> HIDE DEF m
<1>5. Held(m)
  BY <1>4, HoldTyped
<1>6. GoesOn(x, m) /\ (Meek(x) /\ to = x.acked => Meek(m))
  BY <1>1, <1>4, <1>5 DEF GoesOn, Meek
<1>7. SentOnly(m, Tell(m, wanted)) /\ Tell(m, wanted).told = wanted
  BY <1>4, TellDoes
<1>8. /\ GoesOn(x, Tell(m, wanted)) /\ Tell(m, wanted).hold.asked = wanted
      /\ Meek(x) /\ to = x.acked => Meek(Tell(m, wanted))
  BY <1>4, <1>6, <1>7 DEF SentOnly, GoesOn, Meek, Held
<1>9. Released(x) => ~behind
  BY <1>1 DEF Released, GoesOn
<1> HIDE DEF behind
<1> QED
  BY <1>1, <1>2, <1>7, <1>8, <1>9

LEMMA ReleasedToDoes ==
    ASSUME NEW x \in PaneStates, Held(x), NEW wanted \in Sizes
    PROVE  LET y == ReleasedTo(x, wanted)
           IN  /\ y \in PaneStates /\ Held(y) /\ y.hold.by = x.hold.by
               /\ y.hold.released = "yes" /\ y.hold.asked = wanted /\ y.told = wanted
               /\ y.slot = x.slot /\ y.stuck = x.stuck /\ (y.waits = 0 <=> x.waits = 0)
               /\ Meek(x) => Meek(y)
<1> DEFINE n == Noted(x, x.acked)
           m == [n EXCEPT !.hold.asked = wanted, !.hold.released = "yes"]
<1>1. GoesOn(x, n) /\ (Meek(x) => Meek(n))
  BY NotedDoes DEF PaneStates
<1>2. ReleasedTo(x, wanted) = Send(m, wanted)
  BY DEF ReleasedTo
<1> HIDE DEF n
<1>3. n \in PaneStates /\ n.hold \in Holds /\ n.hold # NoHold
  BY <1>1, HoldTyped DEF GoesOn
<1>4. /\ m \in PaneStates /\ m.hold \in Holds /\ m.hold.asked = wanted
      /\ m.hold.by = n.hold.by /\ m.hold.released = "yes"
      /\ m.hold.declined = n.hold.declined
      /\ m.slot = n.slot /\ m.committed = n.committed /\ m.acked = n.acked
      /\ m.stuck = n.stuck /\ m.waits = n.waits
  BY <1>3 DEF PaneStates, Holds, Maybe
<1> HIDE DEF m
<1>5. SentOnly(m, Send(m, wanted)) /\ Send(m, wanted).told = wanted /\ Held(m)
  BY <1>4, SendDoes, HoldTyped
<1> QED
  BY <1>1, <1>2, <1>4, <1>5 DEF SentOnly, GoesOn, Meek, Held

\* What a pane is left with when only its hold and its slot are changed.
HeldAnew(x, y) ==
    /\ y \in PaneStates /\ y.committed = x.committed /\ y.acked = x.acked
    /\ y.told = x.told /\ y.stuck = x.stuck /\ (y.waits = 0 <=> x.waits = 0)

LEMMA NewDoes ==
    ASSUME NEW x \in PaneStates, NEW by \in {"drag", "layout"}, NEW asked \in Sizes,
           NEW released \in {"no", "yes"}
    PROVE  LET y == New(x, by, asked, released)
           IN  /\ HeldAnew(x, y) /\ Held(y) /\ y.slot = x.slot
               /\ y.hold.by = by /\ y.hold.asked = asked /\ y.hold.released = released
               /\ Meek(x) => Meek(y)
<1> DEFINE hold == [by |-> by, since |-> x.committed, asked |-> asked,
                    released |-> released, declined |-> NoSize]
<1>1. hold \in Holds /\ hold.declined = NoSize
      /\ hold.by = by /\ hold.asked = asked /\ hold.released = released
  BY DEF Holds, PaneStates, Maybe
<1>2. New(x, by, asked, released) = [x EXCEPT !.hold = hold]
  BY DEF New
<1> HIDE DEF hold
<1>3. hold # NoHold
  BY <1>1
<1> QED
  BY <1>1, <1>2, <1>3 DEF HeldAnew, Held, Meek, PaneStates, Maybe

LEMMA RearmedDoes ==
    ASSUME NEW x \in PaneStates, Held(x), NEW released \in {"no", "yes", "late"}
    PROVE  LET y == Rearmed(x, released)
           IN  /\ HeldAnew(x, y) /\ Held(y) /\ y.slot = x.slot
               /\ y.hold.by = x.hold.by /\ y.hold.asked = x.hold.asked
               /\ y.hold.released = released
               /\ Meek(x) => Meek(y)
<1> DEFINE hold == [x.hold EXCEPT !.released = released]
<1>1. hold \in Holds /\ hold.declined = x.hold.declined /\ hold.by = x.hold.by
      /\ hold.asked = x.hold.asked /\ hold.released = released
  BY HoldTyped DEF Holds
<1>2. Rearmed(x, released) = [x EXCEPT !.hold = hold]
  BY DEF Rearmed
<1> HIDE DEF hold
<1>3. hold # NoHold
  BY <1>1
<1> QED
  BY <1>1, <1>2, <1>3 DEF HeldAnew, Held, Meek, PaneStates, Maybe

LEMMA LandedDoes ==
    ASSUME NEW x \in PaneStates
    PROVE  LET y == Landed(x)
           IN  HeldAnew(x, y) /\ ~Held(y) /\ (Meek(x) => Meek(y))
  BY DEF Landed, HeldAnew, Held, Meek, PaneStates, Maybe

\* A pane's slot, set.
LEMMA SlotDoes ==
    ASSUME NEW x \in PaneStates, NEW size \in Sizes
    PROVE  LET y == [x EXCEPT !.slot = size]
           IN  /\ HeldAnew(x, y) /\ y.slot = size /\ y.hold = x.hold
               /\ Meek(x) => Meek(y)
  BY DEF HeldAnew, Held, Meek, PaneStates

\* A hold ends, or goes on as it was.
Ending(x, y) ==
    \/ HeldAnew(x, y) /\ ~Held(y)
    \/ GoesOn(x, y) /\ y.hold.asked = x.hold.asked /\ y.told = x.told

LEMMA SettledDoes ==
    ASSUME NEW x \in PaneStates, Held(x)
    PROVE  Ending(x, Settled(x)) /\ (Meek(x) => Meek(Settled(x)))
<1> DEFINE n == Noted(x, x.acked)
<1>1. /\ GoesOn(x, n) /\ n.hold.asked = x.hold.asked /\ n.told = x.told
      /\ Meek(x) => Meek(n)
  BY NotedDoes DEF PaneStates
<1>2. Settled(x) \in {n, Landed(n)}
  BY DEF Settled
<1> HIDE DEF n
<1>3. HeldAnew(n, Landed(n)) /\ ~Held(Landed(n)) /\ (Meek(n) => Meek(Landed(n)))
  BY <1>1, LandedDoes DEF GoesOn
<1> QED
  BY <1>1, <1>2, <1>3 DEF Ending, GoesOn, HeldAnew

-----------------------------------------------------------------------------
(* What a layout decides.                                                  *)

LEMMA CarriedDoes ==
    ASSUME NEW x \in PaneStates, Held(x), NEW by \in {"drag", "layout"},
           NEW released \in {"no", "yes"}
    PROVE  LET y == [x EXCEPT !.hold.by = by, !.hold.released = released]
           IN  /\ HeldAnew(x, y) /\ Held(y) /\ y.slot = x.slot
               /\ y.hold.by = by /\ y.hold.asked = x.hold.asked
               /\ y.hold.released = released
               /\ Meek(x) => Meek(y)
<1> DEFINE hold == [x.hold EXCEPT !.by = by, !.released = released]
           y == [x EXCEPT !.hold.by = by, !.hold.released = released]
<1>1. hold \in Holds /\ hold.declined = x.hold.declined /\ hold.by = by
      /\ hold.asked = x.hold.asked /\ hold.released = released
  BY HoldTyped DEF Holds
<1>2. y = [x EXCEPT !.hold = hold]
  OBVIOUS
<1> HIDE DEF hold, y
<1>3. hold # NoHold
  BY <1>1
<1>4. /\ HeldAnew(x, y) /\ Held(y) /\ y.slot = x.slot
      /\ y.hold.by = by /\ y.hold.asked = x.hold.asked
      /\ y.hold.released = released
      /\ Meek(x) => Meek(y)
  BY <1>1, <1>2, <1>3 DEF HeldAnew, Held, Meek, PaneStates, Maybe
<1> QED
  BY <1>4 DEF y

LEMMA BornIsTyped == Born \in {"no", "yes"}
  BY DEF Born

\* What the client has drawn, and what is kept of it back, is not the layout's.
Drawn(x, y) ==
    /\ y \in PaneStates /\ y.committed = x.committed /\ y.acked = x.acked
    /\ y.stuck = x.stuck /\ (y.waits = 0 <=> x.waits = 0)
    /\ Meek(x) => Meek(y)

\* What a released hold asks the client was told, or will be: it is not where
\* its slot is.
IsTold(x) == Held(x) /\ Released(x) => x.told = x.hold.asked
Tellable(x) == IsTold(x) /\ (Born = "yes" /\ Held(x) => Released(x))
WillBeTold(x) == Held(x) /\ Released(x) => x.told = x.hold.asked \/ x.slot # x.hold.asked

\* The layout's hold is that of this request's gesture.
HeldForThis(x) == HeldBy(x, "layout") => x.hold.released = Born

LEMMA ArmedDoes ==
    ASSUME NEW x \in PaneStates
    PROVE  LET y == Armed(x)
           IN  /\ Drawn(x, y) /\ HeldForThis(y) /\ (Tellable(x) => Tellable(y))
               /\ Held(y) => y.hold.by = x.hold.by /\ Held(x)
               /\ HeldBy(y, "drag") => y = x
<1>1. CASE ~HeldBy(x, "layout")
  BY <1>1 DEF Armed, Drawn, HeldForThis
<1>2. CASE HeldBy(x, "layout") /\ bridge = pending.pane
  <2>1. Armed(x) = Rearmed(x, Born) /\ Held(x) /\ x.hold.by = "layout"
    BY <1>2, HoldTyped DEF Armed, HeldBy
  <2>2. /\ HeldAnew(x, Armed(x)) /\ Held(Armed(x)) /\ Armed(x).slot = x.slot
        /\ Armed(x).hold.by = x.hold.by /\ Armed(x).hold.asked = x.hold.asked
        /\ Armed(x).hold.released = Born /\ (Meek(x) => Meek(Armed(x)))
    BY <2>1, RearmedDoes, BornIsTyped
  <2> QED
    BY <2>1, <2>2, BornIsTyped DEF HeldAnew, Drawn, HeldForThis, HeldBy, Tellable, IsTold, Released
<1>3. CASE HeldBy(x, "layout") /\ bridge # pending.pane
  <2>1. HeldAnew(x, Armed(x)) /\ ~Held(Armed(x)) /\ (Meek(x) => Meek(Armed(x)))
    BY <1>3, LandedDoes DEF Armed
  <2> QED
    BY <2>1, HoldTyped DEF HeldAnew, Drawn, HeldForThis, HeldBy, Tellable, IsTold, Held
<1> QED
  BY <1>1, <1>2, <1>3

LEMMA SweptDoes ==
    ASSUME NEW x \in PaneStates, NEW size \in Sizes, NEW prompted, NEW p, HeldForThis(x),
           world.sync \in BOOLEAN
    PROVE  LET y == Swept(x, size, p \in prompted)
           IN  /\ Drawn(x, y) /\ y.slot = size /\ HeldForThis(y)
               /\ HeldBy(y, "drag") => HeldBy(x, "drag") /\ y.hold = x.hold
               /\ ~world.sync /\ Tellable(x) => WillBeTold(y) /\ (Born = "yes" => IsTold(y))
<1> DEFINE y == [x EXCEPT !.slot = size]
           carried == [y EXCEPT !.hold.by = "layout", !.hold.released = Born]
           z == Swept(x, size, p \in prompted)
<1> USE BornIsTyped
<1>0. PICK prompt \in BOOLEAN : prompt <=> p \in prompted
  OBVIOUS
<1>1. /\ HeldAnew(x, y) /\ y.slot = size /\ y.hold = x.hold /\ (Meek(x) => Meek(y))
  BY SlotDoes
<1>2. /\ HeldBy(x, "layout") => z = IF world.sync THEN y ELSE Offer(y, size, x.acked, prompt)
      /\ ~HeldBy(x, "layout") /\ size = x.committed =>
           z = IF prompt /\ Born = "no" /\ ~world.sync THEN Tell(y, size) ELSE y
      /\ HeldBy(x, "drag") /\ size # x.committed =>
           z = IF world.sync THEN carried ELSE Offer(carried, size, x.acked, prompt)
      /\ ~Held(x) /\ size # x.committed =>
           z = IF world.sync THEN New(y, "layout", x.committed, Born)
               ELSE Tell(New(y, "layout", size, Born), size)
  BY <1>0, HoldTyped DEF Swept, Held, Offer
<1>3. Held(x) <=> HeldBy(x, "drag") \/ HeldBy(x, "layout")
  BY HoldTyped
<1>4. x.committed \in Sizes /\ x.acked \in Maybe(Sizes, NoSize)
  BY DEF PaneStates
<1> HIDE DEF y, z
<1>5. y \in PaneStates /\ y.acked = x.acked /\ (Held(y) <=> Held(x))
  BY <1>1 DEF HeldAnew, Held
<1>6. CASE HeldBy(x, "layout")
  <2>1. CASE world.sync
    BY <1>1, <1>2, <1>6, <2>1, HoldTyped DEF HeldAnew, Drawn, HeldForThis, HeldBy, z
  <2>2. CASE ~world.sync
    <3>1. /\ GoesOn(y, z) /\ (Meek(y) => Meek(z))
          /\ Released(y) => z.hold.asked = size
                            /\ (z.told = size \/ (y.hold.asked = size /\ z.told = y.told))
      BY <1>2, <1>3, <1>4, <1>5, <1>6, <2>2, OfferDoes
    <3>2. /\ Drawn(x, z) /\ z.slot = size /\ z.hold.by = "layout" /\ HeldForThis(z)
          /\ Released(z) <=> Released(x)
      BY <1>1, <1>6, <3>1 DEF GoesOn, HeldAnew, Drawn, HeldForThis, HeldBy, Released
    <3>3. Tellable(x) => IsTold(z)
      BY <1>1, <1>3, <1>6, <3>1, <3>2 DEF Tellable, IsTold, Released, HeldAnew
    <3> QED
      BY <3>2, <3>3 DEF IsTold, WillBeTold, HeldBy, z
  <2> QED
    BY <2>1, <2>2
<1>7. CASE ~HeldBy(x, "layout") /\ size = x.committed
  <2>1. CASE prompt /\ Born = "no" /\ ~world.sync
    <3>1. SentOnly(y, z) /\ z.told = size
      BY <1>2, <1>5, <1>7, <2>1, TellDoes
    <3> QED
      BY <1>1, <1>7, <2>1, <3>1
         DEF SentOnly, HeldAnew, Drawn, HeldForThis, HeldBy, Tellable, IsTold, WillBeTold, Meek, Held, z
  <2>2. CASE ~(prompt /\ Born = "no" /\ ~world.sync)
    <3>1. z = y
      BY <1>2, <1>7, <2>2
    <3>2. Drawn(x, z) /\ HeldForThis(z) /\ (HeldBy(z, "drag") => HeldBy(x, "drag") /\ z.hold = x.hold)
      BY <1>1, <1>7, <3>1 DEF HeldAnew, Drawn, HeldForThis, HeldBy
    <3>3. Tellable(x) => WillBeTold(z) /\ (Born = "yes" => IsTold(z))
      BY <1>1, <3>1 DEF HeldAnew, Tellable, IsTold, WillBeTold, Released, Held
    <3> QED
      BY <1>1, <3>1, <3>2, <3>3 DEF z
  <2> QED
    BY <2>1, <2>2
<1>8. CASE HeldBy(x, "drag") /\ size # x.committed
  <2>1. /\ HeldAnew(y, carried) /\ Held(carried) /\ carried.slot = y.slot
        /\ carried.hold.by = "layout" /\ carried.hold.asked = y.hold.asked
        /\ carried.hold.released = Born /\ (Meek(y) => Meek(carried))
    <3>1. y \in PaneStates /\ Held(y)
      BY <1>3, <1>5, <1>8
    <3> QED
      BY <3>1, CarriedDoes
  <2>2. z = IF world.sync THEN carried ELSE Offer(carried, size, x.acked, prompt)
    BY <1>2, <1>8
  <2> HIDE DEF carried
  <2>3. CASE world.sync
    BY <1>1, <2>1, <2>2, <2>3 DEF HeldAnew, Drawn, HeldForThis, HeldBy, z
  <2>4. CASE ~world.sync
    <3>1. /\ GoesOn(carried, z) /\ (Meek(carried) => Meek(z))
          /\ Released(carried) => z.hold.asked = size
                 /\ (z.told = size \/ (carried.hold.asked = size /\ z.told = carried.told))
      <4>1. carried.acked = x.acked /\ carried \in PaneStates
        BY <1>5, <2>1 DEF HeldAnew
      <4> QED
        BY <1>4, <2>1, <2>2, <2>4, <4>1, OfferDoes
    <3>2. /\ Drawn(x, z) /\ z.slot = size /\ z.hold.by = "layout" /\ HeldForThis(z)
          /\ Released(z) <=> Born = "yes"
      BY <1>1, <2>1, <3>1 DEF GoesOn, HeldAnew, Drawn, HeldForThis, HeldBy, Released
    <3>3. Tellable(x) => IsTold(z)
      BY <1>1, <1>3, <1>8, <2>1, <3>1, <3>2 DEF Tellable, IsTold, Released, HeldAnew
    <3> QED
      BY <3>2, <3>3 DEF IsTold, WillBeTold, HeldBy, z
  <2> QED
    BY <2>3, <2>4
<1>9. CASE ~Held(x) /\ size # x.committed
  <2> DEFINE n(asked) == New(y, "layout", asked, Born)
  <2>1. \A asked \in Sizes :
          /\ HeldAnew(y, n(asked)) /\ Held(n(asked)) /\ n(asked).slot = y.slot
          /\ n(asked).hold.by = "layout" /\ n(asked).hold.asked = asked
          /\ n(asked).hold.released = Born /\ (Meek(y) => Meek(n(asked)))
    BY <1>5, NewDoes
  <2>2. z = IF world.sync THEN n(x.committed) ELSE Tell(n(size), size)
    BY <1>2, <1>9
  <2> HIDE DEF n
  <2>3. CASE world.sync
    BY <1>1, <1>4, <2>1, <2>2, <2>3 DEF HeldAnew, Drawn, HeldForThis, HeldBy, z
  <2>4. CASE ~world.sync
    <3>1. SentOnly(n(size), z) /\ z.told = size
      BY <2>1, <2>2, <2>4, TellDoes DEF HeldAnew
    <3> QED
      BY <1>1, <2>1, <3>1
         DEF SentOnly, HeldAnew, Drawn, HeldForThis, HeldBy, Tellable, IsTold, WillBeTold, Meek, Held, z
  <2> QED
    BY <2>3, <2>4
<1> QED
  BY <1>3, <1>6, <1>7, <1>8, <1>9

LEMMA FloatedDoes ==
    ASSUME NEW x \in PaneStates, NEW size \in Sizes, NEW prompt \in BOOLEAN, HeldForThis(x)
    PROVE  LET y == Floated(x, size, prompt)
           IN  /\ Drawn(x, y) /\ y.slot = size /\ HeldBy(y, "drag") /\ Held(y)
               /\ y.hold.released = IF HeldBy(x, "drag") THEN x.hold.released ELSE Born
               /\ IsTold(x) => IsTold(y)
<1> DEFINE y == [x EXCEPT !.slot = size]
           carried == [y EXCEPT !.hold.by = "drag", !.hold.released = Born]
           z == Floated(x, size, prompt)
<1> USE BornIsTyped
<1>1. /\ HeldAnew(x, y) /\ y.slot = size /\ y.hold = x.hold /\ (Meek(x) => Meek(y))
  BY SlotDoes
<1>2. /\ HeldBy(x, "drag") => z = Offer(y, size, x.acked, prompt)
      /\ HeldBy(x, "layout") => z = Offer(carried, size, x.acked, prompt)
      /\ ~Held(x) => z = Tell(New(y, "drag", size, Born), size)
  BY HoldTyped DEF Floated
<1>3. /\ Held(x) <=> HeldBy(x, "drag") \/ HeldBy(x, "layout")
      /\ ~(HeldBy(x, "drag") /\ HeldBy(x, "layout"))
  BY HoldTyped
<1>4. x.acked \in Maybe(Sizes, NoSize)
  BY DEF PaneStates
<1> HIDE DEF y, z
<1>5. y \in PaneStates /\ y.acked = x.acked /\ (Held(y) <=> Held(x))
  BY <1>1 DEF HeldAnew, Held
<1>6. CASE HeldBy(x, "drag")
  <2>1. /\ GoesOn(y, z) /\ (Meek(y) => Meek(z))
        /\ Released(y) => z.hold.asked = size
                          /\ (z.told = size \/ (y.hold.asked = size /\ z.told = y.told))
    BY <1>2, <1>3, <1>4, <1>5, <1>6, OfferDoes
  <2>2. Drawn(x, z) /\ z.slot = size /\ HeldBy(z, "drag") /\ Held(z)
        /\ z.hold.released = x.hold.released
    <3>1. Drawn(x, z) /\ z.slot = size
      BY <1>1, <2>1 DEF GoesOn, HeldAnew, Drawn
    <3> QED
      BY <1>1, <1>6, <2>1, <3>1 DEF GoesOn, HeldBy, Held
  <2>3. IsTold(x) => IsTold(z)
    BY <1>1, <1>3, <1>6, <2>1, <2>2 DEF IsTold, Released, HeldAnew
  <2> QED
    BY <1>6, <2>2, <2>3 DEF z
<1>7. CASE HeldBy(x, "layout")
  <2>1. /\ HeldAnew(y, carried) /\ Held(carried) /\ carried.slot = y.slot
        /\ carried.hold.by = "drag" /\ carried.hold.asked = y.hold.asked
        /\ carried.hold.released = Born /\ (Meek(y) => Meek(carried))
    <3>1. y \in PaneStates /\ Held(y)
      BY <1>3, <1>5, <1>7
    <3>2. "drag" \in {"drag", "layout"} /\ Born \in {"no", "yes"}
      BY BornIsTyped
    <3> HIDE DEF y
    <3> QED
      BY <3>1, <3>2, CarriedDoes, Zenon DEF carried
  <2>2. z = Offer(carried, size, x.acked, prompt)
    BY <1>2, <1>7
  <2> HIDE DEF carried
  <2>3. carried.acked = x.acked /\ carried \in PaneStates
    BY <1>5, <2>1 DEF HeldAnew
  <2>4. /\ GoesOn(carried, z) /\ (Meek(carried) => Meek(z))
        /\ Released(carried) => z.hold.asked = size
             /\ (z.told = size \/ (carried.hold.asked = size /\ z.told = carried.told))
    BY <1>4, <2>1, <2>2, <2>3, OfferDoes
  <2>5. Drawn(x, z) /\ z.slot = size /\ HeldBy(z, "drag") /\ Held(z) /\ z.hold.released = Born
    BY <1>1, <2>1, <2>4 DEF GoesOn, HeldAnew, Drawn, HeldBy, Held
  <2>6. x.hold.released = Born
    BY <1>7 DEF HeldForThis
  <2>7. IsTold(x) => IsTold(z)
    BY <1>1, <1>3, <1>7, <2>1, <2>4, <2>5, <2>6 DEF IsTold, Released, HeldAnew
  <2> QED
    BY <1>3, <1>7, <2>5, <2>7 DEF z
<1>8. CASE ~Held(x)
  <2> DEFINE n == New(y, "drag", size, Born)
  <2>1. /\ HeldAnew(y, n) /\ Held(n) /\ n.slot = y.slot
        /\ n.hold.by = "drag" /\ n.hold.asked = size /\ n.hold.released = Born
        /\ Meek(y) => Meek(n)
    BY <1>5, NewDoes
  <2>2. z = Tell(n, size)
    BY <1>2, <1>8
  <2> HIDE DEF n
  <2>3. SentOnly(n, z) /\ z.told = size
    BY <2>1, <2>2, TellDoes DEF HeldAnew
  <2> QED
    BY <1>1, <1>3, <1>8, <2>1, <2>3
       DEF SentOnly, HeldAnew, Drawn, HeldBy, IsTold, Meek, Held, z
<1> QED
  BY <1>3, <1>6, <1>7, <1>8

\* The layout's answer, and the window's own when it has none.
LEMMA DecidedDoes ==
    ASSUME TypeOK, pending # NoRequest, NEW placed \in SUBSET alive,
           NEW places \in [placed -> Sizes], NEW claimed \in BOOLEAN, NEW prompt, NEW p \in Panes
    PROVE  LET x == pane[p]
               y == Decided(places, claimed, prompt)[p]
           IN  /\ Drawn(x, y) /\ HeldForThis(y)
               /\ HeldBy(y, "drag") =>
                    \/ /\ HeldBy(x, "drag") /\ y.hold.released = x.hold.released
                       /\ claimed \/ pending.pane \notin alive \/ p = pending.pane
                    \/ /\ y.hold.released = Born
                       /\ p = pending.pane /\ pending.pane \in alive /\ ~claimed
               /\ /\ ~world.sync /\ Tellable(x)
                  /\ Born = "no" /\ p = pending.pane /\ HeldBy(x, "drag") => ~Released(x)
                  => WillBeTold(y)
<1> DEFINE x == pane[p]
           armed == Armed(x)
           swept == IF p \in placed THEN Swept(armed, places[p], p \in prompt) ELSE armed
           y == Decided(places, claimed, prompt)[p]
           P == pending.pane
           own == p = P /\ P \in alive /\ ~claimed
<1>0. PICK prompted \in BOOLEAN : prompted <=> p \in prompt
  OBVIOUS
<1>1. x \in PaneStates /\ pending \in Requests /\ pending.wanted \in Sizes /\ P \in Panes
  BY DEF TypeOK, Requests, Maybe
<1>2. /\ own => y = Floated(swept, pending.wanted, p \in prompt)
      /\ ~own => y \in {swept, Landed(swept)}
      /\ ~own /\ HeldBy(swept, "drag") /\ ~(claimed \/ P \notin alive \/ p = P) => y = Landed(swept)
  BY DEF Decided
<1>3. /\ Drawn(x, armed) /\ HeldForThis(armed) /\ (Tellable(x) => Tellable(armed))
      /\ HeldBy(armed, "drag") => armed = x
  BY <1>1, ArmedDoes
<1>4. armed \in PaneStates /\ world.sync \in BOOLEAN
  BY <1>3, WorldTyped DEF Drawn
<1> HIDE DEF x, y, armed, P
<1>5. /\ Drawn(armed, swept) /\ HeldForThis(swept)
      /\ HeldBy(swept, "drag") => HeldBy(armed, "drag") /\ swept.hold = armed.hold
      /\ ~world.sync /\ Tellable(armed) => WillBeTold(swept) /\ (Born = "yes" => IsTold(swept))
  <2>1. CASE p \in placed
    <3>1. places[p] \in Sizes
      BY <2>1
    <3>2. swept = Swept(armed, places[p], p \in prompt)
      BY <2>1
    <3> HIDE DEF swept
    <3> QED
      BY <1>3, <1>4, <3>1, <3>2, SweptDoes
  <2>2. CASE p \notin placed
    BY <1>3, <1>4, <2>2 DEF Drawn, Tellable, IsTold, WillBeTold
  <2> QED
    BY <2>1, <2>2
<1> HIDE DEF swept
<1>6. Drawn(x, swept) /\ swept \in PaneStates
  BY <1>3, <1>5 DEF Drawn
<1>7. HeldBy(swept, "drag") => HeldBy(x, "drag") /\ swept.hold = x.hold
  BY <1>3, <1>5
<1>8. CASE own
  <2>1. /\ Drawn(swept, y) /\ HeldBy(y, "drag") /\ Held(y)
        /\ y.hold.released = IF HeldBy(swept, "drag") THEN swept.hold.released ELSE Born
        /\ IsTold(swept) => IsTold(y)
    <3>1. y = Floated(swept, pending.wanted, prompted)
      BY <1>0, <1>2, <1>8 DEF Floated, Offer
    <3> HIDE DEF own
    <3> QED
      BY <1>0, <1>1, <1>5, <1>6, <1>8, <3>1, FloatedDoes
  <2>2. Drawn(x, y) /\ HeldForThis(y)
    BY <1>6, <2>1, HoldTyped DEF Drawn, HeldForThis
  <2>3. ASSUME ~world.sync, Tellable(x),
               Born = "no" /\ p = P /\ HeldBy(x, "drag") => ~Released(x)
        PROVE  WillBeTold(y)
    <3>1. CASE Born = "yes"
      BY <1>3, <1>5, <2>1, <2>3, <3>1 DEF IsTold, WillBeTold
    <3>2. CASE Born = "no"
      BY <1>7, <1>8, <2>1, <2>3, <3>2 DEF WillBeTold, Released
    <3> QED
      BY <3>1, <3>2, BornIsTyped
  <2> QED
    BY <1>7, <1>8, <2>1, <2>2, <2>3 DEF x, y, P
<1>9. CASE ~own
  <2>1. HeldAnew(swept, Landed(swept)) /\ ~Held(Landed(swept)) /\ Landed(swept) \in PaneStates
        /\ (Meek(swept) => Meek(Landed(swept)))
    BY <1>6, LandedDoes DEF HeldAnew
  <2> HIDE DEF own
  <2>2. CASE y = swept
    <3>1. HeldBy(y, "drag") => claimed \/ P \notin alive \/ p = P
      BY <1>2, <1>9, <2>1, <2>2, HoldTyped
    <3> QED
      BY <1>3, <1>5, <1>6, <1>7, <2>2, <3>1 DEF x, y, P
  <2>3. CASE y = Landed(swept)
    <3>1. Drawn(x, y)
      BY <1>6, <2>1, <2>3 DEF Drawn, HeldAnew
    <3>2. ~Held(y) /\ ~HeldBy(y, "drag") /\ ~HeldBy(y, "layout")
      BY <2>1, <2>3, HoldTyped
    <3> QED
      BY <3>1, <3>2 DEF HeldForThis, WillBeTold, x, y, P
  <2> QED
    BY <1>2, <1>9, <2>2, <2>3
<1> QED
  BY <1>8, <1>9

-----------------------------------------------------------------------------
(* The end of a pass.                                                      *)

\* A pane's hold goes on for the same gesture, or ends.
NoNewHold(x, y) ==
    Held(y) => Held(x) /\ y.hold.by = x.hold.by /\ y.hold.released = x.hold.released

\* The client has heard where its slot is.
AtRest(x) == Held(x) /\ Released(x) => x.told = x.hold.asked /\ x.slot = x.hold.asked

LEMMA FlushedDoes ==
    ASSUME NEW panes \in [Panes -> PaneStates], NEW prompted, NEW p \in Panes
    PROVE  LET x == panes[p]
               y == Flushed(panes, prompted)[p]
           IN  /\ Drawn(x, y) /\ NoNewHold(x, y) /\ (Held(x) => Held(y))
               /\ ~world.sync /\ p \in alive /\ WillBeTold(x) => AtRest(y)
<1> DEFINE x == panes[p]
           y == Flushed(panes, prompted)[p]
<1>0. PICK prompt \in BOOLEAN : prompt <=> p \in prompted
  OBVIOUS
<1>1. x \in PaneStates /\ x.slot \in Sizes /\ x.acked \in Maybe(Sizes, NoSize)
  BY DEF PaneStates
<1>2. y = IF p \in alive /\ Held(x) /\ (HeldBy(x, "drag") \/ ~world.sync)
          THEN Offer(x, x.slot, x.acked, prompt) ELSE x
  BY <1>0 DEF Flushed, Held, Offer
<1> HIDE DEF x, y
<1>3. CASE p \in alive /\ Held(x) /\ (HeldBy(x, "drag") \/ ~world.sync)
  <2>1. /\ GoesOn(x, y) /\ (Meek(x) => Meek(y))
        /\ Released(x) => y.hold.asked = x.slot
                          /\ (y.told = x.slot \/ (x.hold.asked = x.slot /\ y.told = x.told))
    BY <1>1, <1>2, <1>3, OfferDoes
  <2>2. WillBeTold(x) => AtRest(y)
    BY <1>3, <2>1 DEF WillBeTold, AtRest, GoesOn, Released
  <2> QED
    BY <1>3, <2>1, <2>2 DEF GoesOn, Drawn, NoNewHold, x, y
<1>4. CASE ~(p \in alive /\ Held(x) /\ (HeldBy(x, "drag") \/ ~world.sync))
  BY <1>1, <1>2, <1>4 DEF Drawn, NoNewHold, AtRest, x, y
<1> QED
  BY <1>3, <1>4

LEMMA LetGoDoes ==
    ASSUME NEW x \in PaneStates
    PROVE  LET y == LetGo(x)
           IN  y \in PaneStates /\ NoNewHold(x, y) /\ y.waits = 0 /\ y.stuck = NoAnswer
<1> DEFINE y == [x EXCEPT !.waits = 0, !.stuck = NoAnswer]
           z == IF x.stuck = NoAnswer THEN y
                ELSE [y EXCEPT !.committed = x.stuck.size, !.acked = x.stuck.to]
<1>1. y \in PaneStates /\ y.hold = x.hold /\ y.waits = 0 /\ y.stuck = NoAnswer
  <2>1. 0 \in 0 .. MaxQueue
    OBVIOUS
  <2> QED
    BY <2>1 DEF PaneStates, Maybe
<1>2. x.stuck # NoAnswer => x.stuck.size \in Sizes /\ x.stuck.to \in Maybe(Sizes, NoSize)
  BY DEF PaneStates, Answers, Maybe
<1>3. LetGo(x) = IF z.hold = NoHold THEN Landed(z) ELSE z
  BY DEF LetGo
<1> HIDE DEF y
<1>4. z \in PaneStates /\ z.hold = x.hold /\ z.waits = 0 /\ z.stuck = NoAnswer
  BY <1>1, <1>2 DEF PaneStates
<1> HIDE DEF z
<1>5. CASE z.hold = NoHold
  <2>1. /\ Landed(z) \in PaneStates /\ ~Held(Landed(z)) /\ Landed(z).waits = 0
        /\ Landed(z).stuck = NoAnswer
    BY <1>4 DEF Landed, PaneStates, Held, Maybe
  <2> QED
    BY <1>3, <1>5, <2>1 DEF NoNewHold
<1> QED
  BY <1>3, <1>4, <1>5 DEF NoNewHold, Held

LEMMA JoinedDoes ==
    ASSUME NEW x \in PaneStates, Held(x)
    PROVE  LET y == Joined(x)
           IN  y \in PaneStates /\ NoNewHold(x, y) /\ y.stuck = x.stuck
<1> DEFINE y == Offer(x, x.slot, NoSize, TRUE)
           waits == IF x.acked # NoSize /\ x.slot # x.told THEN Len(y.asks) ELSE 0
<1>1. GoesOn(x, y)
  <2>1. x.slot \in Sizes /\ NoSize \in Maybe(Sizes, NoSize)
    BY DEF PaneStates, Maybe
  <2> QED
    BY <2>1, OfferDoes
<1>2. Joined(x) = [y EXCEPT !.waits = waits]
  BY DEF Joined
<1> HIDE DEF y
<1>3. Len(y.asks) \in 0 .. MaxQueue
  <2>1. y.asks \in Seq(Sizes) /\ Len(y.asks) <= MaxQueue
    BY <1>1, AsksAreShort DEF GoesOn, PaneStates
  <2>2. Len(y.asks) \in Nat
    BY <2>1, LenProperties
  <2> QED
    BY <2>1, <2>2
<1>4. waits \in 0 .. MaxQueue
  BY <1>3
<1> HIDE DEF waits
<1> QED
  BY <1>1, <1>2, <1>4 DEF GoesOn, NoNewHold, Held, PaneStates

LEMMA StartRoundDoes ==
    ASSUME NEW panes \in [Panes -> PaneStates], NEW p \in Panes
    PROVE  LET x == panes[p]
               y == StartRound(panes, Moved(panes))[p]
           IN  /\ y \in PaneStates /\ NoNewHold(x, y) /\ y.stuck = x.stuck
               /\ y.waits # 0 => p \in Moved(panes) \/ x.waits # 0
<1> DEFINE x == panes[p]
           y == StartRound(panes, Moved(panes))[p]
<1>1. x \in PaneStates
  OBVIOUS
<1>2. y = IF p \in Moved(panes) THEN Joined(x)
          ELSE IF p \in alive /\ HeldBy(x, "layout") THEN Noted(x, NoSize) ELSE x
  BY DEF StartRound
<1>3. p \in Moved(panes) => HeldBy(x, "layout")
  BY DEF Moved
<1> HIDE DEF x, y
<1>4. CASE p \in Moved(panes)
  BY <1>1, <1>2, <1>3, <1>4, HoldTyped, JoinedDoes DEF x, y
<1>5. CASE p \notin Moved(panes) /\ p \in alive /\ HeldBy(x, "layout")
  <2>1. GoesOn(x, y) /\ Held(x)
    <3>1. Held(x) /\ NoSize \in Maybe(Sizes, NoSize)
      BY <1>1, <1>5, HoldTyped DEF Maybe
    <3>2. y = Noted(x, NoSize)
      BY <1>2, <1>5
    <3> QED
      BY <1>1, <3>1, <3>2, NotedDoes
  <2> QED
    BY <2>1 DEF GoesOn, NoNewHold, x, y
<1>6. CASE p \notin Moved(panes) /\ ~(p \in alive /\ HeldBy(x, "layout"))
  BY <1>1, <1>2, <1>6 DEF NoNewHold, x, y
<1> QED
  BY <1>4, <1>5, <1>6

LEMMA FinishedDoes ==
    ASSUME NEW x \in PaneStates, NEW p \in Panes, NEW members
    PROVE  LET y == Finished(p, x, members)
           IN  Drawn(x, y) /\ NoNewHold(x, y) /\ (AtRest(x) => AtRest(y))
<1> DEFINE y == Finished(p, x, members)
<1>1. y \in {x, Landed(x)} \/ (Held(x) /\ y = Settled(x))
  BY DEF Finished, Held
<1> HIDE DEF y
<1>2. CASE y = x
  BY <1>2 DEF Drawn, NoNewHold, y
<1>3. CASE y = Landed(x)
  <2>1. HeldAnew(x, y) /\ ~Held(y) /\ (Meek(x) => Meek(y))
    BY <1>3, LandedDoes
  <2> QED
    BY <2>1 DEF HeldAnew, Drawn, NoNewHold, AtRest, y
<1>4. CASE Held(x) /\ y = Settled(x)
  <2>1. Ending(x, y) /\ (Meek(x) => Meek(y))
    BY <1>4, SettledDoes
  <2> QED
    BY <1>4, <2>1 DEF Ending, GoesOn, HeldAnew, Drawn, NoNewHold, AtRest, Released, y
<1> QED
  BY <1>1, <1>2, <1>3, <1>4

\* The pass from what was decided on.  A round starts when none is under way.
LEMMA SettleDoes ==
    ASSUME TypeOK, RoundsAreWhole, NEW panes \in [Panes -> PaneStates], NEW prompted,
           Settle(panes, prompted), world' = world,
           \A p \in Panes : panes[p].waits # 0 \/ panes[p].stuck # NoAnswer => p \in round.members
    PROVE  /\ pane' \in [Panes -> PaneStates] /\ round' \in [members : SUBSET Panes, late : BOOLEAN]
           /\ \A p \in Panes : NoNewHold(panes[p], pane'[p])
           /\ RoundsAreWhole'
           /\ ~world.sync => \A p \in Panes :
                /\ Meek(panes[p]) => Meek(pane'[p])
                /\ p \in alive /\ WillBeTold(panes[p]) => AtRest(pane'[p])
           /\ \A p, q \in Panes :
                panes[p].stuck # NoAnswer /\ pane'[p].stuck = NoAnswer /\ q \in round.members =>
                  /\ pane'[q].stuck = NoAnswer
                  /\ panes[q].waits # 0 /\ HeldBy(pane'[q], "layout") => round.late
<1> DEFINE flushed == Flushed(panes, prompted)
           over == RoundOver(flushed)
           let == IF over THEN EndRound(flushed) ELSE flushed
           starts == world.sync /\ (round.members = {} \/ over)
           moved == Moved(let)
           told == IF starts THEN StartRound(let, moved) ELSE let
           members == IF ~starts THEN round.members
                      ELSE IF \E p \in Panes : told[p].waits # 0 THEN moved ELSE {}
<1>1. /\ pane' = [p \in Panes |-> Finished(p, told[p], members)]
      /\ round' = [members |-> members, late |-> ~starts /\ round.late]
  <2> DEFINE AfterStart(l, t) ==
               LET m == IF ~starts THEN round.members
                        ELSE IF \E p \in Panes : t[p].waits # 0 THEN Moved(l) ELSE {}
               IN  /\ pane' = [p \in Panes |-> Finished(p, t[p], m)]
                   /\ round' = [members |-> m, late |-> ~starts /\ round.late]
             AfterEnd(f, l) ==
               LET s == world.sync /\ (round.members = {} \/ RoundOver(f))
               IN  \E t \in {IF s THEN StartRound(l, Moved(l)) ELSE l} :
                   LET m == IF ~s THEN round.members
                            ELSE IF \E p \in Panes : t[p].waits # 0 THEN Moved(l) ELSE {}
                   IN  /\ pane' = [p \in Panes |-> Finished(p, t[p], m)]
                       /\ round' = [members |-> m, late |-> ~s /\ round.late]
             AfterFlush(f) == \E l \in {IF RoundOver(f) THEN EndRound(f) ELSE f} : AfterEnd(f, l)
  <2>1. \E f \in {flushed} : AfterFlush(f)
    BY DEF Settle
  <2>2. AfterFlush(flushed)
    <3> HIDE DEF AfterFlush
    <3> QED
      BY <2>1
  <2>3. AfterEnd(flushed, let)
    <3>1. \E l \in {let} : AfterEnd(flushed, l)
      BY <2>2
    <3> HIDE DEF AfterEnd
    <3> QED
      BY <3>1
  <2>4. AfterStart(let, told)
    <3>1. \E t \in {told} : AfterStart(let, t)
      BY <2>3
    <3> HIDE DEF AfterStart
    <3> QED
      BY <3>1
  <2> QED
    BY <2>4
<1>2. ASSUME NEW p \in Panes
      PROVE  /\ Drawn(panes[p], flushed[p]) /\ NoNewHold(panes[p], flushed[p])
             /\ ~world.sync /\ p \in alive /\ WillBeTold(panes[p]) => AtRest(flushed[p])
  BY FlushedDoes
<1> HIDE DEF flushed, members
<1>3. round.members \in SUBSET Panes /\ round.late \in BOOLEAN /\ world.sync \in BOOLEAN
  BY WorldTyped DEF TypeOK
<1>4. moved \in SUBSET Panes
  BY DEF Moved, TypeOK
<1>5. members \in SUBSET Panes
  BY <1>3, <1>4 DEF members
<1>6. ASSUME NEW p \in Panes
      PROVE  IF over /\ p \in round.members
             THEN /\ let[p] \in PaneStates /\ NoNewHold(flushed[p], let[p])
                  /\ let[p].waits = 0 /\ let[p].stuck = NoAnswer
             ELSE let[p] = flushed[p] /\ let[p] \in PaneStates
  <2>1. flushed[p] \in PaneStates
    BY <1>2 DEF Drawn
  <2>2. let[p] = IF over /\ p \in round.members THEN LetGo(flushed[p]) ELSE flushed[p]
    BY DEF EndRound
  <2> HIDE DEF let, over
  <2> QED
    BY <2>1, <2>2, LetGoDoes
<1>7. let \in [Panes -> PaneStates]
  <2>1. let \in {flushed, [p \in Panes |-> IF p \in round.members THEN LetGo(flushed[p])
                                           ELSE flushed[p]]}
    BY DEF EndRound
  <2>2. flushed = [p \in Panes |-> flushed[p]]
    BY DEF flushed, Flushed
  <2> HIDE DEF let, over
  <2> QED
    BY <1>6, <2>1, <2>2
<1> HIDE DEF let, over
<1>8. ASSUME NEW p \in Panes
      PROVE  /\ told[p] \in PaneStates /\ NoNewHold(let[p], told[p])
             /\ told[p].stuck = let[p].stuck
             /\ told[p].waits # 0 => let[p].waits # 0 \/ (starts /\ p \in moved)
             /\ ~starts => told[p] = let[p]
  <2>1. CASE starts
    BY <1>7, <2>1, StartRoundDoes
  <2>2. CASE ~starts
    BY <1>7, <2>2 DEF NoNewHold
  <2> QED
    BY <2>1, <2>2
<1> HIDE DEF told, moved
<1>9. ASSUME NEW p \in Panes
      PROVE  /\ Drawn(told[p], pane'[p]) /\ NoNewHold(told[p], pane'[p])
             /\ AtRest(told[p]) => AtRest(pane'[p])
  BY <1>1, <1>8, FinishedDoes
<1> HIDE DEF starts
<1>10. pane' \in [Panes -> PaneStates]
  BY <1>1, <1>9 DEF Drawn
<1>11. \A p \in Panes : NoNewHold(panes[p], pane'[p])
  BY <1>2, <1>6, <1>8, <1>9 DEF NoNewHold
<1>12. round' \in [members : SUBSET Panes, late : BOOLEAN]
       /\ round'.members = members
  <2>1. (~starts /\ round.late) \in BOOLEAN
    OBVIOUS
  <2> QED
    BY <1>1, <1>5, <2>1
<1>13. RoundsAreWhole'
  <2>1. ASSUME NEW p \in Panes, pane'[p].waits # 0 \/ pane'[p].stuck # NoAnswer
        PROVE  p \in members
    <3>1. told[p].waits # 0 \/ told[p].stuck # NoAnswer
      BY <1>9, <2>1 DEF Drawn
    <3>2. let[p].waits # 0 \/ let[p].stuck # NoAnswer => p \in round.members /\ ~over
      <4>1. flushed[p].waits # 0 \/ flushed[p].stuck # NoAnswer => p \in round.members
        BY <1>2 DEF Drawn
      <4> QED
        BY <1>6, <4>1
    <3>3. CASE starts
      <4>1. ~(let[p].waits # 0 \/ let[p].stuck # NoAnswer)
        BY <3>2, <3>3 DEF starts
      <4> QED
        BY <1>8, <3>1, <3>3, <4>1 DEF members
    <3>4. CASE ~starts
      BY <1>8, <3>1, <3>2, <3>4 DEF members
    <3> QED
      BY <3>3, <3>4
  <2>2. ~world.sync => members = {}
    BY DEF RoundsAreWhole, members, starts
  <2> QED
    BY <1>12, <2>1, <2>2 DEF RoundsAreWhole
<1>14. ASSUME ~world.sync, NEW p \in Panes
       PROVE  /\ Meek(panes[p]) => Meek(pane'[p])
              /\ p \in alive /\ WillBeTold(panes[p]) => AtRest(pane'[p])
  <2>1. ~over /\ ~starts
    BY <1>14 DEF RoundsAreWhole, over, RoundOver, starts
  <2>2. told[p] = flushed[p]
    BY <1>6, <1>8, <2>1
  <2> QED
    BY <1>2, <1>9, <1>14, <2>2 DEF Drawn
<1>15. ASSUME NEW p \in Panes, NEW q \in Panes, panes[p].stuck # NoAnswer,
              pane'[p].stuck = NoAnswer, q \in round.members
       PROVE  /\ pane'[q].stuck = NoAnswer
              /\ panes[q].waits # 0 /\ HeldBy(pane'[q], "layout") => round.late
  <2>1. flushed[p].stuck # NoAnswer /\ let[p].stuck = NoAnswer
    BY <1>2, <1>8, <1>9, <1>15 DEF Drawn
  <2>2. over
    BY <1>6, <2>1
  <2>3. pane'[q].stuck = NoAnswer
    BY <1>6, <1>8, <1>9, <1>15, <2>2 DEF Drawn
  <2>4. ASSUME panes[q].waits # 0, HeldBy(pane'[q], "layout") PROVE round.late
    <3>1. flushed[q].waits # 0
      BY <1>2, <2>4 DEF Drawn
    <3>2. NoNewHold(flushed[q], pane'[q])
      BY <1>6, <1>8, <1>9 DEF NoNewHold
    <3>3. HeldBy(flushed[q], "layout")
      <4>1. pane'[q] \in PaneStates
        BY <1>9 DEF Drawn
      <4> QED
        BY <2>4, <3>2, <4>1 DEF HeldBy, Held, NoNewHold
    <3> QED
      BY <1>15, <2>2, <3>1, <3>3 DEF over, RoundOver
  <2> QED
    BY <2>3, <2>4
<1> QED
  BY <1>10, <1>11, <1>12, <1>13, <1>14, <1>15

-----------------------------------------------------------------------------
(* The invariant, step by step.                                            *)

\* What the layout and the window decide of the request, for all panes.
Deciding(panes) ==
    /\ panes \in [Panes -> PaneStates]
    /\ \A p, q \in Panes : HeldBy(panes[p], "drag") /\ HeldBy(panes[q], "drag") => p = q
    /\ \A p \in Panes : Drawn(pane[p], panes[p])
    /\ \A p \in alive :
         Held(panes[p]) /\ ~Released(panes[p]) =>
           /\ dragging # NoPane
           /\ panes[p].hold.by = "drag" => dragging = p
           /\ panes[p].hold.by = "layout" =>
                dragging = IF pending = NoRequest THEN bridge ELSE pending.pane
    /\ \A p \in alive : dragging = p /\ HeldBy(panes[p], "drag") => ~Released(panes[p])
    /\ ~world.sync => \A p \in alive \ world.placed : WillBeTold(panes[p])

LEMMA RequestDecides ==
    ASSUME IInv, pending # NoRequest, NEW placed \in SUBSET alive,
           NEW places \in [placed -> Sizes], NEW claimed \in BOOLEAN, NEW prompt
    PROVE  Deciding(Decided(places, claimed, prompt))
<1> DEFINE d == Decided(places, claimed, prompt)
<1>1. /\ TypeOK /\ RequestIsOfTheDrag /\ NoHoldOutlivesItsDrag /\ DragHoldIsFresh
      /\ ReleasedIsTold
  BY DEF IInv
<1>2. ASSUME NEW p \in Panes
      PROVE  /\ Drawn(pane[p], d[p]) /\ HeldForThis(d[p])
             /\ HeldBy(d[p], "drag") =>
                  \/ /\ HeldBy(pane[p], "drag") /\ d[p].hold.released = pane[p].hold.released
                     /\ claimed \/ pending.pane \notin alive \/ p = pending.pane
                  \/ /\ d[p].hold.released = Born
                     /\ p = pending.pane /\ pending.pane \in alive /\ ~claimed
             /\ /\ ~world.sync /\ Tellable(pane[p])
                /\ Born = "no" /\ p = pending.pane /\ HeldBy(pane[p], "drag") => ~Released(pane[p])
                => WillBeTold(d[p])
  BY <1>1, DecidedDoes
<1>3. d = [p \in Panes |-> d[p]]
  BY DEF Decided
<1> HIDE DEF d
<1>4. d \in [Panes -> PaneStates]
  BY <1>2, <1>3 DEF Drawn
<1>5. pending.pane \in Panes /\ alive \in SUBSET Panes
  BY <1>1 DEF TypeOK, Requests, Maybe
<1>6. /\ Born = "no" => dragging = pending.pane
      /\ Born = "yes" => dragging = NoPane /\ ended = pending.pane
  BY <1>1, <1>5 DEF RequestIsOfTheDrag, Born
<1>7. \A p, q \in Panes : HeldBy(d[p], "drag") /\ HeldBy(d[q], "drag") => p = q
  <2>1. \A p, q \in Panes : HeldBy(pane[p], "drag") /\ HeldBy(pane[q], "drag") => p = q
    BY <1>1 DEF TypeOK
  <2> QED
    BY <1>2, <2>1
<1>8. ASSUME NEW p \in alive, Held(d[p]), ~Released(d[p])
      PROVE  /\ dragging # NoPane /\ (d[p].hold.by = "drag" => dragging = p)
             /\ d[p].hold.by = "layout" => dragging = pending.pane
  <2>1. HeldBy(d[p], "drag") \/ HeldBy(d[p], "layout")
    BY <1>4, <1>5, <1>8, HoldTyped
  <2>2. CASE HeldBy(d[p], "layout")
    <3>1. Born = "no"
      BY <1>2, <1>5, <1>8, <2>2 DEF HeldForThis, Released
    <3> QED
      BY <1>5, <1>6, <2>2, <3>1 DEF HeldBy
  <2>3. CASE HeldBy(d[p], "drag")
    <3>1. CASE HeldBy(pane[p], "drag") /\ d[p].hold.released = pane[p].hold.released
      BY <1>1, <1>5, <1>8, <2>3, <3>1 DEF NoHoldOutlivesItsDrag, HeldBy, Released
    <3>2. CASE d[p].hold.released = Born /\ p = pending.pane
      BY <1>5, <1>6, <1>8, <2>3, <3>2 DEF HeldBy, Released
    <3> QED
      BY <1>2, <1>5, <2>3, <3>1, <3>2
  <2> QED
    BY <2>1, <2>2, <2>3
<1>9. ASSUME NEW p \in alive, dragging = p, HeldBy(d[p], "drag") PROVE ~Released(d[p])
  <2>1. CASE HeldBy(pane[p], "drag") /\ d[p].hold.released = pane[p].hold.released
    BY <1>1, <1>9, <2>1 DEF DragHoldIsFresh, Released
  <2>2. CASE d[p].hold.released = Born
    BY <1>5, <1>6, <1>9, <2>2, BornIsTyped DEF Released
  <2> QED
    BY <1>2, <1>5, <1>9, <2>1, <2>2
<1>10. ASSUME ~world.sync, NEW p \in alive \ world.placed PROVE WillBeTold(d[p])
  <2>1. Tellable(pane[p])
    BY <1>1, <1>6, <1>10 DEF Tellable, IsTold, ReleasedIsTold, NoHoldOutlivesItsDrag,
       Held, Released
  <2>2. Born = "no" /\ p = pending.pane /\ HeldBy(pane[p], "drag") => ~Released(pane[p])
    BY <1>1, <1>6, <1>10 DEF DragHoldIsFresh
  <2> QED
    BY <1>2, <1>5, <1>10, <2>1, <2>2
<1> QED
  BY <1>2, <1>4, <1>7, <1>8, <1>9, <1>10 DEF Deciding, d

LEMMA NothingDecided ==
    ASSUME IInv, pending = NoRequest, NEW places, NEW claimed, NEW prompt
    PROVE  Deciding(Decided(places, claimed, prompt))
<1>1. /\ TypeOK /\ NoHoldOutlivesItsDrag /\ DragHoldIsFresh /\ ReleasedIsTold
  BY DEF IInv
<1>2. Decided(places, claimed, prompt) = pane
  BY <1>1 DEF Decided, TypeOK
<1>3. \A p \in Panes : Drawn(pane[p], pane[p])
  BY <1>1 DEF Drawn, TypeOK
<1>4. ~world.sync => \A p \in alive \ world.placed : WillBeTold(pane[p])
  BY <1>1 DEF ReleasedIsTold, WillBeTold
<1> QED
  BY <1>1, <1>2, <1>3, <1>4 DEF Deciding, NoHoldOutlivesItsDrag, DragHoldIsFresh, TypeOK,
     Held, Released

LEMMA PassKeeps ==
    ASSUME IInv, Pass PROVE IInv' /\ (\A p, q \in Panes :
      pane[p].stuck # NoAnswer /\ pane'[p].stuck = NoAnswer /\ q \in round.members =>
        /\ pane'[q].stuck = NoAnswer
        /\ pane[q].waits # 0 /\ HeldBy(pane'[q], "layout") => round.late)
<1>1. /\ TypeOK /\ RequestIsOfTheDrag /\ RoundsAreWhole /\ ObedientDrawsWhatItAcks
  BY DEF IInv
<1>2. /\ pending' = NoRequest /\ alive' = alive /\ dragging' = dragging /\ world' = world
      /\ changes' \in Nat
  BY <1>1 DEF Pass, TypeOK
<1>3. PICK panes, prompted :
        /\ Deciding(panes) /\ Settle(panes, prompted)
        /\ bridge' = IF \A p \in Panes : ~HeldBy(pane'[p], "layout") THEN NoPane
                     ELSE IF pending = NoRequest THEN bridge ELSE pending.pane
        /\ ended' \in {NoPane, ended}
  <2>1. CASE pending = NoRequest
    <3>1. PICK prompt : Turn(<<>>, FALSE, prompt)
      BY <2>1 DEF Pass
    <3> QED
      BY <2>1, <3>1, NothingDecided DEF Turn
  <2>2. CASE pending # NoRequest
    <3>1. PICK placed \in SUBSET alive, claimed \in BOOLEAN :
            \E places \in [placed -> Sizes], prompt \in SUBSET (placed \cup {p \in alive : pane[p].hold # NoHold}) :
              Turn(places, claimed, prompt)
      BY <2>2 DEF Pass
    <3>2. PICK places \in [placed -> Sizes] : \E prompt : Turn(places, claimed, prompt)
      BY <3>1
    <3>3. PICK prompt : Turn(places, claimed, prompt)
      BY <3>2
    <3> QED
      BY <2>2, <3>3, RequestDecides DEF Turn
  <2> QED
    BY <2>1, <2>2
<1>4. /\ panes \in [Panes -> PaneStates] /\ \A p \in Panes : Drawn(pane[p], panes[p])
  BY <1>3 DEF Deciding
<1>5. \A p \in Panes : panes[p].waits # 0 \/ panes[p].stuck # NoAnswer => p \in round.members
  BY <1>1, <1>4 DEF Drawn, RoundsAreWhole
<1>6. /\ pane' \in [Panes -> PaneStates] /\ round' \in [members : SUBSET Panes, late : BOOLEAN]
      /\ \A p \in Panes : NoNewHold(panes[p], pane'[p])
      /\ RoundsAreWhole'
      /\ ~world.sync => \A p \in Panes :
           /\ Meek(panes[p]) => Meek(pane'[p])
           /\ p \in alive /\ WillBeTold(panes[p]) => AtRest(pane'[p])
      /\ \A p, q \in Panes :
           panes[p].stuck # NoAnswer /\ pane'[p].stuck = NoAnswer /\ q \in round.members =>
             /\ pane'[q].stuck = NoAnswer
             /\ panes[q].waits # 0 /\ HeldBy(pane'[q], "layout") => round.late
  BY <1>1, <1>2, <1>3, <1>4, <1>5, SettleDoes
<1>7. alive \in SUBSET Panes /\ (pending # NoRequest => pending.pane \in Panes)
  BY <1>1 DEF TypeOK, Requests, Maybe
<1>8. TypeOK'
  <2>1. bridge' \in Maybe(Panes, NoPane) /\ ended' \in Maybe(Panes, NoPane)
    BY <1>1, <1>3, <1>7 DEF TypeOK, Maybe
  <2>2. ASSUME NEW p \in Panes, NEW q \in Panes, HeldBy(pane'[p], "drag"), HeldBy(pane'[q], "drag")
        PROVE  p = q
    <3>1. HeldBy(panes[p], "drag") /\ HeldBy(panes[q], "drag")
      BY <1>6, <2>2 DEF NoNewHold, HeldBy, Held
    <3> QED
      BY <1>3, <3>1 DEF Deciding
  <2> QED
    BY <1>1, <1>2, <1>6, <2>1, <2>2 DEF TypeOK, Maybe
<1>9. RequestIsOfTheDrag'
  BY <1>1, <1>2, <1>3 DEF RequestIsOfTheDrag
<1>10. NoHoldOutlivesItsDrag'
  <2>1. ASSUME NEW p \in alive, Held(pane'[p]), ~Released(pane'[p])
        PROVE  /\ dragging # NoPane
               /\ dragging = IF pane'[p].hold.by = "drag" THEN p ELSE bridge'
    <3>1. Held(panes[p]) /\ ~Released(panes[p]) /\ pane'[p].hold.by = panes[p].hold.by
      BY <1>6, <1>7, <2>1 DEF NoNewHold, Released
    <3>2. /\ dragging # NoPane
          /\ panes[p].hold.by = "drag" => dragging = p
          /\ panes[p].hold.by = "layout" =>
               dragging = IF pending = NoRequest THEN bridge ELSE pending.pane
      BY <1>3, <3>1 DEF Deciding
    <3>3. HeldBy(pane'[p], "drag") \/ HeldBy(pane'[p], "layout")
      BY <1>6, <1>7, <2>1, HoldTyped
    <3> QED
      BY <1>3, <1>7, <3>1, <3>2, <3>3 DEF HeldBy
  <2> QED
    BY <1>2, <2>1 DEF NoHoldOutlivesItsDrag, Held, Released
<1>11. DragHoldIsFresh'
  <2>1. ASSUME NEW p \in alive, dragging = p, HeldBy(pane'[p], "drag") PROVE ~Released(pane'[p])
    <3>1. HeldBy(panes[p], "drag") /\ pane'[p].hold.released = panes[p].hold.released
      BY <1>6, <1>7, <2>1 DEF NoNewHold, HeldBy, Held
    <3> QED
      BY <1>3, <2>1, <3>1 DEF Deciding, Released
  <2> QED
    BY <1>2, <2>1 DEF DragHoldIsFresh, Released
<1>12. ObedientDrawsWhatItAcks'
  <2>1. ASSUME ~world.sync, NEW p \in Panes, Obedient(p) PROVE Meek(pane'[p])
    <3>1. Meek(panes[p])
      BY <1>1, <1>4, <2>1 DEF ObedientDrawsWhatItAcks, Meek, Drawn
    <3> QED
      BY <1>6, <2>1, <3>1
  <2> QED
    BY <1>2, <2>1 DEF ObedientDrawsWhatItAcks, Obedient, Meek, Held
<1>13. ReleasedIsTold'
  <2>1. ASSUME ~world.sync, NEW p \in alive \ world.placed PROVE AtRest(pane'[p])
    BY <1>3, <1>6, <1>7, <2>1 DEF Deciding
  <2> QED
    BY <1>2, <2>1 DEF ReleasedIsTold, AtRest, Held, Released
<1>14. ASSUME NEW p \in Panes, NEW q \in Panes,
              pane[p].stuck # NoAnswer, pane'[p].stuck = NoAnswer, q \in round.members
       PROVE  /\ pane'[q].stuck = NoAnswer
              /\ pane[q].waits # 0 /\ HeldBy(pane'[q], "layout") => round.late
  BY <1>4, <1>6, <1>14 DEF Drawn
<1> QED
  BY <1>6, <1>8, <1>9, <1>10, <1>11, <1>12, <1>13, <1>14 DEF IInv

\* A step that changes one pane, and begins no hold in it.
LEMMA OnePaneKeeps ==
    ASSUME IInv, NEW p \in Panes, NEW y \in PaneStates,
           LET x == pane[p]
           IN  /\ Held(y) => /\ Held(x) /\ y.hold.by = x.hold.by
                             /\ Released(y) <=> Released(x)
               /\ y.waits # 0 \/ y.stuck # NoAnswer => p \in round.members
               /\ ~world.sync /\ Obedient(p) => Meek(y)
               /\ ~world.sync /\ p \in alive \ world.placed /\ Held(y) =>
                    y.told = x.told /\ y.hold.asked = x.hold.asked /\ y.slot = x.slot,
           pane' = [pane EXCEPT ![p] = y], alive' \subseteq alive, changes' \in Nat,
           UNCHANGED <<dragging, pending, bridge, ended, round, world>>
    PROVE  IInv'
<1>1. /\ TypeOK /\ RequestIsOfTheDrag /\ NoHoldOutlivesItsDrag /\ DragHoldIsFresh
      /\ RoundsAreWhole /\ ObedientDrawsWhatItAcks /\ ReleasedIsTold
  BY DEF IInv
<1>2. \A q \in Panes : pane'[q] = IF q = p THEN y ELSE pane[q]
  BY <1>1 DEF TypeOK
<1>3. ASSUME NEW q \in Panes
      PROVE  Held(pane'[q]) => /\ Held(pane[q]) /\ pane'[q].hold.by = pane[q].hold.by
                               /\ Released(pane'[q]) <=> Released(pane[q])
  BY <1>2
<1>4. alive \subseteq Panes
  BY <1>1 DEF TypeOK
<1>5. TypeOK'
  <2>1. pane' \in [Panes -> PaneStates]
    BY <1>1 DEF TypeOK
  <2>2. ASSUME NEW q \in Panes, NEW r \in Panes, HeldBy(pane'[q], "drag"), HeldBy(pane'[r], "drag")
        PROVE  q = r
    <3>1. HeldBy(pane[q], "drag") /\ HeldBy(pane[r], "drag")
      BY <1>3, <2>2 DEF HeldBy, Held
    <3> QED
      BY <1>1, <3>1 DEF TypeOK
  <2> QED
    BY <1>1, <1>4, <2>1, <2>2 DEF TypeOK
<1>6. RequestIsOfTheDrag'
  BY <1>1 DEF RequestIsOfTheDrag
<1>7. NoHoldOutlivesItsDrag'
  BY <1>1, <1>3, <1>4 DEF NoHoldOutlivesItsDrag, Held, Released
<1>8. DragHoldIsFresh'
  <2>1. ASSUME NEW q \in alive, dragging = q, HeldBy(pane'[q], "drag") PROVE ~Released(pane'[q])
    BY <1>1, <1>3, <1>4, <2>1 DEF DragHoldIsFresh, HeldBy, Held
  <2> QED
    BY <2>1 DEF DragHoldIsFresh, Released
<1>9. RoundsAreWhole'
  BY <1>1, <1>2 DEF RoundsAreWhole
<1>10. ObedientDrawsWhatItAcks'
  BY <1>1, <1>2 DEF ObedientDrawsWhatItAcks, Obedient, Meek, Held
<1>11. ReleasedIsTold'
  <2>1. ASSUME ~world.sync, NEW q \in alive \ world.placed, Held(pane'[q]), Released(pane'[q])
        PROVE  /\ pane'[q].told = pane'[q].hold.asked
               /\ \/ pane'[q].slot = pane'[q].hold.asked
                  \/ pending # NoRequest /\ pending.pane = q /\ pane'[q].hold.by = "drag"
    <3>1. /\ Held(pane[q]) /\ Released(pane[q]) /\ pane'[q].hold.by = pane[q].hold.by
          /\ pane'[q].told = pane[q].told /\ pane'[q].hold.asked = pane[q].hold.asked
          /\ pane'[q].slot = pane[q].slot
      BY <1>2, <1>3, <1>4, <2>1
    <3>2. /\ pane[q].told = pane[q].hold.asked
          /\ \/ pane[q].slot = pane[q].hold.asked
             \/ pending # NoRequest /\ pending.pane = q /\ pane[q].hold.by = "drag"
      BY <1>1, <2>1, <3>1 DEF ReleasedIsTold
    <3> QED
      BY <3>1, <3>2
  <2> QED
    BY <2>1 DEF ReleasedIsTold, Held, Released
<1> QED
  BY <1>5, <1>6, <1>7, <1>8, <1>9, <1>10, <1>11 DEF IInv

\* No answer kept back is let go by what happens to one pane.
KeepsBack == \A p \in alive' : pane[p].stuck # NoAnswer => pane'[p].stuck # NoAnswer

LEMMA CommittedDoes ==
    ASSUME NEW x \in PaneStates, NEW size \in Sizes, NEW to \in Maybe(Sizes, NoSize),
           NEW answers \in BOOLEAN
    PROVE  LET y == Committed(x, size, to, answers)
           IN  /\ y \in PaneStates /\ y.hold = x.hold /\ y.told = x.told
               /\ Held(x) => y.slot = x.slot
               /\ y.waits # 0 => x.waits # 0
               /\ y.stuck # NoAnswer <=> answers \/ x.stuck # NoAnswer
               /\ y.stuck = NoAnswer => y.committed = size /\ y.acked = to
<1> DEFINE kept == [x EXCEPT !.stuck = [size |-> size, to |-> to], !.waits = 0]
           shown == [x EXCEPT !.committed = size, !.acked = to,
                              !.slot = IF x.hold = NoHold THEN size ELSE x.slot]
<1>1. Committed(x, size, to, answers) = IF answers \/ x.stuck # NoAnswer THEN kept ELSE shown
  BY DEF Committed
<1>2. /\ kept \in PaneStates /\ kept.hold = x.hold /\ kept.told = x.told
      /\ kept.slot = x.slot /\ kept.waits = 0 /\ kept.stuck # NoAnswer
  <2>1. [size |-> size, to |-> to] \in Answers /\ 0 \in 0 .. MaxQueue
    BY DEF Answers
  <2> QED
    BY <2>1 DEF PaneStates, Maybe
<1>3. /\ shown \in PaneStates /\ shown.hold = x.hold /\ shown.told = x.told
      /\ (Held(x) => shown.slot = x.slot) /\ shown.waits = x.waits /\ shown.stuck = x.stuck
      /\ shown.committed = size /\ shown.acked = to
  BY DEF PaneStates, Held
<1> HIDE DEF kept, shown
<1> QED
  BY <1>1, <1>2, <1>3

LEMMA AnswerKeeps ==
    ASSUME IInv, NEW p \in Panes, NEW i \in 1 .. MaxQueue, NEW size \in Sizes, Answer(p, i, size)
    PROVE  IInv' /\ KeepsBack
<1> DEFINE x == pane[p]
           to == IF x.acked = NoSize THEN NoSize ELSE x.asks[i]
           answers == x.waits # 0 /\ i >= x.waits
           heard == [x EXCEPT !.asks = SubSeq(x.asks, i + 1, Len(x.asks)),
                              !.waits = IF x.waits > i THEN x.waits - i ELSE 0]
           y == Committed(heard, size, to, answers)
<1>1. TypeOK /\ RoundsAreWhole /\ ObedientDrawsWhatItAcks
  BY DEF IInv
<1>2. x \in PaneStates /\ x.asks \in Seq(Sizes) /\ Len(x.asks) <= MaxQueue
      /\ Len(x.asks) \in Nat /\ x.waits \in 0 .. MaxQueue
  BY <1>1, AsksAreShort, LenProperties DEF TypeOK, PaneStates
<1>3. i \in 1 .. Len(x.asks) /\ x.asks[i] \in Sizes /\ size \in {x.asks[i]} \cup world.own[p]
      /\ p \in alive
  BY <1>2, ElementOfSeq DEF Answer
<1>4. /\ pane' = [pane EXCEPT ![p] = y] /\ alive' = alive /\ changes' = changes
      /\ UNCHANGED <<dragging, pending, bridge, ended, round, world>>
  BY <1>1 DEF Answer, TypeOK
<1> HIDE DEF x, y
<1>5. SubSeq(x.asks, i + 1, Len(x.asks)) \in Asks
  <2> DEFINE left == SubSeq(x.asks, i + 1, Len(x.asks))
  <2>1. i + 1 \in Int /\ Len(x.asks) \in Int /\ i \in Nat /\ i >= 1
    BY <1>2, <1>3
  <2>2. \A j \in (i + 1) .. Len(x.asks) : x.asks[j] \in Sizes
    <3>1. \A j \in (i + 1) .. Len(x.asks) : j \in 1 .. Len(x.asks)
      BY <1>2, <1>3
    <3> QED
      BY <1>2, <3>1, ElementOfSeq
  <2>3. left \in Seq(Sizes) /\ Len(left) = IF i + 1 <= Len(x.asks) THEN Len(x.asks) - (i + 1) + 1 ELSE 0
    BY <2>1, <2>2, SubSeqProperties
  <2> HIDE DEF left
  <2>4. Len(left) <= MaxQueue
    BY <1>2, <2>1, <2>3
  <2>5. left \in Asks
    BY <2>3, <2>4, AsksAreShort
  <2> QED
    BY <2>5 DEF left
<1>6. (IF x.waits > i THEN x.waits - i ELSE 0) \in 0 .. MaxQueue
  BY <1>2, <1>3
<1>7. /\ heard \in PaneStates /\ heard.hold = x.hold /\ heard.told = x.told
      /\ heard.slot = x.slot /\ heard.stuck = x.stuck /\ heard.committed = x.committed
      /\ heard.acked = x.acked /\ (heard.waits # 0 => x.waits # 0)
  <2>1. i \in Nat /\ x.waits \in Nat /\ (x.waits = 0 => ~(x.waits > i))
    BY <1>2
  <2> QED
    BY <1>2, <1>5, <1>6, <2>1 DEF PaneStates
<1> HIDE DEF heard
<1>8. to \in Maybe(Sizes, NoSize) /\ answers \in BOOLEAN
  BY <1>3 DEF Maybe
<1>9. /\ y \in PaneStates /\ y.hold = heard.hold /\ y.told = heard.told
      /\ Held(heard) => y.slot = heard.slot
      /\ y.waits # 0 => heard.waits # 0
      /\ y.stuck # NoAnswer <=> answers \/ heard.stuck # NoAnswer
      /\ y.stuck = NoAnswer => y.committed = size /\ y.acked = to
  <2> HIDE DEF to, answers
  <2> QED
    BY <1>7, <1>8, CommittedDoes DEF y
<1>10. y.waits # 0 \/ y.stuck # NoAnswer => p \in round.members
  BY <1>1, <1>7, <1>9 DEF RoundsAreWhole, x
<1>11. ASSUME ~world.sync, Obedient(p) PROVE Meek(y)
  <2>1. x.acked = x.committed /\ (Held(x) => x.hold.declined = NoSize)
    BY <1>1, <1>11 DEF ObedientDrawsWhatItAcks, x
  <2>2. x.acked # NoSize /\ size = x.asks[i]
    BY <1>2, <1>3, <1>11, <2>1 DEF Obedient, PaneStates
  <2>3. y.stuck = NoAnswer
    BY <1>1, <1>10, <1>11 DEF RoundsAreWhole
  <2> QED
    BY <1>7, <1>9, <2>1, <2>2, <2>3 DEF Meek, Held
<1>12. IInv'
  <2>1. /\ Held(y) => /\ Held(x) /\ y.hold.by = x.hold.by /\ (Released(y) <=> Released(x))
                      /\ y.told = x.told /\ y.hold.asked = x.hold.asked /\ y.slot = x.slot
    BY <1>7, <1>9 DEF Held, Released
  <2>2. alive' \subseteq alive /\ changes' \in Nat
    BY <1>1, <1>4 DEF TypeOK
  <2> QED
    BY <1>4, <1>9, <1>10, <1>11, <2>1, <2>2, OnePaneKeeps DEF x
<1>13. KeepsBack
  <2>1. x.stuck # NoAnswer => y.stuck # NoAnswer
    BY <1>7, <1>9
  <2>2. \A q \in Panes : pane'[q] = IF q = p THEN y ELSE pane[q]
    BY <1>1, <1>4 DEF TypeOK
  <2> QED
    BY <1>1, <1>4, <2>1, <2>2 DEF KeepsBack, TypeOK, x
<1> QED
  BY <1>12, <1>13

LEMMA DrawKeeps ==
    ASSUME IInv, NEW p \in Panes, NEW size \in Sizes, Draw(p, size)
    PROVE  IInv' /\ KeepsBack
<1> DEFINE x == pane[p]
           to == IF x.stuck = NoAnswer THEN x.acked ELSE x.stuck.to
           y == Committed(x, size, to, FALSE)
<1>1. TypeOK /\ RoundsAreWhole
  BY DEF IInv
<1>2. /\ pane' = [pane EXCEPT ![p] = y] /\ alive' = alive /\ changes' = changes + 1
      /\ UNCHANGED <<dragging, pending, bridge, ended, round, world>> /\ size \in world.own[p]
  BY DEF Draw
<1>3. x \in PaneStates /\ to \in Maybe(Sizes, NoSize)
  BY <1>1 DEF TypeOK, PaneStates, Answers, Maybe
<1> HIDE DEF x, y, to
<1>4. /\ y \in PaneStates /\ y.hold = x.hold /\ y.told = x.told
      /\ Held(x) => y.slot = x.slot
      /\ y.waits # 0 => x.waits # 0
      /\ y.stuck # NoAnswer <=> FALSE \/ x.stuck # NoAnswer
  BY <1>3, CommittedDoes DEF y
<1>5. y.waits # 0 \/ y.stuck # NoAnswer => p \in round.members
  BY <1>1, <1>4 DEF RoundsAreWhole, x
<1>6. ~Obedient(p)
  BY <1>2 DEF Obedient
<1>7. IInv'
  <2>1. Held(y) => /\ Held(x) /\ y.hold.by = x.hold.by /\ (Released(y) <=> Released(x))
                   /\ y.told = x.told /\ y.hold.asked = x.hold.asked /\ y.slot = x.slot
    BY <1>4 DEF Held, Released
  <2>2. alive' \subseteq alive /\ changes' \in Nat
    BY <1>1, <1>2 DEF TypeOK
  <2> QED
    BY <1>2, <1>4, <1>5, <1>6, <2>1, <2>2, OnePaneKeeps DEF x
<1>8. KeepsBack
  <2>1. \A q \in Panes : pane'[q] = IF q = p THEN y ELSE pane[q]
    BY <1>1, <1>2 DEF TypeOK
  <2> QED
    BY <1>1, <1>2, <1>4, <2>1 DEF KeepsBack, TypeOK, x
<1> QED
  BY <1>7, <1>8

\* A window placed or restyled otherwise is told of it, and what it holds goes on.
LEMMA ElsewhereKeeps ==
    ASSUME IInv, NEW p \in Panes, NEW size \in Sizes, Place(p, size) \/ Restyle(p, size)
    PROVE  IInv' /\ KeepsBack
<1> DEFINE x == pane[p]
           slot == IF x.hold = NoHold THEN x.committed ELSE size
<1>1. TypeOK /\ RoundsAreWhole /\ ObedientDrawsWhatItAcks
  BY DEF IInv
<1>2. x \in PaneStates /\ x.acked \in Maybe(Sizes, NoSize) /\ slot \in Sizes
  BY <1>1 DEF TypeOK, PaneStates
<1> HIDE DEF slot
<1>3. ASSUME NEW z \in PaneStates, HeldAnew(x, z), z.hold = x.hold, Meek(x) => Meek(z), NEW y,
             \/ y = z
             \/ y = Tell(z, size)
             \/ Held(x) /\ y = Offer(z, size, x.acked, TRUE)
      PROVE  /\ Drawn(x, y) /\ (Held(y) => /\ Held(x) /\ y.hold.by = x.hold.by
                                           /\ Released(y) <=> Released(x))
  <2>1. CASE y = z
    BY <1>3, <2>1 DEF HeldAnew, Drawn, Held, Released
  <2>2. CASE y = Tell(z, size)
    <3>1. SentOnly(z, y)
      BY <2>2, TellDoes
    <3> QED
      BY <1>3, <3>1 DEF SentOnly, HeldAnew, Drawn, Held, Released, Meek
  <2>3. CASE Held(x) /\ y = Offer(z, size, x.acked, TRUE)
    <3>1. GoesOn(z, y) /\ (Meek(z) => Meek(y))
      <4>1. Held(z) /\ x.acked = z.acked /\ TRUE \in BOOLEAN
        BY <1>3, <2>3 DEF HeldAnew, Held
      <4> QED
        BY <1>2, <2>3, <4>1, OfferDoes
    <3> QED
      BY <1>3, <2>3, <3>1 DEF GoesOn, HeldAnew, Drawn, Held, Released
  <2> QED
    BY <1>3, <2>1, <2>2, <2>3
<1>4. PICK y : /\ pane' = [pane EXCEPT ![p] = y] /\ Drawn(x, y)
               /\ Held(y) => Held(x) /\ y.hold.by = x.hold.by /\ (Released(y) <=> Released(x))
  <2>1. CASE Place(p, size)
    <3> DEFINE z == [x EXCEPT !.slot = slot]
               y == IF HeldBy(x, "layout") THEN Offer(z, size, x.acked, TRUE)
                    ELSE IF size # x.committed THEN Tell(z, size) ELSE z
    <3>1. pane' = [pane EXCEPT ![p] = y]
      BY <2>1 DEF Place, slot
    <3>2. HeldAnew(x, z) /\ z \in PaneStates /\ z.hold = x.hold /\ (Meek(x) => Meek(z))
      BY <1>2, SlotDoes DEF HeldAnew
    <3>3. y = z \/ y = Tell(z, size) \/ (Held(x) /\ y = Offer(z, size, x.acked, TRUE))
      BY <1>2, HoldTyped
    <3> HIDE DEF y, z, x
    <3> QED
      BY <1>3, <3>1, <3>2, <3>3
  <2>2. CASE Restyle(p, size)
    <3> DEFINE z == [x EXCEPT !.slot = size]
               y == IF x.hold = NoHold THEN Tell(x, size) ELSE Offer(z, size, x.acked, TRUE)
    <3>1. pane' = [pane EXCEPT ![p] = y]
      BY <2>2 DEF Restyle
    <3>2. HeldAnew(x, z) /\ z \in PaneStates /\ z.hold = x.hold /\ (Meek(x) => Meek(z))
      BY <1>2, SlotDoes DEF HeldAnew
    <3>3. HeldAnew(x, x)
      BY <1>2 DEF HeldAnew
    <3>4. y = Tell(x, size) \/ (Held(x) /\ y = Offer(z, size, x.acked, TRUE))
      BY DEF Held
    <3> HIDE DEF y, z, x
    <3> QED
      BY <1>2, <1>3, <3>1, <3>2, <3>3, <3>4
  <2> QED
    BY <2>1, <2>2
<1>5. /\ p \in world.placed /\ alive' = alive /\ changes' = changes + 1
      /\ UNCHANGED <<dragging, pending, bridge, ended, round, world>>
  BY DEF Place, Restyle
<1>6. ~world.sync /\ Obedient(p) => Meek(y)
  BY <1>1, <1>4 DEF ObedientDrawsWhatItAcks, Meek, Drawn
<1>7. y.waits # 0 \/ y.stuck # NoAnswer => p \in round.members
  BY <1>1, <1>4 DEF RoundsAreWhole, Drawn
<1>8. IInv'
  <2>1. alive' \subseteq alive /\ changes' \in Nat /\ y \in PaneStates
    BY <1>1, <1>4, <1>5 DEF TypeOK, Drawn
  <2> QED
    BY <1>4, <1>5, <1>6, <1>7, <2>1, OnePaneKeeps
<1>9. KeepsBack
  <2>1. \A q \in Panes : pane'[q] = IF q = p THEN y ELSE pane[q]
    BY <1>1, <1>4 DEF TypeOK
  <2> QED
    BY <1>1, <1>4, <1>5, <2>1 DEF KeepsBack, TypeOK, Drawn
<1> QED
  BY <1>8, <1>9

LEMMA CloseKeeps == ASSUME IInv, NEW p \in Panes, Close(p) PROVE IInv' /\ KeepsBack
<1> DEFINE y == [pane[p] EXCEPT !.asks = <<>>, !.stuck = NoAnswer]
<1>1. TypeOK /\ RoundsAreWhole /\ ObedientDrawsWhatItAcks
  BY DEF IInv
<1>2. <<>> \in Asks
  <2>1. <<>> \in Seq(Sizes) /\ Len(<<>>) = 0
    BY EmptySeq
  <2>2. 0 <= MaxQueue
    OBVIOUS
  <2> QED
    BY <2>1, <2>2, AsksAreShort
<1>3. /\ y \in PaneStates /\ y.hold = pane[p].hold /\ y.told = pane[p].told
      /\ y.slot = pane[p].slot /\ y.waits = pane[p].waits /\ y.stuck = NoAnswer
      /\ y.committed = pane[p].committed /\ y.acked = pane[p].acked
  <2>1. pane[p] \in PaneStates /\ NoAnswer \in Maybe(Answers, NoAnswer)
    BY <1>1 DEF TypeOK, Maybe
  <2> QED
    BY <1>2, <2>1 DEF PaneStates
<1>4. pane' = [pane EXCEPT ![p] = y] /\ alive' = alive \ {p}
      /\ UNCHANGED <<dragging, pending, bridge, ended, round, world, changes>>
  BY DEF Close
<1> HIDE DEF y
<1>5. IInv'
  <2>1. ~world.sync /\ Obedient(p) => Meek(y)
    BY <1>1, <1>3 DEF ObedientDrawsWhatItAcks, Meek, Held
  <2>2. y.waits # 0 \/ y.stuck # NoAnswer => p \in round.members
    BY <1>1, <1>3 DEF RoundsAreWhole
  <2>3. alive' \subseteq alive /\ changes' \in Nat
    BY <1>1, <1>4 DEF TypeOK
  <2>4. Held(y) => Held(pane[p]) /\ y.hold.by = pane[p].hold.by /\ (Released(y) <=> Released(pane[p]))
    BY <1>3 DEF Held, Released
  <2> QED
    BY <1>3, <1>4, <2>1, <2>2, <2>3, <2>4, OnePaneKeeps
<1>6. KeepsBack
  <2>1. \A q \in Panes : q # p => pane'[q] = pane[q]
    BY <1>1, <1>4 DEF TypeOK
  <2> QED
    BY <1>1, <1>4, <2>1 DEF KeepsBack, TypeOK
<1> QED
  BY <1>5, <1>6

LEMMA PatienceKeeps == ASSUME IInv, NEW p \in Panes, PatienceRuns(p) PROVE IInv' /\ KeepsBack
<1> DEFINE x == pane[p]
           y == Rearmed(x, "late")
<1>1. TypeOK /\ RoundsAreWhole /\ ObedientDrawsWhatItAcks
  BY DEF IInv
<1>2. x \in PaneStates /\ Held(x) /\ x.hold.released = "yes"
  BY <1>1 DEF PatienceRuns, TypeOK, Held
<1>3. pane' = [pane EXCEPT ![p] = y] /\ alive' = alive
      /\ UNCHANGED <<dragging, pending, bridge, ended, round, world, changes>>
  BY DEF PatienceRuns, Rearmed
<1> HIDE DEF y, x
<1>4. /\ HeldAnew(x, y) /\ Held(y) /\ y.slot = x.slot
      /\ y.hold.by = x.hold.by /\ y.hold.asked = x.hold.asked
      /\ y.hold.released = "late" /\ (Meek(x) => Meek(y))
  BY <1>2, RearmedDoes DEF y
<1>5. IInv'
  <2>1. ~world.sync /\ Obedient(p) => Meek(y)
    BY <1>1, <1>4 DEF ObedientDrawsWhatItAcks, Meek, x
  <2>2. y.waits # 0 \/ y.stuck # NoAnswer => p \in round.members
    BY <1>1, <1>4 DEF RoundsAreWhole, HeldAnew, x
  <2>3. alive' \subseteq alive /\ changes' \in Nat
    BY <1>1, <1>3 DEF TypeOK
  <2>4. Released(y) /\ Released(x)
    BY <1>2, <1>4 DEF Released
  <2>5. y \in PaneStates /\ y.told = x.told
    BY <1>4 DEF HeldAnew
  <2> QED
    BY <1>2, <1>3, <1>4, <2>1, <2>2, <2>3, <2>4, <2>5, OnePaneKeeps DEF x
<1>6. KeepsBack
  <2>1. \A q \in Panes : pane'[q] = IF q = p THEN y ELSE pane[q]
    BY <1>1, <1>3 DEF TypeOK
  <2> QED
    BY <1>1, <1>3, <1>4, <2>1 DEF KeepsBack, TypeOK, HeldAnew, x
<1> QED
  BY <1>5, <1>6

LEMMA RoundLateKeeps == ASSUME IInv, RoundLate PROVE IInv' /\ KeepsBack
<1>1. /\ UNCHANGED <<alive, pane, dragging, pending, bridge, ended, world, changes>>
      /\ round' \in [members : SUBSET Panes, late : BOOLEAN] /\ round'.members = round.members
  BY DEF IInv, TypeOK, RoundLate
<1>2. TypeOK' /\ RoundsAreWhole'
  BY <1>1 DEF IInv, TypeOK, RoundsAreWhole
<1> QED
  BY <1>1, <1>2 DEF IInv, RequestIsOfTheDrag, NoHoldOutlivesItsDrag, DragHoldIsFresh,
     ObedientDrawsWhatItAcks, Obedient, ReleasedIsTold, KeepsBack

\* A drag begins when none is under way: what it finds held is released, and is
\* its own at once or not at all.
LEMMA BeginKeeps == ASSUME IInv, NEW p \in Panes, Begin(p) PROVE IInv' /\ KeepsBack
<1>1. /\ TypeOK /\ NoHoldOutlivesItsDrag /\ RoundsAreWhole
      /\ ObedientDrawsWhatItAcks /\ ReleasedIsTold
  BY DEF IInv
<1>2. /\ pending = NoRequest /\ dragging = NoPane /\ p \in alive
      /\ pane' = [q \in Panes |->
           IF q = p /\ HeldBy(pane[q], "drag") THEN Landed(pane[q])
           ELSE IF bridge = p /\ HeldBy(pane[q], "layout") THEN Rearmed(pane[q], "no")
           ELSE pane[q]]
      /\ dragging' = p /\ ended' = NoPane
      /\ UNCHANGED <<alive, pending, bridge, round, world, changes>>
  BY DEF Begin, Busy
<1>3. \A q \in Panes : pane[q] \in PaneStates
  BY <1>1 DEF TypeOK
<1>4. ASSUME NEW q \in Panes
      PROVE  /\ HeldAnew(pane[q], pane'[q]) /\ (Meek(pane[q]) => Meek(pane'[q]))
             /\ HeldBy(pane'[q], "drag") => HeldBy(pane[q], "drag") /\ q # p
             /\ Held(pane'[q]) => \/ pane'[q] = pane[q]
                                  \/ ~Released(pane'[q]) /\ pane'[q].hold.by = "layout" /\ bridge = p
  <2>1. CASE q = p /\ HeldBy(pane[q], "drag")
    <3>1. pane'[q] = Landed(pane[q])
      BY <1>2, <2>1
    <3> QED
      BY <1>3, <3>1, LandedDoes DEF HeldBy, Held
  <2>2. CASE bridge = p /\ HeldBy(pane[q], "layout")
    <3>1. pane'[q] = Rearmed(pane[q], "no") /\ Held(pane[q])
      BY <1>2, <1>3, <2>2, HoldTyped
    <3> QED
      BY <1>3, <2>2, <3>1, RearmedDoes DEF HeldBy, Released
  <2>3. CASE ~(q = p /\ HeldBy(pane[q], "drag")) /\ ~(bridge = p /\ HeldBy(pane[q], "layout"))
    <3>1. pane'[q] = pane[q]
      BY <1>2, <2>3
    <3> QED
      BY <1>3, <2>3, <3>1 DEF HeldAnew
  <2> QED
    BY <2>1, <2>2, <2>3
<1>5. alive \subseteq Panes /\ p # NoPane
  BY <1>1 DEF TypeOK
<1>6. TypeOK'
  <2>1. pane' \in [Panes -> PaneStates]
    BY <1>2, <1>4 DEF HeldAnew
  <2>2. \A q, r \in Panes : HeldBy(pane'[q], "drag") /\ HeldBy(pane'[r], "drag") => q = r
    BY <1>1, <1>4 DEF TypeOK
  <2> QED
    BY <1>1, <1>2, <2>1, <2>2 DEF TypeOK, Maybe
<1>7. RequestIsOfTheDrag' /\ DragHoldIsFresh'
  BY <1>2, <1>4, <1>5 DEF RequestIsOfTheDrag, DragHoldIsFresh
<1>8. NoHoldOutlivesItsDrag'
  <2>1. \A q \in alive : Held(pane[q]) => Released(pane[q])
    BY <1>1, <1>2 DEF NoHoldOutlivesItsDrag, Held, Released
  <2> QED
    BY <1>2, <1>4, <1>5, <2>1 DEF NoHoldOutlivesItsDrag, Held, Released
<1>9. RoundsAreWhole'
  BY <1>1, <1>2, <1>4 DEF RoundsAreWhole, HeldAnew
<1>10. ObedientDrawsWhatItAcks'
  BY <1>1, <1>2, <1>4 DEF ObedientDrawsWhatItAcks, Obedient, Meek, Held
<1>11. ReleasedIsTold'
  BY <1>1, <1>2, <1>4, <1>5 DEF ReleasedIsTold, Held, Released
<1>12. KeepsBack
  BY <1>2, <1>4, <1>5 DEF KeepsBack, HeldAnew
<1> QED
  BY <1>6, <1>7, <1>8, <1>9, <1>10, <1>11, <1>12 DEF IInv

LEMMA MotionKeeps ==
    ASSUME IInv, NEW p \in Panes, NEW size \in Sizes, Motion(p, size)
    PROVE  IInv' /\ KeepsBack
<1>1. /\ dragging = p /\ pending' = [pane |-> p, wanted |-> size]
      /\ UNCHANGED <<alive, pane, dragging, bridge, ended, round, world, changes>>
  BY DEF Motion
<1>2. pending' \in Requests /\ pending'.pane = p /\ p # NoPane
  BY <1>1 DEF Requests
<1>3. TypeOK'
  BY <1>1, <1>2 DEF IInv, TypeOK, Maybe
<1>4. RequestIsOfTheDrag' /\ (pending # NoRequest => pending.pane = p)
  BY <1>1, <1>2 DEF IInv, RequestIsOfTheDrag
<1>5. pending' # NoRequest
  BY <1>2 DEF NoRequest
<1>6. ReleasedIsTold'
  BY <1>1, <1>2, <1>4, <1>5 DEF IInv, ReleasedIsTold, Held, Released
<1> QED
  BY <1>1, <1>3, <1>4, <1>6 DEF IInv, NoHoldOutlivesItsDrag, DragHoldIsFresh, RoundsAreWhole,
     ObedientDrawsWhatItAcks, Obedient, KeepsBack, Held, Released

\* When the button goes up every hold of the drag is released, and out of sync
\* its client is told at once where its pane is, or will be.
LEMMA ReleaseKeeps == ASSUME IInv, NEW p \in Panes, Release(p) PROVE IInv' /\ KeepsBack
<1>1. /\ TypeOK /\ RequestIsOfTheDrag /\ NoHoldOutlivesItsDrag /\ RoundsAreWhole
      /\ ObedientDrawsWhatItAcks /\ ReleasedIsTold
  BY DEF IInv
<1> DEFINE wanted(x) == IF pending = NoRequest THEN x.slot ELSE pending.wanted
           mine(q) == bridge = p /\ HeldBy(pane[q], "layout")
           afloat(q) == q = p /\ HeldBy(pane[q], "drag")
<1>2. /\ dragging = p /\ dragging' = NoPane /\ ended' = p
      /\ pane' = [q \in Panes |->
           IF q \notin alive THEN pane[q]
           ELSE IF mine(q)
                THEN IF world.sync THEN Rearmed(pane[q], "yes") ELSE ReleasedTo(pane[q], pane[q].slot)
           ELSE IF afloat(q) THEN ReleasedTo(pane[q], wanted(pane[q]))
           ELSE pane[q]]
      /\ UNCHANGED <<alive, pending, bridge, round, world, changes>>
  BY DEF Release
<1>3. /\ alive \subseteq Panes /\ p # NoPane /\ world.sync \in BOOLEAN
      /\ \A q \in Panes : pane[q] \in PaneStates
  BY <1>1, WorldTyped DEF TypeOK
<1>4. pending # NoRequest => pending.pane = p /\ pending.wanted \in Sizes
  <2>1. pending \in Requests \cup {NoRequest}
    BY <1>1 DEF TypeOK, Maybe
  <2> QED
    BY <1>1, <1>2, <1>3, <2>1 DEF RequestIsOfTheDrag, Requests
<1>5. ASSUME NEW q \in Panes PROVE wanted(pane[q]) \in Sizes /\ pane[q].slot \in Sizes
  BY <1>3, <1>4 DEF PaneStates
<1>6. ASSUME NEW q \in alive, Held(pane[q]), ~Released(pane[q]) PROVE mine(q) \/ afloat(q)
  <2>1. HeldBy(pane[q], "drag") \/ HeldBy(pane[q], "layout")
    BY <1>3, <1>6, HoldTyped
  <2> QED
    BY <1>1, <1>2, <1>6, <2>1 DEF NoHoldOutlivesItsDrag, Held, Released, HeldBy
<1> HIDE DEF wanted, mine, afloat
<1>7. ASSUME NEW q \in Panes
      PROVE  /\ pane'[q] \in PaneStates /\ pane'[q].stuck = pane[q].stuck
             /\ pane'[q].waits = 0 <=> pane[q].waits = 0
             /\ Meek(pane[q]) => Meek(pane'[q])
             /\ Held(pane'[q]) <=> Held(pane[q])
             /\ Held(pane[q]) => pane'[q].hold.by = pane[q].hold.by
             /\ q \in alive /\ Held(pane[q]) => Released(pane'[q])
             /\ ~world.sync /\ q \in alive \ world.placed /\ Held(pane[q]) =>
                  /\ pane'[q].told = pane'[q].hold.asked
                  /\ \/ pane'[q].slot = pane'[q].hold.asked
                     \/ pending # NoRequest /\ pending.pane = q /\ pane'[q].hold.by = "drag"
  <2> DEFINE x == pane[q]
  <2>1. CASE q \in alive /\ mine(q) /\ world.sync
    <3>1. pane'[q] = Rearmed(x, "yes") /\ Held(x)
      BY <1>2, <2>1, <1>3, HoldTyped DEF mine
    <3> QED
      BY <1>3, <2>1, <3>1, RearmedDoes DEF HeldAnew, Released
  <2>2. CASE q \in alive /\ mine(q) /\ ~world.sync
    <3>1. pane'[q] = ReleasedTo(x, x.slot) /\ Held(x)
      BY <1>2, <2>2, <1>3, HoldTyped DEF mine
    <3> HIDE DEF x
    <3>2. x \in PaneStates /\ x.slot \in Sizes
      BY <1>3, <1>5 DEF x
    <3>3. LET y == ReleasedTo(x, x.slot)
          IN  /\ y \in PaneStates /\ Held(y) /\ y.hold.by = x.hold.by
              /\ y.hold.released = "yes" /\ y.hold.asked = x.slot /\ y.told = x.slot
              /\ y.slot = x.slot /\ y.stuck = x.stuck /\ (y.waits = 0 <=> x.waits = 0)
              /\ Meek(x) => Meek(y)
      BY <3>1, <3>2, ReleasedToDoes
    <3> QED
      BY <3>1, <3>3 DEF Released, x
  <2>3. CASE q \in alive /\ ~mine(q) /\ afloat(q)
    <3>1. pane'[q] = ReleasedTo(x, wanted(x)) /\ Held(x) /\ x.hold.by = "drag" /\ q = p
      <4>1. pane'[q] = ReleasedTo(x, wanted(x))
        BY <1>2, <2>3
      <4>2. q = p /\ x.hold # NoHold /\ x.hold.by = "drag"
        BY <2>3 DEF afloat, HeldBy
      <4> QED
        BY <4>1, <4>2 DEF Held
    <3>2. wanted(x) = x.slot \/ (pending # NoRequest /\ pending.pane = q)
      BY <1>4, <3>1 DEF wanted
    <3> HIDE DEF x
    <3>3. x \in PaneStates /\ wanted(x) \in Sizes
      BY <1>3, <1>5 DEF x
    <3>4. LET y == ReleasedTo(x, wanted(x))
          IN  /\ y \in PaneStates /\ Held(y) /\ y.hold.by = x.hold.by
              /\ y.hold.released = "yes" /\ y.hold.asked = wanted(x) /\ y.told = wanted(x)
              /\ y.slot = x.slot /\ y.stuck = x.stuck /\ (y.waits = 0 <=> x.waits = 0)
              /\ Meek(x) => Meek(y)
      BY <3>1, <3>3, ReleasedToDoes
    <3> QED
      BY <3>1, <3>2, <3>4 DEF Released, x
  <2>4. CASE q \notin alive \/ (~mine(q) /\ ~afloat(q))
    <3>1. pane'[q] = x
      BY <1>2, <2>4
    <3>2. q \in alive /\ Held(x) => Released(x)
      BY <1>6, <2>4
    <3> QED
      BY <1>1, <1>3, <3>1, <3>2 DEF ReleasedIsTold
  <2> QED
    BY <2>1, <2>2, <2>3, <2>4
<1>8. TypeOK'
  <2>1. pane' \in [Panes -> PaneStates]
    BY <1>2, <1>7
  <2>2. ASSUME NEW q \in Panes, NEW r \in Panes, HeldBy(pane'[q], "drag"), HeldBy(pane'[r], "drag")
        PROVE  q = r
    <3>1. HeldBy(pane[q], "drag") /\ HeldBy(pane[r], "drag")
      BY <1>7, <2>2 DEF HeldBy, Held
    <3> QED
      BY <1>1, <3>1 DEF TypeOK
  <2> QED
    BY <1>1, <1>2, <2>1, <2>2 DEF TypeOK, Maybe
<1>9. RequestIsOfTheDrag' /\ DragHoldIsFresh'
  BY <1>2, <1>3, <1>4 DEF RequestIsOfTheDrag, DragHoldIsFresh
<1>10. NoHoldOutlivesItsDrag'
  BY <1>2, <1>3, <1>7 DEF NoHoldOutlivesItsDrag, Held, Released
<1>11. RoundsAreWhole'
  BY <1>1, <1>2, <1>7 DEF RoundsAreWhole
<1>12. ObedientDrawsWhatItAcks'
  <2>1. ASSUME ~world.sync, NEW q \in Panes, Obedient(q) PROVE Meek(pane'[q])
    BY <1>1, <1>7, <2>1 DEF ObedientDrawsWhatItAcks, Meek
  <2> QED
    BY <1>2, <2>1 DEF ObedientDrawsWhatItAcks, Obedient, Meek
<1>13. ReleasedIsTold'
  BY <1>2, <1>3, <1>7 DEF ReleasedIsTold, Held
<1>14. KeepsBack
  BY <1>2, <1>3, <1>7 DEF KeepsBack
<1> QED
  BY <1>8, <1>9, <1>10, <1>11, <1>12, <1>13, <1>14 DEF IInv

-----------------------------------------------------------------------------
(* Every state, and every step.                                            *)

LEMMA InitInvariant == Init => IInv
<1> SUFFICES ASSUME Init PROVE IInv
  OBVIOUS
<1>1. /\ world \in Worlds /\ world \in WorldStates /\ alive = Panes /\ dragging = NoPane
      /\ pending = NoRequest /\ bridge = NoPane /\ ended = NoPane /\ round = NoRound
      /\ changes = 0
  BY DEF Init
<1> DEFINE acked(p) == IF p \in world.x11 THEN NoSize ELSE world.first
<1>2. /\ pane = [p \in Panes |->
           [slot |-> world.first, committed |-> world.first, acked |-> acked(p),
            told |-> world.first, asks |-> <<>>, hold |-> NoHold,
            waits |-> 0, stuck |-> NoAnswer]]
      /\ \A p \in Panes : acked(p) \in Maybe(Sizes, NoSize)
  BY <1>1 DEF Init, WorldStates, Maybe
<1>3. \A p \in Panes : Obedient(p) => acked(p) = world.first
  BY DEF Obedient
<1> HIDE DEF acked
<1>4. \A p \in Panes :
        /\ ~Held(pane[p]) /\ pane[p].waits = 0 /\ pane[p].stuck = NoAnswer
        /\ Obedient(p) => pane[p].acked = pane[p].committed
  BY <1>2, <1>3 DEF Held
<1>5. pane \in [Panes -> PaneStates]
  <2>1. 0 \in 0 .. MaxQueue /\ world.first \in Sizes
    BY <1>1 DEF WorldStates
  <2>2. <<>> \in Asks
    <3>1. <<>> \in Seq(Sizes) /\ Len(<<>>) = 0
      BY EmptySeq
    <3>2. 0 <= MaxQueue
      OBVIOUS
    <3> QED
      BY <3>1, <3>2, AsksAreShort
  <2>3. ASSUME NEW p \in Panes PROVE pane[p] \in PaneStates
    BY <1>2, <2>1, <2>2 DEF PaneStates, Maybe
  <2> QED
    BY <1>2, <2>3
<1>6. TypeOK
  <2>1. round \in [members : SUBSET Panes, late : BOOLEAN]
    BY <1>1 DEF NoRound
  <2>2. \A p, q \in Panes : ~HeldBy(pane[p], "drag")
    BY <1>4 DEF Held, HeldBy
  <2> QED
    BY <1>1, <1>5, <2>1, <2>2 DEF TypeOK, Maybe
<1>7. RequestIsOfTheDrag /\ NoHoldOutlivesItsDrag /\ DragHoldIsFresh /\ ReleasedIsTold
  BY <1>1, <1>4 DEF RequestIsOfTheDrag, NoHoldOutlivesItsDrag, DragHoldIsFresh,
     ReleasedIsTold, Held, HeldBy
<1>8. RoundsAreWhole /\ ObedientDrawsWhatItAcks
  BY <1>1, <1>4 DEF RoundsAreWhole, ObedientDrawsWhatItAcks, Obedient, NoRound
<1> QED
  BY <1>6, <1>7, <1>8 DEF IInv

\* Every step but a pass leaves what is kept back as it is.
LEMMA OtherStepsKeep == IInv /\ [Next]_vars /\ ~Pass => IInv' /\ KeepsBack
<1> SUFFICES ASSUME IInv, [Next]_vars, ~Pass PROVE IInv' /\ KeepsBack
  OBVIOUS
<1>1. CASE Gesture
  <2>1. PICK p \in Panes : Begin(p) \/ Release(p) \/ \E s \in Sizes : Motion(p, s)
    BY <1>1 DEF Gesture
  <2> QED
    BY <2>1, BeginKeeps, ReleaseKeeps, MotionKeeps
<1>2. CASE Elsewhere
  <2>1. PICK p \in Panes, s \in Sizes : Restyle(p, s) \/ Place(p, s)
    BY <1>2 DEF Elsewhere
  <2> QED
    BY <2>1, ElsewhereKeeps
<1>3. CASE Client
  <2>1. PICK p \in Panes :
          \/ Close(p)
          \/ \E s \in Sizes : Draw(p, s) \/ \E i \in 1 .. MaxQueue : Answer(p, i, s)
    BY <1>3 DEF Client
  <2> QED
    BY <2>1, CloseKeeps, DrawKeeps, AnswerKeeps
<1>4. CASE RoundLate
  BY <1>4, RoundLateKeeps
<1>5. CASE \E p \in Panes : PatienceRuns(p)
  BY <1>5, PatienceKeeps
<1>6. CASE UNCHANGED vars
  <2>1. UNCHANGED <<alive, pane, dragging, pending, bridge, ended, round, world, changes>>
    BY <1>6 DEF vars
  <2> QED
    BY <2>1 DEF IInv, TypeOK, RequestIsOfTheDrag, NoHoldOutlivesItsDrag, DragHoldIsFresh,
       RoundsAreWhole, ObedientDrawsWhatItAcks, Obedient, ReleasedIsTold, KeepsBack
<1> QED
  BY <1>1, <1>2, <1>3, <1>4, <1>5, <1>6 DEF Next

LEMMA StepInvariant == IInv /\ [Next]_vars => IInv'
  BY OtherStepsKeep, PassKeeps

\* Holds, rounds and what clients were told agree through gestures, passes of the
\* loop, placements, answers and clients that close (resize_bridge.rs, round.rs),
\* for any panes, sizes, layouts and configurations.
THEOREM LiveResizeInvariant == Spec => []IInv
  BY InitInvariant, StepInvariant, PTL DEF Spec

\* Every variable keeps its type; no two panes are held by a drag (resize_hold is
\* one), and a client has no more than MaxQueue configures to answer.
THEOREM LiveResizeIsTypeCorrect == Spec => []TypeOK
<1>1. IInv => TypeOK
  BY DEF IInv
<1> QED
  BY <1>1, LiveResizeInvariant, PTL

\* No hold is born, or left unreleased, for a gesture whose button is up: it would
\* never be let go (settle_resize, resize_ended).
THEOREM HoldsEndWithTheirDrag == Spec => []NoHoldOutlivesItsDrag
<1>1. IInv => NoHoldOutlivesItsDrag
  BY DEF IInv
<1> QED
  BY <1>1, LiveResizeInvariant, PTL

\* A client that takes every size it is told is never taken for one that declined
\* (Hold::note), however late its answers, while panes are not told in rounds.
THEOREM ObedienceIsSeen == Spec => []TakenAtItsWordAlone
<1>1. IInv => TakenAtItsWordAlone
  BY DEF IInv, TypeOK, ObedientDrawsWhatItAcks, Obedient, Held, TakenAtItsWordAlone, TakenAtItsWord
<1> QED
  BY <1>1, LiveResizeInvariant, PTL

\* The last size the client heard of is the one the gesture ended on, although the
\* throttle keeps sizes back while the drag lasts (offered, flush, release).
THEOREM TheEndIsTold == Spec => []EndIsTold
<1>1. IInv => EndIsTold
  BY DEF IInv, ReleasedIsTold, Held, Released, EndIsTold
<1> QED
  BY <1>1, LiveResizeInvariant, PTL

\* Whatever becomes of the bridge, a commit behind a round's barrier is of a pane of
\* the round under way (SeamRound).
THEOREM KeptBackByTheRoundAlone == Spec => []NothingHeldBack
<1>1. IInv => NothingHeldBack
  BY DEF IInv, RoundsAreWhole, NothingHeldBack
<1> QED
  BY <1>1, LiveResizeInvariant, PTL

\* The answers of a round are let go in one step of the loop, once no pane of it
\* that the layout still holds has one to give, or its time is up.
THEOREM RoundsLandTogether == Spec => HeldBackTogether
<1> DEFINE Together ==
      \A p \in alive' :
        pane[p].stuck # NoAnswer /\ pane'[p].stuck = NoAnswer =>
          \A q \in round.members :
            /\ pane'[q].stuck = NoAnswer
            /\ pane[q].waits # 0 /\ HeldBy(pane'[q], "layout") => round.late
<1>1. IInv /\ [Next]_vars => [Together]_vars
  <2> SUFFICES ASSUME IInv, [Next]_vars PROVE Together
    OBVIOUS
  <2>1. CASE Pass
    <3>1. alive' \subseteq Panes /\ round.members \subseteq Panes
      BY <2>1 DEF IInv, TypeOK, Pass
    <3> QED
      BY <2>1, <3>1, PassKeeps
  <2>2. CASE ~Pass
    BY <2>2, OtherStepsKeep DEF KeepsBack
  <2> QED
    BY <2>1, <2>2
<1> QED
  BY <1>1, LiveResizeInvariant, PTL DEF Spec, HeldBackTogether
=============================================================================
