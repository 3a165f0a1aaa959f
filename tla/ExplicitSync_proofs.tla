------------------------- MODULE ExplicitSync_proofs -------------------------
(***************************************************************************)
(* Proofs about ExplicitSync: a buffer is given back only when nothing can *)
(* read it, and read only when it is ready.                                *)
(***************************************************************************)
EXTENDS ExplicitSync, SequenceTheorems, TLAPS

USE ExplicitSyncAssumption

\* The transactions of a root that are not applied: those queued, and the one
\* its next commit ends.
Waiting(r) == 1 .. (Len(queue[r]) + 1)
At(r, i) == IF i = Len(queue[r]) + 1 THEN pending[r] ELSE queue[r][i]
Owes(r, i, s) == At(r, i).parts[s].discard

\* A point owed is a new buffer's, is also what the import will take, is waited
\* for, and is of a surface of that root that is still there.
PartIsWhole(r, i, s) ==
    LET part == At(r, i).parts[s]
    IN  part.discard # NoPoint =>
          /\ part.kind = "new" /\ part.sync = part.discard
          /\ part.discard \in At(r, i).waits
          /\ Parent[s] = r /\ s \in alive
PartsAreWhole ==
    \A r, s \in Surfaces : \A i \in Waiting(r) : PartIsWhole(r, i, s)

\* A point is owed by one commit, ...
OwedOnce ==
    \A r, s, q, t \in Surfaces : \A i \in Waiting(r), j \in Waiting(q) :
      Owes(r, i, s) # NoPoint /\ Owes(r, i, s) = Owes(q, j, t) =>
        r = q /\ i = j /\ s = t

\* ... and then no Buffer has it and it is not signalled.
OwedIsUnused ==
    \A r, s \in Surfaces : \A i \in Waiting(r) :
      Owes(r, i, s) \notin Referenced \cup signalled

\* An import takes every point from the surface's state.
NothingLeftToDiscard == discard = [s \in Surfaces |-> NoPoint]

ReferencedIsUnsignalled == Referenced \cap signalled = {}

\* What the GPU reads is kept for it: all a frame may read is marked explicit.
ReadsAreKept == \A f \in Frames : reads[f] \subseteq holds[f] \cup stranded
ShownIsActive == \A s \in Surfaces : shown[s].point # NoPoint => s \in alive /\ active[s]

\* Points are given out in order.
Issued == {p \in Points : p < next}
UsedAreIssued ==
    /\ Referenced \subseteq Issued /\ signalled \subseteq Issued
    /\ \A r, s \in Surfaces : \A i \in Waiting(r) : Owes(r, i, s) < next
WaitsAreIssued ==
    /\ reached \subseteq Issued /\ opened \subseteq Issued
    /\ \A s \in Surfaces : acquires[s] \subseteq Issued
    /\ \A j \in 1 .. Len(channel) : channel[j].type = "Acquire" => channel[j].point < next

\* What is on screen or fades is ready, and what is not cannot be lifted while
\* its surface is there.
VisibleIsReached == Visible \subseteq reached /\ NothingReadUnready
OpenedIsReached ==
    \A r, s \in Surfaces : \A i \in Waiting(r) :
      Owes(r, i, s) \in opened => Owes(r, i, s) \in reached

\* A wait is registered, or on its way to be, for the surface that owes the point.
WaitsAreOwn ==
    \A r, s, t \in Surfaces : \A i \in Waiting(r) : Owes(r, i, s) # NoPoint =>
      /\ Owes(r, i, s) \in acquires[t] => t = s
      /\ \A j \in 1 .. Len(channel) :
           channel[j].type = "Acquire" /\ channel[j].point = Owes(r, i, s) =>
             channel[j].surface = s
CancelledHaveGone ==
    \A j \in 1 .. Len(channel) :
      channel[j].type = "Cancel" => channel[j].surfaces \cap alive = {}

\* A frame's Buffers are sent to the loop once.
ReleasesAreSent ==
    \A j \in 1 .. Len(channel) : channel[j].type = "Release" =>
      /\ fence[channel[j].frame] = "sent"
      /\ \A k \in 1 .. Len(channel) :
           channel[k].type = "Release" /\ channel[k].frame = channel[j].frame => k = j

\* Who has a point, and what has been waited for.
UseInv ==
    /\ PartsAreWhole /\ OwedOnce /\ OwedIsUnused /\ NothingLeftToDiscard
    /\ ReferencedIsUnsignalled /\ UsedAreIssued
ReadyInv ==
    /\ VisibleIsReached /\ OpenedIsReached
    /\ WaitsAreOwn /\ WaitsAreIssued /\ CancelledHaveGone

IInv ==
    /\ TypeOK /\ ReleasesAreSent
    /\ UseInv /\ ShownIsActive /\ ReadsAreKept
    /\ ReadyInv

-----------------------------------------------------------------------------
(* Types.                                                                  *)

LEMMA ReferencedArePoints ==
    ASSUME TypeOK PROVE Referenced \in SUBSET Points /\ Visible \in SUBSET Referenced
  BY DEF TypeOK, Referenced, Visible, Buffers

LEMMA MergedIsAPart ==
    ASSUME NEW old \in Parts, NEW new \in Parts
    PROVE  Merged(old, new) \in Parts /\ Superseded(old, new) \in SUBSET Points
  BY DEF Merged, Superseded, Parts

LEMMA NoPartIsAPart == NoPart \in Parts /\ NoTransaction \in Transactions
  BY DEF NoPart, NoTransaction, Parts, Transactions

LEMMA ImplicitIsAPart ==
    /\ NoPart \in Parts /\ [NoPart EXCEPT !.kind = "removed"] \in Parts
    /\ \A b \in WlBuffers : [NoPart EXCEPT !.kind = "new", !.wl = b] \in Parts
  BY DEF NoPart, Parts

LEMMA InitTyped == Init => TypeOK
  BY NoPartIsAPart, EmptySeq
     DEF Init, TypeOK, Unmapped, Buffers, Transactions, NoTransaction

\* A commit, whatever it carries.
LEMMA CommitTyped ==
    ASSUME TypeOK, NEW s \in Surfaces, NEW part \in Parts, NEW waits \in SUBSET Points,
           Commit(s, part, waits), next' \in 1 .. (MaxPoint + 1), channel' \in Seq(Messages),
           UNCHANGED dying
    PROVE  TypeOK'
<1> DEFINE r == Parent[s]
           tx == [parts |-> [pending[r].parts EXCEPT ![s] = Merged(@, part)],
                  waits |-> pending[r].waits \cup waits]
<1>1. r \in Surfaces /\ pending[r] \in Transactions
  BY DEF TypeOK
<1>2. tx \in Transactions
  BY <1>1, MergedIsAPart DEF Transactions
<1>3. /\ pending' = [pending EXCEPT ![r] = IF s = r THEN NoTransaction ELSE tx]
      /\ queue' = IF s = r THEN [queue EXCEPT ![r] = Append(@, tx)] ELSE queue
      /\ woken' = IF s = r THEN woken \cup {r} ELSE woken
  BY DEF Commit
<1> HIDE DEF tx
<1>4. /\ pending' \in [Surfaces -> Transactions]
      /\ queue' \in [Surfaces -> Seq(Transactions)] /\ woken' \in SUBSET Surfaces
  BY <1>1, <1>2, <1>3, NoPartIsAPart, AppendProperties DEF TypeOK
<1>5. signalled' \in SUBSET Points
  <2>1. Superseded(pending[r].parts[s], part) \in SUBSET Points
    BY <1>1, MergedIsAPart DEF Transactions
  <2> QED
    BY <2>1, ReferencedArePoints DEF Commit, Signal, TypeOK
<1> QED
  BY <1>4, <1>5 DEF Commit, TypeOK, surfaceVars, frameVars

\* Commits queued for surfaces that go are emptied.
Without(tx, D) ==
    [tx EXCEPT !.parts = [s \in Surfaces |-> IF s \in D THEN NoPart ELSE tx.parts[s]]]

LEMMA WithoutIsATransaction ==
    ASSUME NEW tx \in Transactions, NEW D
    PROVE  Without(tx, D) \in Transactions
  BY NoPartIsAPart DEF Without, Transactions

\* What destroying surfaces does to the transactions of their root.
LEMMA DestroyEmpties ==
    ASSUME TypeOK, NEW D, NEW r \in Surfaces, NEW kept, NEW dropped,
           Destroy(D, r, kept, dropped)
    PROVE  /\ pending' = [pending EXCEPT ![r] = Without(@, D)]
           /\ queue' = [queue EXCEPT ![r] = [i \in 1 .. Len(queue[r]) |-> Without(@[i], D)]]
<1>1. DOMAIN queue[r] = 1 .. Len(queue[r])
  BY LenProperties DEF TypeOK
<1> QED
  BY <1>1 DEF Destroy, Without

LEMMA DestroyTyped ==
    ASSUME TypeOK, NEW r \in Surfaces, NEW D \in SUBSET Surfaces, NEW kept,
           NEW dropped \in SUBSET Points, Destroy(D, r, kept, dropped),
           next' \in 1 .. (MaxPoint + 1), dying' \in SUBSET Surfaces
    PROVE  TypeOK'
<1> DEFINE n == Len(queue[r])
           emptied == [i \in 1 .. n |-> Without(queue[r][i], D)]
<1>1. n \in Nat /\ DOMAIN queue[r] = 1 .. n /\ queue[r] \in [1 .. n -> Transactions]
  BY LenProperties DEF TypeOK
<1>2. emptied \in Seq(Transactions)
  <2>1. emptied \in [1 .. n -> Transactions]
    BY <1>1, WithoutIsATransaction
  <2> QED
    BY <1>1, <2>1, SeqDef
<1>3. /\ queue' \in [Surfaces -> Seq(Transactions)]
      /\ pending' \in [Surfaces -> Transactions]
  <2>1. Without(pending[r], D) \in Transactions
    BY WithoutIsATransaction DEF TypeOK
  <2> HIDE DEF n, emptied
  <2>2. pending' = [pending EXCEPT ![r] = Without(@, D)] /\ queue' = [queue EXCEPT ![r] = emptied]
    BY DestroyEmpties DEF n, emptied
  <2> QED
    BY <1>2, <2>1, <2>2 DEF TypeOK
<1>4. channel' \in Seq(Messages)
  <2>1. [type |-> "Cancel", surfaces |-> D, root |-> r] \in Messages
    BY DEF Messages
  <2> QED
    BY <2>1, AppendProperties DEF Destroy, TypeOK
<1>5. signalled' \in SUBSET Points
  <2> DEFINE owned == {pending[r].parts[s].discard : s \in D}
                        \cup UNION {{queue[r][i].parts[s].discard : s \in D}
                                      : i \in DOMAIN queue[r]}
  <2>1. pending[r] \in Transactions /\ \A i \in 1 .. n : queue[r][i] \in Transactions
    BY <1>1 DEF TypeOK
  <2>2. owned \subseteq Points \cup {NoPoint}
    BY <1>1, <2>1 DEF Transactions, Parts
  <2> HIDE DEF owned
  <2>3. signalled' = signalled \cup ((dropped \cup owned \cup {discard[s] : s \in D}) \ {NoPoint})
                       \cup (Referenced \ Referenced')
    BY DEF Destroy, Signal, owned
  <2> QED
    BY <2>2, <2>3, ReferencedArePoints DEF TypeOK
<1>6. /\ shown' \in [Surfaces -> Buffers] /\ active' \in [Surfaces -> BOOLEAN]
      /\ discard' \in [Surfaces -> Points \cup {NoPoint}]
      /\ sync' \in [Surfaces -> Points \cup {NoPoint}]
      /\ picture' \in [Surfaces -> Points \cup {NoPoint}]
  BY DEF Destroy, TypeOK, Buffers, Unmapped
<1>7. alive' \in SUBSET Surfaces /\ \A s \in Surfaces \ alive' : shown'[s] = Unmapped /\ ~active'[s]
  BY DEF Destroy, TypeOK
<1> QED
  BY <1>3, <1>4, <1>5, <1>6, <1>7 DEF Destroy, TypeOK, frameVars

\* Nor does an import give a surface anything but a Buffer.
LEMMA ImportTyped ==
    ASSUME TypeOK, NEW tx \in Transactions, NEW s \in Surfaces
    PROVE  /\ Current(s, tx) \in Parts
           /\ Imported(s, Current(s, tx)) \in Buffers
           /\ IsExplicit(Current(s, tx)) \in BOOLEAN
           /\ DiscardLeft(Current(s, tx)) \in Points \cup {NoPoint}
           /\ SyncLeft(Current(s, tx)) \in Points \cup {NoPoint}
<1>1. [NoPart EXCEPT !.discard = discard[s], !.sync = sync[s]] \in Parts
  BY NoPartIsAPart DEF TypeOK, Parts
<1>2. Current(s, tx) \in Parts
  BY <1>1, MergedIsAPart DEF Current, Transactions
<1>3. shown[s] \in Buffers
  BY DEF TypeOK
<1> QED
  BY <1>2, <1>3 DEF Imported, IsExplicit, DiscardLeft, SyncLeft, SyncAtImport, Unmapped,
                    Buffers, Parts

LEMMA ApplyTyped ==
    ASSUME TypeOK, NEW r \in Surfaces, ApplyNext(r) PROVE TypeOK'
<1> DEFINE tx == Head(queue[r])
           on == Family(r) \cap alive
<1>1. /\ queue[r] # << >> /\ tx \in Transactions
      /\ queue' \in [Surfaces -> Seq(Transactions)]
  BY HeadTailProperties DEF ApplyNext, Ready, TypeOK
<1> HIDE DEF tx
<1>2. /\ shown' = [s \in Surfaces |-> IF s \in on THEN Imported(s, Current(s, tx)) ELSE shown[s]]
      /\ active' = [s \in Surfaces |-> IF s \in on /\ Current(s, tx).kind # "none"
                                         THEN IsExplicit(Current(s, tx)) ELSE active[s]]
      /\ discard' = [s \in Surfaces |-> IF s \in on THEN DiscardLeft(Current(s, tx))
                                                    ELSE discard[s]]
      /\ sync' = [s \in Surfaces |-> IF s \in on THEN SyncLeft(Current(s, tx)) ELSE sync[s]]
      /\ picture' = [s \in Surfaces |-> IF s \in on /\ Current(s, tx).kind = "new"
                                          THEN NoPoint ELSE picture[s]]
      /\ Signal({discard[s] : s \in {t \in on : tx.parts[t].kind # "none"}})
  BY DEF ApplyNext, tx
<1>3. /\ shown' \in [Surfaces -> Buffers] /\ active' \in [Surfaces -> BOOLEAN]
      /\ discard' \in [Surfaces -> Points \cup {NoPoint}]
      /\ sync' \in [Surfaces -> Points \cup {NoPoint}]
      /\ picture' \in [Surfaces -> Points \cup {NoPoint}]
  BY <1>1, <1>2, ImportTyped DEF TypeOK
<1>4. signalled' \in SUBSET Points
  BY <1>2, ReferencedArePoints DEF Signal, TypeOK
<1>5. \A s \in Surfaces \ alive' : shown'[s] = Unmapped /\ ~active'[s]
  BY <1>2 DEF ApplyNext, TypeOK
<1> QED
  BY <1>1, <1>3, <1>4, <1>5 DEF ApplyNext, TypeOK, frameVars

LEMMA HeadIsFirst ==
    ASSUME NEW S, NEW seq \in Seq(S), seq # << >>
    PROVE  /\ 1 \in 1 .. Len(seq) /\ Head(seq) = seq[1]
           /\ Tail(seq) \in Seq(S) /\ Len(Tail(seq)) = Len(seq) - 1
           /\ \A i \in 1 .. Len(Tail(seq)) : i + 1 \in 1 .. Len(seq) /\ Tail(seq)[i] = seq[i + 1]
  BY LenProperties, HeadTailProperties

LEMMA ReceiveTyped ==
    ASSUME TypeOK, NEW type, Receive(type)
    PROVE  /\ Head(channel) \in Messages /\ channel' \in Seq(Messages)
           /\ type = "Acquire" => Head(channel).point \in Points /\ Head(channel).surface \in Surfaces
           /\ type = "Cancel" => /\ Head(channel).surfaces \in SUBSET Surfaces
                                 /\ Head(channel).root \in Surfaces
           /\ type = "Release" => Head(channel).frame \in Frames
<1>1. Head(channel) \in Messages /\ channel' \in Seq(Messages) /\ Head(channel).type = type
  BY HeadTailProperties DEF Receive, TypeOK
<1> QED
  BY <1>1 DEF Messages

\* Buffers moved about leave the points what they are.
LEMMA SignalTyped ==
    ASSUME TypeOK, NEW dropped \in SUBSET Points, Signal(dropped)
    PROVE  signalled' \in SUBSET Points
  BY ReferencedArePoints DEF Signal, TypeOK

LEMMA DispatchTyped == ASSUME TypeOK, ReleasesAreSent, Dispatch PROVE TypeOK'
<1>1. CASE OnAcquire
  <2>1. PICK p \in Points, s \in Surfaces :
          /\ s \in alive => /\ acquires' = [acquires EXCEPT ![s] = @ \cup {p}]
                            /\ UNCHANGED <<opened, woken>>
          /\ s \notin alive => /\ opened' = opened \cup {p} /\ woken' = woken \cup {Parent[s]}
                               /\ UNCHANGED acquires
    <3> DEFINE point == Head(channel).point
               from == Head(channel).surface
    <3>1. point \in Points /\ from \in Surfaces
      BY <1>1, ReceiveTyped DEF OnAcquire
    <3>2. /\ from \in alive => /\ acquires' = [acquires EXCEPT ![from] = @ \cup {point}]
                               /\ UNCHANGED <<opened, woken>>
          /\ from \notin alive => /\ opened' = opened \cup {point}
                                  /\ woken' = woken \cup {Parent[from]}
                                  /\ UNCHANGED acquires
      BY <1>1 DEF OnAcquire
    <3> HIDE DEF point, from
    <3> QED
      BY <3>1, <3>2
  <2>2. /\ channel' \in Seq(Messages)
        /\ UNCHANGED <<clientVars, surfaceVars, picture, reached, frameVars, signalled>>
    BY <1>1, ReceiveTyped DEF OnAcquire
  <2>3. CASE s \in alive
    <3>1. acquires[s] \cup {p} \in SUBSET Points
      BY DEF TypeOK
    <3>2. acquires \in [Surfaces -> SUBSET Points]
      BY DEF TypeOK
    <3>3. acquires' = [acquires EXCEPT ![s] = @ \cup {p}] /\ UNCHANGED <<opened, woken>>
      BY <2>1, <2>3
    <3>4. acquires' \in [Surfaces -> SUBSET Points]
      BY <3>1, <3>2, <3>3
    <3> QED
      BY <2>2, <3>3, <3>4 DEF TypeOK, clientVars, surfaceVars, frameVars
  <2>4. CASE s \notin alive
    BY <2>1, <2>2, <2>4 DEF TypeOK, clientVars, surfaceVars, frameVars
  <2> QED
    BY <2>3, <2>4
<1>2. CASE OnAcquireFails
  <2>1. channel' \in Seq(Messages) /\ Parent[Head(channel).surface] \in Surfaces
    BY <1>2, ReceiveTyped DEF OnAcquireFails
  <2> QED
    BY <1>2, <2>1 DEF OnAcquireFails, TypeOK, surfaceVars, frameVars
<1>3. CASE OnCancel
  <2>1. /\ channel' \in Seq(Messages) /\ Head(channel).root \in Surfaces
        /\ Head(channel).surfaces \in SUBSET Surfaces
    BY <1>3, ReceiveTyped DEF OnCancel
  <2>2. opened' \in SUBSET Points /\ acquires' \in [Surfaces -> SUBSET Points]
    BY <1>3, <2>1 DEF OnCancel, TypeOK
  <2> QED
    BY <1>3, <2>1, <2>2 DEF OnCancel, TypeOK, clientVars, surfaceVars, frameVars
<1>4. ASSUME OnRelease \/ OnReleaseWaits PROVE TypeOK'
  <2> DEFINE f == Head(channel).frame
  <2>1. /\ channel' \in Seq(Messages) /\ f \in Frames
    BY <1>4, ReceiveTyped DEF OnRelease, OnReleaseWaits
  <2>2. signalled' \in SUBSET Points
    BY <1>4, SignalTyped DEF OnRelease, OnReleaseWaits
  <2>3. stranded' \in SUBSET Points /\ reads' \in [Frames -> SUBSET Points]
    BY <1>4, <2>1 DEF OnRelease, OnReleaseWaits, TypeOK
  <2> HIDE DEF f
  <2>4. \/ LetGo(f)
        \/ FenceReached(f) = FALSE /\ fence' = [fence EXCEPT ![f] = "held"] /\ holds' = holds
    BY <1>4 DEF OnRelease, OnReleaseWaits, FenceReached, f
  <2>5. fence[f] = "sent"
    BY <1>4, HeadIsFirst DEF ReleasesAreSent, OnRelease, OnReleaseWaits, Receive, TypeOK, f
  <2>6. /\ fence' \in [Frames -> {"none", "sent", "held"}] /\ holds' \in [Frames -> SUBSET Points]
        /\ \A g \in Frames : fence'[g] = "none" <=> holds'[g] = {}
    BY <2>1, <2>4, <2>5 DEF LetGo, TypeOK
  <2> QED
    BY <1>4, <2>1, <2>2, <2>3, <2>6 DEF OnRelease, OnReleaseWaits, TypeOK, clientVars,
       surfaceVars
<1> QED
  BY <1>1, <1>2, <1>3, <1>4 DEF Dispatch
LEMMA FrameTyped ==
    ASSUME TypeOK, NEW f \in Frames, NEW ended, Frame(f, ended) PROVE TypeOK'
<1>1. Visible \in SUBSET Points /\ Snapshot \in SUBSET Points
  BY ReferencedArePoints DEF Snapshot, TypeOK, Buffers
<1>2. signalled' \in SUBSET Points
  BY SignalTyped DEF Frame, FrameFenced, FrameFinished, FrameLost, FramePlain
<1>3. picture' \in [Surfaces -> Points \cup {NoPoint}]
  BY DEF Frame, FrameFenced, FrameFinished, FrameLost, FramePlain, Draw, Settle, TypeOK
<1>4. UNCHANGED <<clientVars, woken, surfaceVars, acquires, reached, opened>>
  BY DEF Frame, FrameFenced, FrameFinished, FrameLost, FramePlain, Draw
<1>5. CASE FrameFenced(f, ended)
  <2>1. [type |-> "Release", frame |-> f] \in Messages
    BY DEF Messages
  <2>2. channel' \in Seq(Messages)
    BY <1>5, <2>1, AppendProperties DEF FrameFenced, TypeOK
  <2>3. /\ reads' \in [Frames -> SUBSET Points] /\ holds' \in [Frames -> SUBSET Points]
        /\ fence' \in [Frames -> {"none", "sent", "held"}] /\ stranded' = stranded
        /\ \A g \in Frames : fence'[g] = "none" <=> holds'[g] = {}
    BY <1>1, <1>5 DEF FrameFenced, TypeOK
  <2> QED
    BY <1>2, <1>3, <1>4, <2>2, <2>3 DEF TypeOK, clientVars, surfaceVars
<1>6. CASE FrameFinished(f, ended) \/ FrameLost(f, ended) \/ FramePlain(f, ended)
  <2>1. /\ reads' \in [Frames -> SUBSET Points] /\ stranded' \in SUBSET Points
        /\ holds' = holds /\ fence' = fence /\ channel' = channel
    BY <1>1, <1>6 DEF FrameFinished, FrameLost, FramePlain, frameVars, TypeOK
  <2> QED
    BY <1>2, <1>3, <1>4, <2>1 DEF TypeOK, clientVars, surfaceVars
<1> QED
  BY <1>5, <1>6 DEF Frame

\* Every step keeps the types, given that a frame's Buffers are sent once.
LEMMA StepTyped == TypeOK /\ ReleasesAreSent /\ [Next]_vars => TypeOK'
<1> SUFFICES ASSUME TypeOK, ReleasesAreSent, [Next]_vars PROVE TypeOK'
  OBVIOUS
<1>1. \A s \in Surfaces : Parent[s] \in Surfaces
  OBVIOUS
<1>2. ASSUME NEW s \in Surfaces, NEW b \in WlBuffers, CommitExplicit(s, b) PROVE TypeOK'
  <2>1. /\ [kind |-> "new", wl |-> b, discard |-> next, sync |-> next] \in Parts
        /\ {next} \in SUBSET Points /\ next' \in 1 .. (MaxPoint + 1)
        /\ [type |-> "Acquire", point |-> next, surface |-> s] \in Messages
    BY <1>2 DEF CommitExplicit, Parts, Messages, Points
  <2>2. channel' \in Seq(Messages) /\ dying' = dying
    BY <1>2, <2>1, AppendProperties DEF CommitExplicit, Commit, TypeOK
  <2> QED
    BY <1>2, <2>1, <2>2, CommitTyped DEF CommitExplicit
<1>3. ASSUME NEW s \in Surfaces,
             \/ \E b \in WlBuffers : CommitImplicit(s, b)
             \/ CommitRemoved(s) \/ CommitNothing(s)
      PROVE  TypeOK'
  <2>1. PICK part \in Parts : Commit(s, part, {}) /\ UNCHANGED <<next, channel>>
    BY <1>3, ImplicitIsAPart DEF CommitImplicit, CommitRemoved, CommitNothing
  <2>2. next' \in 1 .. (MaxPoint + 1) /\ channel' \in Seq(Messages) /\ UNCHANGED dying
    BY <2>1 DEF Commit, TypeOK
  <2> QED
    BY <2>1, <2>2, CommitTyped
<1>4. ASSUME NEW s \in Surfaces, NEW kept, ClientDestroys(s, kept) PROVE TypeOK'
  <2>1. next' \in 1 .. (MaxPoint + 1) /\ dying' \in SUBSET Surfaces
    BY <1>4 DEF ClientDestroys, TypeOK
  <2> QED
    BY <1>1, <1>4, <2>1, DestroyTyped DEF ClientDestroys
<1>5. ASSUME NEW s \in Surfaces, NEW kept, CommitRefused(s, kept) PROVE TypeOK'
  <2>1. /\ next' \in 1 .. (MaxPoint + 1) /\ dying' \in SUBSET Surfaces
        /\ {next} \in SUBSET Points /\ Family(Parent[s]) \cap alive \in SUBSET Surfaces
    BY <1>5 DEF CommitRefused, TypeOK, Points, Family
  <2> QED
    <3> DEFINE D == Family(Parent[s]) \cap alive
    <3>1. Destroy(D, Parent[s], kept, {next})
      BY <1>5 DEF CommitRefused
    <3> HIDE DEF D
    <3>2. D \in SUBSET Surfaces
      BY <2>1 DEF D
    <3> QED
      BY <1>1, <2>1, <3>1, <3>2, DestroyTyped
<1>6. ASSUME NEW r \in Surfaces, NEW kept, Cleanup(r, kept) PROVE TypeOK'
  <2>1. /\ next' \in 1 .. (MaxPoint + 1) /\ dying' \in SUBSET Surfaces
        /\ Family(r) \cap alive \in SUBSET Surfaces
    BY <1>6 DEF Cleanup, TypeOK, Family
  <2> QED
    BY <1>6, <2>1, DestroyTyped DEF Cleanup
<1>7. ASSUME NEW s \in Surfaces, WindowLeaves(s) \/ FadeEnds(s) PROVE TypeOK'
  <2>1. picture' \in [Surfaces -> Points \cup {NoPoint}]
    <3>1. /\ \A t \in Surfaces : shown[t].point \in Points \cup {NoPoint}
          /\ picture \in [Surfaces -> Points \cup {NoPoint}]
      BY DEF TypeOK, Buffers
    <3>2. CASE WindowLeaves(s)
      BY <3>1, <3>2 DEF WindowLeaves
    <3>3. CASE FadeEnds(s)
      BY <3>1, <3>3 DEF FadeEnds, Settle
    <3> QED
      BY <1>7, <3>2, <3>3
  <2>2. signalled' \in SUBSET Points
    BY <1>7, SignalTyped DEF WindowLeaves, FadeEnds, TypeOK
  <2> QED
    BY <1>7, <2>1, <2>2 DEF WindowLeaves, FadeEnds, TypeOK, clientVars, surfaceVars, frameVars
<1>8. ASSUME NEW p \in Points, ClientReaches(p) PROVE TypeOK'
  BY <1>8 DEF ClientReaches, TypeOK, clientVars, surfaceVars, frameVars
<1>9. ASSUME NEW r \in Surfaces, ApplyDone(r) PROVE TypeOK'
  BY <1>9 DEF ApplyDone, TypeOK, clientVars, surfaceVars, frameVars
<1>10. ASSUME NEW s \in Surfaces, NEW p \in Points, SourceFires(s, p) PROVE TypeOK'
  BY <1>1, <1>10 DEF SourceFires, TypeOK, clientVars, surfaceVars, frameVars
<1>11. ASSUME NEW f \in Frames, GpuDone(f) PROVE TypeOK'
  BY <1>11 DEF GpuDone, TypeOK, clientVars, surfaceVars
<1>12. ASSUME NEW f \in Frames, FenceReadable(f) PROVE TypeOK'
  <2>1. signalled' \in SUBSET Points
    BY <1>12, SignalTyped DEF FenceReadable
  <2> QED
    BY <1>12, <2>1 DEF FenceReadable, LetGo, TypeOK, clientVars, surfaceVars
<1>13. CASE UNCHANGED vars
  BY <1>13 DEF vars, TypeOK, clientVars, surfaceVars, frameVars
<1>14. ASSUME NEW s \in Surfaces, Client(s) PROVE TypeOK'
  BY <1>2, <1>3, <1>4, <1>5, <1>7, <1>14 DEF Client
<1> QED
  BY <1>6, <1>7, <1>8, <1>9, <1>10, <1>11, <1>12, <1>13, <1>14,
     ApplyTyped, DispatchTyped, FrameTyped DEF Next
-----------------------------------------------------------------------------
(* The channel.                                                            *)

LEMMA AppendedLast ==
    ASSUME NEW S, NEW seq \in Seq(S), NEW e \in S
    PROVE  \A i \in 1 .. Len(Append(seq, e)) :
             \/ i \in 1 .. Len(seq) /\ Append(seq, e)[i] = seq[i]
             \/ i = Len(seq) + 1 /\ Append(seq, e)[i] = e
  BY LenProperties, AppendProperties

LEMMA MessagesTyped ==
    ASSUME TypeOK, NEW i \in 1 .. Len(channel)
    PROVE  /\ channel[i].type = "Release" => channel[i].frame \in Frames
           /\ channel[i].type = "Acquire" =>
                channel[i].point \in Points /\ channel[i].surface \in Surfaces
           /\ channel[i].type = "Cancel" => channel[i].surfaces \in SUBSET Surfaces
<1>1. channel[i] \in Messages
  BY ElementOfSeq DEF TypeOK
<1> QED
  BY <1>1 DEF Messages

\* A message of another kind, sent.
LEMMA SendKeepsReleases ==
    ASSUME TypeOK, ReleasesAreSent, NEW m \in Messages, m.type # "Release",
           channel' = Append(channel, m), fence' = fence
    PROVE  ReleasesAreSent'
<1> DEFINE sent == Append(channel, m)
<1>1. ASSUME NEW j \in 1 .. Len(sent), sent[j].type = "Release"
      PROVE  j \in 1 .. Len(channel) /\ sent[j] = channel[j]
  <2>1. channel \in Seq(Messages)
    BY DEF TypeOK
  <2>2. \/ j \in 1 .. Len(channel) /\ sent[j] = channel[j]
        \/ sent[j] = m
    BY <2>1, AppendedLast
  <2> QED
    BY <1>1, <2>2
<1> HIDE DEF sent
<1>2. channel' = sent
  BY DEF sent
<1> QED
  BY <1>1, <1>2 DEF ReleasesAreSent

LEMMA StepKeepsReleases == TypeOK /\ ReleasesAreSent /\ [Next]_vars => ReleasesAreSent'
<1> SUFFICES ASSUME TypeOK, ReleasesAreSent, [Next]_vars PROVE ReleasesAreSent'
  OBVIOUS
<1>1. ASSUME channel' = channel, fence' = fence PROVE ReleasesAreSent'
  BY <1>1 DEF ReleasesAreSent
<1>2. ASSUME channel # << >>, channel' = Tail(channel),
             \/ fence' = fence
             \/ Head(channel).type = "Release" /\ \A g \in Frames : g # Head(channel).frame =>
                                                     fence'[g] = fence[g]
      PROVE  ReleasesAreSent'
  <2>1. \A i \in 1 .. Len(channel') : i + 1 \in 1 .. Len(channel) /\ channel'[i] = channel[i + 1]
    BY <1>2, HeadIsFirst DEF TypeOK
  <2>2. Head(channel) = channel[1] /\ 1 \in 1 .. Len(channel) /\ Len(channel) \in Nat
    BY <1>2, HeadIsFirst, LenProperties DEF TypeOK
  <2>3. \A i \in 1 .. Len(channel) : channel[i].type = "Release" => channel[i].frame \in Frames
    BY MessagesTyped
  <2>4. ASSUME NEW i \in 1 .. Len(channel'), channel'[i].type = "Release"
        PROVE  fence'[channel'[i].frame] = "sent"
    <3>1. channel[i + 1].frame # Head(channel).frame \/ Head(channel).type # "Release"
      BY <2>1, <2>2, <2>4 DEF ReleasesAreSent
    <3> QED
      BY <1>2, <2>1, <2>2, <2>3, <2>4, <3>1 DEF ReleasesAreSent
  <2>5. Len(channel') \in Nat
    BY <1>2, HeadIsFirst, LenProperties DEF TypeOK
  <2>6. ASSUME NEW i \in 1 .. Len(channel'), NEW k \in 1 .. Len(channel'),
               channel'[i].type = "Release", channel'[k].type = "Release",
               channel'[i].frame = channel'[k].frame
        PROVE  k = i
    BY <2>1, <2>5, <2>6 DEF ReleasesAreSent
  <2> QED
    BY <2>4, <2>6 DEF ReleasesAreSent
<1>3. ASSUME NEW s \in Surfaces, NEW b \in WlBuffers, CommitExplicit(s, b) PROVE ReleasesAreSent'
  <2>1. [type |-> "Acquire", point |-> next, surface |-> s] \in Messages
    BY <1>3 DEF CommitExplicit, Messages
  <2> QED
    BY <1>3, <2>1, SendKeepsReleases DEF CommitExplicit, Commit, frameVars
<1>4. ASSUME NEW D \in SUBSET Surfaces, NEW r \in Surfaces, NEW kept, NEW dropped,
             Destroy(D, r, kept, dropped)
      PROVE  ReleasesAreSent'
  <2>1. [type |-> "Cancel", surfaces |-> D, root |-> r] \in Messages
    BY DEF Messages
  <2> QED
    BY <1>4, <2>1, SendKeepsReleases DEF Destroy, frameVars
<1>5. ASSUME NEW s \in Surfaces, Client(s) PROVE ReleasesAreSent'
  <2>1. Parent[s] \in Surfaces /\ Family(Parent[s]) \cap alive \in SUBSET Surfaces
    BY DEF Family
  <2>2. ASSUME NEW kept, ClientDestroys(s, kept) \/ CommitRefused(s, kept) PROVE ReleasesAreSent'
    BY <1>4, <2>1, <2>2 DEF ClientDestroys, CommitRefused
  <2>3. ASSUME \/ \E b \in WlBuffers : CommitImplicit(s, b)
               \/ CommitRemoved(s) \/ CommitNothing(s) \/ WindowLeaves(s)
        PROVE  ReleasesAreSent'
    BY <1>1, <2>3 DEF CommitImplicit, CommitRemoved, CommitNothing, WindowLeaves, Commit, frameVars
  <2> QED
    BY <1>3, <1>5, <2>2, <2>3 DEF Client
<1>6. ASSUME NEW r \in Surfaces, NEW kept, Cleanup(r, kept) PROVE ReleasesAreSent'
  BY <1>4, <1>6 DEF Cleanup, Family
<1>7. CASE OnAcquire \/ OnAcquireFails \/ OnCancel
  BY <1>2, <1>7 DEF OnAcquire, OnAcquireFails, OnCancel, Receive, frameVars
<1>8. CASE OnRelease \/ OnReleaseWaits
  <2>1. /\ channel # << >> /\ channel' = Tail(channel) /\ Head(channel).type = "Release"
        /\ \A g \in Frames : g # Head(channel).frame => fence'[g] = fence[g]
    BY <1>8 DEF OnRelease, OnReleaseWaits, Receive, LetGo, TypeOK
  <2> QED
    BY <1>2, <2>1
<1>9. ASSUME NEW f \in Frames, NEW ended, FrameFenced(f, ended) PROVE ReleasesAreSent'
  <2>1. /\ [type |-> "Release", frame |-> f] \in Messages
        /\ channel' = Append(channel, [type |-> "Release", frame |-> f])
        /\ fence[f] = "none" /\ fence' = [fence EXCEPT ![f] = "sent"]
    BY <1>9 DEF FrameFenced, Draw, Messages
  <2>2. \A i \in 1 .. Len(channel) : channel[i].type = "Release" =>
          channel[i].frame \in Frames /\ channel[i].frame # f
    BY <2>1, MessagesTyped DEF ReleasesAreSent
  <2>3. \A i \in 1 .. Len(channel') :
          \/ i \in 1 .. Len(channel) /\ channel'[i] = channel[i]
          \/ i = Len(channel) + 1 /\ channel'[i] = [type |-> "Release", frame |-> f]
    BY <2>1, AppendedLast DEF TypeOK
  <2>4. \A g \in Frames : fence'[g] = IF g = f THEN "sent" ELSE fence[g]
    BY <2>1 DEF TypeOK
  <2>5. Len(channel) \in Nat
    BY LenProperties DEF TypeOK
  <2> QED
    BY <2>2, <2>3, <2>4, <2>5 DEF ReleasesAreSent
<1>10. ASSUME NEW f \in Frames, NEW ended,
              FrameFinished(f, ended) \/ FrameLost(f, ended) \/ FramePlain(f, ended)
       PROVE  ReleasesAreSent'
  BY <1>1, <1>10 DEF FrameFinished, FrameLost, FramePlain, frameVars
<1>11. ASSUME NEW f \in Frames, FenceReadable(f) PROVE ReleasesAreSent'
  <2>1. \A i \in 1 .. Len(channel) : channel[i].type = "Release" =>
          channel[i].frame \in Frames /\ channel[i].frame # f
    BY <1>11, MessagesTyped DEF FenceReadable, ReleasesAreSent
  <2>2. channel' = channel /\ \A g \in Frames : g # f => fence'[g] = fence[g]
    BY <1>11 DEF FenceReadable, LetGo, TypeOK
  <2> QED
    BY <2>1, <2>2 DEF ReleasesAreSent
<1>12. ASSUME \/ \E p \in Points : ClientReaches(p)
              \/ \E r \in Surfaces : ApplyNext(r) \/ ApplyDone(r) \/ FadeEnds(r)
              \/ \E s \in Surfaces, p \in Points : SourceFires(s, p)
              \/ \E f \in Frames : GpuDone(f)
              \/ UNCHANGED vars
       PROVE  ReleasesAreSent'
  BY <1>1, <1>12 DEF ClientReaches, ApplyNext, ApplyDone, FadeEnds, SourceFires, GpuDone, vars,
     frameVars
<1> QED
  BY <1>5, <1>6, <1>7, <1>8, <1>9, <1>10, <1>11, <1>12 DEF Next, Dispatch, Frame
-----------------------------------------------------------------------------
(* How steps move what waits to be applied.                                *)

LEMMA WaitingTyped ==
    ASSUME TypeOK, NEW r \in Surfaces, NEW i \in Waiting(r)
    PROVE  /\ At(r, i) \in Transactions
           /\ Len(queue[r]) \in Nat /\ i \in Nat
           /\ \A s \in Surfaces : At(r, i).parts[s] \in Parts
                                  /\ Owes(r, i, s) \in Points \cup {NoPoint}
<1>1. At(r, i) \in Transactions /\ Len(queue[r]) \in Nat
  BY LenProperties, ElementOfSeq DEF TypeOK, Waiting, At
<1> QED
  BY <1>1 DEF Transactions, Parts, Owes, Waiting

\* The transaction a commit of `part` leaves its root with.
Joined(s, part, waits) ==
    [parts |-> [pending[Parent[s]].parts EXCEPT ![s] = Merged(@, part)],
     waits |-> pending[Parent[s]].waits \cup waits]

LEMMA CommitMoves ==
    ASSUME TypeOK, NEW s \in Surfaces, NEW part \in Parts, NEW waits \in SUBSET Points,
           Commit(s, part, waits), NEW r \in Surfaces, NEW i \in Waiting(r)'
    PROVE  \/ r # Parent[s] /\ i \in Waiting(r) /\ At(r, i)' = At(r, i)
           \/ r = Parent[s] /\ i \in 1 .. Len(queue[r]) /\ At(r, i)' = At(r, i)
           \/ r = Parent[s] /\ i = Len(queue[r]) + 1 /\ At(r, i)' = Joined(s, part, waits)
           \/ r = Parent[s] /\ i = Len(queue[r]) + 2 /\ At(r, i)' = NoTransaction
<1> DEFINE tx == Joined(s, part, waits)
<1>1. /\ pending' = [pending EXCEPT ![Parent[s]] = IF s = Parent[s] THEN NoTransaction ELSE tx]
      /\ queue' = IF s = Parent[s] THEN [queue EXCEPT ![Parent[s]] = Append(@, tx)] ELSE queue
  BY DEF Commit, Joined
<1>2. tx \in Transactions /\ Parent[s] \in Surfaces
  BY MergedIsAPart DEF TypeOK, Joined, Transactions
<1> HIDE DEF tx
<1>3. pending \in [Surfaces -> Transactions] /\ queue \in [Surfaces -> Seq(Transactions)]
      /\ Len(queue[r]) \in Nat
  BY LenProperties DEF TypeOK
<1>4. CASE r # Parent[s]
  <2>1. pending'[r] = pending[r] /\ queue'[r] = queue[r]
    BY <1>1, <1>2, <1>3, <1>4
  <2> QED
    BY <1>4, <2>1 DEF Waiting, At
<1>5. CASE r = Parent[s] /\ s = Parent[s]
  <2>1. pending'[r] = NoTransaction /\ queue'[r] = Append(queue[r], tx)
    BY <1>1, <1>2, <1>3, <1>5
  <2>2. /\ Len(queue'[r]) = Len(queue[r]) + 1
        /\ \A j \in 1 .. Len(queue[r]) : queue'[r][j] = queue[r][j]
        /\ queue'[r][Len(queue[r]) + 1] = tx
    BY <1>2, <1>3, <2>1, AppendProperties
  <2> QED
    BY <1>3, <1>5, <2>1, <2>2 DEF Waiting, At, tx
<1>6. CASE r = Parent[s] /\ s # Parent[s]
  <2>1. pending'[r] = tx /\ queue'[r] = queue[r]
    BY <1>1, <1>2, <1>3, <1>6
  <2> QED
    BY <1>3, <1>6, <2>1 DEF Waiting, At, tx
<1> QED
  BY <1>4, <1>5, <1>6

LEMMA DestroyMoves ==
    ASSUME TypeOK, NEW D \in SUBSET Surfaces, NEW q \in Surfaces, NEW kept, NEW dropped,
           Destroy(D, q, kept, dropped), NEW r \in Surfaces, NEW i \in Waiting(r)'
    PROVE  i \in Waiting(r) /\ At(r, i)' = IF r = q THEN Without(At(r, i), D) ELSE At(r, i)
<1> DEFINE emptied == [j \in 1 .. Len(queue[q]) |-> Without(queue[q][j], D)]
<1>1. Len(queue[q]) \in Nat /\ Len(queue[r]) \in Nat
  BY LenProperties DEF TypeOK
<1>2. /\ Len(emptied) = Len(queue[q])
      /\ \A j \in 1 .. Len(queue[q]) : emptied[j] = Without(queue[q][j], D)
  BY <1>1
<1>3. pending' = [pending EXCEPT ![q] = Without(@, D)] /\ queue' = [queue EXCEPT ![q] = emptied]
  BY DestroyEmpties
<1> HIDE DEF emptied
<1>4. CASE r # q
  BY <1>1, <1>3, <1>4 DEF Waiting, At, TypeOK
<1>5. CASE r = q
  <2>1. pending'[r] = Without(pending[r], D) /\ queue'[r] = emptied
    BY <1>3, <1>5 DEF TypeOK
  <2> QED
    BY <1>1, <1>2, <1>5, <2>1 DEF Waiting, At
<1> QED
  BY <1>4, <1>5

LEMMA ApplyMoves ==
    ASSUME TypeOK, NEW q \in Surfaces, ApplyNext(q), NEW r \in Surfaces, NEW i \in Waiting(r)'
    PROVE  \/ r # q /\ i \in Waiting(r) /\ At(r, i)' = At(r, i)
           \/ r = q /\ i + 1 \in Waiting(r) \ {1} /\ At(r, i)' = At(r, i + 1)
<1>1. /\ Len(queue[q]) \in Nat /\ Len(queue[r]) \in Nat /\ queue[q] # << >>
      /\ queue' = [queue EXCEPT ![q] = Tail(@)] /\ pending' = pending
  BY LenProperties DEF ApplyNext, Ready, TypeOK
<1>2. CASE r # q
  BY <1>1, <1>2 DEF Waiting, At, TypeOK
<1>3. CASE r = q
  <2>1. queue'[r] = Tail(queue[r]) /\ queue[r] \in Seq(Transactions)
    BY <1>1, <1>3 DEF TypeOK
  <2>2. /\ Len(queue'[r]) = Len(queue[r]) - 1
        /\ \A j \in 1 .. Len(queue'[r]) : queue'[r][j] = queue[r][j + 1]
    <3> DEFINE rest == Tail(queue[r])
    <3>1. Len(rest) = Len(queue[r]) - 1 /\ \A j \in 1 .. Len(rest) : rest[j] = queue[r][j + 1]
      BY <1>1, <1>3, <2>1, HeadIsFirst
    <3> HIDE DEF rest
    <3>2. queue'[r] = rest
      BY <2>1 DEF rest
    <3> QED
      BY <3>1, <3>2
  <2> QED
    BY <1>1, <1>3, <2>1, <2>2 DEF Waiting, At
<1> QED
  BY <1>2, <1>3
-----------------------------------------------------------------------------
(* Each point owed once.                                                   *)

\* All that is owed after a step was owed before it, by the same part of the
\* transaction then up[r] places further back, but for the points of `new`,
\* which one whole part owes.
Survive(up, new) ==
    /\ up \in [Surfaces -> {0, 1}] /\ new \in SUBSET {next}
    /\ \A r, s \in Surfaces : \A i \in Waiting(r)' :
         Owes(r, i, s)' # NoPoint /\ Owes(r, i, s)' \notin new =>
           /\ i + up[r] \in Waiting(r)
           /\ At(r, i)'.parts[s] = At(r, i + up[r]).parts[s]
           /\ At(r, i + up[r]).waits \subseteq At(r, i)'.waits
           /\ s \in alive => s \in alive'
    /\ \A r, s \in Surfaces : \A i \in Waiting(r)' : Owes(r, i, s)' \in new =>
         /\ PartIsWhole(r, i, s)'
         /\ \A q, t \in Surfaces : \A j \in Waiting(q)' : Owes(q, j, t)' \in new =>
              r = q /\ i = j /\ s = t

LEMMA WasOwed ==
    ASSUME NEW up, NEW new, Survive(up, new), NEW r \in Surfaces, NEW s \in Surfaces,
           NEW i \in Waiting(r)', Owes(r, i, s)' # NoPoint, Owes(r, i, s)' \notin new
    PROVE  i + up[r] \in Waiting(r) /\ Owes(r, i + up[r], s) = Owes(r, i, s)'
  BY DEF Survive, Owes

LEMMA SurvivorsAreWhole ==
    ASSUME TypeOK, PartsAreWhole, NEW up, NEW new, Survive(up, new)
    PROVE  PartsAreWhole'
<1> SUFFICES ASSUME NEW r \in Surfaces, NEW s \in Surfaces, NEW i \in Waiting(r)',
                    Owes(r, i, s)' # NoPoint
             PROVE  PartIsWhole(r, i, s)'
  BY DEF PartsAreWhole, PartIsWhole, Owes
<1>1. CASE Owes(r, i, s)' \in new
  BY <1>1 DEF Survive
<1>2. CASE Owes(r, i, s)' \notin new
  <2>1. /\ i + up[r] \in Waiting(r) /\ At(r, i)'.parts[s] = At(r, i + up[r]).parts[s]
        /\ At(r, i + up[r]).waits \subseteq At(r, i)'.waits
        /\ s \in alive => s \in alive'
    BY <1>2 DEF Survive
  <2>2. PartIsWhole(r, i + up[r], s)
    BY <2>1 DEF PartsAreWhole
  <2> QED
    BY <2>1, <2>2 DEF PartIsWhole
<1> QED
  BY <1>1, <1>2

LEMMA SurvivorsAreOwedOnce ==
    ASSUME TypeOK, OwedOnce, NEW up, NEW new, Survive(up, new),
           \A r, s \in Surfaces : \A i \in Waiting(r) : Owes(r, i, s) \notin new
    PROVE  OwedOnce'
<1> SUFFICES ASSUME NEW r \in Surfaces, NEW s \in Surfaces, NEW q \in Surfaces,
                    NEW t \in Surfaces, NEW i \in Waiting(r)', NEW j \in Waiting(q)',
                    Owes(r, i, s)' # NoPoint, Owes(r, i, s)' = Owes(q, j, t)'
             PROVE  r = q /\ i = j /\ s = t
  BY DEF OwedOnce
<1>1. CASE Owes(r, i, s)' \in new
  BY <1>1 DEF Survive
<1>2. CASE Owes(r, i, s)' \notin new
  <2>1. /\ i + up[r] \in Waiting(r) /\ Owes(r, i + up[r], s) = Owes(r, i, s)'
        /\ j + up[q] \in Waiting(q) /\ Owes(q, j + up[q], t) = Owes(q, j, t)'
    BY <1>2, WasOwed
  <2>2. r = q /\ i + up[r] = j + up[q] /\ s = t
    BY <2>1 DEF OwedOnce
  <2>3. i \in Nat /\ j \in Nat /\ up[r] \in {0, 1} /\ up[q] = up[r]
    BY <2>2 DEF Survive, Waiting
  <2> QED
    BY <2>2, <2>3
<1> QED
  BY <1>1, <1>2

Still == [r \in Surfaces |-> 0]
Forward(q) == [r \in Surfaces |-> IF r = q THEN 1 ELSE 0]

LEMMA NothingMoved ==
    ASSUME TypeOK, UNCHANGED <<queue, pending, alive>>
    PROVE  Survive(Still, {})
<1>1. \A r \in Surfaces : \A i \in Waiting(r)' :
        i \in Waiting(r) /\ i \in Nat /\ At(r, i)' = At(r, i)
  BY LenProperties DEF Waiting, At, TypeOK
<1> QED
  BY <1>1 DEF Survive, Still, PartIsWhole, Owes

\* A commit's part: a new buffer with its points, next, or one that owes nothing.
FreshPart(part, waits) ==
    \/ part.discard = NoPoint /\ waits = {} /\ (part.kind = "none" => part = NoPart)
    \/ /\ part.kind = "new" /\ part.discard = next /\ part.sync = next /\ waits = {next}

LEMMA CommitSurvive ==
    ASSUME TypeOK, PartsAreWhole, UsedAreIssued, NEW s \in Surfaces, NEW part \in Parts,
           NEW waits \in SUBSET Points, Commit(s, part, waits), FreshPart(part, waits),
           s \in alive
    PROVE  /\ Survive(Still, {part.discard} \ {NoPoint})
           /\ \A r, t \in Surfaces : \A i \in Waiting(r)' :
                Owes(r, i, t)' \in {part.discard} \ {NoPoint} => t = s
<1> DEFINE new == {part.discard} \ {NoPoint}
           R == Parent[s]
           n == Len(queue[R]) + 1
           old == pending[R].parts[s]
<1>1. /\ n \in Waiting(R) /\ n \in Nat /\ old \in Parts /\ At(R, n) = pending[R] /\ R \in Surfaces
      /\ alive' = alive /\ pending[R] \in Transactions
  BY WaitingTyped, LenProperties DEF Waiting, At, TypeOK, Commit, Transactions
<1>2. ASSUME NEW r \in Surfaces, NEW t \in Surfaces, NEW i \in Waiting(r)',
             Owes(r, i, t)' # NoPoint
      PROVE  \/ r = R /\ i = n /\ t = s /\ Owes(r, i, t)' \in new /\ PartIsWhole(r, i, t)'
             \/ /\ i \in Waiting(r) /\ i + Still[r] = i
                /\ At(r, i)'.parts[t] = At(r, i).parts[t]
                /\ At(r, i).waits \subseteq At(r, i)'.waits
                /\ Owes(r, i, t)' \notin new
  <2>1. ASSUME i \in Waiting(r), At(r, i)'.parts[t] = At(r, i).parts[t],
               At(r, i).waits \subseteq At(r, i)'.waits
        PROVE  /\ i + Still[r] = i /\ Owes(r, i, t)' \notin new
    <3>1. Owes(r, i, t)' = Owes(r, i, t)
      BY <2>1 DEF Owes
    <3>2. i + Still[r] = i /\ Owes(r, i, t) < next /\ Owes(r, i, t) \in Nat /\ next \in Nat
      <4>1. i \in Nat /\ Owes(r, i, t) \in Points \cup {NoPoint}
        BY <2>1, WaitingTyped
      <4>2. i + Still[r] = i /\ Owes(r, i, t) \in Nat
        BY <4>1 DEF Still, Points, NoPoint
      <4>3. next \in Nat /\ Owes(r, i, t) < next
        BY <2>1 DEF UsedAreIssued, TypeOK
      <4> QED
        BY <4>2, <4>3
    <3>3. part.discard \in {NoPoint, next}
      BY DEF FreshPart
    <3> QED
      BY <1>2, <3>1, <3>2, <3>3
  <2>2. CASE At(r, i)' = At(r, i) /\ i \in Waiting(r)
    BY <2>1, <2>2
  <2>3. CASE r = R /\ i = n /\ At(r, i)' = Joined(s, part, waits)
    <3>1. /\ At(r, i)'.parts[t] = IF t = s THEN Merged(old, part) ELSE pending[R].parts[t]
          /\ At(r, i)'.waits = pending[R].waits \cup waits
      BY <1>1, <2>3 DEF Joined, Transactions
    <3>2. CASE t # s \/ part.kind = "none"
      <4>1. part.kind = "none" => Merged(old, part) = old
        BY <1>1 DEF FreshPart, Merged, NoPart, Parts
      <4> QED
        BY <1>1, <2>1, <2>3, <3>1, <3>2, <4>1
    <3>3. CASE t = s /\ part.kind # "none"
      <4>1. Owes(r, i, t)' = part.discard
        BY <3>1, <3>3 DEF Owes, Merged
      <4>2. /\ part.kind = "new" /\ part.discard = next /\ part.sync = next /\ waits = {next}
        BY <1>2, <4>1 DEF FreshPart
      <4>3. PartIsWhole(r, i, t)'
        BY <1>1, <2>3, <3>1, <3>3, <4>1, <4>2 DEF PartIsWhole, Merged, TypeOK
      <4> QED
        BY <1>2, <2>3, <3>3, <4>1, <4>3
    <3> QED
      BY <3>2, <3>3
  <2>4. CASE At(r, i)' = NoTransaction
    BY <1>2, <2>4 DEF NoTransaction, NoPart, Owes
  <2> QED
    BY <1>1, <2>1, <2>2, <2>3, <2>4, CommitMoves DEF Waiting
<1>3. new \in SUBSET {next} /\ Still \in [Surfaces -> {0, 1}]
  BY DEF FreshPart, Still
<1> HIDE DEF new, R, n
<1>4. \A r, t \in Surfaces : \A i \in Waiting(r)' : Owes(r, i, t)' \in new =>
        Owes(r, i, t)' # NoPoint
  BY DEF new
<1>5. ASSUME NEW r \in Surfaces, NEW t \in Surfaces, NEW i \in Waiting(r)',
             Owes(r, i, t)' # NoPoint, Owes(r, i, t)' \notin new
      PROVE  /\ i + Still[r] \in Waiting(r)
             /\ At(r, i)'.parts[t] = At(r, i + Still[r]).parts[t]
             /\ At(r, i + Still[r]).waits \subseteq At(r, i)'.waits
             /\ t \in alive => t \in alive'
  BY <1>1, <1>2, <1>5
<1>6. ASSUME NEW r \in Surfaces, NEW t \in Surfaces, NEW i \in Waiting(r)', Owes(r, i, t)' \in new
      PROVE  r = R /\ i = n /\ t = s /\ PartIsWhole(r, i, t)'
  BY <1>2, <1>4, <1>6
<1> QED
  BY <1>3, <1>5, <1>6 DEF Survive, new

LEMMA DestroySurvive ==
    ASSUME TypeOK, NEW D \in SUBSET Surfaces, NEW q \in Surfaces, NEW kept, NEW dropped,
           Destroy(D, q, kept, dropped), PartsAreWhole, D \subseteq Family(q)
    PROVE  /\ Survive(Still, {})
           /\ \A r, s \in Surfaces : \A i \in Waiting(r)' :
                Owes(r, i, s)' # NoPoint => i \in Waiting(r) /\ s \notin D
                                            /\ Owes(r, i, s)' = Owes(r, i, s)
<1>0. \A r \in Surfaces : \A i \in Waiting(r)' :
        i \in Waiting(r) /\ At(r, i)' = IF r = q THEN Without(At(r, i), D) ELSE At(r, i)
  <2> TAKE r \in Surfaces
  <2> TAKE i \in Waiting(r)'
  <2> QED
    BY DestroyMoves
<1>1. ASSUME NEW r \in Surfaces, NEW s \in Surfaces, NEW i \in Waiting(r)',
             Owes(r, i, s)' # NoPoint
      PROVE  /\ i \in Waiting(r) /\ i + Still[r] = i
             /\ At(r, i)'.parts[s] = At(r, i).parts[s]
             /\ At(r, i).waits = At(r, i)'.waits /\ s \notin D
  <2>1. i \in Waiting(r) /\ At(r, i)' = IF r = q THEN Without(At(r, i), D) ELSE At(r, i)
    BY <1>0, <1>1
  <2>2. At(r, i) \in Transactions /\ i \in Nat
    <3>1. i \in Waiting(r)
      BY <2>1
    <3> QED
      BY <3>1, WaitingTyped
  <2>5. i + Still[r] = i
    BY <2>2 DEF Still
  <2>3. CASE r = q
    <3>1. /\ At(r, i)'.waits = At(r, i).waits
          /\ At(r, i)'.parts[s] = IF s \in D THEN NoPart ELSE At(r, i).parts[s]
      BY <2>1, <2>2, <2>3 DEF Without, Transactions
    <3>2. s \notin D
      BY <1>1, <3>1 DEF Owes, NoPart
    <3> QED
      BY <2>1, <2>5, <3>1, <3>2
  <2>4. CASE r # q
    <3>1. At(r, i)' = At(r, i) /\ Owes(r, i, s) # NoPoint
      BY <1>1, <2>1, <2>4 DEF Owes
    <3>2. Parent[s] = r
      BY <2>1, <3>1 DEF PartsAreWhole, PartIsWhole, Owes
    <3> QED
      BY <2>1, <2>5, <2>4, <3>1, <3>2 DEF Family
  <2> QED
    BY <2>3, <2>4
<1>2. alive' = alive \ D /\ Still \in [Surfaces -> {0, 1}]
  BY DEF Destroy, Still
<1>3. ASSUME NEW r \in Surfaces, NEW s \in Surfaces, NEW i \in Waiting(r)',
             Owes(r, i, s)' # NoPoint
      PROVE  /\ i + Still[r] \in Waiting(r)
             /\ At(r, i)'.parts[s] = At(r, i + Still[r]).parts[s]
             /\ At(r, i + Still[r]).waits \subseteq At(r, i)'.waits
             /\ s \in alive => s \in alive'
  BY <1>1, <1>2, <1>3
<1>4. Survive(Still, {})
  BY <1>2, <1>3 DEF Survive
<1> QED
  BY <1>1, <1>4 DEF Owes

LEMMA ApplySurvive ==
    ASSUME TypeOK, NEW q \in Surfaces, ApplyNext(q)
    PROVE  Survive(Forward(q), {})
<1>1. ASSUME NEW r \in Surfaces, NEW i \in Waiting(r)'
      PROVE  i + Forward(q)[r] \in Waiting(r) /\ At(r, i)' = At(r, i + Forward(q)[r])
  <2>1. i \in Nat
    BY DEF Waiting
  <2> QED
    BY <2>1, ApplyMoves DEF Forward
<1>2. alive' = alive /\ Forward(q) \in [Surfaces -> {0, 1}]
  BY DEF ApplyNext, Forward
<1>3. ASSUME NEW r \in Surfaces, NEW s \in Surfaces, NEW i \in Waiting(r)'
      PROVE  /\ i + Forward(q)[r] \in Waiting(r)
             /\ At(r, i)'.parts[s] = At(r, i + Forward(q)[r]).parts[s]
             /\ At(r, i + Forward(q)[r]).waits \subseteq At(r, i)'.waits
             /\ s \in alive => s \in alive'
  BY <1>1, <1>2
<1> QED
  BY <1>2, <1>3 DEF Survive
-----------------------------------------------------------------------------
(* What is owed, referenced and signalled.                                 *)

\* A step that signals at most what it drops and what no Buffer has any more,
\* references nothing given back, and leaves nothing owed that it uses.
LEMMA UseKept ==
    ASSUME OwedIsUnused, ReferencedIsUnsignalled, signalled' \subseteq Points,
           NEW up, NEW new, Survive(up, new), NEW dropped,
           signalled' \subseteq signalled \cup dropped \cup (Referenced \ Referenced'),
           Referenced' \cap signalled = {}, Referenced' \cap dropped = {},
           new \cap (Referenced \cup Referenced' \cup signalled \cup dropped) = {},
           \A r, s \in Surfaces : \A i \in Waiting(r)' :
             Owes(r, i, s)' # NoPoint => Owes(r, i, s)' \notin dropped \cup Referenced'
    PROVE  OwedIsUnused' /\ ReferencedIsUnsignalled'
<1>1. ReferencedIsUnsignalled'
  BY DEF ReferencedIsUnsignalled
<1>2. ASSUME NEW r \in Surfaces, NEW s \in Surfaces, NEW i \in Waiting(r)'
      PROVE  Owes(r, i, s)' \notin Referenced' \cup signalled'
  <2>1. CASE Owes(r, i, s)' = NoPoint
    BY <2>1 DEF Referenced, Points, NoPoint
  <2>2. CASE Owes(r, i, s)' # NoPoint /\ Owes(r, i, s)' \in new
    BY <2>2
  <2>3. CASE Owes(r, i, s)' # NoPoint /\ Owes(r, i, s)' \notin new
    <3>1. Owes(r, i, s)' \notin Referenced \cup signalled
      BY <2>3, WasOwed DEF OwedIsUnused
    <3> QED
      BY <2>3, <3>1
  <2> QED
    BY <2>1, <2>2, <2>3
<1> QED
  BY <1>1, <1>2 DEF OwedIsUnused

\* And everything used was issued, if what it takes up was.
LEMMA IssueKept ==
    ASSUME TypeOK, UsedAreIssued, NEW up, NEW new, Survive(up, new), NEW dropped,
           next' \in {next, next + 1}, new # {} => next' = next + 1,
           next' \in 1 .. (MaxPoint + 1),
           signalled' \subseteq signalled \cup dropped \cup (Referenced \ Referenced'),
           dropped \subseteq Issued', Referenced' \subseteq Issued
    PROVE  UsedAreIssued'
<1>1. next \in Nat /\ next' \in Nat /\ 0 < next' /\ Issued \subseteq Issued'
  BY DEF TypeOK, Issued, Points
<1>2. ASSUME NEW r \in Surfaces, NEW s \in Surfaces, NEW i \in Waiting(r)'
      PROVE  Owes(r, i, s)' < next'
  <2>1. CASE Owes(r, i, s)' = NoPoint
    BY <1>1, <2>1 DEF NoPoint
  <2>2. CASE Owes(r, i, s)' \in new
    <3>1. Owes(r, i, s)' = next
      BY <2>2 DEF Survive
    <3>2. next' = next + 1
      BY <2>2
    <3> QED
      BY <1>1, <3>1, <3>2
  <2>3. CASE Owes(r, i, s)' # NoPoint /\ Owes(r, i, s)' \notin new
    <3>1. i + up[r] \in Waiting(r) /\ Owes(r, i + up[r], s) = Owes(r, i, s)'
      BY <2>3, WasOwed
    <3>2. Owes(r, i, s)' < next /\ Owes(r, i, s)' \in Points
      BY <2>3, <3>1, WaitingTyped DEF UsedAreIssued
    <3> QED
      BY <1>1, <3>2 DEF Points
  <2> QED
    BY <2>1, <2>2, <2>3
<1> QED
  BY <1>1, <1>2 DEF UsedAreIssued

\* Buffers and pictures let go of, and no commit.
LEMMA LettingGoKeepsUse ==
    ASSUME TypeOK, TypeOK', UseInv, UNCHANGED <<queue, pending, alive, next, discard>>,
           Referenced' \subseteq Referenced,
           signalled' \subseteq signalled \cup (Referenced \ Referenced')
    PROVE  UseInv'
<1>1. Survive(Still, {})
  BY NothingMoved
<1>2. \A r, s \in Surfaces : \A i \in Waiting(r)' :
        Owes(r, i, s)' # NoPoint => Owes(r, i, s)' \notin {} \cup Referenced'
  BY <1>1, WasOwed DEF UseInv, OwedIsUnused
<1>3. PartsAreWhole' /\ OwedOnce'
  BY <1>1, SurvivorsAreWhole, SurvivorsAreOwedOnce DEF UseInv
<1>4. signalled' \subseteq Points
  BY DEF TypeOK
<1>5. signalled' \subseteq signalled \cup {} \cup (Referenced \ Referenced')
  OBVIOUS
<1>6. OwedIsUnused' /\ ReferencedIsUnsignalled'
  <2>1. /\ Referenced' \cap signalled = {} /\ Referenced' \cap {} = {}
        /\ {} \cap (Referenced \cup Referenced' \cup signalled \cup {}) = {}
    BY DEF UseInv, ReferencedIsUnsignalled
  <2> QED
    BY <1>1, <1>2, <1>4, <1>5, <2>1, UseKept DEF UseInv
<1>7. UsedAreIssued'
  <2>1. Referenced' \subseteq Issued /\ next' \in {next, next + 1} /\ next' \in 1 .. (MaxPoint + 1)
    BY DEF UseInv, UsedAreIssued, TypeOK
  <2> QED
    BY <1>1, <1>5, <2>1, IssueKept DEF UseInv
<1> QED
  BY <1>3, <1>6, <1>7 DEF UseInv, NothingLeftToDiscard

\* A commit signals what its part replaces in the pending one.
LEMMA CommitKeepsUse ==
    ASSUME TypeOK, TypeOK', UseInv, NEW s \in Surfaces, NEW part \in Parts,
           NEW waits \in SUBSET Points, Commit(s, part, waits), FreshPart(part, waits),
           s \in alive, IF part.discard = NoPoint THEN next' = next ELSE next' = next + 1
    PROVE  UseInv'
<1> DEFINE new == {part.discard} \ {NoPoint}
           R == Parent[s]
           n == Len(queue[R]) + 1
           dropped == Superseded(pending[R].parts[s], part)
<1>1. Survive(Still, new)
  BY CommitSurvive DEF UseInv
<1>2. /\ n \in Waiting(R) /\ n \in Nat /\ R \in Surfaces /\ pending[R] \in Transactions
      /\ Owes(R, n, s) = pending[R].parts[s].discard /\ next \in Nat \ {0}
  BY LenProperties DEF Waiting, Owes, At, TypeOK
<1>3. dropped = IF part.kind = "none" THEN {} ELSE {Owes(R, n, s)} \ {NoPoint}
  BY <1>2 DEF Superseded
<1>4. /\ Referenced' = Referenced /\ discard' = discard
      /\ signalled' \subseteq signalled \cup dropped \cup (Referenced \ Referenced')
      /\ signalled' \subseteq Points
  BY DEF Commit, Signal, Superseded, surfaceVars, frameVars, Referenced, TypeOK
<1>5. new \in SUBSET {next}
  BY DEF FreshPart
<1>6. ASSUME NEW r \in Surfaces, NEW t \in Surfaces, NEW i \in Waiting(r)
      PROVE  Owes(r, i, t) < next /\ Owes(r, i, t) \in Nat /\ Owes(r, i, t) \notin new
  BY <1>2, <1>5, WaitingTyped DEF UseInv, UsedAreIssued, Points, NoPoint
<1>7. ASSUME NEW r \in Surfaces, NEW t \in Surfaces, NEW i \in Waiting(r)',
             Owes(r, i, t)' # NoPoint
      PROVE  Owes(r, i, t)' \notin dropped \cup Referenced'
  <2>1. CASE Owes(r, i, t)' \in new
    <3>1. Owes(r, i, t)' = next /\ next \notin Referenced
      BY <1>2, <1>5, <2>1 DEF UseInv, UsedAreIssued, Issued
    <3> QED
      BY <1>2, <1>3, <1>4, <1>6, <3>1
  <2>2. CASE Owes(r, i, t)' \notin new
    <3>1. i + Still[r] = i
      BY DEF Still, Waiting
    <3>2. i \in Waiting(r) /\ Owes(r, i, t) = Owes(r, i, t)'
      BY <1>1, <1>7, <2>2, <3>1, WasOwed
    <3>3. Owes(r, i, t) \notin Referenced
      BY <3>2 DEF UseInv, OwedIsUnused
    <3>4. ASSUME part.kind # "none", Owes(r, i, t) = Owes(R, n, s) PROVE FALSE
      <4>1. r = R /\ i = n /\ t = s
        BY <1>2, <1>7, <3>2, <3>4 DEF UseInv, OwedOnce
      <4>2. At(r, i)' = Joined(s, part, waits)
        BY <1>2, <4>1, CommitMoves
      <4>3. Owes(r, i, t)' = part.discard
        BY <1>2, <3>4, <4>1, <4>2 DEF Owes, Joined, Merged, Transactions
      <4> QED
        BY <1>7, <2>2, <4>3
    <3> QED
      BY <1>3, <1>4, <3>2, <3>3, <3>4
  <2> QED
    BY <2>1, <2>2
<1>8. /\ Referenced' \cap signalled = {} /\ Referenced' \cap dropped = {}
      /\ new \cap (Referenced \cup Referenced' \cup signalled \cup dropped) = {}
      /\ dropped \subseteq Issued /\ Referenced' \subseteq Issued
  <2>1. next \notin Referenced /\ next \notin signalled
    BY <1>2 DEF UseInv, UsedAreIssued, Issued
  <2>2. Owes(R, n, s) \notin Referenced /\ Owes(R, n, s) # next
    BY <1>2, <1>6 DEF UseInv, OwedIsUnused
  <2>3. dropped \subseteq Issued
    BY <1>2, <1>3, <1>6, WaitingTyped DEF Issued
  <2> QED
    BY <1>3, <1>4, <1>5, <2>1, <2>2, <2>3 DEF UseInv, ReferencedIsUnsignalled, UsedAreIssued
<1> HIDE DEF dropped, new, R, n
<1>9. OwedIsUnused' /\ ReferencedIsUnsignalled'
  BY <1>1, <1>4, <1>7, <1>8, UseKept DEF UseInv
<1>10. UsedAreIssued'
  <2>1. next' \in {next, next + 1} /\ next' \in 1 .. (MaxPoint + 1) /\ (new # {} => next' = next + 1)
    BY DEF TypeOK, new
  <2>2. Issued \subseteq Issued'
    BY <1>2, <2>1 DEF Issued, Points
  <2> QED
    BY <1>1, <1>4, <1>8, <2>1, <2>2, IssueKept DEF UseInv
<1>11. PartsAreWhole' /\ OwedOnce'
  BY <1>1, <1>6, SurvivorsAreWhole, SurvivorsAreOwedOnce DEF UseInv
<1> QED
  BY <1>4, <1>9, <1>10, <1>11 DEF UseInv, NothingLeftToDiscard

\* Surfaces destroyed signal what their commits owe.
LEMMA DestroyKeepsUse ==
    ASSUME TypeOK, TypeOK', UseInv, NEW q \in Surfaces, NEW D \in SUBSET Family(q), NEW kept,
           NEW dropped, Destroy(D, q, kept, dropped),
           \/ dropped = {} /\ next' = next
           \/ dropped = {next} /\ next' = next + 1
    PROVE  UseInv'
<1> DEFINE owned == {pending[q].parts[s].discard : s \in D}
                      \cup UNION {{queue[q][i].parts[s].discard : s \in D}
                                    : i \in DOMAIN queue[q]}
           gone == (dropped \cup owned \cup {discard[s] : s \in D}) \ {NoPoint}
<1>1. D \in SUBSET Surfaces /\ D \subseteq Family(q)
  BY DEF Family
<1>2. /\ Survive(Still, {})
      /\ \A r, s \in Surfaces : \A i \in Waiting(r)' :
           Owes(r, i, s)' # NoPoint => i \in Waiting(r) /\ s \notin D
                                       /\ Owes(r, i, s)' = Owes(r, i, s)
  BY <1>1, DestroySurvive DEF UseInv
<1>3. next \in Nat \ {0} /\ Len(queue[q]) \in Nat /\ DOMAIN queue[q] = 1 .. Len(queue[q])
  BY LenProperties DEF TypeOK
<1>4. \A p \in gone : \/ p = next /\ next' = next + 1
                      \/ \E s \in D, i \in Waiting(q) : p = Owes(q, i, s)
  <2> SUFFICES ASSUME NEW p \in gone
               PROVE  \/ p = next /\ next' = next + 1
                      \/ \E s \in D, i \in Waiting(q) : p = Owes(q, i, s)
    OBVIOUS
  <2>1. CASE p \in dropped
    BY <2>1
  <2>2. CASE p \in {discard[s] : s \in D}
    BY <1>1, <2>2 DEF UseInv, NothingLeftToDiscard
  <2>3. ASSUME NEW s \in D, p = pending[q].parts[s].discard
        PROVE  \E t \in D, i \in Waiting(q) : p = Owes(q, i, t)
    <3>1. Len(queue[q]) + 1 \in Waiting(q) /\ p = Owes(q, Len(queue[q]) + 1, s)
      BY <1>3, <2>3 DEF Waiting, Owes, At
    <3> QED
      BY <3>1
  <2>4. ASSUME NEW s \in D, NEW i \in DOMAIN queue[q], p = queue[q][i].parts[s].discard
        PROVE  \E t \in D, j \in Waiting(q) : p = Owes(q, j, t)
    <3>1. i \in 1 .. Len(queue[q]) /\ i # Len(queue[q]) + 1 /\ i \in 1 .. (Len(queue[q]) + 1)
      BY <1>3
    <3>2. i \in Waiting(q) /\ p = Owes(q, i, s)
      BY <2>4, <3>1 DEF Waiting, Owes, At
    <3> QED
      BY <3>2
  <2>5. p \in dropped \/ p \in owned \/ p \in {discard[s] : s \in D}
    OBVIOUS
  <2>6. CASE p \in owned
    <3>1. \/ \E s \in D : p = pending[q].parts[s].discard
          \/ \E i \in DOMAIN queue[q] : \E s \in D : p = queue[q][i].parts[s].discard
      BY <2>6
    <3> QED
      BY <2>3, <2>4, <3>1
  <2> QED
    BY <2>1, <2>2, <2>5, <2>6
<1>5. signalled' = signalled \cup gone \cup (Referenced \ Referenced')
  BY DEF Destroy, Signal
<1> HIDE DEF owned, gone
<1>6. Referenced' \subseteq Referenced
  <2>1. ASSUME NEW s \in Surfaces
        PROVE  /\ shown'[s].point \in {NoPoint, shown[s].point}
               /\ picture'[s] \in {NoPoint, shown[s].point, picture[s]}
    BY DEF Destroy, Unmapped
  <2>2. holds' = holds /\ stranded' = stranded
    BY DEF Destroy, frameVars
  <2> QED
    BY <2>1, <2>2 DEF Referenced
<1>7. next \notin Referenced /\ next \notin signalled
  BY <1>3 DEF UseInv, UsedAreIssued, Issued
<1>8. \A s \in D, i \in Waiting(q) : /\ Owes(q, i, s) \notin Referenced /\ Owes(q, i, s) < next
                                     /\ Owes(q, i, s) \in Points \cup {NoPoint}
  BY <1>1, WaitingTyped DEF UseInv, OwedIsUnused, UsedAreIssued
<1>9. ASSUME NEW r \in Surfaces, NEW s \in Surfaces, NEW i \in Waiting(r)',
             Owes(r, i, s)' # NoPoint
      PROVE  Owes(r, i, s)' \notin gone \cup Referenced'
  <2>1. /\ i \in Waiting(r) /\ s \notin D /\ Owes(r, i, s)' = Owes(r, i, s)
        /\ Owes(r, i, s) \notin Referenced /\ Owes(r, i, s) < next /\ Owes(r, i, s) \in Nat
    BY <1>2, <1>9, WaitingTyped DEF UseInv, OwedIsUnused, UsedAreIssued, Points, NoPoint
  <2>2. \A t \in D, j \in Waiting(q) : Owes(r, i, s) # Owes(q, j, t)
    BY <1>1, <1>9, <2>1 DEF UseInv, OwedOnce
  <2> QED
    BY <1>3, <1>4, <1>6, <2>1, <2>2
<1>10. OwedIsUnused' /\ ReferencedIsUnsignalled'
  <2>1. /\ Referenced' \cap signalled = {} /\ Referenced' \cap gone = {}
        /\ {} \cap (Referenced \cup Referenced' \cup signalled \cup gone) = {}
    BY <1>4, <1>6, <1>7, <1>8 DEF UseInv, ReferencedIsUnsignalled
  <2>2. signalled' \subseteq Points
    BY DEF TypeOK
  <2> QED
    BY <1>2, <1>5, <1>9, <2>1, <2>2, UseKept DEF UseInv
<1>11. UsedAreIssued'
  <2>1. next' \in {next, next + 1} /\ next' \in 1 .. (MaxPoint + 1)
    BY DEF TypeOK
  <2>2. gone \subseteq Issued'
    <3>1. NoPoint \notin gone
      BY DEF gone
    <3>2. \A p \in gone : p < next' /\ p \in Points
      BY <1>3, <1>4, <1>8, <2>1, <3>1 DEF Points
    <3> QED
      BY <3>2 DEF Issued
  <2>3. Referenced' \subseteq Issued
    BY <1>6 DEF UseInv, UsedAreIssued
  <2> QED
    BY <1>2, <1>5, <2>1, <2>2, <2>3, IssueKept DEF UseInv
<1>12. PartsAreWhole' /\ OwedOnce'
  BY <1>2, SurvivorsAreWhole, SurvivorsAreOwedOnce DEF UseInv
<1>13. NothingLeftToDiscard'
  BY DEF UseInv, NothingLeftToDiscard, Destroy
<1> QED
  BY <1>10, <1>11, <1>12, <1>13 DEF UseInv

\* An import takes over the point its part owes; a buffer that stays has none,
\* or its surface is given nothing.
LEMMA ImportTakesItsOwn ==
    ASSUME TypeOK, PartsAreWhole, NothingLeftToDiscard, ShownIsActive,
           NEW q \in Surfaces, queue[q] # << >>, NEW s \in Surfaces, s \in alive
    PROVE  LET now == Current(s, Head(queue[q]))
           IN  /\ 1 \in Waiting(q) /\ At(q, 1) = Head(queue[q])
               /\ DiscardLeft(now) = NoPoint /\ now.kind = Head(queue[q]).parts[s].kind
               /\ Imported(s, now).point # NoPoint =>
                    \/ now.kind = "none" /\ Imported(s, now) = shown[s]
                    \/ /\ IsExplicit(now) /\ Imported(s, now).point = Owes(q, 1, s)
                       /\ now.kind = "new"
<1> DEFINE part == Head(queue[q]).parts[s]
           now == Current(s, Head(queue[q]))
<1>1. 1 \in Waiting(q) /\ At(q, 1) = Head(queue[q]) /\ Owes(q, 1, s) = part.discard /\ part \in Parts
  <2>1. Head(queue[q]) = queue[q][1] /\ Len(queue[q]) \in Nat /\ 1 \in 1 .. Len(queue[q])
    BY HeadIsFirst, LenProperties DEF TypeOK
  <2>2. 1 \in Waiting(q) /\ At(q, 1) = Head(queue[q])
    BY <2>1 DEF Waiting, At
  <2> QED
    BY <2>2, WaitingTyped DEF Owes
<1>2. part.discard # NoPoint => part.kind = "new" /\ part.sync = part.discard
  BY <1>1 DEF PartsAreWhole, PartIsWhole
<1>3. discard[s] = NoPoint
  BY DEF NothingLeftToDiscard
<1>4. /\ now.kind = part.kind
      /\ now.discard = part.discard
      /\ part.sync # NoPoint => now.sync = part.sync
      /\ part.kind # "none" => now.wl = part.wl
  BY <1>1, <1>2, <1>3 DEF Current, Merged, NoPart, Parts
<1>5. DiscardLeft(now) = NoPoint
  BY <1>2, <1>4 DEF DiscardLeft, IsExplicit
<1>6. ASSUME Imported(s, now).point # NoPoint
      PROVE  \/ now.kind = "none" /\ Imported(s, now) = shown[s]
             \/ IsExplicit(now) /\ Imported(s, now).point = Owes(q, 1, s) /\ now.kind = "new"
  <2> HIDE DEF now, part
  <2>1. now.kind \in {"none", "new", "removed"} /\ shown[s] \in Buffers
    BY <1>1, <1>4 DEF Parts, TypeOK
  <2>2. CASE now.kind = "none"
    BY <2>2 DEF Imported
  <2>3. CASE now.kind = "removed"
    BY <1>6, <2>3 DEF Imported, Unmapped
  <2>4. CASE now.kind = "new" /\ shown[s].wl = now.wl /\ ~Reattached(s, now)
    <3>1. Imported(s, now) = shown[s] /\ ~active[s]
      BY <2>4 DEF Imported, Reattached
    <3> QED
      BY <1>6, <3>1 DEF ShownIsActive
  <2>5. CASE now.kind = "new" /\ ~(shown[s].wl = now.wl /\ ~Reattached(s, now))
    <3>1. Imported(s, now) = [wl |-> now.wl, point |-> SyncAtImport(now)]
      BY <2>5 DEF Imported
    <3> QED
      BY <1>1, <1>2, <1>4, <1>6, <2>5, <3>1 DEF SyncAtImport, IsExplicit
  <2> QED
    BY <2>1, <2>2, <2>3, <2>4, <2>5
<1> QED
  BY <1>1, <1>4, <1>5, <1>6

\* A transaction applied: each surface's new Buffer has the point it owed.
LEMMA ApplyShows ==
    ASSUME TypeOK, PartsAreWhole, NothingLeftToDiscard, ShownIsActive,
           NEW q \in Surfaces, ApplyNext(q), NEW s \in Surfaces
    PROVE  /\ 1 \in Waiting(q) /\ At(q, 1) = Head(queue[q]) /\ At(q, 1).waits \subseteq opened
           /\ shown'[s].point # NoPoint =>
                \/ shown'[s] = shown[s] /\ active'[s] = active[s]
                \/ shown'[s].point = Owes(q, 1, s) /\ active'[s] /\ s \in alive
           /\ picture'[s] \in {NoPoint, picture[s]} /\ discard'[s] = NoPoint
           /\ discard[s] = NoPoint
<1> DEFINE now == Current(s, Head(queue[q]))
<1>1. queue[q] # << >> /\ Head(queue[q]).waits \subseteq opened /\ discard[s] = NoPoint
  BY DEF ApplyNext, Ready, NothingLeftToDiscard
<1>2. 1 \in Waiting(q) /\ At(q, 1) = Head(queue[q])
  BY <1>1, HeadIsFirst, LenProperties DEF Waiting, At, TypeOK
<1>3. /\ shown'[s] = IF s \in Family(q) \cap alive THEN Imported(s, now) ELSE shown[s]
      /\ active'[s] = IF s \in Family(q) \cap alive /\ now.kind # "none"
                        THEN IsExplicit(now) ELSE active[s]
      /\ discard'[s] = IF s \in Family(q) \cap alive THEN DiscardLeft(now) ELSE discard[s]
      /\ picture'[s] = IF s \in Family(q) \cap alive /\ now.kind = "new"
                         THEN NoPoint ELSE picture[s]
  BY DEF ApplyNext
<1> HIDE DEF now
<1>4. s \in alive =>
        /\ DiscardLeft(now) = NoPoint
        /\ Imported(s, now).point # NoPoint =>
             \/ now.kind = "none" /\ Imported(s, now) = shown[s]
             \/ /\ IsExplicit(now) /\ Imported(s, now).point = Owes(q, 1, s)
                /\ now.kind = "new"
  BY <1>1, ImportTakesItsOwn DEF now
<1> QED
  BY <1>1, <1>2, <1>3, <1>4

LEMMA ApplyKeepsUse ==
    ASSUME TypeOK, TypeOK', UseInv, ShownIsActive, NEW q \in Surfaces, ApplyNext(q)
    PROVE  UseInv'
<1>1. Survive(Forward(q), {})
  BY ApplySurvive
<1>2. \A s \in Surfaces :
        /\ 1 \in Waiting(q)
        /\ shown'[s].point \in {NoPoint, shown[s].point, Owes(q, 1, s)}
        /\ picture'[s] \in {NoPoint, picture[s]} /\ discard'[s] = NoPoint /\ discard[s] = NoPoint
  BY ApplyShows DEF UseInv
<1>3. signalled' \subseteq signalled \cup {} \cup (Referenced \ Referenced')
  <2>1. Signal({discard[s] : s \in {t \in Family(q) \cap alive : Head(queue[q]).parts[t].kind # "none"}})
    BY DEF ApplyNext
  <2> QED
    BY <1>2, <2>1 DEF Signal, Family
<1>4. \A p \in Referenced' : p \in Referenced \/ \E s \in Surfaces : p = Owes(q, 1, s)
  <2>1. holds' = holds /\ stranded' = stranded
    BY DEF ApplyNext, frameVars
  <2> QED
    BY <1>2, <2>1 DEF Referenced
<1>5. \A s \in Surfaces : /\ 1 \in Waiting(q)
                          /\ Owes(q, 1, s) \notin Referenced \cup signalled
                          /\ Owes(q, 1, s) < next /\ Owes(q, 1, s) \in Points \cup {NoPoint}
  BY <1>2, WaitingTyped DEF UseInv, OwedIsUnused, UsedAreIssued
<1>6. ASSUME NEW r \in Surfaces, NEW s \in Surfaces, NEW i \in Waiting(r)',
             Owes(r, i, s)' # NoPoint
      PROVE  Owes(r, i, s)' \notin {} \cup Referenced'
  <2>1. /\ i + Forward(q)[r] \in Waiting(r) /\ Owes(r, i + Forward(q)[r], s) = Owes(r, i, s)'
        /\ i \in Nat /\ i >= 1
    BY <1>1, <1>6, WasOwed DEF Waiting
  <2>2. Owes(r, i, s)' \notin Referenced
    BY <2>1 DEF UseInv, OwedIsUnused
  <2>3. ASSUME NEW t \in Surfaces, Owes(r, i, s)' = Owes(q, 1, t) PROVE FALSE
    <3>1. r = q /\ i + Forward(q)[r] = 1
      BY <1>5, <1>6, <2>1, <2>3 DEF UseInv, OwedOnce
    <3> QED
      BY <2>1, <3>1 DEF Forward
  <2> QED
    BY <1>4, <2>2, <2>3
<1>7. OwedIsUnused' /\ ReferencedIsUnsignalled'
  <2>1. /\ Referenced' \cap signalled = {} /\ Referenced' \cap {} = {}
        /\ {} \cap (Referenced \cup Referenced' \cup signalled \cup {}) = {}
    BY <1>4, <1>5 DEF UseInv, ReferencedIsUnsignalled
  <2>2. signalled' \subseteq Points
    BY DEF TypeOK
  <2> QED
    BY <1>1, <1>3, <1>6, <2>1, <2>2, UseKept DEF UseInv
<1>8. UsedAreIssued'
  <2>1. next' = next /\ next' \in 1 .. (MaxPoint + 1)
    BY DEF ApplyNext, TypeOK
  <2>2. Referenced' \subseteq Issued
    <3>1. Referenced' \subseteq Points
      BY ReferencedArePoints DEF TypeOK, Referenced, Buffers
    <3> QED
      BY <1>4, <1>5, <3>1 DEF UseInv, UsedAreIssued, Issued
  <2> QED
    BY <1>1, <1>3, <2>1, <2>2, IssueKept DEF UseInv
<1>9. PartsAreWhole' /\ OwedOnce'
  BY <1>1, SurvivorsAreWhole, SurvivorsAreOwedOnce DEF UseInv
<1>10. NothingLeftToDiscard'
  BY <1>2 DEF NothingLeftToDiscard, TypeOK
<1> QED
  BY <1>7, <1>8, <1>9, <1>10 DEF UseInv

\* A frame drawn, its fence, and its fades.
LEMMA FrameKeepsUse ==
    ASSUME TypeOK, TypeOK', UseInv, ShownIsActive, ReadsAreKept,
           NEW f \in Frames, NEW ended, Frame(f, ended)
    PROVE  UseInv' /\ ShownIsActive' /\ ReadsAreKept'
<1>1. \A s \in Surfaces : picture'[s] \in {NoPoint, picture[s]}
  BY DEF Frame, FrameFenced, FrameFinished, FrameLost, FramePlain, Draw, Settle
<1>2. /\ UNCHANGED <<clientVars, surfaceVars>>
      /\ Signal({})
  BY DEF Frame, FrameFenced, FrameFinished, FrameLost, FramePlain, Draw
<1>3. Visible = Snapshot /\ Snapshot \subseteq Referenced
  BY DEF Visible, Snapshot, Referenced, ShownIsActive
<1>4. /\ \A g \in Frames : holds'[g] = holds[g] \/ holds'[g] = Snapshot
      /\ stranded' = stranded \/ stranded' = stranded \cup Snapshot
  BY DEF Frame, FrameFenced, FrameFinished, FrameLost, FramePlain, frameVars, TypeOK
<1>5. Referenced' \subseteq Referenced
  <2>1. \A s \in Surfaces : shown'[s] = shown[s]
    BY <1>2 DEF surfaceVars
  <2> QED
    BY <1>1, <1>3, <1>4, <2>1 DEF Referenced
<1>6. UseInv'
  BY <1>2, <1>5, LettingGoKeepsUse DEF Signal, clientVars, surfaceVars
<1>7. ReadsAreKept'
  <2>1. FenceReached(f) /\ fence[f] = "none" /\ holds[f] = {}
    BY DEF Frame, FrameFenced, FrameFinished, FrameLost, FramePlain, Draw, TypeOK
  <2>2. CASE FrameFenced(f, ended)
    BY <1>3, <2>2 DEF FrameFenced, ReadsAreKept, TypeOK
  <2>3. CASE FrameFinished(f, ended)
    BY <2>3 DEF FrameFinished, ReadsAreKept, frameVars
  <2>4. CASE FrameLost(f, ended)
    BY <1>3, <2>4 DEF FrameLost, ReadsAreKept, TypeOK
  <2>5. CASE FramePlain(f, ended)
    BY <1>3, <2>5 DEF FramePlain, ReadsAreKept, TypeOK
  <2> QED
    BY <2>2, <2>3, <2>4, <2>5 DEF Frame
<1> QED
  BY <1>2, <1>6, <1>7 DEF ShownIsActive, clientVars, surfaceVars

\* Buffers kept for a frame, let go of.
LEMMA ReleaseKeepsUse ==
    ASSUME TypeOK, TypeOK', UseInv, ShownIsActive, ReadsAreKept,
           OnRelease \/ OnReleaseWaits \/ \E f \in Frames : FenceReadable(f) \/ GpuDone(f)
    PROVE  UseInv' /\ ShownIsActive' /\ ReadsAreKept'
<1>1. /\ UNCHANGED <<clientVars, surfaceVars, picture>>
      /\ \A g \in Frames : /\ holds'[g] = holds[g] \/ holds'[g] = {}
                           /\ \/ reads'[g] = {}
                              \/ reads'[g] = reads[g]
                                 /\ holds[g] \cup stranded \subseteq holds'[g] \cup stranded'
      /\ stranded' \subseteq stranded \cup UNION {holds[g] : g \in Frames}
  <2>1. CASE OnRelease
    <3> DEFINE h == Head(channel).frame
    <3>1. h \in Frames
      BY <2>1, ReceiveTyped DEF OnRelease
    <3>2. \/ FenceReached(h) /\ LetGo(h)
          \/ holds' = holds
      BY <2>1 DEF OnRelease
    <3>3. UNCHANGED <<clientVars, surfaceVars, picture, reads, stranded>>
      BY <2>1 DEF OnRelease
    <3> HIDE DEF h
    <3>4. \A g \in Frames : \/ holds'[g] = holds[g]
                            \/ holds'[g] = {} /\ reads[g] = {}
      BY <3>1, <3>2 DEF FenceReached, LetGo, TypeOK
    <3> QED
      BY <3>3, <3>4
  <2>2. CASE OnReleaseWaits
    <3> DEFINE h == Head(channel).frame
    <3>1. h \in Frames
      BY <2>2, ReceiveTyped DEF OnReleaseWaits
    <3>2. /\ holds' = [holds EXCEPT ![h] = {}]
          /\ \/ reads' = [reads EXCEPT ![h] = {}] /\ stranded' = stranded
             \/ stranded' = stranded \cup holds[h] /\ reads' = reads
          /\ UNCHANGED <<clientVars, surfaceVars, picture>>
      BY <2>2 DEF OnReleaseWaits, LetGo
    <3> HIDE DEF h
    <3> QED
      BY <3>1, <3>2 DEF TypeOK
  <2>3. ASSUME NEW f \in Frames, FenceReadable(f) \/ GpuDone(f)
        PROVE  /\ UNCHANGED <<clientVars, surfaceVars, picture, stranded>>
               /\ \A g \in Frames :
                    \/ holds'[g] = holds[g] /\ reads'[g] \in {{}, reads[g]}
                    \/ holds'[g] = {} /\ reads'[g] = {}
    BY <2>3 DEF FenceReadable, GpuDone, FenceReached, LetGo, TypeOK
  <2> QED
    BY <2>1, <2>2, <2>3
<1>2. signalled' \subseteq signalled \cup (Referenced \ Referenced')
  BY DEF OnRelease, OnReleaseWaits, FenceReadable, GpuDone, Signal
<1>3. Referenced' \subseteq Referenced
  <2>1. shown' = shown /\ picture' = picture
    BY <1>1 DEF surfaceVars
  <2> QED
    BY <1>1, <2>1 DEF Referenced
<1>4. UseInv'
  BY <1>1, <1>2, <1>3, LettingGoKeepsUse DEF clientVars, surfaceVars
<1>5. ReadsAreKept'
  BY <1>1 DEF ReadsAreKept
<1> QED
  BY <1>1, <1>4, <1>5 DEF ShownIsActive, clientVars, surfaceVars

\* Every commit is one of a fresh part, ...
LEMMA CommitIsFresh ==
    ASSUME TypeOK, NEW s \in Surfaces,
           \/ \E b \in WlBuffers : CommitExplicit(s, b) \/ CommitImplicit(s, b)
           \/ CommitRemoved(s) \/ CommitNothing(s)
    PROVE  \E part \in Parts, waits \in SUBSET Points :
             /\ Commit(s, part, waits) /\ FreshPart(part, waits) /\ s \in alive
             /\ IF part.discard = NoPoint THEN UNCHANGED <<next, channel>>
                ELSE /\ next' = next + 1 /\ next \in Points /\ waits = {next}
                     /\ channel' = Append(channel, [type |-> "Acquire", point |-> next, surface |-> s])
<1>1. ASSUME NEW b \in WlBuffers, CommitExplicit(s, b)
      PROVE  \E part \in Parts, waits \in SUBSET Points :
               /\ Commit(s, part, waits) /\ FreshPart(part, waits) /\ s \in alive
               /\ part.discard # NoPoint /\ next' = next + 1 /\ next \in Points /\ waits = {next}
               /\ channel' = Append(channel, [type |-> "Acquire", point |-> next, surface |-> s])
  <2> DEFINE part == [kind |-> "new", wl |-> b, discard |-> next, sync |-> next]
  <2>1. part \in Parts /\ {next} \in SUBSET Points /\ part.discard # NoPoint
    BY <1>1 DEF CommitExplicit, Parts, Points, NoPoint
  <2>2. FreshPart(part, {next})
    BY DEF FreshPart
  <2>3. /\ Commit(s, part, {next}) /\ s \in alive /\ next' = next + 1 /\ next \in Points
        /\ channel' = Append(channel, [type |-> "Acquire", point |-> next, surface |-> s])
    BY <1>1 DEF CommitExplicit, Serves
  <2> HIDE DEF part
  <2> QED
    BY <2>1, <2>2, <2>3
<1>2. ASSUME NEW part \in Parts, part.discard = NoPoint, part.kind = "none" => part = NoPart,
             Commit(s, part, {}), Serves(s), UNCHANGED <<next, channel>>
      PROVE  \E p \in Parts, waits \in SUBSET Points :
               /\ Commit(s, p, waits) /\ FreshPart(p, waits) /\ s \in alive
               /\ p.discard = NoPoint /\ UNCHANGED <<next, channel>>
  <2>1. FreshPart(part, {}) /\ s \in alive
    BY <1>2 DEF FreshPart, Serves
  <2> QED
    BY <1>2, <2>1
<1>3. ASSUME NEW b \in WlBuffers, CommitImplicit(s, b)
      PROVE  \E p \in Parts, waits \in SUBSET Points :
               /\ Commit(s, p, waits) /\ FreshPart(p, waits) /\ s \in alive
               /\ p.discard = NoPoint /\ UNCHANGED <<next, channel>>
  <2> DEFINE part == [NoPart EXCEPT !.kind = "new", !.wl = b]
  <2>1. part \in Parts /\ part.discard = NoPoint /\ part.kind # "none"
    BY ImplicitIsAPart DEF NoPart
  <2>2. Commit(s, part, {}) /\ Serves(s) /\ UNCHANGED <<next, channel>>
    BY <1>3 DEF CommitImplicit
  <2> HIDE DEF part
  <2> QED
    BY <1>2, <2>1, <2>2
<1>4. ASSUME CommitRemoved(s)
      PROVE  \E p \in Parts, waits \in SUBSET Points :
               /\ Commit(s, p, waits) /\ FreshPart(p, waits) /\ s \in alive
               /\ p.discard = NoPoint /\ UNCHANGED <<next, channel>>
  <2> DEFINE part == [NoPart EXCEPT !.kind = "removed"]
  <2>1. part \in Parts /\ part.discard = NoPoint /\ part.kind # "none"
    BY ImplicitIsAPart DEF NoPart
  <2>2. Commit(s, part, {}) /\ Serves(s) /\ UNCHANGED <<next, channel>>
    BY <1>4 DEF CommitRemoved
  <2> HIDE DEF part
  <2> QED
    BY <1>2, <2>1, <2>2
<1>5. ASSUME CommitNothing(s)
      PROVE  \E p \in Parts, waits \in SUBSET Points :
               /\ Commit(s, p, waits) /\ FreshPart(p, waits) /\ s \in alive
               /\ p.discard = NoPoint /\ UNCHANGED <<next, channel>>
  <2>1. NoPart \in Parts /\ NoPart.discard = NoPoint
    BY ImplicitIsAPart DEF NoPart
  <2>2. Commit(s, NoPart, {}) /\ Serves(s) /\ UNCHANGED <<next, channel>>
    BY <1>5 DEF CommitNothing
  <2> QED
    BY <1>2, <2>1, <2>2
<1> QED
  BY <1>1, <1>3, <1>4, <1>5

\* ... and surfaces are destroyed with their commits.
Goes(D, q, kept, dropped) ==
    /\ q \in Surfaces /\ D \in SUBSET Family(q) /\ Destroy(D, q, kept, dropped)
    /\ \/ dropped = {} /\ next' = next
       \/ dropped = {next} /\ next' = next + 1 /\ next \in Points

LEMMA GoneIsDestroyed ==
    ASSUME TypeOK
    PROVE  /\ \A s \in Surfaces : \A kept :
                ClientDestroys(s, kept) => Goes({s}, Parent[s], kept, {})
           /\ \A s \in Surfaces : \A kept :
                CommitRefused(s, kept) =>
                  Goes(Family(Parent[s]) \cap alive, Parent[s], kept, {next})
           /\ \A r \in Surfaces : \A kept :
                Cleanup(r, kept) => Goes(Family(r) \cap alive, r, kept, {})
<1>1. \A s \in Surfaces : Parent[s] \in Surfaces /\ s \in Family(Parent[s])
  BY DEF Family
<1> QED
  BY <1>1 DEF ClientDestroys, CommitRefused, Cleanup, Goes

LEMMA StepKeepsUse ==
    ASSUME TypeOK, TypeOK', UseInv, ShownIsActive, ReadsAreKept, [Next]_vars
    PROVE  UseInv' /\ ShownIsActive' /\ ReadsAreKept'
<1> DEFINE Stays == UseInv' /\ ShownIsActive' /\ ReadsAreKept'
<1>1. ASSUME NEW s \in Surfaces,
             \/ \E b \in WlBuffers : CommitExplicit(s, b) \/ CommitImplicit(s, b)
             \/ CommitRemoved(s) \/ CommitNothing(s)
      PROVE  Stays
  <2>1. PICK part \in Parts, waits \in SUBSET Points :
          /\ Commit(s, part, waits) /\ FreshPart(part, waits) /\ s \in alive
          /\ IF part.discard = NoPoint THEN next' = next ELSE next' = next + 1
    BY <1>1, CommitIsFresh
  <2>2. UseInv'
    BY <2>1, CommitKeepsUse
  <2>3. ShownIsActive' /\ ReadsAreKept'
    BY <2>1 DEF Commit, ShownIsActive, ReadsAreKept, surfaceVars, frameVars
  <2> QED
    BY <2>2, <2>3
<1>2. ASSUME NEW D, NEW q, NEW kept, NEW dropped, Goes(D, q, kept, dropped) PROVE Stays
  <2>1. UseInv'
    BY <1>2, DestroyKeepsUse DEF Goes
  <2>2. ShownIsActive' /\ ReadsAreKept'
    BY <1>2 DEF Goes, Destroy, ShownIsActive, ReadsAreKept, frameVars, Unmapped
  <2> QED
    BY <2>1, <2>2
<1>3. ASSUME NEW q \in Surfaces, ApplyNext(q) PROVE Stays
  <2>1. UseInv'
    BY <1>3, ApplyKeepsUse
  <2>2. ShownIsActive'
    <3>1. alive' = alive
      BY <1>3 DEF ApplyNext
    <3> QED
      BY <1>3, <3>1, ApplyShows DEF UseInv, ShownIsActive
  <2>3. ReadsAreKept'
    BY <1>3 DEF ApplyNext, ReadsAreKept, frameVars
  <2> QED
    BY <2>1, <2>2, <2>3
<1>4. ASSUME NEW s \in Surfaces, WindowLeaves(s) \/ FadeEnds(s) PROVE Stays
  <2>1. /\ UNCHANGED <<clientVars, surfaceVars, frameVars>>
        /\ \A t \in Surfaces : picture'[t] \in {NoPoint, picture[t], shown[t].point}
        /\ signalled' \subseteq signalled \cup (Referenced \ Referenced')
    BY <1>4 DEF WindowLeaves, FadeEnds, Settle, Signal, TypeOK
  <2>2. Referenced' \subseteq Referenced
    <3>1. shown' = shown /\ holds' = holds /\ stranded' = stranded
      BY <2>1 DEF surfaceVars, frameVars
    <3> QED
      BY <2>1, <3>1 DEF Referenced
  <2>3. UseInv'
    BY <2>1, <2>2, LettingGoKeepsUse DEF clientVars, surfaceVars
  <2> QED
    BY <2>1, <2>3 DEF ShownIsActive, ReadsAreKept, clientVars, surfaceVars, frameVars
<1>5. ASSUME UNCHANGED <<clientVars, surfaceVars, picture, frameVars, signalled>> PROVE Stays
  <2>1. Referenced' = Referenced
    BY <1>5 DEF Referenced, surfaceVars, frameVars
  <2>2. UseInv'
    BY <1>5, <2>1, LettingGoKeepsUse DEF clientVars, surfaceVars
  <2> QED
    BY <1>5, <2>2 DEF ShownIsActive, ReadsAreKept, clientVars, surfaceVars, frameVars
<1>6. CASE OnAcquire \/ OnCancel \/ UNCHANGED vars
  BY <1>5, <1>6 DEF OnAcquire, OnCancel, vars
<1>7. CASE OnAcquireFails
  <2>1. /\ UNCHANGED <<queue, pending, alive, next, discard, surfaceVars, picture, frameVars>>
        /\ signalled' = signalled
    BY <1>7 DEF OnAcquireFails, surfaceVars
  <2>2. Referenced' = Referenced
    BY <2>1 DEF Referenced, surfaceVars, frameVars
  <2>3. UseInv'
    BY <2>1, <2>2, LettingGoKeepsUse
  <2> QED
    BY <2>1, <2>3 DEF ShownIsActive, ReadsAreKept, surfaceVars, frameVars
<1>8. ASSUME NEW s \in Surfaces, Client(s) PROVE Stays
  <2>1. ASSUME NEW kept, ClientDestroys(s, kept) \/ CommitRefused(s, kept) PROVE Stays
    BY <1>2, <2>1, GoneIsDestroyed
  <2> QED
    BY <1>1, <1>4, <1>8, <2>1 DEF Client
<1>9. ASSUME NEW r \in Surfaces, NEW kept, Cleanup(r, kept) PROVE Stays
  BY <1>2, <1>9, GoneIsDestroyed
<1>10. ASSUME \/ \E p \in Points : ClientReaches(p)
              \/ \E r \in Surfaces : ApplyDone(r)
              \/ \E s \in Surfaces, p \in Points : SourceFires(s, p)
       PROVE  Stays
  BY <1>5, <1>10 DEF ClientReaches, ApplyDone, SourceFires
<1>11. CASE OnRelease \/ OnReleaseWaits \/ \E f \in Frames : FenceReadable(f) \/ GpuDone(f)
  BY <1>11, ReleaseKeepsUse
<1>12. ASSUME NEW f \in Frames, NEW ended, Frame(f, ended) PROVE Stays
  BY <1>12, FrameKeepsUse
<1> QED
  <2>1. CASE Dispatch
    BY <1>6, <1>7, <1>11, <2>1 DEF Dispatch
  <2>2. CASE Next /\ ~Dispatch
    BY <1>3, <1>4, <1>8, <1>9, <1>10, <1>11, <1>12, <2>2 DEF Next
  <2> QED
    BY <1>6, <2>1, <2>2
-----------------------------------------------------------------------------
(* What has been waited for.                                               *)

\* A wait comes from the channel, where it was put by the commit that owes the
\* point; and nothing still owed is lifted unreached.
Comes(new) ==
    /\ reached \subseteq reached' /\ reached' \cup opened' \subseteq Issued'
    /\ \A p \in opened' : p \in opened \cup reached'
                          \/ \A r, t \in Surfaces : \A i \in Waiting(r)' : Owes(r, i, t)' # p
    /\ \A t \in Surfaces : \A p \in acquires'[t] :
         \/ p \in acquires[t]
         \/ \E k \in 1 .. Len(channel) :
              channel[k].type = "Acquire" /\ channel[k].point = p /\ channel[k].surface = t
    /\ \A j \in 1 .. Len(channel') : channel'[j].type = "Acquire" =>
         \/ \E k \in 1 .. Len(channel) : channel'[j] = channel[k]
         \/ /\ channel'[j].point \in new /\ next' = next + 1
            /\ \A r, t \in Surfaces : \A i \in Waiting(r)' :
                 Owes(r, i, t)' \in new => t = channel'[j].surface

LEMMA WaitsKept ==
    ASSUME TypeOK, TypeOK', NEW up, NEW new, Survive(up, new), OpenedIsReached, WaitsAreOwn,
           WaitsAreIssued, Comes(new), next' \in {next, next + 1}
    PROVE  OpenedIsReached' /\ WaitsAreOwn' /\ WaitsAreIssued'
<1>1. ASSUME NEW r \in Surfaces, NEW s \in Surfaces, NEW i \in Waiting(r)',
             Owes(r, i, s)' \notin new, Owes(r, i, s)' # NoPoint
      PROVE  /\ Owes(r, i, s)' \in opened' => Owes(r, i, s)' \in reached'
             /\ \A t \in Surfaces : Owes(r, i, s)' \in acquires'[t] => t = s
             /\ \A j \in 1 .. Len(channel') :
                  channel'[j].type = "Acquire" /\ channel'[j].point = Owes(r, i, s)' =>
                    channel'[j].surface = s
  <2> DEFINE p == Owes(r, i, s)'
  <2>1. i + up[r] \in Waiting(r) /\ Owes(r, i + up[r], s) = p
    BY <1>1, WasOwed
  <2> HIDE DEF p
  <2>2. /\ p \in opened => p \in reached
        /\ \A t \in Surfaces : p \in acquires[t] => t = s
        /\ \A j \in 1 .. Len(channel) :
             channel[j].type = "Acquire" /\ channel[j].point = p => channel[j].surface = s
    BY <1>1, <2>1 DEF OpenedIsReached, WaitsAreOwn, p
  <2>3. p \in opened' => p \in reached'
    BY <1>1, <2>2 DEF Comes, p
  <2>4. \A t \in Surfaces : p \in acquires'[t] => t = s
    BY <2>2 DEF Comes
  <2>5. p \notin new
    BY <1>1 DEF p
  <2>6. \A j \in 1 .. Len(channel') :
          channel'[j].type = "Acquire" /\ channel'[j].point = p => channel'[j].surface = s
    BY <2>2, <2>5 DEF Comes
  <2> QED
    BY <2>3, <2>4, <2>6 DEF p
<1>2. next \in Nat /\ next' \in Nat /\ new \in SUBSET {next} /\ next \notin Issued
  BY DEF TypeOK, Survive, Issued
<1>3. ASSUME NEW j \in 1 .. Len(channel), channel[j].type = "Acquire"
      PROVE  channel[j].point < next /\ channel[j].point \in Points
  BY <1>3, MessagesTyped DEF WaitsAreIssued
<1>4. ASSUME NEW r \in Surfaces, NEW s \in Surfaces, NEW i \in Waiting(r)',
             Owes(r, i, s)' \in new
      PROVE  /\ Owes(r, i, s)' \in opened' => Owes(r, i, s)' \in reached'
             /\ \A t \in Surfaces : Owes(r, i, s)' \in acquires'[t] => t = s
             /\ \A j \in 1 .. Len(channel') :
                  channel'[j].type = "Acquire" /\ channel'[j].point = Owes(r, i, s)' =>
                    channel'[j].surface = s
  <2>1. Owes(r, i, s)' = next
    BY <1>2, <1>4
  <2>2. next \notin opened /\ \A t \in Surfaces : next \notin acquires[t]
    BY <1>2 DEF WaitsAreIssued
  <2>3. next \in opened' => next \in reached'
    BY <2>1, <2>2 DEF Comes
  <2>4. \A t \in Surfaces : next \notin acquires'[t]
    BY <1>2, <1>3, <2>2 DEF Comes
  <2>5. \A j \in 1 .. Len(channel') :
          channel'[j].type = "Acquire" /\ channel'[j].point = next => channel'[j].surface = s
    <3> SUFFICES ASSUME NEW j \in 1 .. Len(channel'), channel'[j].type = "Acquire",
                        channel'[j].point = next
                 PROVE  channel'[j].surface = s
      OBVIOUS
    <3>1. ~ \E k \in 1 .. Len(channel) : channel'[j] = channel[k]
      BY <1>2, <1>3
    <3> QED
      BY <1>4, <3>1 DEF Comes
  <2> QED
    BY <2>1, <2>3, <2>4, <2>5
<1>5. OpenedIsReached'
  <2>1. NoPoint \notin opened'
    BY DEF TypeOK, Points, NoPoint
  <2> QED
    BY <1>1, <1>4, <2>1 DEF OpenedIsReached
<1>6. WaitsAreOwn'
  BY <1>1, <1>4 DEF WaitsAreOwn
<1>7. WaitsAreIssued'
  <2>1. Issued \subseteq Issued'
    BY <1>2 DEF Issued, Points
  <2>2. ASSUME NEW t \in Surfaces PROVE acquires'[t] \subseteq Issued'
    <3>1. ASSUME NEW p \in acquires'[t] PROVE p \in Issued
      BY <1>3, <3>1 DEF Comes, WaitsAreIssued, Issued
    <3> QED
      BY <2>1, <3>1
  <2>3. ASSUME NEW j \in 1 .. Len(channel'), channel'[j].type = "Acquire"
        PROVE  channel'[j].point < next'
    <3>1. CASE \E k \in 1 .. Len(channel) : channel'[j] = channel[k]
      <4>1. channel'[j].point < next /\ channel'[j].point \in Nat
        BY <1>3, <2>3, <3>1 DEF Points
      <4> QED
        BY <1>2, <4>1
    <3>2. CASE channel'[j].point \in new /\ next' = next + 1
      <4>1. channel'[j].point = next
        BY <1>2, <3>2
      <4> QED
        BY <1>2, <3>2, <4>1
    <3> QED
      BY <2>3, <3>1, <3>2 DEF Comes
  <2> QED
    BY <2>2, <2>3 DEF WaitsAreIssued, Comes
<1> QED
  BY <1>5, <1>6, <1>7

\* Cancelled surfaces stay gone, whatever is received or sent but another Cancel.
LEMMA CancelsKept ==
    ASSUME CancelledHaveGone, alive' \subseteq alive,
           \A j \in 1 .. Len(channel') : channel'[j].type = "Cancel" =>
             \/ \E k \in 1 .. Len(channel) : channel'[j] = channel[k]
             \/ channel'[j].surfaces \cap alive' = {}
    PROVE  CancelledHaveGone'
  BY DEF CancelledHaveGone

\* What a step has to do to keep all of this.
LEMMA ReadyKept ==
    ASSUME TypeOK, TypeOK', ReadyInv, NEW up, NEW new, Survive(up, new), Comes(new),
           next' \in {next, next + 1}, alive' \subseteq alive, Visible' \subseteq reached',
           \A f \in Frames : reads'[f] \in {{}, reads[f], Visible},
           \A j \in 1 .. Len(channel') : channel'[j].type = "Cancel" =>
             \/ \E k \in 1 .. Len(channel) : channel'[j] = channel[k]
             \/ channel'[j].surfaces \cap alive' = {}
    PROVE  ReadyInv'
<1>1. OpenedIsReached' /\ WaitsAreOwn' /\ WaitsAreIssued'
  BY WaitsKept DEF ReadyInv
<1>2. CancelledHaveGone'
  BY CancelsKept DEF ReadyInv
<1>3. VisibleIsReached'
  BY DEF ReadyInv, VisibleIsReached, NothingReadUnready, Comes
<1> QED
  BY <1>1, <1>2, <1>3 DEF ReadyInv

\* A step that waits for nothing and lifts no wait.
LEMMA NoWaitMoves ==
    ASSUME TypeOK, TypeOK', ReadyInv, NEW up, Survive(up, {}),
           UNCHANGED <<reached, opened, acquires>>, next' \in {next, next + 1},
           alive' \subseteq alive, Visible' \subseteq reached,
           \A f \in Frames : reads'[f] \in {{}, reads[f], Visible},
           \A j \in 1 .. Len(channel') :
             \/ \E k \in 1 .. Len(channel) : channel'[j] = channel[k]
             \/ channel'[j].type = "Release"
             \/ channel'[j].type = "Cancel" /\ channel'[j].surfaces \cap alive' = {}
    PROVE  ReadyInv'
<1>1. reached' \cup opened' \subseteq Issued'
  BY DEF ReadyInv, WaitsAreIssued, Issued, TypeOK, Points
<1>2. \A j \in 1 .. Len(channel') : channel'[j].type = "Acquire" =>
        \E k \in 1 .. Len(channel) : channel'[j] = channel[k]
  OBVIOUS
<1>3. Comes({})
  BY <1>1, <1>2 DEF Comes
<1>4. \A j \in 1 .. Len(channel') : channel'[j].type = "Cancel" =>
        \/ \E k \in 1 .. Len(channel) : channel'[j] = channel[k]
        \/ channel'[j].surfaces \cap alive' = {}
  OBVIOUS
<1> QED
  BY <1>3, <1>4, ReadyKept

LEMMA CommitKeepsReady ==
    ASSUME TypeOK, TypeOK', UseInv, ReadyInv, NEW s \in Surfaces, NEW part \in Parts,
           NEW waits \in SUBSET Points, Commit(s, part, waits), FreshPart(part, waits),
           s \in alive,
           IF part.discard = NoPoint THEN UNCHANGED <<next, channel>>
           ELSE /\ next' = next + 1 /\ next \in Points /\ waits = {next}
                /\ channel' = Append(channel, [type |-> "Acquire", point |-> next, surface |-> s])
    PROVE  ReadyInv'
<1> DEFINE new == {part.discard} \ {NoPoint}
<1>1. /\ Survive(Still, new)
      /\ \A r, t \in Surfaces : \A i \in Waiting(r)' : Owes(r, i, t)' \in new => t = s
  BY CommitSurvive DEF UseInv
<1>2. /\ UNCHANGED <<alive, surfaceVars, picture, acquires, reached, opened, frameVars>>
      /\ next' \in {next, next + 1} /\ part.discard \in {NoPoint, next}
  BY DEF Commit, FreshPart
<1>3. Visible' = Visible
  BY <1>2 DEF Visible, surfaceVars
<1>4. Visible' \subseteq reached' /\ \A f \in Frames : reads'[f] \in {{}, reads[f], Visible}
  BY <1>2, <1>3 DEF ReadyInv, VisibleIsReached, frameVars
<1>5. \A j \in 1 .. Len(channel') :
        \/ \E k \in 1 .. Len(channel) : channel'[j] = channel[k]
        \/ /\ channel'[j].type = "Acquire" /\ channel'[j].point = next
           /\ channel'[j].surface = s /\ next' = next + 1 /\ part.discard = next
  <2>1. CASE part.discard = NoPoint
    BY <2>1
  <2>2. CASE part.discard # NoPoint
    <3> DEFINE m == [type |-> "Acquire", point |-> next, surface |-> s]
    <3>1. m \in Messages /\ channel \in Seq(Messages)
      BY <2>2 DEF Messages, TypeOK
    <3>2. channel' = Append(channel, m) /\ next' = next + 1 /\ part.discard = next
      BY <1>2, <2>2
    <3>3. m.type = "Acquire" /\ m.point = next /\ m.surface = s
      OBVIOUS
    <3> HIDE DEF m
    <3> QED
      BY <3>1, <3>2, <3>3, AppendedLast
  <2> QED
    BY <2>1, <2>2
<1>6. \A j \in 1 .. Len(channel') : channel'[j].type = "Acquire" =>
        \/ \E k \in 1 .. Len(channel) : channel'[j] = channel[k]
        \/ channel'[j].point \in new /\ next' = next + 1 /\ channel'[j].surface = s
  <2>1. part.discard = next => next \in new
    BY DEF TypeOK, NoPoint
  <2> QED
    BY <1>5, <2>1
<1>7. reached' \cup opened' \subseteq Issued'
  BY <1>2 DEF ReadyInv, WaitsAreIssued, Issued, TypeOK, Points
<1> HIDE DEF new
<1>8. Comes(new)
  BY <1>1, <1>2, <1>6, <1>7 DEF Comes
<1>9. \A j \in 1 .. Len(channel') : channel'[j].type = "Cancel" =>
        \E k \in 1 .. Len(channel) : channel'[j] = channel[k]
  BY <1>5
<1> QED
  BY <1>1, <1>2, <1>4, <1>8, <1>9, ReadyKept

LEMMA GoesKeepsReady ==
    ASSUME TypeOK, TypeOK', UseInv, ReadyInv, NEW D, NEW q, NEW kept, NEW dropped,
           Goes(D, q, kept, dropped)
    PROVE  ReadyInv'
<1>1. /\ Destroy(D, q, kept, dropped) /\ D \in SUBSET Surfaces /\ q \in Surfaces
      /\ D \subseteq Family(q) /\ next' \in {next, next + 1}
  BY DEF Goes, Family
<1>2. Survive(Still, {})
  BY <1>1, DestroySurvive DEF UseInv
<1>3. /\ alive' = alive \ D
      /\ UNCHANGED <<reached, opened, acquires, frameVars>>
      /\ channel' = Append(channel, [type |-> "Cancel", surfaces |-> D, root |-> q])
      /\ shown' = [s \in Surfaces |-> IF s \in D THEN Unmapped ELSE shown[s]]
      /\ picture' = [s \in Surfaces |-> IF s \in D \cap kept /\ picture[s] = NoPoint
                                          THEN shown[s].point ELSE picture[s]]
  BY <1>1 DEF Destroy
<1>4. Visible' \subseteq Visible
  BY <1>3 DEF Visible, Unmapped
<1>5. Visible' \subseteq reached /\ \A f \in Frames : reads'[f] \in {{}, reads[f], Visible}
  BY <1>3, <1>4 DEF ReadyInv, VisibleIsReached, frameVars
<1>6. \A j \in 1 .. Len(channel') :
        \/ \E k \in 1 .. Len(channel) : channel'[j] = channel[k]
        \/ channel'[j].type = "Release"
        \/ channel'[j].type = "Cancel" /\ channel'[j].surfaces \cap alive' = {}
  <2> DEFINE m == [type |-> "Cancel", surfaces |-> D, root |-> q]
  <2>1. m \in Messages /\ channel \in Seq(Messages)
    BY <1>1 DEF Messages, TypeOK
  <2>2. m.type = "Cancel" /\ m.surfaces \cap alive' = {} /\ channel' = Append(channel, m)
    BY <1>3
  <2> HIDE DEF m
  <2> QED
    BY <2>1, <2>2, AppendedLast
<1> QED
  BY <1>1, <1>2, <1>3, <1>5, <1>6, NoWaitMoves

\* A transaction is applied when its waits are over, and those of its surfaces
\* that are there were not lifted before their time.
LEMMA ApplyKeepsReady ==
    ASSUME TypeOK, TypeOK', UseInv, ShownIsActive, ReadyInv, NEW q \in Surfaces, ApplyNext(q)
    PROVE  ReadyInv'
<1>1. Survive(Forward(q), {})
  BY ApplySurvive
<1>2. UNCHANGED <<alive, next, acquires, channel, reached, opened, frameVars>>
  BY DEF ApplyNext
<1>3. ASSUME NEW s \in Surfaces
      PROVE  {shown'[s].point, picture'[s]} \subseteq reached \cup {NoPoint}
  <2>1. /\ 1 \in Waiting(q) /\ At(q, 1).waits \subseteq opened
        /\ shown'[s].point # NoPoint =>
             shown'[s] = shown[s] \/ shown'[s].point = Owes(q, 1, s)
        /\ picture'[s] \in {NoPoint, picture[s]}
    BY ApplyShows DEF UseInv
  <2>2. {shown[s].point, picture[s]} \subseteq reached \cup {NoPoint}
    BY DEF ReadyInv, VisibleIsReached, Visible
  <2>3. Owes(q, 1, s) \in reached \cup {NoPoint}
    <3>1. Owes(q, 1, s) # NoPoint => Owes(q, 1, s) \in At(q, 1).waits
      BY <2>1 DEF UseInv, PartsAreWhole, PartIsWhole, Owes
    <3> QED
      BY <2>1, <3>1 DEF ReadyInv, OpenedIsReached
  <2> QED
    BY <2>1, <2>2, <2>3
<1>4. Visible' \subseteq reached
  BY <1>3 DEF Visible
<1>5. \A f \in Frames : reads'[f] \in {{}, reads[f], Visible}
  BY <1>2 DEF frameVars
<1>6. \A j \in 1 .. Len(channel') : \E k \in 1 .. Len(channel) : channel'[j] = channel[k]
  BY <1>2
<1> QED
  BY <1>1, <1>2, <1>4, <1>5, <1>6, NoWaitMoves

\* A frame, its fence, and fades: what is visible only becomes less.
LEMMA DrawKeepsReady ==
    ASSUME TypeOK, TypeOK', ReadyInv, NEW f \in Frames,
           UNCHANGED <<alive, next, pending, queue, shown, acquires, reached, opened>>,
           \A s \in Surfaces : picture'[s] \in {NoPoint, picture[s], shown[s].point},
           \A g \in Frames : reads'[g] \in {{}, reads[g], Visible},
           \/ channel' = channel
           \/ channel' = Append(channel, [type |-> "Release", frame |-> f])
           \/ Receive("Release")
    PROVE  ReadyInv'
<1>1. Survive(Still, {})
  BY NothingMoved
<1>2. Visible' \subseteq reached
  BY DEF ReadyInv, VisibleIsReached, Visible
<1>3. \A j \in 1 .. Len(channel') :
        \/ \E k \in 1 .. Len(channel) : channel'[j] = channel[k]
        \/ channel'[j].type = "Release"
  <2>1. CASE channel' = Append(channel, [type |-> "Release", frame |-> f])
    <3> DEFINE m == [type |-> "Release", frame |-> f]
    <3>1. m \in Messages /\ channel \in Seq(Messages) /\ m.type = "Release"
      BY DEF Messages, TypeOK
    <3>2. channel' = Append(channel, m)
      BY <2>1
    <3> HIDE DEF m
    <3> QED
      BY <3>1, <3>2, AppendedLast
  <2>2. CASE Receive("Release")
    <3>1. channel # << >> /\ channel' = Tail(channel) /\ channel \in Seq(Messages)
      BY <2>2 DEF Receive, TypeOK
    <3> QED
      BY <3>1, HeadIsFirst
  <2> QED
    BY <2>1, <2>2
<1> QED
  BY <1>1, <1>2, <1>3, NoWaitMoves

\* Nothing moves but the waits, and no new one is sent.
LEMMA WaitsMove ==
    ASSUME TypeOK, TypeOK', ReadyInv,
           UNCHANGED <<alive, next, pending, queue, surfaceVars, picture, frameVars>>,
           reached \subseteq reached', reached' \cup opened' \subseteq Issued,
           \A p \in opened' : p \in opened \cup reached'
                              \/ \A r, t \in Surfaces : \A i \in Waiting(r) : Owes(r, i, t) # p,
           \A t \in Surfaces : \A p \in acquires'[t] :
             \/ p \in acquires[t]
             \/ \E k \in 1 .. Len(channel) :
                  channel[k].type = "Acquire" /\ channel[k].point = p /\ channel[k].surface = t,
           \A j \in 1 .. Len(channel') : \E k \in 1 .. Len(channel) : channel'[j] = channel[k]
    PROVE  ReadyInv'
<1>1. Survive(Still, {})
  BY NothingMoved
<1>2. /\ \A r \in Surfaces : Waiting(r)' = Waiting(r)
      /\ \A r, t \in Surfaces : \A i \in Waiting(r) : Owes(r, i, t)' = Owes(r, i, t)
      /\ Issued' = Issued /\ Visible' = Visible
  BY DEF Waiting, Owes, At, Issued, Visible, surfaceVars
<1>3. Comes({})
  BY <1>2 DEF Comes
<1>4. Visible' \subseteq reached' /\ \A f \in Frames : reads'[f] \in {{}, reads[f], Visible}
  BY <1>2 DEF ReadyInv, VisibleIsReached, frameVars
<1> QED
  BY <1>1, <1>3, <1>4, ReadyKept

LEMMA ReceivedWas ==
    ASSUME TypeOK, NEW type, Receive(type)
    PROVE  /\ 1 \in 1 .. Len(channel) /\ Head(channel) = channel[1] /\ channel[1].type = type
           /\ \A j \in 1 .. Len(channel') : \E k \in 1 .. Len(channel) : channel'[j] = channel[k]
<1>1. channel # << >> /\ channel' = Tail(channel) /\ channel \in Seq(Messages)
      /\ Head(channel).type = type
  BY DEF Receive, TypeOK
<1> QED
  BY <1>1, HeadIsFirst

\* A wait received is registered, or lifted for a surface that owes nothing.
LEMMA AcquireKeepsReady ==
    ASSUME TypeOK, TypeOK', UseInv, ReadyInv, OnAcquire
    PROVE  ReadyInv'
<1> DEFINE p == Head(channel).point
           s == Head(channel).surface
<1>1. Receive("Acquire")
  BY DEF OnAcquire
<1>2. /\ 1 \in 1 .. Len(channel) /\ channel[1].type = "Acquire" /\ channel[1].point = p
      /\ channel[1].surface = s /\ p \in Points /\ s \in Surfaces
  BY <1>1, ReceivedWas, ReceiveTyped
<1>3. /\ IF s \in alive THEN acquires' = [acquires EXCEPT ![s] = @ \cup {p}] /\ opened' = opened
                        ELSE opened' = opened \cup {p} /\ acquires' = acquires
      /\ UNCHANGED <<alive, next, pending, queue, surfaceVars, picture, frameVars, reached>>
  BY DEF OnAcquire, clientVars
<1> HIDE DEF p, s
<1>4. \A t \in Surfaces : \A x \in acquires'[t] :
        \/ x \in acquires[t]
        \/ \E k \in 1 .. Len(channel) :
             channel[k].type = "Acquire" /\ channel[k].point = x /\ channel[k].surface = t
  <2>1. \A t \in Surfaces : \A x \in acquires'[t] : x \in acquires[t] \/ (t = s /\ x = p)
    <3>1. acquires \in [Surfaces -> SUBSET Points]
      BY DEF TypeOK
    <3> QED
      BY <1>2, <1>3, <3>1
  <2> QED
    BY <1>2, <2>1
<1>5. ASSUME s \notin alive, NEW r \in Surfaces, NEW t \in Surfaces, NEW i \in Waiting(r)
      PROVE  Owes(r, i, t) # p
  <2>1. p # NoPoint
    BY <1>2 DEF Points, NoPoint
  <2>2. Owes(r, i, t) # NoPoint => t \in alive
    BY DEF UseInv, PartsAreWhole, PartIsWhole, Owes
  <2>3. Owes(r, i, t) = p /\ p # NoPoint => s = t
    BY <1>2 DEF ReadyInv, WaitsAreOwn
  <2> QED
    BY <1>5, <2>1, <2>2, <2>3
<1>6. \A x \in opened' : x \in opened \cup reached'
                         \/ \A r, t \in Surfaces : \A i \in Waiting(r) : Owes(r, i, t) # x
  BY <1>3, <1>5
<1>7. reached' \cup opened' \subseteq Issued
  <2>1. p \in Issued
    BY <1>2 DEF ReadyInv, WaitsAreIssued, Issued
  <2> QED
    BY <1>3, <2>1 DEF ReadyInv, WaitsAreIssued
<1> QED
  BY <1>1, <1>3, <1>4, <1>6, <1>7, ReceivedWas, WaitsMove

\* The waits a Cancel lifts are of surfaces that owe nothing.
LEMMA CancelKeepsReady ==
    ASSUME TypeOK, TypeOK', UseInv, ReadyInv, OnCancel
    PROVE  ReadyInv'
<1> DEFINE gone == Head(channel).surfaces
<1>1. Receive("Cancel")
  BY DEF OnCancel
<1>2. gone \in SUBSET Surfaces /\ gone \cap alive = {}
  BY <1>1, ReceivedWas, ReceiveTyped DEF ReadyInv, CancelledHaveGone
<1>3. /\ opened' = opened \cup UNION {acquires[s] : s \in gone}
      /\ acquires' = [s \in Surfaces |-> IF s \in gone THEN {} ELSE acquires[s]]
      /\ UNCHANGED <<alive, next, pending, queue, surfaceVars, picture, frameVars, reached>>
  BY DEF OnCancel, clientVars
<1> HIDE DEF gone
<1>4. ASSUME NEW s \in gone, NEW x \in acquires[s],
             NEW r \in Surfaces, NEW t \in Surfaces, NEW i \in Waiting(r)
      PROVE  Owes(r, i, t) # x
  <2>1. s \in Surfaces /\ x # NoPoint
    BY <1>2 DEF TypeOK, Points, NoPoint
  <2>2. Owes(r, i, t) # NoPoint => t \in alive
    BY DEF UseInv, PartsAreWhole, PartIsWhole, Owes
  <2>3. Owes(r, i, t) = x /\ x # NoPoint => s = t
    BY <2>1 DEF ReadyInv, WaitsAreOwn
  <2> QED
    BY <1>2, <2>1, <2>2, <2>3
<1>5. \A x \in opened' : x \in opened \cup reached'
                         \/ \A r, t \in Surfaces : \A i \in Waiting(r) : Owes(r, i, t) # x
  BY <1>3, <1>4
<1>6. reached' \cup opened' \subseteq Issued
  <2>1. \A s \in gone : acquires[s] \subseteq Issued
    BY <1>2 DEF ReadyInv, WaitsAreIssued
  <2> QED
    BY <1>3, <2>1 DEF ReadyInv, WaitsAreIssued
<1>7. \A t \in Surfaces : \A x \in acquires'[t] : x \in acquires[t]
  BY <1>3
<1> QED
  BY <1>1, <1>3, <1>5, <1>6, <1>7, ReceivedWas, WaitsMove

LEMMA StepKeepsReady ==
    ASSUME TypeOK, TypeOK', UseInv, ShownIsActive, ReadyInv, [Next]_vars PROVE ReadyInv'
<1>1. ASSUME NEW s \in Surfaces, Client(s) PROVE ReadyInv'
  <2>1. ASSUME \/ \E b \in WlBuffers : CommitExplicit(s, b) \/ CommitImplicit(s, b)
               \/ CommitRemoved(s) \/ CommitNothing(s)
        PROVE  ReadyInv'
    <3>1. PICK part \in Parts, waits \in SUBSET Points :
            /\ Commit(s, part, waits) /\ FreshPart(part, waits) /\ s \in alive
            /\ IF part.discard = NoPoint THEN UNCHANGED <<next, channel>>
               ELSE /\ next' = next + 1 /\ next \in Points /\ waits = {next}
                    /\ channel' = Append(channel, [type |-> "Acquire", point |-> next,
                                                   surface |-> s])
      BY <2>1, CommitIsFresh
    <3> QED
      BY <3>1, CommitKeepsReady
  <2>2. ASSUME NEW kept, ClientDestroys(s, kept) \/ CommitRefused(s, kept) PROVE ReadyInv'
    BY <2>2, GoneIsDestroyed, GoesKeepsReady
  <2>3. CASE WindowLeaves(s)
    <3>1. /\ UNCHANGED <<alive, next, pending, queue, shown, acquires, reached, opened, channel>>
          /\ reads' = reads
          /\ \A t \in Surfaces : picture'[t] \in {NoPoint, picture[t], shown[t].point}
      BY <2>3 DEF WindowLeaves, clientVars, surfaceVars, frameVars, TypeOK
    <3>2. Survive(Still, {}) /\ Visible' \subseteq reached
      BY <3>1, NothingMoved DEF ReadyInv, VisibleIsReached, Visible
    <3> QED
      BY <3>1, <3>2, NoWaitMoves
  <2> QED
    BY <1>1, <2>1, <2>2, <2>3 DEF Client
<1>2. ASSUME NEW r \in Surfaces, NEW kept, Cleanup(r, kept) PROVE ReadyInv'
  BY <1>2, GoneIsDestroyed, GoesKeepsReady
<1>3. ASSUME NEW p \in Points, ClientReaches(p) PROVE ReadyInv'
  <2>1. /\ UNCHANGED <<alive, next, pending, queue, surfaceVars, picture, frameVars>>
        /\ UNCHANGED <<opened, acquires, channel>> /\ reached' = reached \cup {p} /\ p \in Issued
    BY <1>3 DEF ClientReaches, clientVars, Issued
  <2> QED
    BY <2>1, WaitsMove DEF ReadyInv, WaitsAreIssued
<1>4. ASSUME NEW s \in Surfaces, NEW p \in Points, SourceFires(s, p) PROVE ReadyInv'
  <2>1. /\ UNCHANGED <<alive, next, pending, queue, surfaceVars, picture, frameVars>>
        /\ UNCHANGED <<reached, channel>> /\ opened' = opened \cup {p} /\ p \in reached
        /\ \A t \in Surfaces : acquires'[t] \subseteq acquires[t]
    BY <1>4 DEF SourceFires, clientVars, TypeOK
  <2> QED
    BY <2>1, WaitsMove DEF ReadyInv, WaitsAreIssued
<1>5. CASE OnAcquireFails
  <2>1. /\ UNCHANGED <<alive, next, pending, queue, surfaceVars, picture, frameVars>>
        /\ UNCHANGED <<reached, opened, acquires>> /\ Receive("Acquire")
    BY <1>5 DEF OnAcquireFails
  <2> QED
    BY <2>1, ReceivedWas, WaitsMove DEF ReadyInv, WaitsAreIssued
<1>6. ASSUME UNCHANGED vars \/ \E r \in Surfaces : ApplyDone(r) PROVE ReadyInv'
  <2>1. /\ UNCHANGED <<alive, next, pending, queue, surfaceVars, picture, frameVars>>
        /\ UNCHANGED <<reached, opened, acquires, channel>>
    BY <1>6 DEF ApplyDone, vars, clientVars
  <2> QED
    BY <2>1, WaitsMove DEF ReadyInv, WaitsAreIssued
<1>7. ASSUME NEW f \in Frames, NEW ended, Frame(f, ended) PROVE ReadyInv'
  <2>1. /\ UNCHANGED <<alive, next, pending, queue, shown, acquires, reached, opened>>
        /\ \A s \in Surfaces : picture'[s] \in {NoPoint, picture[s], shown[s].point}
    BY <1>7 DEF Frame, FrameFenced, FrameFinished, FrameLost, FramePlain, Draw, Settle,
                clientVars, surfaceVars
  <2>2. reads' \in {reads, [reads EXCEPT ![f] = Visible]}
    BY <1>7 DEF Frame, FrameFenced, FrameFinished, FrameLost, FramePlain, frameVars
  <2>3. \A g \in Frames : reads'[g] \in {{}, reads[g], Visible}
    BY <2>2 DEF TypeOK
  <2>4. channel' = channel \/ channel' = Append(channel, [type |-> "Release", frame |-> f])
    BY <1>7 DEF Frame, FrameFenced, FrameFinished, FrameLost, FramePlain
  <2> QED
    BY <2>1, <2>3, <2>4, DrawKeepsReady
<1>8. ASSUME NEW s \in Surfaces, FadeEnds(s) PROVE ReadyInv'
  <2>1. /\ UNCHANGED <<alive, next, pending, queue, shown, acquires, reached, opened, channel>>
        /\ reads' = reads
        /\ \A t \in Surfaces : picture'[t] \in {NoPoint, picture[t]}
    BY <1>8 DEF FadeEnds, Settle, clientVars, surfaceVars, frameVars
  <2>2. Survive(Still, {}) /\ Visible' \subseteq reached
    BY <2>1, NothingMoved DEF ReadyInv, VisibleIsReached, Visible
  <2> QED
    BY <2>1, <2>2, NoWaitMoves
<1>9. ASSUME NEW f \in Frames, GpuDone(f) \/ FenceReadable(f) PROVE ReadyInv'
  <2>1. /\ UNCHANGED <<alive, next, pending, queue, shown, acquires, reached, opened, picture>>
        /\ channel' = channel
        /\ \A g \in Frames : reads'[g] \in {{}, reads[g], Visible}
    BY <1>9 DEF GpuDone, FenceReadable, clientVars, surfaceVars, TypeOK
  <2> QED
    BY <2>1, DrawKeepsReady
<1>10. CASE OnRelease \/ OnReleaseWaits
  <2>1. Receive("Release") /\ Head(channel).frame \in Frames
    BY <1>10, ReceiveTyped DEF OnRelease, OnReleaseWaits
  <2>2. /\ UNCHANGED <<alive, next, pending, queue, shown, acquires, reached, opened, picture>>
        /\ reads' = reads \/ reads' = [reads EXCEPT ![Head(channel).frame] = {}]
    BY <1>10 DEF OnRelease, OnReleaseWaits, clientVars, surfaceVars
  <2>3. \A g \in Frames : reads'[g] \in {{}, reads[g], Visible}
    BY <2>1, <2>2 DEF TypeOK
  <2> QED
    BY <2>1, <2>2, <2>3, DrawKeepsReady
<1>11. CASE Dispatch
  BY <1>5, <1>10, <1>11, AcquireKeepsReady, CancelKeepsReady DEF Dispatch
<1>12. CASE Next /\ ~Dispatch
  BY <1>1, <1>2, <1>3, <1>4, <1>6, <1>7, <1>8, <1>9, <1>12, ApplyKeepsReady DEF Next
<1> QED
  BY <1>6, <1>11, <1>12
-----------------------------------------------------------------------------
(* The specification.                                                      *)

LEMMA InitInvariant == Init => IInv
<1> SUFFICES ASSUME Init PROVE IInv
  OBVIOUS
<1>1. TypeOK
  BY InitTyped
<1>2. /\ next = 1 /\ queue = [r \in Surfaces |-> << >>]
      /\ pending = [r \in Surfaces |-> NoTransaction] /\ channel = << >>
      /\ discard = [s \in Surfaces |-> NoPoint] /\ acquires = [s \in Surfaces |-> {}]
      /\ reached = {} /\ opened = {} /\ signalled = {} /\ stranded = {}
      /\ reads = [f \in Frames |-> {}] /\ holds = [f \in Frames |-> {}]
      /\ shown = [s \in Surfaces |-> Unmapped] /\ picture = [s \in Surfaces |-> NoPoint]
  BY DEF Init
<1>3. Referenced = {} /\ Visible = {}
  BY <1>2 DEF Referenced, Visible, Unmapped
<1>4. \A r, s \in Surfaces : \A i \in Waiting(r) : Owes(r, i, s) = NoPoint
  <2>1. \A r \in Surfaces : \A i \in Waiting(r) : At(r, i) = NoTransaction
    BY <1>2 DEF Waiting, At
  <2> QED
    BY <2>1 DEF Owes, NoTransaction, NoPart
<1>5. 1 .. Len(channel) = {}
  BY <1>2
<1>6. UseInv
  BY <1>2, <1>3, <1>4 DEF UseInv, PartsAreWhole, PartIsWhole, Owes, OwedOnce, OwedIsUnused,
     NothingLeftToDiscard, ReferencedIsUnsignalled, UsedAreIssued, NoPoint
<1>7. ReadyInv
  BY <1>2, <1>3, <1>4, <1>5 DEF ReadyInv, VisibleIsReached, NothingReadUnready,
     OpenedIsReached, WaitsAreOwn, WaitsAreIssued, CancelledHaveGone
<1>8. ReleasesAreSent /\ ShownIsActive /\ ReadsAreKept
  BY <1>2, <1>5 DEF ReleasesAreSent, ShownIsActive, ReadsAreKept, Unmapped
<1> QED
  BY <1>1, <1>6, <1>7, <1>8 DEF IInv

LEMMA StepInvariant == IInv /\ [Next]_vars => IInv'
<1> SUFFICES ASSUME IInv, [Next]_vars PROVE IInv'
  OBVIOUS
<1>1. TypeOK /\ ReleasesAreSent /\ UseInv /\ ShownIsActive /\ ReadsAreKept /\ ReadyInv
  BY DEF IInv
<1>2. TypeOK' /\ ReleasesAreSent'
  BY <1>1, StepTyped, StepKeepsReleases
<1>3. UseInv' /\ ShownIsActive' /\ ReadsAreKept'
  BY <1>1, <1>2, StepKeepsUse
<1>4. ReadyInv'
  BY <1>1, <1>2, StepKeepsReady
<1> QED
  BY <1>2, <1>3, <1>4 DEF IInv

\* Points keep their one place through commits, applies, frames, cancellations and
\* clients killed or gone (explicit_sync.rs as a whole).
THEOREM ExplicitSyncInvariant == Spec => []IInv
  BY InitInvariant, StepInvariant, PTL DEF Spec

\* Every state of the program's is typed; Buffers are kept for a frame just while
\* its fence is under way, and a surface destroyed shows nothing.
THEOREM ExplicitSyncIsTypeCorrect == Spec => []TypeOK
<1>1. IInv => TypeOK
  BY DEF IInv
<1> QED
  BY <1>1, ExplicitSyncInvariant, PTL

\* A buffer is given back to its client only when no surface shows it, no window
\* fades from it, no commit waits to show it and no frame still reads it
\* (DiscardRelease, Held, State::buffers), for any surfaces, frames and commits.
THEOREM ReleasedOnlyWhenUnused == Spec => []NothingReleasedInUse
<1>1. IInv => NothingReleasedInUse
  <2> SUFFICES ASSUME IInv PROVE NothingReleasedInUse
    OBVIOUS
  <2>1. Referenced \cap signalled = {} /\ TypeOK /\ ReadsAreKept /\ OwedIsUnused
    BY DEF IInv, UseInv, ReferencedIsUnsignalled
  <2>2. signalled \cap Visible = {}
    BY <2>1, ReferencedArePoints
  <2>3. ASSUME NEW f \in Frames PROVE signalled \cap reads[f] = {}
    <3>1. reads[f] \subseteq Referenced
      BY <2>1 DEF ReadsAreKept, Referenced, TypeOK, Points, NoPoint
    <3> QED
      BY <2>1, <3>1
  <2>4. ASSUME NEW r \in Surfaces PROVE signalled \cap Owed(r) = {}
    <3>1. /\ Len(queue[r]) \in Nat /\ DOMAIN queue[r] = 1 .. Len(queue[r])
      BY <2>1, LenProperties DEF TypeOK
    <3>2. \A s \in Surfaces : pending[r].parts[s].discard \notin signalled
      <4>1. Len(queue[r]) + 1 \in Waiting(r) /\ At(r, Len(queue[r]) + 1) = pending[r]
        BY <3>1 DEF Waiting, At
      <4> QED
        BY <2>1, <4>1 DEF OwedIsUnused, Owes
    <3>3. \A i \in DOMAIN queue[r] : \A s \in Surfaces :
            queue[r][i].parts[s].discard \notin signalled
      <4>1. \A i \in DOMAIN queue[r] : i \in Waiting(r) /\ At(r, i) = queue[r][i]
        BY <3>1 DEF Waiting, At
      <4> QED
        BY <2>1, <4>1 DEF OwedIsUnused, Owes
    <3> QED
      BY <3>2, <3>3 DEF Owed
  <2> QED
    BY <2>2, <2>3, <2>4 DEF NothingReleasedInUse
<1> QED
  BY <1>1, ExplicitSyncInvariant, PTL

\* No frame reads a buffer its client's GPU has not finished, although the waits
\* of a destroyed surface are lifted before they are over (Pending::Cancel).
THEOREM ReadOnlyWhenReady == Spec => []NothingReadUnready
<1>1. IInv => NothingReadUnready
  BY DEF IInv, ReadyInv, VisibleIsReached
<1> QED
  BY <1>1, ExplicitSyncInvariant, PTL
=============================================================================
