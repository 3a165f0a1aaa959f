---------------------------- MODULE ExplicitSync ----------------------------
(***************************************************************************)
(* Explicit synchronisation (explicit_sync.rs).  A client commits a buffer *)
(* with an acquire point, before which the compositor may not read it, and *)
(* a release point, after which the client may write it again.  The commit *)
(* waits for the first on an event source; the second is signalled by the  *)
(* last reference to the buffer going: the surface's, a fading window's    *)
(* picture's, a frame's the GPU still draws, or the queued commit's own.   *)
(*                                                                         *)
(* A commit of an explicit buffer is known by its release point, a number  *)
(* that grows.  Smithay's transaction queues, its import and the GPU are   *)
(* modelled from what the code here makes of them.                         *)
(***************************************************************************)
EXTENDS Naturals, Sequences

CONSTANTS
    Surfaces,
    Parent,      \* a synchronised subsurface's root; a root's own is itself
    WlBuffers,   \* wl_buffers, which may be attached again and again
    NoBuffer,
    Frames,      \* bound: frames kept in flight
    MaxPoint,    \* bound: how many explicit buffers are committed
    MaxQueue     \* bound: transactions a client has waiting

ASSUME ExplicitSyncAssumption ==
    /\ Parent \in [Surfaces -> Surfaces]
    /\ \A s \in Surfaces : Parent[Parent[s]] = Parent[s]
    /\ NoBuffer \notin WlBuffers
    /\ MaxPoint \in Nat /\ MaxQueue \in Nat

VARIABLES
    alive,     \* the surfaces whose client has not destroyed them
    dying,     \* roots of the clients killed, not yet cleaned up
    next,      \* the next commit's point
    pending,   \* per root: what its next transaction holds so far
    queue,     \* per root: its client's transactions, the oldest first
    woken,     \* roots whose client's queue is being looked at
    shown,     \* the renderer's Buffer of each surface: wl_buffer and point
    active,    \* Explicit.active
    discard,   \* DiscardRelease of the surface's current state
    sync,      \* DrmSyncobjCachedState.release_point of the same
    picture,   \* what a window that went is still drawn from, by surface
    acquires,  \* State.acquires: the waits registered for each surface
    channel,   \* Pending messages
    reached,   \* points whose acquire point the client's GPU has reached
    opened,    \* points whose blocker is Released
    reads,     \* what the GPU still reads for each frame
    holds,     \* the Buffers kept for each frame
    fence,     \* where each frame's Buffers are: none, sent, held
    stranded,  \* State.stranded
    signalled  \* release points signalled

surfaceVars == <<shown, active, discard, sync>>
clientVars == <<alive, dying, next, pending, queue>>
frameVars == <<reads, holds, fence, stranded>>
vars == <<clientVars, woken, surfaceVars, picture, acquires, channel, reached,
          opened, frameVars, signalled>>

Points == 1..MaxPoint
NoPoint == 0
Roots == {s \in Surfaces : Parent[s] = s}
Family(r) == {s \in Surfaces : Parent[s] = r}

\* What a transaction does to one surface: its buffer assignment, and what it
\* carries of the two states kept beside it.
Parts == [kind : {"none", "new", "removed"}, wl : WlBuffers \cup {NoBuffer},
          discard : Points \cup {NoPoint}, sync : Points \cup {NoPoint}]
NoPart == [kind |-> "none", wl |-> NoBuffer, discard |-> NoPoint, sync |-> NoPoint]
Transactions == [parts : [Surfaces -> Parts], waits : SUBSET Points]
NoTransaction == [parts |-> [s \in Surfaces |-> NoPart], waits |-> {}]
Buffers == [wl : WlBuffers \cup {NoBuffer}, point : Points \cup {NoPoint}]
Unmapped == [wl |-> NoBuffer, point |-> NoPoint]
Messages == [type : {"Acquire"}, point : Points, surface : Surfaces]
       \cup [type : {"Cancel"}, surfaces : SUBSET Surfaces, root : Surfaces]
       \cup [type : {"Release"}, frame : Frames]

Init ==
    /\ alive = Surfaces /\ dying = {} /\ next = 1
    /\ pending = [r \in Surfaces |-> NoTransaction]
    /\ queue = [r \in Surfaces |-> << >>]
    /\ woken = {}
    /\ shown = [s \in Surfaces |-> Unmapped]
    /\ active = [s \in Surfaces |-> FALSE]
    /\ discard = [s \in Surfaces |-> NoPoint] /\ sync = [s \in Surfaces |-> NoPoint]
    /\ picture = [s \in Surfaces |-> NoPoint]
    /\ acquires = [s \in Surfaces |-> {}]
    /\ channel = << >>
    /\ reached = {} /\ opened = {}
    /\ reads = [f \in Frames |-> {}] /\ holds = [f \in Frames |-> {}]
    /\ fence = [f \in Frames |-> "none"]
    /\ stranded = {} /\ signalled = {}

-----------------------------------------------------------------------------
(* Ownership of release points.                                            *)

\* The points some Buffer of the renderer's still carries.
Referenced ==
    ({shown[s].point : s \in Surfaces} \cup {picture[s] : s \in Surfaces}
        \cup stranded \cup UNION {holds[f] : f \in Frames}) \ {NoPoint}

\* A point is signalled when the last Buffer with it goes, or when the commit
\* that still owns it is dropped.
Signal(dropped) ==
    signalled' = signalled \cup (dropped \ {NoPoint}) \cup (Referenced \ Referenced')

\* What merging a later part into an earlier one leaves: the attributes' buffer
\* and DiscardRelease of the later if it changed them, and points set over points.
Merged(old, new) ==
    [kind    |-> IF new.kind = "none" THEN old.kind ELSE new.kind,
     wl      |-> IF new.kind = "none" THEN old.wl ELSE new.wl,
     discard |-> IF new.kind = "none" THEN old.discard ELSE new.discard,
     sync    |-> IF new.sync = NoPoint THEN old.sync ELSE new.sync]

\* Mutant: it is replaced and not dropped.
SupersededInSilence(old, new) == {}

\* The points a merge drops with the DiscardRelease it replaces.
Superseded(old, new) == IF new.kind = "none" THEN {} ELSE {old.discard} \ {NoPoint}

-----------------------------------------------------------------------------
(* The client.                                                             *)

\* Part `part` of surface s is committed, waiting for `waits`.  A root's commit
\* ends the transaction, and every commit looks for transactions that are ready.
Commit(s, part, waits) ==
    LET r == Parent[s]
        tx == [parts |-> [pending[r].parts EXCEPT ![s] = Merged(@, part)],
               waits |-> pending[r].waits \cup waits]
    IN  /\ IF s = r THEN /\ Len(queue[r]) < MaxQueue
                         /\ queue' = [queue EXCEPT ![r] = Append(@, tx)]
                         /\ pending' = [pending EXCEPT ![r] = NoTransaction]
                         /\ woken' = woken \cup {r}
                    ELSE /\ pending' = [pending EXCEPT ![r] = tx]
                         /\ UNCHANGED <<queue, woken>>
        /\ UNCHANGED <<alive, dying, surfaceVars, picture, acquires, reached, opened,
                       frameVars>>
        /\ Signal(Superseded(pending[r].parts[s], part))

Serves(s) == s \in alive /\ Parent[s] \in alive /\ Parent[s] \notin dying

\* A buffer with both points: its wait is sent to the loop and blocks the commit.
CommitExplicit(s, b) ==
    /\ Serves(s) /\ next \in Points
    /\ next' = next + 1
    /\ channel' = Append(channel, [type |-> "Acquire", point |-> next, surface |-> s])
    /\ Commit(s, [kind |-> "new", wl |-> b, discard |-> next, sync |-> next], {next})

\* A buffer without points, from a surface with no synchronisation object; no
\* buffer; or a commit that leaves the buffer as it is.
CommitImplicit(s, b) ==
    /\ Serves(s)
    /\ Commit(s, [NoPart EXCEPT !.kind = "new", !.wl = b], {})
    /\ UNCHANGED <<next, channel>>
CommitRemoved(s) ==
    /\ Serves(s)
    /\ Commit(s, [NoPart EXCEPT !.kind = "removed"], {})
    /\ UNCHANGED <<next, channel>>
CommitNothing(s) ==
    /\ Serves(s)
    /\ Commit(s, NoPart, {})
    /\ UNCHANGED <<next, channel>>

\* Surfaces D of one client are destroyed.  A window among those in `kept` is
\* drawn from its picture for a while; commits still queued for D are dropped.
Destroy(D, r, kept, dropped) ==
    LET Without(tx) == [tx EXCEPT !.parts =
                          [s \in Surfaces |-> IF s \in D THEN NoPart ELSE tx.parts[s]]]
        owned == {pending[r].parts[s].discard : s \in D}
                   \cup UNION {{queue[r][i].parts[s].discard : s \in D}
                                 : i \in DOMAIN queue[r]}
    IN  /\ alive' = alive \ D
        /\ pending' = [pending EXCEPT ![r] = Without(@)]
        /\ queue' = [queue EXCEPT ![r] = [i \in DOMAIN @ |-> Without(@[i])]]
        /\ shown' = [s \in Surfaces |-> IF s \in D THEN Unmapped ELSE shown[s]]
        /\ active' = [s \in Surfaces |-> s \notin D /\ active[s]]
        /\ discard' = [s \in Surfaces |-> IF s \in D THEN NoPoint ELSE discard[s]]
        /\ sync' = [s \in Surfaces |-> IF s \in D THEN NoPoint ELSE sync[s]]
        /\ picture' = [s \in Surfaces |-> IF s \in D \cap kept /\ picture[s] = NoPoint
                                            THEN shown[s].point ELSE picture[s]]
        /\ channel' = Append(channel, [type |-> "Cancel", surfaces |-> D, root |-> r])
        /\ UNCHANGED <<woken, acquires, reached, opened, frameVars>>
        /\ Signal(dropped \cup owned \cup {discard[s] : s \in D})

ClientDestroys(s, kept) ==
    /\ s \in alive /\ Parent[s] \notin dying
    /\ Destroy({s}, Parent[s], kept, {})
    /\ UNCHANGED <<dying, next>>

\* A commit the wait cannot be made for: the hook kills the client, which is
\* cleaned up, and the commit with it, before anything else of the loop runs.
CommitRefused(s, kept) ==
    /\ Serves(s) /\ next \in Points
    /\ next' = next + 1
    /\ Destroy(Family(Parent[s]) \cap alive, Parent[s], kept, {next})
    /\ UNCHANGED dying

\* A client killed from the channel's handler is cleaned up later.
Cleanup(r, kept) ==
    /\ r \in dying
    /\ Destroy(Family(r) \cap alive, r, kept, {})
    /\ dying' = dying \ {r}
    /\ UNCHANGED next

\* A window's role goes and its surface stays: it fades from the picture taken.
WindowLeaves(s) ==
    /\ Serves(s) /\ picture[s] = NoPoint /\ shown[s].point # NoPoint
    /\ picture' = [picture EXCEPT ![s] = shown[s].point]
    /\ UNCHANGED <<clientVars, woken, surfaceVars, acquires, channel, reached, opened,
                   frameVars, signalled>>

\* The client's GPU reaches an acquire point, if ever.
ClientReaches(p) ==
    /\ p < next /\ p \notin reached
    /\ reached' = reached \cup {p}
    /\ UNCHANGED <<clientVars, woken, surfaceVars, picture, acquires, channel, opened,
                   frameVars, signalled>>

-----------------------------------------------------------------------------
(* Applying a client's transactions.                                       *)

Ready(r) == queue[r] # << >> /\ Head(queue[r]).waits \subseteq opened

\* The surface's current state with the transaction's part merged into it.
Current(s, tx) ==
    Merged([NoPart EXCEPT !.discard = discard[s], !.sync = sync[s]], tx.parts[s])

\* before_import: only a buffer whose release is still owned here is explicit.
IsExplicit(now) == now.kind = "new" /\ now.discard # NoPoint

\* Points left from an explicit commit since superseded are not for this buffer.
SyncAtImport(now) == IF IsExplicit(now) THEN now.sync ELSE NoPoint

\* Mutant: a buffer attached again is not told from the one shown.
ReattachedNever(s, now) == FALSE

\* ... and an explicit surface's buffer attached again is imported afresh.
Reattached(s, now) ==
    now.kind = "new" /\ (IsExplicit(now) \/ active[s]) /\ shown[s].wl = now.wl

\* Smithay's import: the same wl_buffer keeps the Buffer it has, another takes
\* the points the surface's state holds.
Imported(s, now) ==
    CASE now.kind = "none"    -> shown[s]
      [] now.kind = "removed" -> Unmapped
      [] now.kind = "new"     ->
           IF shown[s].wl = now.wl /\ ~Reattached(s, now)
             THEN shown[s]
             ELSE [wl |-> now.wl, point |-> SyncAtImport(now)]

\* Mutant: importing a buffer leaves its release with the commit as well.
DiscardLeftBehind(now) == now.discard

\* What is left of the points once imported.
DiscardLeft(now) == IF IsExplicit(now) THEN NoPoint ELSE now.discard
SyncLeft(now) == IF now.kind = "none" THEN now.sync ELSE NoPoint

\* The oldest transaction is applied: each of its surfaces that is still there
\* takes its part, and pictures drawn from one given a new buffer go.  A client's
\* ready transactions are applied one after the other; here something else may
\* come between two of them, which it does not in the code.
ApplyNext(r) ==
    /\ r \in woken /\ Ready(r)
    /\ queue' = [queue EXCEPT ![r] = Tail(@)]
    /\ UNCHANGED <<alive, dying, next, pending, woken, acquires, channel, reached, opened>>
    /\ LET tx == Head(queue[r])
           Now(s) == Current(s, tx)
           on == Family(r) \cap alive
       IN  /\ shown' = [s \in Surfaces |-> IF s \in on THEN Imported(s, Now(s)) ELSE shown[s]]
           /\ active' = [s \in Surfaces |-> IF s \in on /\ Now(s).kind # "none"
                                              THEN IsExplicit(Now(s)) ELSE active[s]]
           /\ discard' = [s \in Surfaces |-> IF s \in on THEN DiscardLeft(Now(s))
                                                         ELSE discard[s]]
           /\ sync' = [s \in Surfaces |-> IF s \in on THEN SyncLeft(Now(s)) ELSE sync[s]]
           /\ picture' = [s \in Surfaces |-> IF s \in on /\ Now(s).kind = "new"
                                               THEN NoPoint ELSE picture[s]]
           /\ UNCHANGED frameVars
           /\ Signal({discard[s] : s \in {t \in on : tx.parts[t].kind # "none"}})

ApplyDone(r) ==
    /\ r \in woken /\ ~Ready(r)
    /\ woken' = woken \ {r}
    /\ UNCHANGED <<clientVars, surfaceVars, picture, acquires, channel, reached, opened,
                   frameVars, signalled>>

-----------------------------------------------------------------------------
(* The event loop's sources.                                               *)

Receive(type) == /\ channel # << >> /\ Head(channel).type = type
                 /\ channel' = Tail(channel)

\* Mutant: the wait of a surface already gone is forgotten.
OnAcquireOfTheLiving ==
    /\ Receive("Acquire")
    /\ LET s == Head(channel).surface
       IN  acquires' = [acquires EXCEPT ![s] = IF s \in alive
                                                THEN @ \cup {Head(channel).point} ELSE @]
    /\ UNCHANGED <<clientVars, woken, surfaceVars, picture, reached, opened, frameVars,
                   signalled>>

\* Acquire: wait for the point, unless the surface has gone meanwhile.
OnAcquire ==
    /\ Receive("Acquire")
    /\ LET p == Head(channel).point
           s == Head(channel).surface
       IN  IF s \in alive
             THEN /\ acquires' = [acquires EXCEPT ![s] = @ \cup {p}]
                  /\ UNCHANGED <<opened, woken>>
             ELSE /\ opened' = opened \cup {p}
                  /\ woken' = woken \cup {Parent[s]}
                  /\ UNCHANGED acquires
    /\ UNCHANGED <<clientVars, surfaceVars, picture, reached, frameVars, signalled>>

\* Mutant: ... and if the source cannot be registered, the commit goes ahead.
OnAcquireFailsOpen ==
    /\ Receive("Acquire") /\ Head(channel).surface \in alive
    /\ opened' = opened \cup {Head(channel).point}
    /\ woken' = woken \cup {Parent[Head(channel).surface]}
    /\ UNCHANGED <<clientVars, surfaceVars, picture, acquires, reached, frameVars, signalled>>

\* ... and if the source cannot be registered, the client goes.
OnAcquireFails ==
    /\ Receive("Acquire") /\ Head(channel).surface \in alive
    /\ dying' = dying \cup {Parent[Head(channel).surface]}
    /\ UNCHANGED <<alive, next, pending, queue, woken, surfaceVars, picture, acquires,
                   reached, opened, frameVars, signalled>>

\* Cancel: the waits of surfaces that have gone hold nothing back any more.
OnCancel ==
    /\ Receive("Cancel")
    /\ LET gone == Head(channel).surfaces
       IN  /\ opened' = opened \cup UNION {acquires[s] : s \in gone}
           /\ acquires' = [s \in Surfaces |-> IF s \in gone THEN {} ELSE acquires[s]]
    /\ woken' = woken \cup {Head(channel).root}
    /\ UNCHANGED <<clientVars, surfaceVars, picture, reached, frameVars, signalled>>

\* An acquire point's source fires: its wait is over.
SourceFires(s, p) ==
    /\ p \in acquires[s] /\ p \in reached
    /\ acquires' = [acquires EXCEPT ![s] = @ \ {p}]
    /\ opened' = opened \cup {p}
    /\ woken' = woken \cup {Parent[s]}
    /\ UNCHANGED <<clientVars, surfaceVars, picture, channel, reached, frameVars, signalled>>

-----------------------------------------------------------------------------
(* Frames.                                                                 *)

FenceReached(f) == reads[f] = {}

\* What a frame may read, and what is kept for it: the buffers of the surfaces
\* marked explicit and those of the pictures windows fade from.
Visible == ({shown[s].point : s \in Surfaces} \cup {picture[s] : s \in Surfaces}) \ {NoPoint}
Snapshot == ({shown[s].point : s \in {t \in Surfaces : t \in alive /\ active[t]}}
               \cup {picture[s] : s \in Surfaces}) \ {NoPoint}

\* Frame f is drawn, fenced, and its Buffers sent to the loop; the fades `ended`
\* are over with it.
Settle(ended) == picture' = [s \in Surfaces |-> IF s \in ended THEN NoPoint ELSE picture[s]]

Draw(f, ended) ==
    /\ FenceReached(f) /\ fence[f] = "none"
    /\ Settle(ended)
    /\ UNCHANGED <<clientVars, woken, surfaceVars, acquires, reached, opened>>

FrameFenced(f, ended) ==
    /\ Draw(f, ended) /\ Snapshot # {}
    /\ reads' = [reads EXCEPT ![f] = Visible]
    /\ holds' = [holds EXCEPT ![f] = Snapshot]
    /\ fence' = [fence EXCEPT ![f] = "sent"]
    /\ channel' = Append(channel, [type |-> "Release", frame |-> f])
    /\ UNCHANGED stranded /\ Signal({})

\* No fence: the GPU is waited for, and if that fails too the Buffers are kept
\* for good.
FrameFinished(f, ended) ==
    /\ Draw(f, ended) /\ Snapshot # {}
    /\ UNCHANGED <<frameVars, channel>> /\ Signal({})
FrameLost(f, ended) ==
    /\ Draw(f, ended) /\ Snapshot # {}
    /\ reads' = [reads EXCEPT ![f] = Visible]
    /\ stranded' = stranded \cup Snapshot
    /\ UNCHANGED <<holds, fence, channel>> /\ Signal({})

\* Nothing was kept for the frame.
FramePlain(f, ended) ==
    /\ Draw(f, ended) /\ Snapshot = {}
    /\ reads' = [reads EXCEPT ![f] = Visible]
    /\ UNCHANGED <<holds, fence, stranded, channel>> /\ Signal({})

\* A pass that draws on no screen settles too.
FadeEnds(s) ==
    /\ picture[s] # NoPoint
    /\ Settle({s})
    /\ UNCHANGED <<clientVars, woken, surfaceVars, acquires, channel, reached, opened,
                   frameVars>>
    /\ Signal({})

GpuDone(f) ==
    /\ reads[f] # {}
    /\ reads' = [reads EXCEPT ![f] = {}]
    /\ UNCHANGED <<clientVars, woken, surfaceVars, picture, acquires, channel, reached,
                   opened, holds, fence, stranded, signalled>>

\* Mutant: the source goes and its Buffers stay.
LetGoOfTheSource(f) == fence' = [fence EXCEPT ![f] = "none"] /\ UNCHANGED holds

\* Frame f's Buffers are let go of.
LetGo(f) ==
    /\ holds' = [holds EXCEPT ![f] = {}]
    /\ fence' = [fence EXCEPT ![f] = "none"]

\* Release: held until the fence's descriptor is readable ...
OnRelease ==
    /\ Receive("Release")
    /\ LET f == Head(channel).frame
       IN  IF FenceReached(f) THEN LetGo(f)
                              ELSE /\ fence' = [fence EXCEPT ![f] = "held"]
                                   /\ UNCHANGED holds
    /\ UNCHANGED <<clientVars, woken, surfaceVars, picture, acquires, reached, opened,
                   reads, stranded>>
    /\ Signal({})

\* ... or with no descriptor or no source for it, waited for on the spot; if the
\* wait fails the Buffers are kept for good.
OnReleaseWaits ==
    /\ Receive("Release") /\ ~FenceReached(Head(channel).frame)
    /\ LET f == Head(channel).frame
       IN  /\ LetGo(f)
           /\ \/ reads' = [reads EXCEPT ![f] = {}] /\ UNCHANGED stranded
              \/ stranded' = stranded \cup holds[f] /\ UNCHANGED reads
    /\ UNCHANGED <<clientVars, woken, surfaceVars, picture, acquires, reached, opened>>
    /\ Signal({})

FenceReadable(f) ==
    /\ fence[f] = "held" /\ FenceReached(f)
    /\ LetGo(f)
    /\ UNCHANGED <<clientVars, woken, surfaceVars, picture, acquires, channel, reached,
                   opened, reads, stranded>>
    /\ Signal({})

-----------------------------------------------------------------------------
\* What the loop's channel source does with a message.
Dispatch == OnAcquire \/ OnAcquireFails \/ OnCancel \/ OnRelease \/ OnReleaseWaits

Frame(f, ended) == \/ FrameFenced(f, ended) \/ FrameFinished(f, ended)
                   \/ FrameLost(f, ended) \/ FramePlain(f, ended)

Fading == {s \in Surfaces : picture[s] # NoPoint}

Client(s) ==
    \/ \E b \in WlBuffers : CommitExplicit(s, b) \/ CommitImplicit(s, b)
    \/ CommitRemoved(s) \/ CommitNothing(s) \/ WindowLeaves(s)
    \/ \E kept \in SUBSET {s} : ClientDestroys(s, kept)
    \/ \E kept \in SUBSET Family(Parent[s]) : CommitRefused(s, kept)

Next ==
    \/ \E s \in Surfaces : Client(s)
    \/ \E p \in Points : ClientReaches(p)
    \/ \E r \in Surfaces, kept \in SUBSET Surfaces : Cleanup(r, kept)
    \/ \E r \in Surfaces : ApplyNext(r) \/ ApplyDone(r)
    \/ Dispatch
    \/ \E s \in Surfaces, p \in Points : SourceFires(s, p)
    \/ \E f \in Frames, ended \in SUBSET Fading : Frame(f, ended)
    \/ \E s \in Surfaces : FadeEnds(s)
    \/ \E f \in Frames : GpuDone(f) \/ FenceReadable(f)

Spec == Init /\ [][Next]_vars

\* Every source of the loop that stays ready is dispatched, and a queue woken is
\* applied; the GPU finishes what it was given; a fade comes to its end; a killed
\* client is cleaned up.  Where an action ends the one condition that enables it,
\* its weak fairness is that the condition does not last for ever.
Fairness ==
    /\ \A r \in Surfaces : WF_vars(ApplyNext(r) \/ ApplyDone(r))
    /\ WF_vars(Dispatch)
    /\ \A r \in Surfaces : []<>(r \notin dying)
    /\ \A s \in Surfaces, p \in Points : []<>~(p \in acquires[s] /\ p \in reached)
    /\ \A f \in Frames : []<>(reads[f] = {})
    /\ \A f \in Frames : []<>~(fence[f] = "held" /\ FenceReached(f))
    /\ \A s \in Surfaces : []<>(picture[s] = NoPoint)

FairSpec == Spec /\ Fairness

-----------------------------------------------------------------------------
\* Types; Buffers are kept for a frame just while its fence is under way, and a
\* surface destroyed shows nothing.
TypeOK ==
    /\ alive \subseteq Surfaces /\ dying \subseteq Surfaces
    /\ next \in 1..(MaxPoint + 1)
    /\ pending \in [Surfaces -> Transactions]
    /\ queue \in [Surfaces -> Seq(Transactions)]
    /\ woken \subseteq Surfaces
    /\ shown \in [Surfaces -> Buffers]
    /\ active \in [Surfaces -> BOOLEAN]
    /\ discard \in [Surfaces -> Points \cup {NoPoint}]
    /\ sync \in [Surfaces -> Points \cup {NoPoint}]
    /\ picture \in [Surfaces -> Points \cup {NoPoint}]
    /\ acquires \in [Surfaces -> SUBSET Points]
    /\ channel \in Seq(Messages)
    /\ reached \subseteq Points /\ opened \subseteq Points
    /\ reads \in [Frames -> SUBSET Points] /\ holds \in [Frames -> SUBSET Points]
    /\ fence \in [Frames -> {"none", "sent", "held"}]
    /\ stranded \subseteq Points /\ signalled \subseteq Points
    /\ \A f \in Frames : fence[f] = "none" <=> holds[f] = {}
    /\ \A s \in Surfaces \ alive : shown[s] = Unmapped /\ ~active[s]

\* The points a commit not yet applied still owns.
Owed(r) == {pending[r].parts[s].discard : s \in Surfaces}
             \cup UNION {{queue[r][i].parts[s].discard : s \in Surfaces}
                           : i \in DOMAIN queue[r]}

\* A buffer is given back to its client only when nothing can read it any more:
\* no surface shows it, no window fades from it, no commit waits to show it and
\* no frame the GPU still draws reads it (DiscardRelease, Held, State::buffers).
NothingReleasedInUse ==
    /\ signalled \cap Visible = {}
    /\ \A f \in Frames : signalled \cap reads[f] = {}
    /\ \A r \in Surfaces : signalled \cap Owed(r) = {}

\* No frame reads a buffer before its client's GPU has reached the acquire point,
\* although a destroyed surface's waits are lifted unreached (Pending::Cancel).
NothingReadUnready == \A f \in Frames : reads[f] \subseteq reached

\* A buffer no commit and no surface keeps is given back in the end, unless the
\* GPU could not be waited for (State::retire, retire_on, Drop).  None is kept
\* again once it is not, so this is the leads-to of the two.
Kept(p) == \E r \in Surfaces : shown[r].point = p \/ p \in Owed(r)
EveryReleaseComes ==
    \A p \in Points : []<>(p < next => p \in signalled \cup stranded \/ Kept(p))

\* A queued commit gets out, unless what holds it back is an acquire point that
\* its client has not reached, of a surface that is still there (install, acquire).
Excused(p) ==
    \E r \in Surfaces : \E i \in DOMAIN queue[r] :
        /\ \E s \in Surfaces : queue[r][i].parts[s].discard = p
        /\ \E j \in 1..i, s \in alive :
               (queue[r][j].waits \cap acquires[s]) \ reached # {}
Queued(p) ==
    \E r, s \in Surfaces : \E i \in DOMAIN queue[r] : queue[r][i].parts[s].discard = p
QueuesMove == \A p \in Points : []<>(~Queued(p) \/ Excused(p))

\* Explicit synchronisation keeps what BufferPromise promises: a commit's buffer
\* goes from the commit to the screen and back to its client, given back once,
\* when nothing reads it, and never lost on the way.
AllOwed == (UNION {Owed(r) : r \in Surfaces}) \ {NoPoint}
Shown == {shown[s].point : s \in Surfaces} \ {NoPoint}
Promise == INSTANCE BufferPromise WITH
    queued <- AllOwed,
    onScreen <- Shown,
    leaving <- Referenced \ Shown,
    given <- signalled,
    ready <- reached
KeepsItsPromise == Promise!Spec
=============================================================================
