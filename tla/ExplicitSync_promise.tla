------------------------ MODULE ExplicitSync_promise ------------------------
(***************************************************************************)
(* Proof that ExplicitSync keeps BufferPromise's promise: each point goes  *)
(* from its commit to the screen and back to the client, and none is lost. *)
(***************************************************************************)
EXTENDS ExplicitSync_proofs

USE ExplicitSyncAssumption

\* Every point given out is owed by a commit, referenced or signalled.
IssuedAreAccounted == Issued \subseteq AllOwed \cup Referenced \cup signalled

\* A step hands points on: what is owed was, or is new; what is shown was shown
\* or owed; no other Buffer gets a point; and no point is lost.
HandsOn ==
    /\ AllOwed' \subseteq AllOwed \cup (Issued' \ Issued)
    /\ Shown' \subseteq Shown \cup AllOwed
    /\ Referenced' \subseteq Referenced \cup Shown'
    /\ signalled \subseteq signalled'
    /\ AllOwed \cup Referenced \subseteq AllOwed' \cup Referenced' \cup signalled'
    /\ Issued' \ Issued \subseteq AllOwed' \cup signalled'

-----------------------------------------------------------------------------
(* What is owed, by place.                                                 *)

OwedByParts ==
    \A p : p \in AllOwed <=>
      p # NoPoint /\ \E r, s \in Surfaces : \E i \in Waiting(r) : p = Owes(r, i, s)

LEMMA OwedIsByParts == TypeOK => OwedByParts
<1> SUFFICES ASSUME TypeOK PROVE OwedByParts
  OBVIOUS
<1>1. ASSUME NEW r \in Surfaces, NEW p
      PROVE  p \in Owed(r) <=> \E s \in Surfaces : \E i \in Waiting(r) : p = Owes(r, i, s)
  <2>1. Len(queue[r]) \in Nat /\ DOMAIN queue[r] = 1 .. Len(queue[r])
    BY LenProperties DEF TypeOK
  <2>2. ASSUME NEW s \in Surfaces, p = pending[r].parts[s].discard
        PROVE  \E i \in Waiting(r) : p = Owes(r, i, s)
    <3>1. Len(queue[r]) + 1 \in Waiting(r) /\ At(r, Len(queue[r]) + 1) = pending[r]
      BY <2>1 DEF Waiting, At
    <3> QED
      BY <2>2, <3>1 DEF Owes
  <2>3. ASSUME NEW i \in DOMAIN queue[r], NEW s \in Surfaces,
               p = queue[r][i].parts[s].discard
        PROVE  i \in Waiting(r) /\ p = Owes(r, i, s)
    <3>1. i \in Waiting(r) /\ At(r, i) = queue[r][i]
      BY <2>1 DEF Waiting, At
    <3> QED
      BY <2>3, <3>1 DEF Owes
  <2>4. ASSUME NEW s \in Surfaces, NEW i \in Waiting(r), p = Owes(r, i, s)
        PROVE  p \in Owed(r)
    <3>1. CASE i = Len(queue[r]) + 1
      BY <2>4, <3>1 DEF Owes, At, Owed
    <3>2. CASE i \in DOMAIN queue[r]
      <4>1. i # Len(queue[r]) + 1
        BY <2>1, <3>2
      <4> QED
        BY <2>4, <3>2, <4>1 DEF Owes, At, Owed
    <3> QED
      BY <2>1, <3>1, <3>2 DEF Waiting
  <2> QED
    BY <2>2, <2>3, <2>4 DEF Owed
<1> QED
  BY <1>1 DEF OwedByParts, AllOwed

LEMMA ReferencedAreShown ==
    TypeOK => Shown \subseteq Referenced /\ Visible \subseteq Referenced
  BY DEF Referenced, Shown, Visible

LEMMA NextOwedIsByParts == TypeOK' => OwedByParts'
  BY OwedIsByParts, PTL

LEMMA StillOwed ==
    ASSUME TypeOK', NEW r \in Surfaces, NEW s \in Surfaces, NEW i \in Waiting(r)',
           NEW p, p # NoPoint, p = Owes(r, i, s)'
    PROVE  p \in AllOwed'
<1>1. OwedByParts'
  BY NextOwedIsByParts
<1> QED
  BY <1>1 DEF OwedByParts

LEMMA OwedBefore ==
    ASSUME TypeOK, TypeOK', NEW up, NEW new, Survive(up, new), new \subseteq Issued' \ Issued
    PROVE  AllOwed' \subseteq AllOwed \cup (Issued' \ Issued)
<1> SUFFICES ASSUME NEW p \in AllOwed', p \notin new PROVE p \in AllOwed
  OBVIOUS
<1>1. OwedByParts /\ OwedByParts'
  BY OwedIsByParts, NextOwedIsByParts
<1>2. PICK r \in Surfaces, s \in Surfaces : \E i \in Waiting(r)' : p = Owes(r, i, s)'
  BY <1>1 DEF OwedByParts
<1>3. PICK i \in Waiting(r)' : p = Owes(r, i, s)'
  BY <1>2
<1>4. p # NoPoint
  BY <1>1 DEF OwedByParts
<1>5. i + up[r] \in Waiting(r) /\ Owes(r, i + up[r], s) = p
  BY <1>3, <1>4, WasOwed
<1> QED
  BY <1>1, <1>4, <1>5 DEF OwedByParts

LEMMA CommitLengthens ==
    ASSUME TypeOK, NEW s \in Surfaces, NEW part, NEW waits, Commit(s, part, waits),
           NEW r \in Surfaces
    PROVE  Waiting(r) \subseteq Waiting(r)'
<1>1. queue' = IF s = Parent[s] THEN [queue EXCEPT ![Parent[s]] = Append(@, Joined(s, part, waits))]
                                ELSE queue
  BY DEF Commit, Joined
<1>2. queue \in [Surfaces -> Seq(Transactions)]
  BY DEF TypeOK
<1>3. Len(queue[r]) \in Nat
  BY <1>2, LenProperties
<1>4. CASE queue'[r] = queue[r]
  BY <1>4 DEF Waiting
<1>5. CASE queue'[r] = Append(queue[r], Joined(s, part, waits))
  <2>1. Len(queue'[r]) = Len(queue[r]) + 1
    BY <1>2, <1>5
  <2> QED
    BY <1>3, <2>1 DEF Waiting
<1> QED
  BY <1>1, <1>2, <1>4, <1>5

\* What a commit's buffer replaces of an earlier one's, in the same transaction,
\* is given back; the rest waits on.
LEMMA CommitLosesNothing ==
    ASSUME TypeOK, TypeOK', NEW s \in Surfaces, NEW part \in Parts, NEW waits \in SUBSET Points,
           Commit(s, part, waits)
    PROVE  AllOwed \subseteq AllOwed' \cup signalled'
<1> SUFFICES ASSUME NEW p \in AllOwed PROVE p \in AllOwed' \cup signalled'
  OBVIOUS
<1>1. p # NoPoint /\ \E r, t \in Surfaces : \E i \in Waiting(r) : p = Owes(r, i, t)
  BY OwedIsByParts DEF OwedByParts
<1>2. PICK r \in Surfaces, t \in Surfaces : \E i \in Waiting(r) : p = Owes(r, i, t)
  BY <1>1
<1>3. PICK i \in Waiting(r) : p = Owes(r, i, t)
  BY <1>2
<1>4. /\ i \in 1 .. (Len(queue[r]) + 1) /\ Len(queue[r]) \in Nat /\ At(r, i) \in Transactions
      /\ i \in Nat
  BY WaitingTyped DEF Waiting
<1>5. i \in Waiting(r)'
  BY CommitLengthens
<1>6. CASE At(r, i)' = At(r, i)
  <2>1. p = Owes(r, i, t)'
    BY <1>3, <1>6 DEF Owes
  <2> QED
    BY <1>1, <1>5, <2>1, StillOwed
<1>7. CASE r = Parent[s] /\ i = Len(queue[r]) + 1 /\ At(r, i)' = Joined(s, part, waits)
  <2>1. At(r, i) = pending[r] /\ p = pending[r].parts[t].discard
    BY <1>3, <1>7 DEF At, Owes
  <2>2. At(r, i)'.parts[t] = IF t = s THEN Merged(pending[r].parts[s], part)
                                      ELSE pending[r].parts[t]
    BY <1>4, <1>7, <2>1 DEF Joined, Transactions
  <2>3. CASE t # s \/ part.kind = "none"
    <3>1. p = Owes(r, i, t)'
      BY <2>1, <2>2, <2>3 DEF Owes, Merged
    <3> QED
      BY <1>1, <1>5, <3>1, StillOwed
  <2>4. CASE t = s /\ part.kind # "none"
    <3>1. p \in Superseded(pending[r].parts[s], part)
      BY <1>1, <2>1, <2>4 DEF Superseded
    <3>2. Signal(Superseded(pending[r].parts[s], part))
      BY <1>7 DEF Commit
    <3> QED
      BY <1>1, <3>1, <3>2 DEF Signal
  <2> QED
    BY <2>3, <2>4
<1> QED
  BY <1>4, <1>5, <1>6, <1>7, CommitMoves

\* The points of commits still queued for surfaces destroyed are given back.
LEMMA DestroyLosesNothing ==
    ASSUME TypeOK, TypeOK', NEW D \in SUBSET Surfaces, NEW q \in Surfaces, NEW kept, NEW dropped,
           Destroy(D, q, kept, dropped)
    PROVE  AllOwed \subseteq AllOwed' \cup signalled'
<1>0. \A r \in Surfaces : \A i \in Waiting(r)' :
        i \in Waiting(r) /\ At(r, i)' = IF r = q THEN Without(At(r, i), D) ELSE At(r, i)
  <2> TAKE r \in Surfaces
  <2> TAKE i \in Waiting(r)'
  <2> QED
    BY DestroyMoves
<1> DEFINE owned == {pending[q].parts[s].discard : s \in D}
                      \cup UNION {{queue[q][i].parts[s].discard : s \in D} : i \in DOMAIN queue[q]}
<1> SUFFICES ASSUME NEW p \in AllOwed PROVE p \in AllOwed' \cup signalled'
  OBVIOUS
<1>1. p # NoPoint /\ \E r, t \in Surfaces : \E i \in Waiting(r) : p = Owes(r, i, t)
  BY OwedIsByParts DEF OwedByParts
<1>2. PICK r \in Surfaces, t \in Surfaces : \E i \in Waiting(r) : p = Owes(r, i, t)
  BY <1>1
<1>3. PICK i \in Waiting(r) : p = Owes(r, i, t)
  BY <1>2
<1>4. /\ i \in 1 .. (Len(queue[r]) + 1) /\ Len(queue[r]) \in Nat /\ At(r, i) \in Transactions
      /\ DOMAIN queue[r] = 1 .. Len(queue[r])
  BY WaitingTyped, LenProperties DEF Waiting, TypeOK
<1>5. i \in Waiting(r)'
  <2>1. queue' = [queue EXCEPT ![q] = [j \in DOMAIN @ |-> Without(@[j], D)]]
    BY DEF Destroy, Without
  <2>2. CASE r # q
    BY <1>4, <2>1, <2>2 DEF Waiting, TypeOK
  <2>3. CASE r = q
    <3> DEFINE emptied == [j \in 1 .. Len(queue[r]) |-> Without(queue[r][j], D)]
    <3>1. queue'[r] = emptied
      BY <1>4, <2>1, <2>3 DEF TypeOK
    <3>2. Len(emptied) = Len(queue[r])
      BY <1>4
    <3> HIDE DEF emptied
    <3> QED
      BY <1>4, <3>1, <3>2 DEF Waiting
  <2> QED
    BY <2>2, <2>3
<1>6. At(r, i)' = IF r = q THEN Without(At(r, i), D) ELSE At(r, i)
  BY <1>0, <1>5
<1>7. CASE r = q /\ t \in D
  <2>1. p \in owned
    <3>1. CASE i = Len(queue[r]) + 1
      BY <1>3, <1>7, <3>1 DEF Owes, At
    <3>2. CASE i \in DOMAIN queue[r]
      <4>1. i # Len(queue[r]) + 1
        BY <1>4, <3>2
      <4>2. p \in {queue[q][i].parts[s].discard : s \in D}
        BY <1>3, <1>7, <4>1 DEF Owes, At
      <4> QED
        BY <1>7, <3>2, <4>2
    <3> QED
      BY <1>4, <3>1, <3>2
  <2>2. Signal(dropped \cup owned \cup {discard[s] : s \in D})
    BY DEF Destroy
  <2> HIDE DEF owned
  <2> QED
    BY <1>1, <2>1, <2>2 DEF Signal
<1>8. CASE ~(r = q /\ t \in D)
  <2>1. At(r, i)'.parts[t] = At(r, i).parts[t]
    <3>1. CASE r = q
      BY <1>4, <1>6, <1>8, <3>1 DEF Without, Transactions
    <3>2. CASE r # q
      BY <1>6, <3>2
    <3> QED
      BY <3>1, <3>2
  <2>2. p = Owes(r, i, t)'
    BY <1>3, <2>1 DEF Owes
  <2> QED
    BY <1>1, <1>5, <2>2, StillOwed
<1> QED
  BY <1>7, <1>8

\* The point the oldest transaction owes is what its surface then shows: its part
\* is whole, so the buffer attached again is not taken for the one shown.
LEMMA OwedIsImported ==
    ASSUME TypeOK, PartsAreWhole, NothingLeftToDiscard, NEW q \in Surfaces, ApplyNext(q),
           NEW s \in Surfaces, Owes(q, 1, s) # NoPoint
    PROVE  shown'[s].point = Owes(q, 1, s)
<1> DEFINE part == Head(queue[q]).parts[s]
           now == Current(s, Head(queue[q]))
<1>1. 1 \in Waiting(q) /\ At(q, 1) = Head(queue[q])
  <2>1. queue[q] # << >>
    BY DEF ApplyNext, Ready
  <2>2. Head(queue[q]) = queue[q][1] /\ Len(queue[q]) \in Nat /\ 1 \in 1 .. Len(queue[q])
    BY <2>1, HeadIsFirst, LenProperties DEF TypeOK
  <2> QED
    BY <2>2 DEF Waiting, At
<1>2. /\ part.discard = Owes(q, 1, s) /\ part.kind = "new" /\ part.sync = part.discard
      /\ Parent[s] = q /\ s \in alive /\ part \in Parts
  <2>1. PartIsWhole(q, 1, s) /\ part \in Parts /\ part.discard = Owes(q, 1, s)
    BY <1>1, WaitingTyped DEF PartsAreWhole, Owes
  <2> QED
    BY <1>1, <2>1 DEF PartIsWhole, Owes
<1>3. discard[s] = NoPoint
  BY DEF NothingLeftToDiscard
<1>4. now.kind = "new" /\ now.discard = Owes(q, 1, s) /\ now.sync = Owes(q, 1, s)
  BY <1>2, <1>3 DEF Current, Merged, NoPart, Parts
<1>5. shown'[s] = Imported(s, now)
  BY <1>2 DEF ApplyNext, Family
<1> HIDE DEF now, part
<1>6. IsExplicit(now) /\ SyncAtImport(now) = Owes(q, 1, s)
  BY <1>4 DEF IsExplicit, SyncAtImport
<1>7. Imported(s, now) = [wl |-> now.wl, point |-> SyncAtImport(now)]
  BY <1>4, <1>6 DEF Imported, Reattached
<1> QED
  BY <1>5, <1>6, <1>7

LEMMA ApplyLosesNothing ==
    ASSUME TypeOK, TypeOK', UseInv, NEW q \in Surfaces, ApplyNext(q)
    PROVE  AllOwed \subseteq AllOwed' \cup Shown'
<1> SUFFICES ASSUME NEW p \in AllOwed PROVE p \in AllOwed' \cup Shown'
  OBVIOUS
<1>1. p # NoPoint /\ \E r, t \in Surfaces : \E i \in Waiting(r) : p = Owes(r, i, t)
  BY OwedIsByParts DEF OwedByParts
<1>2. PICK r \in Surfaces, t \in Surfaces : \E i \in Waiting(r) : p = Owes(r, i, t)
  BY <1>1
<1>3. PICK i \in Waiting(r) : p = Owes(r, i, t)
  BY <1>2
<1>4. /\ i \in 1 .. (Len(queue[r]) + 1) /\ i \in Nat /\ Len(queue[r]) \in Nat
      /\ queue' = [queue EXCEPT ![q] = Tail(@)] /\ queue[q] # << >>
      /\ queue \in [Surfaces -> Seq(Transactions)]
  BY WaitingTyped DEF Waiting, ApplyNext, Ready, TypeOK
<1>5. CASE r # q
  <2>1. i \in Waiting(r)' /\ i + 1 \in Nat
    BY <1>4, <1>5 DEF Waiting
  <2>2. p = Owes(r, i, t)'
    BY <1>3, <1>5, <2>1, ApplyMoves DEF Owes
  <2> QED
    BY <1>1, <2>1, <2>2, StillOwed
<1>6. CASE r = q /\ i # 1
  <2>1. Len(queue'[r]) = Len(queue[r]) - 1
    BY <1>4, <1>6
  <2>2. i - 1 \in Waiting(r)' /\ (i - 1) + 1 = i
    BY <1>4, <1>6, <2>1 DEF Waiting
  <2>3. At(r, i - 1)' = At(r, (i - 1) + 1)
    BY <1>6, <2>2, ApplyMoves
  <2>4. p = Owes(r, i - 1, t)'
    BY <1>3, <2>2, <2>3 DEF Owes
  <2> QED
    BY <1>1, <2>2, <2>4, StillOwed
<1>7. CASE r = q /\ i = 1
  <2>1. shown'[t].point = p
    BY <1>1, <1>3, <1>7, OwedIsImported DEF UseInv
  <2> QED
    BY <1>1, <2>1 DEF Shown
<1> QED
  BY <1>5, <1>6, <1>7

-----------------------------------------------------------------------------
(* Steps hand points on.                                                   *)

\* A step of no commit, that lets go of Buffers and references no other.
LEMMA LettingGoHandsOn ==
    ASSUME UNCHANGED <<next, pending, queue, shown>>, Referenced' \subseteq Referenced,
           signalled \cup (Referenced \ Referenced') \subseteq signalled'
    PROVE  HandsOn
<1>1. AllOwed' = AllOwed /\ Shown' = Shown /\ Issued' = Issued
  BY DEF AllOwed, Owed, Shown, Issued
<1> QED
  BY <1>1 DEF HandsOn

LEMMA NextIsNew ==
    ASSUME TypeOK, next \in Points, next' = next + 1
    PROVE  Issued' = Issued \cup {next} /\ next \notin Issued /\ next # NoPoint
<1>1. next \in Nat /\ \A p \in Points : p \in Nat
  BY DEF Points
<1> QED
  BY <1>1 DEF Issued, Points, NoPoint

LEMMA CommitHandsOn ==
    ASSUME TypeOK, TypeOK', UseInv, NEW s \in Surfaces,
           \/ \E b \in WlBuffers : CommitExplicit(s, b) \/ CommitImplicit(s, b)
           \/ CommitRemoved(s) \/ CommitNothing(s)
    PROVE  HandsOn
<1>1. PICK part \in Parts, waits \in SUBSET Points :
        /\ Commit(s, part, waits) /\ FreshPart(part, waits) /\ s \in alive
        /\ IF part.discard = NoPoint THEN next' = next
           ELSE next' = next + 1 /\ next \in Points /\ waits = {next}
  BY CommitIsFresh
<1> DEFINE new == {part.discard} \ {NoPoint}
<1>2. Survive(Still, new)
  BY <1>1, CommitSurvive DEF UseInv
<1>3. CASE part.discard = NoPoint
  <2>1. new = {} /\ Issued' = Issued
    BY <1>1, <1>3 DEF Issued
  <2> QED
    <3>1. AllOwed' \subseteq AllOwed \cup (Issued' \ Issued)
      BY <1>2, <2>1, OwedBefore
    <3>2. Shown' = Shown /\ Referenced' = Referenced /\ signalled \subseteq signalled'
      BY <1>1 DEF Commit, Signal, Shown, Referenced, surfaceVars, frameVars
    <3>3. AllOwed \subseteq AllOwed' \cup signalled'
      BY <1>1, CommitLosesNothing
    <3> QED
      BY <2>1, <3>1, <3>2, <3>3 DEF HandsOn
<1>4. CASE part.discard # NoPoint
  <2> DEFINE R == Parent[s]
  <2>1. /\ part.discard = next /\ part.kind = "new" /\ next' = next + 1 /\ next \in Points
        /\ Issued' = Issued \cup {next} /\ next \notin Issued /\ new = {next} /\ next # NoPoint
    <3>1. part.discard = next /\ part.kind = "new" /\ next' = next + 1 /\ next \in Points
      BY <1>1, <1>4 DEF FreshPart
    <3> QED
      BY <1>4, <3>1, NextIsNew
  <2>2. next \in AllOwed'
    <3>1. R \in Surfaces /\ Len(queue[R]) \in Nat /\ pending[R] \in Transactions
      BY LenProperties DEF TypeOK
    <3>2. PICK n \in Nat : n = Len(queue[R]) + 1
      BY <3>1
    <3>3. n \in Waiting(R)'
      <4>1. n \in Waiting(R)
        BY <3>1, <3>2 DEF Waiting
      <4> QED
        BY <1>1, <3>1, <4>1, CommitLengthens
    <3>4. At(R, n)' = Joined(s, part, waits)
      <4>1. \A i \in Waiting(R)' :
              \/ i \in 1 .. Len(queue[R]) \/ i = Len(queue[R]) + 2
              \/ At(R, i)' = Joined(s, part, waits)
        <5> TAKE i \in Waiting(R)'
        <5> HIDE DEF new
        <5> QED
          BY <1>1, <3>1, CommitMoves
      <4>2. n \notin 1 .. Len(queue[R]) /\ n # Len(queue[R]) + 2
        BY <3>1, <3>2
      <4> QED
        BY <3>3, <4>1, <4>2
    <3>5. At(R, n)'.parts[s] = Merged(pending[R].parts[s], part)
      BY <3>1, <3>4 DEF Joined, Transactions
    <3>6. next = Owes(R, n, s)'
      BY <2>1, <3>5 DEF Owes, Merged
    <3> HIDE DEF R
    <3> QED
      BY <2>1, <3>1, <3>3, <3>6, StillOwed
  <2>3. AllOwed' \subseteq AllOwed \cup (Issued' \ Issued)
    <3>1. new \subseteq Issued' \ Issued
      BY <2>1
    <3> QED
      BY <1>2, <3>1, OwedBefore
  <2>4. Shown' = Shown /\ Referenced' = Referenced /\ signalled \subseteq signalled'
    BY <1>1 DEF Commit, Signal, Shown, Referenced, surfaceVars, frameVars
  <2>5. AllOwed \subseteq AllOwed' \cup signalled'
    BY <1>1, CommitLosesNothing
  <2> QED
    BY <2>1, <2>2, <2>3, <2>4, <2>5 DEF HandsOn
<1> QED
  BY <1>3, <1>4

LEMMA GoneHandsOn ==
    ASSUME TypeOK, TypeOK', UseInv, NEW D, NEW q, NEW kept, NEW dropped,
           Goes(D, q, kept, dropped)
    PROVE  HandsOn
<1>1. /\ q \in Surfaces /\ D \in SUBSET Surfaces /\ D \subseteq Family(q)
      /\ Destroy(D, q, kept, dropped)
  BY DEF Goes, Family
<1>2. AllOwed' \subseteq AllOwed \cup (Issued' \ Issued)
  <2>1. Survive(Still, {})
    BY <1>1, DestroySurvive DEF UseInv
  <2> QED
    BY <2>1, OwedBefore
<1>3. AllOwed \subseteq AllOwed' \cup signalled'
  BY <1>1, DestroyLosesNothing
<1>4. /\ \A s \in Surfaces : /\ shown'[s].point \in {NoPoint, shown[s].point}
                             /\ picture'[s] \in {shown[s].point, picture[s]}
      /\ holds' = holds /\ stranded' = stranded
  BY <1>1 DEF Destroy, Unmapped, frameVars
<1>5. Shown' \subseteq Shown /\ Referenced' \subseteq Referenced
  BY <1>4 DEF Shown, Referenced
<1>6. signalled \cup (dropped \ {NoPoint}) \cup (Referenced \ Referenced') \subseteq signalled'
  BY <1>1 DEF Destroy, Signal
<1>7. Issued' \ Issued \subseteq signalled'
  <2>1. CASE next' = next
    BY <2>1 DEF Issued
  <2>2. CASE dropped = {next} /\ next' = next + 1 /\ next \in Points
    BY <1>6, <2>2, NextIsNew
  <2> QED
    BY <2>1, <2>2 DEF Goes
<1> QED
  BY <1>2, <1>3, <1>5, <1>6, <1>7 DEF HandsOn

LEMMA ApplyHandsOn ==
    ASSUME TypeOK, TypeOK', UseInv, ShownIsActive, NEW q \in Surfaces, ApplyNext(q)
    PROVE  HandsOn
<1>1. AllOwed' \subseteq AllOwed \cup (Issued' \ Issued)
  <2>1. Survive(Forward(q), {})
    BY ApplySurvive
  <2> QED
    BY <2>1, OwedBefore
<1>2. ASSUME NEW s \in Surfaces
      PROVE  /\ shown'[s].point \in Shown \cup AllOwed \cup {NoPoint}
             /\ picture'[s] \in {NoPoint, picture[s]}
  <2>1. /\ 1 \in Waiting(q) /\ shown'[s].point \in {NoPoint, shown[s].point, Owes(q, 1, s)}
        /\ picture'[s] \in {NoPoint, picture[s]}
    BY ApplyShows DEF UseInv
  <2>2. Owes(q, 1, s) \in AllOwed \cup {NoPoint}
    BY <2>1, OwedIsByParts DEF OwedByParts
  <2> QED
    BY <2>1, <2>2 DEF Shown
<1>3. Shown' \subseteq Shown \cup AllOwed
  BY <1>2 DEF Shown
<1>4. Referenced' \subseteq Referenced \cup Shown'
  <2>1. holds' = holds /\ stranded' = stranded
    BY DEF ApplyNext, frameVars
  <2> QED
    BY <1>2, <2>1 DEF Referenced, Shown
<1>5. signalled \cup (Referenced \ Referenced') \subseteq signalled' /\ next' = next
  BY DEF ApplyNext, Signal
<1>6. AllOwed \subseteq AllOwed' \cup Shown' /\ Shown' \subseteq Referenced'
  BY ApplyLosesNothing DEF Shown, Referenced
<1>7. Issued' = Issued
  BY <1>5 DEF Issued
<1> QED
  BY <1>1, <1>3, <1>4, <1>5, <1>6, <1>7 DEF HandsOn

\* Every step hands on, and loses, no point.
LEMMA StepHandsOn ==
    ASSUME IInv, IInv', [Next]_vars PROVE HandsOn
<1>1. TypeOK /\ TypeOK' /\ UseInv /\ ShownIsActive
  BY DEF IInv
<1>2. ASSUME NEW s \in Surfaces, Client(s) PROVE HandsOn
  <2>1. CASE \/ \E b \in WlBuffers : CommitExplicit(s, b) \/ CommitImplicit(s, b)
             \/ CommitRemoved(s) \/ CommitNothing(s)
    BY <1>1, <2>1, CommitHandsOn
  <2>2. ASSUME NEW kept, ClientDestroys(s, kept) \/ CommitRefused(s, kept) PROVE HandsOn
    BY <1>1, <2>2, GoneIsDestroyed, GoneHandsOn
  <2>3. CASE WindowLeaves(s)
    <3>1. UNCHANGED <<next, pending, queue, shown, holds, stranded, signalled>>
      BY <2>3 DEF WindowLeaves, clientVars, surfaceVars, frameVars
    <3>2. picture' = [picture EXCEPT ![s] = shown[s].point] /\ picture[s] = NoPoint
      BY <2>3 DEF WindowLeaves
    <3>3. Referenced' = Referenced
      BY <1>1, <3>1, <3>2 DEF Referenced, TypeOK
    <3> QED
      BY <3>1, <3>3, LettingGoHandsOn
  <2> QED
    BY <1>2, <2>1, <2>2, <2>3 DEF Client
<1>3. ASSUME NEW r \in Surfaces, NEW kept, Cleanup(r, kept) PROVE HandsOn
  BY <1>1, <1>3, GoneIsDestroyed, GoneHandsOn
<1>4. ASSUME NEW q \in Surfaces, ApplyNext(q) PROVE HandsOn
  BY <1>1, <1>4, ApplyHandsOn
<1>5. ASSUME UNCHANGED <<next, pending, queue, surfaceVars, picture, holds, stranded, signalled>>
      PROVE  HandsOn
  BY <1>5, LettingGoHandsOn DEF Referenced, surfaceVars
<1>6. ASSUME \/ \E p \in Points : ClientReaches(p)
             \/ \E r \in Surfaces : ApplyDone(r)
             \/ \E s \in Surfaces, p \in Points : SourceFires(s, p)
             \/ \E f \in Frames : GpuDone(f)
             \/ OnAcquire \/ OnAcquireFails \/ OnCancel \/ UNCHANGED vars
      PROVE  HandsOn
  BY <1>5, <1>6 DEF ClientReaches, ApplyDone, SourceFires, GpuDone, OnAcquire,
                    OnAcquireFails, OnCancel, vars, clientVars, frameVars
<1>7. ASSUME NEW f \in Frames, NEW ended, Frame(f, ended) PROVE HandsOn
  <2>1. /\ UNCHANGED <<next, pending, queue, shown>> /\ Signal({})
        /\ picture' = [s \in Surfaces |-> IF s \in ended THEN NoPoint ELSE picture[s]]
        /\ stranded' \in {stranded, stranded \cup Snapshot}
        /\ holds' \in {holds, [holds EXCEPT ![f] = Snapshot]}
    BY <1>7 DEF Frame, FrameFenced, FrameFinished, FrameLost, FramePlain, Draw, Settle,
                clientVars, surfaceVars, frameVars
  <2>2. Snapshot \subseteq Referenced /\ NoPoint \notin Snapshot
    BY DEF Snapshot, Referenced
  <2>3. \A g \in Frames : holds'[g] \subseteq holds[g] \cup Snapshot
    BY <1>1, <2>1 DEF TypeOK
  <2>4. Referenced' \subseteq Referenced
    BY <2>1, <2>2, <2>3 DEF Referenced
  <2> QED
    BY <2>1, <2>4, LettingGoHandsOn DEF Signal
<1>8. ASSUME NEW s \in Surfaces, FadeEnds(s) PROVE HandsOn
  <2>1. /\ UNCHANGED <<next, pending, queue, shown, holds, stranded>> /\ Signal({})
        /\ picture' = [t \in Surfaces |-> IF t \in {s} THEN NoPoint ELSE picture[t]]
    BY <1>8 DEF FadeEnds, Settle, clientVars, surfaceVars, frameVars
  <2>2. Referenced' \subseteq Referenced
    BY <2>1 DEF Referenced
  <2> QED
    BY <2>1, <2>2, LettingGoHandsOn DEF Signal
<1>9. ASSUME OnRelease \/ OnReleaseWaits \/ \E f \in Frames : FenceReadable(f) PROVE HandsOn
  <2>1. PICK f \in Frames :
          /\ UNCHANGED <<next, pending, queue, shown, picture>> /\ Signal({})
          /\ stranded' \in {stranded, stranded \cup holds[f]}
          /\ holds' \in {holds, [holds EXCEPT ![f] = {}]}
    <3>1. CASE \E f \in Frames : FenceReadable(f)
      BY <3>1 DEF FenceReadable, LetGo, clientVars, surfaceVars
    <3>2. CASE OnRelease \/ OnReleaseWaits
      <4>1. Head(channel).frame \in Frames
        BY <1>1, <3>2, ReceiveTyped DEF OnRelease, OnReleaseWaits
      <4>2. CASE OnRelease
        BY <4>1, <4>2 DEF OnRelease, LetGo, clientVars, surfaceVars
      <4>3. CASE OnReleaseWaits
        BY <4>1, <4>3 DEF OnReleaseWaits, LetGo, clientVars, surfaceVars
      <4> QED
        BY <3>2, <4>2, <4>3
    <3> QED
      BY <1>9, <3>1, <3>2
  <2>2. \A g \in Frames : holds'[g] \subseteq holds[g]
    BY <1>1, <2>1 DEF TypeOK
  <2>3. Referenced' \subseteq Referenced
    BY <2>1, <2>2 DEF Referenced
  <2> QED
    BY <2>1, <2>3, LettingGoHandsOn DEF Signal
<1>10. CASE Dispatch
  BY <1>6, <1>9, <1>10 DEF Dispatch
<1>11. CASE Next /\ ~Dispatch
  BY <1>2, <1>3, <1>4, <1>6, <1>7, <1>8, <1>9, <1>11 DEF Next
<1> QED
  BY <1>6, <1>10, <1>11

-----------------------------------------------------------------------------
(* The promised steps.                                                     *)

LEMMA InitKeepsPromise == Init => Promise!Init /\ IssuedAreAccounted
<1> SUFFICES ASSUME Init PROVE Promise!Init /\ IssuedAreAccounted
  OBVIOUS
<1>1. TypeOK /\ IInv
  BY InitInvariant DEF IInv
<1>2. /\ next = 1 /\ queue = [r \in Surfaces |-> << >>]
      /\ pending = [r \in Surfaces |-> NoTransaction]
      /\ shown = [s \in Surfaces |-> Unmapped] /\ picture = [s \in Surfaces |-> NoPoint]
      /\ reads = [f \in Frames |-> {}] /\ holds = [f \in Frames |-> {}]
      /\ reached = {} /\ signalled = {} /\ stranded = {}
  BY DEF Init
<1>3. Referenced = {} /\ Shown = {} /\ Issued = {}
  BY <1>2 DEF Referenced, Shown, Unmapped, Issued, Points
<1>4. AllOwed = {}
  BY <1>2 DEF AllOwed, Owed, NoTransaction, NoPart
<1> QED
  BY <1>2, <1>3, <1>4 DEF Promise!Init, IssuedAreAccounted

LEMMA HandsOnAccounts ==
    ASSUME IssuedAreAccounted, HandsOn PROVE IssuedAreAccounted'
  BY DEF IssuedAreAccounted, HandsOn

\* A point has one place, and was given out; a frame reads what has one.
OnePlaceEach ==
    /\ AllOwed \cup Referenced \cup signalled \subseteq Issued
    /\ AllOwed \cap Referenced = {} /\ signalled \cap (AllOwed \cup Referenced) = {}
    /\ Shown \subseteq Referenced
    /\ \A f \in Frames : reads[f] \subseteq Referenced

LEMMA PointsHaveOnePlace == IInv => OnePlaceEach
<1> SUFFICES ASSUME IInv PROVE OnePlaceEach
  OBVIOUS
<1>1. TypeOK /\ OwedByParts
  BY OwedIsByParts DEF IInv
<1>2. ASSUME NEW p \in AllOwed PROVE p \in Issued /\ p \notin Referenced \cup signalled
  <2>1. PICK r \in Surfaces, s \in Surfaces : \E i \in Waiting(r) : p = Owes(r, i, s)
    BY <1>1 DEF OwedByParts
  <2>2. PICK i \in Waiting(r) : p = Owes(r, i, s)
    BY <2>1
  <2>3. p \in Points
    BY <1>1, <2>2, WaitingTyped DEF OwedByParts
  <2>4. p < next /\ p \notin Referenced \cup signalled
    BY <2>2 DEF IInv, UseInv, UsedAreIssued, OwedIsUnused
  <2> QED
    BY <2>3, <2>4 DEF Issued
<1>3. Referenced \cup signalled \subseteq Issued /\ Referenced \cap signalled = {}
  BY DEF IInv, UseInv, UsedAreIssued, ReferencedIsUnsignalled
<1>4. ASSUME NEW f \in Frames PROVE reads[f] \subseteq Referenced
  BY <1>1 DEF IInv, ReadsAreKept, Referenced, TypeOK, Points, NoPoint
<1> QED
  BY <1>1, <1>2, <1>3, <1>4, ReferencedAreShown DEF OnePlaceEach

LEMMA NextPointsHaveOnePlace == IInv' => OnePlaceEach'
  BY PointsHaveOnePlace, PTL

LEMMA HandsOnIsGoOn ==
    ASSUME IInv, IInv', HandsOn PROVE Promise!GoOn
<1>1. /\ AllOwed \cup Referenced \cup signalled \subseteq Issued
      /\ AllOwed \cap Referenced = {} /\ signalled \cap (AllOwed \cup Referenced) = {}
      /\ Shown \subseteq Referenced
  BY PointsHaveOnePlace DEF OnePlaceEach
<1>2. /\ AllOwed' \cup Referenced' \cup signalled' \subseteq Points
      /\ AllOwed' \cap Referenced' = {} /\ signalled' \cap (AllOwed' \cup Referenced') = {}
      /\ Shown' \subseteq Referenced'
      /\ \A f \in Frames : reads'[f] \subseteq Referenced'
  BY NextPointsHaveOnePlace DEF OnePlaceEach, Issued
<1>3. /\ AllOwed' \subseteq AllOwed \cup (Issued' \ Issued)
      /\ Shown' \subseteq Shown \cup AllOwed
      /\ Referenced' \subseteq Referenced \cup Shown'
      /\ signalled \subseteq signalled'
      /\ AllOwed \cup Referenced \subseteq AllOwed' \cup Referenced' \cup signalled'
  BY DEF HandsOn
<1> HIDE DEF Issued
<1>4. AllOwed' \cap ((AllOwed \cup Referenced \cup signalled) \ AllOwed) = {}
  BY <1>1, <1>3
<1>5. AllOwed \cup Referenced \cup signalled
        \subseteq AllOwed' \cup Referenced' \cup signalled'
  BY <1>3
<1>6. /\ Shown \cup (Referenced \ Shown) = Referenced
      /\ Shown' \cup (Referenced' \ Shown') = Referenced'
  BY <1>1, <1>2
<1>7. Promise!Committed = AllOwed \cup Referenced \cup signalled
      /\ Promise!Committed' = AllOwed' \cup Referenced' \cup signalled'
  BY <1>6 DEF Promise!Committed
<1>8. Shown' \subseteq Shown \cup AllOwed /\ Referenced' \ Shown' \subseteq (Referenced \ Shown) \cup Shown
  BY <1>3
<1>9. /\ AllOwed' \cap Shown' = {} /\ (AllOwed' \cup Shown') \cap (Referenced' \ Shown') = {}
      /\ signalled' \cap (AllOwed' \cup Shown' \cup (Referenced' \ Shown')) = {}
      /\ \A f \in Frames : reads'[f] \subseteq Shown' \cup (Referenced' \ Shown')
  BY <1>2, <1>6
<1> QED
  BY <1>2, <1>3, <1>4, <1>5, <1>7, <1>8, <1>9 DEF Promise!GoOn

\* What a step does to what the client's GPU has written and ours reads.
LEMMA ReadsMove ==
    ASSUME IInv, [Next]_vars
    PROVE  \/ UNCHANGED <<reached, reads>>
           \/ \E p \in Points : ClientReaches(p)
           \/ /\ reached' = reached
              /\ \E f \in Frames : \/ reads' = [reads EXCEPT ![f] = {}]
                                   \/ reads[f] = {} /\ reads' = [reads EXCEPT ![f] = Visible]
<1>1. TypeOK
  BY DEF IInv
<1> DEFINE Same == UNCHANGED <<reached, reads>>
           Moved == /\ reached' = reached
                    /\ \E f \in Frames :
                         \/ reads' = [reads EXCEPT ![f] = {}]
                         \/ reads[f] = {} /\ reads' = [reads EXCEPT ![f] = Visible]
<1>2. ASSUME NEW s \in Surfaces, Client(s) PROVE Same
  <2>1. ASSUME NEW part, NEW waits, Commit(s, part, waits) PROVE Same
    BY <2>1 DEF Commit, frameVars
  <2>2. ASSUME NEW D, NEW r, NEW kept, NEW dropped, Destroy(D, r, kept, dropped) PROVE Same
    BY <2>2 DEF Destroy, frameVars
  <2>3. CASE WindowLeaves(s)
    BY <2>3 DEF WindowLeaves, frameVars
  <2> QED
    BY <1>2, <2>1, <2>2, <2>3 DEF Client, CommitExplicit, CommitImplicit, CommitRemoved,
                                  CommitNothing, ClientDestroys, CommitRefused
<1>3. ASSUME \/ UNCHANGED vars
             \/ \E r \in Surfaces, kept \in SUBSET Surfaces : Cleanup(r, kept)
             \/ \E r \in Surfaces : ApplyNext(r) \/ ApplyDone(r)
             \/ \E s \in Surfaces, p \in Points : SourceFires(s, p)
             \/ \E s \in Surfaces : FadeEnds(s)
             \/ \E f \in Frames : FenceReadable(f)
             \/ OnAcquire \/ OnAcquireFails \/ OnCancel \/ OnRelease
      PROVE  Same
  BY <1>3 DEF vars, frameVars, Cleanup, Destroy, ApplyNext, ApplyDone, SourceFires, FadeEnds,
     FenceReadable, OnAcquire, OnAcquireFails, OnCancel, OnRelease
<1>4. ASSUME NEW f \in Frames, NEW ended, Frame(f, ended) PROVE Same \/ Moved
  BY <1>4 DEF Frame, FrameFenced, FrameFinished, FrameLost, FramePlain, Draw, FenceReached,
     frameVars
<1>5. ASSUME NEW f \in Frames, GpuDone(f) PROVE Moved
  BY <1>5 DEF GpuDone
<1>6. ASSUME OnReleaseWaits PROVE Same \/ Moved
  <2>1. Head(channel).frame \in Frames
    BY <1>1, <1>6, ReceiveTyped DEF OnReleaseWaits
  <2> QED
    BY <1>6, <2>1 DEF OnReleaseWaits
<1> HIDE DEF Same, Moved
<1>7. CASE Dispatch
  <2>1. Same \/ Moved
    BY <1>3, <1>6, <1>7 DEF Dispatch
  <2> QED
    BY <2>1 DEF Same, Moved
<1>8. CASE Next /\ ~Dispatch
  <2>1. Same \/ Moved \/ \E p \in Points : ClientReaches(p)
    BY <1>2, <1>3, <1>4, <1>5, <1>8 DEF Next
  <2> QED
    BY <2>1 DEF Same, Moved
<1>9. CASE UNCHANGED vars
  BY <1>3, <1>9 DEF Same
<1> QED
  BY <1>7, <1>8, <1>9

LEMMA StepKeepsPromise ==
    ASSUME IInv, IInv', IssuedAreAccounted, [Next]_vars PROVE [Promise!Next]_(Promise!vars)
<1>1. Promise!GoOn
  BY StepHandsOn, HandsOnIsGoOn
<1>2. CASE UNCHANGED <<reached, reads>>
  BY <1>1, <1>2 DEF Promise!Next, Promise!HandOn
<1>3. ASSUME NEW p \in Points, ClientReaches(p) PROVE [Promise!Next]_(Promise!vars)
  <2>1. p \in Issued /\ reached' = reached \cup {p}
    BY <1>3 DEF ClientReaches, Issued
  <2>2. p \in AllOwed \cup Referenced \cup signalled
    BY <2>1 DEF IssuedAreAccounted
  <2>3. UNCHANGED <<pending, queue, shown, picture, holds, stranded, signalled, reads>>
    BY <1>3 DEF ClientReaches, clientVars, surfaceVars, frameVars
  <2>4. AllOwed' = AllOwed /\ Shown' = Shown /\ Referenced' = Referenced
    BY <2>3 DEF AllOwed, Owed, Shown, Referenced
  <2>5. Promise!Reach(p)
    BY <2>1, <2>2, <2>3, <2>4 DEF Promise!Reach, Promise!Committed
  <2> QED
    BY <2>5 DEF Promise!Next
<1>4. ASSUME NEW f \in Frames, reached' = reached, reads' = [reads EXCEPT ![f] = {}]
      PROVE  [Promise!Next]_(Promise!vars)
  <2>1. Promise!Finish(f)
    BY <1>1, <1>4 DEF Promise!Finish
  <2> QED
    BY <2>1 DEF Promise!Next
<1>5. ASSUME NEW f \in Frames, reached' = reached, reads[f] = {},
             reads' = [reads EXCEPT ![f] = Visible]
      PROVE  [Promise!Next]_(Promise!vars)
  <2>1. Visible \subseteq Referenced /\ Visible \subseteq reached /\ Referenced \subseteq Points
    BY ReferencedArePoints DEF IInv, ReadyInv, VisibleIsReached
  <2>2. Visible \in SUBSET Points
        /\ Visible \subseteq (Shown \cup (Referenced \ Shown)) \cap reached
    BY <2>1
  <2>3. Promise!Draw(f, Visible)
    BY <1>1, <1>5, <2>2 DEF Promise!Draw
  <2> QED
    BY <2>2, <2>3 DEF Promise!Next
<1> QED
  BY <1>2, <1>3, <1>4, <1>5, ReadsMove

\* A point given out is never lost: a commit owes it, a Buffer has it, or its
\* client was given it back (DiscardRelease, Held, before_import, dropped parts).
THEOREM NoPointIsLost == Spec => []IssuedAreAccounted
<1>1. Init => IssuedAreAccounted
  BY InitKeepsPromise
<1>2. IssuedAreAccounted /\ IInv /\ IInv' /\ [Next]_vars => IssuedAreAccounted'
  BY StepHandsOn, HandsOnAccounts
<1> QED
  BY <1>1, <1>2, ExplicitSyncInvariant, PTL DEF Spec

\* Whatever the queues, the surfaces, the fences and the failures, a client's
\* buffer goes the promised way: read only when ready, given back once, when
\* nothing reads it, and kept track of until then (explicit_sync.rs as a whole).
THEOREM BuffersGoAsPromised == Spec => KeepsItsPromise
<1>1. Init => Promise!Init
  BY InitKeepsPromise
<1>2. IInv /\ IInv' /\ IssuedAreAccounted /\ [Next]_vars => [Promise!Next]_(Promise!vars)
  BY StepKeepsPromise
<1> QED
  BY <1>1, <1>2, ExplicitSyncInvariant, NoPointIsLost, PTL
     DEF Spec, KeepsItsPromise, Promise!Spec

=============================================================================
