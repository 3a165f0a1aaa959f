------------------------- MODULE LogindSleep_proofs -------------------------
(***************************************************************************)
(* Proofs about LogindSleep: with logind's signals and the sleep inhibitor *)
(* around it the session lock is still the session lock, so all that       *)
(* SessionLock_proofs proves of it holds here too; and the inhibitor is    *)
(* not let go of while the desktop is up and a lock is on its way.         *)
(***************************************************************************)
EXTENDS LogindSleep, SessionLock_proofs

USE LogindAssumption

\* Every step of the composition is one of the lock's own, or none of them.
LEMMA SleepStepIsALockStep == [SleepNext]_sleepVars => [Next]_vars
<1> SUFFICES ASSUME [SleepNext]_sleepVars PROVE [Next]_vars
  OBVIOUS
<1>1. ASSUME LockNatively \/ LockAtOnce \/ UnlockNatively PROVE Next
  BY <1>1 DEF Next, LockStep
<1>2. CASE SessionStep
  <2>1. ASSUME NEW c \in Clients, ClientLock(c) \/ ClientUnlock(c) \/ ClientGoes(c) PROVE Next
    BY <2>1 DEF Next, LockStep
  <2>2. ASSUME EntryReached \/ SettleEntry \/ MonitorStep \/ BackendStep PROVE Next
    BY <2>2 DEF Next, LockStep
  <2> QED
    BY <1>1, <1>2, <2>1, <2>2 DEF SessionStep, LockMoves
<1>3. CASE SettleLogind
  <2>1. CASE OnLock \/ OnSleepImminent
    BY <1>1, <2>1 DEF OnLock, OnSleepImminent, BeforeSleep, LockNowWith
  <2>2. CASE OnUnlock
    BY <1>1, <2>2 DEF OnUnlock
  <2>3. CASE SettleBegin \/ OnResumed \/ OnInhibitor \/ SettleEnd
    BY <2>3 DEF SettleBegin, OnResumed, OnInhibitor, SettleEnd
  <2> QED
    BY <1>3, <2>1, <2>2, <2>3 DEF SettleLogind
<1>4. ASSUME NEW new \in Configs, Configure(new) PROVE UNCHANGED vars
  BY <1>4 DEF Configure
<1>5. CASE LogindStep
  BY <1>5 DEF LogindStep, Deadline, Post, LockerDies, Signal, PrepareForSleep, Suspend, Wake
<1>6. CASE UNCHANGED sleepVars
  BY <1>6 DEF sleepVars
<1> QED
  BY <1>2, <1>3, <1>4, <1>5, <1>6 DEF SleepNext

\* The composition implements the session lock.
THEOREM SleepImplementsTheLock == SleepSpec => Spec
<1>1. SleepInit => Init
  BY DEF SleepInit
<1> QED
  BY <1>1, SleepStepIsALockStep, PTL DEF SleepSpec, Spec

\* So no monitor shows the desktop once `locked` is sent, whatever logind says
\* and however the machine sleeps and wakes.
THEOREM ConfirmedHidesTheDesktopAroundSleep == SleepSpec => []NoDesktopOnceLocked
  BY SleepImplementsTheLock, ConfirmedHidesTheDesktop, PTL

\* And the lock is still the promised one.
THEOREM PromiseKeptAroundSleep == SleepSpec => KeepsItsPromise
  BY SleepImplementsTheLock, LockKeepsItsPromise, PTL

-----------------------------------------------------------------------------

\* A refusal on its way, or read and not acted on, is one that was counted.
RefusalsAreCounted ==
    /\ events \in Seq(Events) /\ drained \in Seq(Events)
    /\ refusals \in Nat
    /\ refusals = 0 =>
         /\ \A i \in 1 .. Len(events) : events[i] # "NoInhibitor"
         /\ \A i \in 1 .. Len(drained) : drained[i] # "NoInhibitor"

LEMMA InitCountsRefusals == SleepInit => RefusalsAreCounted
  BY DEF SleepInit, RefusalsAreCounted

\* No step puts a refusal in the queue without counting it.
LEMMA StepCountsRefusals == RefusalsAreCounted /\ [SleepNext]_sleepVars => RefusalsAreCounted'
<1> SUFFICES ASSUME RefusalsAreCounted, [SleepNext]_sleepVars PROVE RefusalsAreCounted'
  OBVIOUS
<1>1. ASSUME UNCHANGED <<events, drained, refusals>> PROVE RefusalsAreCounted'
  BY <1>1 DEF RefusalsAreCounted
<1>2. ASSUME NEW e \in Events \ {"NoInhibitor"}, events' = Append(events, e),
             UNCHANGED <<drained, refusals>>
      PROVE  RefusalsAreCounted'
  BY <1>2 DEF RefusalsAreCounted
<1>3. ASSUME NEW e, Take(e), UNCHANGED refusals PROVE RefusalsAreCounted'
  BY <1>3 DEF Take, RefusalsAreCounted
<1>4. CASE SessionStep
  BY <1>1, <1>4 DEF SessionStep, LockMoves, queueVars, countVars
<1>5. CASE SettleLogind
  <2>1. CASE SettleBegin
    BY <2>1 DEF SettleBegin, countVars, RefusalsAreCounted
  <2>2. CASE OnLock \/ OnUnlock \/ OnSleepImminent \/ OnResumed \/ OnInhibitor
    BY <1>3, <2>2 DEF OnLock, OnUnlock, OnSleepImminent, BeforeSleep, OnResumed, OnInhibitor,
                      Take, countVars
  <2>3. CASE SettleEnd
    BY <1>1, <2>3 DEF SettleEnd, countVars
  <2> QED
    BY <1>5, <2>1, <2>2, <2>3 DEF SettleLogind
<1>6. ASSUME NEW new \in Configs, Configure(new) PROVE RefusalsAreCounted'
  BY <1>1, <1>6 DEF Configure, queueVars
<1>7. CASE Post
  <2>1. CASE events' = Append(events, "Inhibitor") /\ UNCHANGED refusals
    BY <1>2, <1>7, <2>1 DEF Post, Events
  <2>2. CASE events' = Append(events, "NoInhibitor") /\ refusals' = refusals + 1
    BY <1>7, <2>2 DEF Post, Events, RefusalsAreCounted
  <2> QED
    BY <1>7, <2>1, <2>2 DEF Post
<1>8. CASE Signal("Lock") \/ Signal("Unlock")
  BY <1>2, <1>8 DEF Signal, Events
<1>9. CASE PrepareForSleep \/ Wake
  BY <1>2, <1>9 DEF PrepareForSleep, Wake, countVars, Events
<1>10. CASE Deadline \/ Suspend \/ LockerDies
  BY <1>1, <1>10 DEF Deadline, Suspend, LockerDies, queueVars, countVars
<1>11. CASE UNCHANGED sleepVars
  BY <1>1, <1>11 DEF sleepVars, logindVars, queueVars, countVars
<1> QED
  BY <1>4, <1>5, <1>6, <1>7, <1>8, <1>9, <1>10, <1>11 DEF SleepNext, LogindStep

\* What must be so of a step that lets go of the inhibitor before sleep.
LetGoStep ==
    /\ machine = "preparing" /\ settings.before_sleep
    /\ inhibitor /\ ~inhibitor' /\ settings' = settings
    => \/ holder' # "none" /\ ~owed'
       \/ release_by = "past"
       \/ holder' = "none" /\ ~settings.native /\ ~locker'
       \/ Gone(holder', object')
       \/ Take("NoInhibitor")

SleepInv == IInv /\ RefusalsAreCounted /\ settings \in Settings

\* The facts the step relies on are invariant.
LEMMA StepKeepsSleepInv == SleepInv /\ [SleepNext]_sleepVars => SleepInv'
<1> SUFFICES ASSUME SleepInv, [SleepNext]_sleepVars PROVE SleepInv'
  OBVIOUS
<1>1. IInv' /\ RefusalsAreCounted'
  BY SleepStepIsALockStep, NextKeepsIInv, StepCountsRefusals DEF SleepInv
<1>2. settings' = settings \/ settings' \in Configs
  BY DEF SleepNext, SessionStep, LockMoves, SettleLogind, SettleBegin, OnLock, OnUnlock,
         OnSleepImminent, BeforeSleep, OnResumed, OnInhibitor, SettleEnd, Take, Configure,
         LogindStep, Deadline, Post, LockerDies, Signal, PrepareForSleep, Suspend, Wake,
         sleepVars, logindVars
<1> QED
  BY <1>1, <1>2 DEF SleepInv

LEMMA SleepInvHolds == SleepSpec => []SleepInv
<1>1. SleepInit => SleepInv
  BY InitIInv, InitCountsRefusals DEF SleepInit, SleepInv
<1> QED
  BY <1>1, StepKeepsSleepInv, PTL DEF SleepSpec

\* What logind hears of the lock lets go only of a confirmed lock's.
LEMMA ConfirmedLetsGo ==
  ASSUME inhibitor' = Holds
  PROVE  LetGoStep
BY DEF LetGoStep, Holds, Confirmed

\* Before sleep, Solium's own lock is one it has by the end of the step, and a
\* lock owed to a holder still there is waited for, as a locker just started is.
LEMMA OnSleepImminentLetsGo == SleepInv /\ OnSleepImminent => LetGoStep
<1> SUFFICES ASSUME SleepInv, OnSleepImminent, settings.before_sleep, inhibitor, ~inhibitor'
             PROVE  \/ holder' # "none" /\ ~owed'
                    \/ holder' = "none" /\ ~settings.native /\ ~locker'
                    \/ Gone(holder', object')
  BY DEF LetGoStep
<1>1. inhibitor' = (Holds /\ (Started \/ Pending))
  BY DEF OnSleepImminent, BeforeSleep
<1>2. Confirmed \/ (~Started /\ ~Pending)
  BY <1>1 DEF Holds
<1>3. CASE holder' = "none" /\ settings.native
  <2> DEFINE refused == ~Takeable /\ ~(holder = "native" /\ entry # "none")
  <2>1. IF ~refused THEN LockAtOnce ELSE UNCHANGED vars
    BY <1>3 DEF OnSleepImminent, BeforeSleep, LockNowWith
  <2>2. CASE refused
    <3>1. holder' = holder
      BY <2>1, <2>2 DEF vars, lockVars
    <3> QED
      BY <1>3, <2>2, <3>1 DEF Takeable
  <2>3. CASE ~refused
    BY <1>3, <2>1, <2>3 DEF LockAtOnce, TakeLock, EndLockEntry
  <2> QED
    BY <2>2, <2>3
<1>4. CASE holder' = "none" /\ ~settings.native
  <2>1. holder = "none"
    BY <1>4 DEF OnSleepImminent, BeforeSleep, LockNowWith, vars, lockVars
  <2>2. ~Started
    BY <1>2, <1>4 DEF Confirmed
  <2> QED
    BY <1>4, <2>1, <2>2 DEF Started
<1>5. CASE holder' # "none"
  BY <1>2, <1>5 DEF Confirmed, Pending
<1> QED
  BY <1>3, <1>4, <1>5

\* The inhibitor waits for the lock to be up, its deadline, or nothing at all.
THEOREM SleepIsHeldForTheLock == SleepSpec => SleepWaitsForTheLock
<1>1. SleepInv /\ [SleepNext]_sleepVars => [LetGoStep]_sleepVars
  <2> SUFFICES ASSUME SleepInv, SleepNext PROVE LetGoStep
    OBVIOUS
  <2>0. ASSUME UNCHANGED inhibitor PROVE LetGoStep
    BY <2>0 DEF LetGoStep
  <2>1. CASE SessionStep
    BY <2>1, ConfirmedLetsGo DEF SessionStep, LockMoves
  <2>2. ASSUME NEW new \in Configs, Configure(new) PROVE LetGoStep
    BY <2>2 DEF Configure, LetGoStep
  <2>3. CASE SettleLogind
    <3>1. CASE OnLock
      BY <3>1, ConfirmedLetsGo DEF OnLock
    <3>2. CASE OnSleepImminent
      BY <3>2, OnSleepImminentLetsGo
    <3>3. CASE OnInhibitor
      BY <3>3 DEF OnInhibitor, LetGoStep
    <3>4. CASE SettleEnd
      BY <3>4 DEF SettleEnd, LetGoStep
    <3>5. CASE SettleBegin \/ OnUnlock \/ OnResumed
      BY <2>0, <3>5 DEF SettleBegin, OnUnlock, OnResumed
    <3> QED
      BY <2>3, <3>1, <3>2, <3>3, <3>4, <3>5 DEF SettleLogind
  <2>4. CASE LogindStep
    BY <2>0, <2>4 DEF LogindStep, Deadline, Post, LockerDies, Signal, PrepareForSleep,
                      Suspend, Wake
  <2> QED
    BY <2>1, <2>2, <2>3, <2>4 DEF SleepNext
<1>2. [LetGoStep]_sleepVars =>
        [/\ machine = "preparing" /\ settings.before_sleep
         /\ inhibitor /\ ~inhibitor' /\ settings' = settings
         => \/ holder' # "none" /\ ~owed'
            \/ release_by = "past"
            \/ holder' = "none" /\ ~settings.native /\ ~locker'
            \/ Gone(holder', object')
            \/ Take("NoInhibitor")]_sleepVars
  BY DEF LetGoStep
<1> QED
  BY <1>1, <1>2, SleepInvHolds, PTL DEF SleepSpec, SleepWaitsForTheLock

-----------------------------------------------------------------------------
(* An unlocked session holds an inhibitor, or will once what is on its way *)
(* has come. One is let go of with no lock only for a sleep, and what was  *)
(* let go of is asked for again at the Resume that follows it: so what has *)
(* to be known is that, the machine awake, no Sleep is left unread without *)
(* a Resume behind it.                                                     *)

Has(q, e) == \E i \in 1 .. Len(q) : q[i] = e

\* Every Sleep in the queue has a Resume behind it, there or later.
Followed(q, later) ==
    \A i \in 1 .. Len(q) : q[i] = "Sleep" =>
        later \/ \E j \in 1 .. Len(q) : j > i /\ q[j] = "Resume"

SleepsEnd ==
    machine = "awake" =>
        /\ Followed(events, FALSE)
        /\ Followed(drained, Has(events, "Resume"))
        /\ release_by # "none" => Has(events, "Resume") \/ Has(drained, "Resume")

Coming == asked > 0 \/ \E e \in {"Inhibitor", "Resume"} : Has(events, e) \/ Has(drained, e)

HeldOrComing ==
    settings.before_sleep /\ holder = "none" /\ machine = "awake" /\ refusals = 0 =>
        inhibitor \/ Coming

\* What is posted is in the queue, behind what was there.
LEMMA PostedIsHad ==
  ASSUME NEW q \in Seq(Events), NEW e \in Events, NEW later \in BOOLEAN
  PROVE  /\ Append(q, e) \in Seq(Events)
         /\ \A f : Has(Append(q, e), f) <=> Has(q, f) \/ e = f
         /\ Followed(q, later) /\ e # "Sleep" => Followed(Append(q, e), later)
         /\ Followed(Append(q, "Resume"), FALSE)
<1>1. /\ Len(Append(q, e)) = Len(q) + 1 /\ Len(q) \in Nat
      /\ Append(q, e)[Len(q) + 1] = e
      /\ \A i \in 1 .. Len(q) : Append(q, e)[i] = q[i] /\ i \in 1 .. Len(q) + 1
      /\ \A i \in 1 .. Len(q) + 1 : i \in 1 .. Len(q) \/ i = Len(q) + 1
  OBVIOUS
<1>2. \A f : Has(Append(q, e), f) <=> Has(q, f) \/ e = f
  BY <1>1 DEF Has
<1>3. Followed(q, later) /\ e # "Sleep" => Followed(Append(q, e), later)
  BY <1>1 DEF Followed
<1>4. Followed(Append(q, "Resume"), FALSE)
  BY DEF Followed
<1>5. Append(q, e) \in Seq(Events)
  OBVIOUS
<1> QED
  BY <1>2, <1>3, <1>4, <1>5

\* What is taken is the first of the queue, and the rest is left.
LEMMA TakenIsHad ==
  ASSUME NEW q \in Seq(Events), q # <<>>, NEW later \in BOOLEAN
  PROVE  /\ \A f : Has(q, f) <=> Head(q) = f \/ Has(Tail(q), f)
         /\ Followed(q, later) => Followed(Tail(q), later)
         /\ Followed(q, later) /\ Head(q) = "Sleep" => later \/ Has(Tail(q), "Resume")
<1>1. /\ Len(q) \in Nat \ {0} /\ Len(Tail(q)) = Len(q) - 1 /\ Head(q) = q[1]
      /\ \A i \in 1 .. Len(Tail(q)) : Tail(q)[i] = q[i + 1] /\ i + 1 \in 1 .. Len(q)
      /\ \A i \in 1 .. Len(q) : i > 1 => i - 1 \in 1 .. Len(Tail(q)) /\ q[i] = Tail(q)[i - 1]
  OBVIOUS
<1>2. \A f : Has(q, f) <=> Head(q) = f \/ Has(Tail(q), f)
  BY <1>1 DEF Has
<1>3. Followed(q, later) => Followed(Tail(q), later)
  <2> SUFFICES ASSUME Followed(q, later), ~later, NEW i \in 1 .. Len(Tail(q)),
                      Tail(q)[i] = "Sleep"
               PROVE  \E j \in 1 .. Len(Tail(q)) : j > i /\ Tail(q)[j] = "Resume"
    BY DEF Followed
  <2>1. PICK j \in 1 .. Len(q) : j > i + 1 /\ q[j] = "Resume"
    BY <1>1 DEF Followed
  <2>2. j - 1 \in 1 .. Len(Tail(q)) /\ j - 1 > i /\ Tail(q)[j - 1] = "Resume"
    BY <1>1, <2>1
  <2> QED
    BY <2>2
<1>4. Followed(q, later) /\ Head(q) = "Sleep" => later \/ Has(Tail(q), "Resume")
  <2> SUFFICES ASSUME Followed(q, later), Head(q) = "Sleep", ~later
               PROVE  Has(Tail(q), "Resume")
    OBVIOUS
  <2>1. PICK j \in 1 .. Len(q) : j > 1 /\ q[j] = "Resume"
    BY <1>1 DEF Followed
  <2> QED
    BY <1>1, <2>1 DEF Has
<1> QED
  BY <1>2, <1>3, <1>4

\* Nothing is had of an empty queue, and what follows later still follows.
LEMMA EmptyOrLater ==
  /\ \A f : ~Has(<<>>, f)
  /\ \A later : Followed(<<>>, later)
  /\ \A q : Followed(q, FALSE) => Followed(q, TRUE)
  /\ \A q : Followed(q, TRUE)
BY DEF Has, Followed

QueueInv == SleepInv /\ SleepTypeOK /\ SleepsEnd /\ HeldOrComing

LEMMA InitQueueInv == SleepInit => QueueInv
<1> SUFFICES ASSUME SleepInit PROVE QueueInv
  OBVIOUS
<1>1. SleepInv
  BY InitIInv, InitCountsRefusals DEF SleepInit, SleepInv
<1>2. SleepTypeOK
  <2>1. TypeOK /\ events \in Seq(Events) /\ drained \in Seq(Events) /\ settings \in Settings
    BY <1>1 DEF SleepInv, IInv, RefusalsAreCounted
  <2> QED
    BY <2>1 DEF SleepInit, SleepTypeOK
<1>3. SleepsEnd
  BY EmptyOrLater DEF SleepInit, SleepsEnd
<1>4. HeldOrComing
  BY DEF SleepInit, HeldOrComing, Coming
<1> QED
  BY <1>1, <1>2, <1>3, <1>4 DEF QueueInv

\* Every step is well typed.
LEMMA StepKeepsType == QueueInv /\ [SleepNext]_sleepVars => SleepTypeOK'
<1> SUFFICES ASSUME QueueInv, [SleepNext]_sleepVars PROVE SleepTypeOK'
  OBVIOUS
<1> DEFINE Rest == /\ settling' \in BOOLEAN /\ (drained' # <<>> => settling')
                   /\ asked' \in Nat /\ inhibitor' \in BOOLEAN
                   /\ release_by' \in {"none", "armed", "past"}
                   /\ locker' \in BOOLEAN
                   /\ machine' \in {"awake", "preparing", "asleep"}
<1>1. TypeOK' /\ settings' \in Settings /\ events' \in Seq(Events) /\ drained' \in Seq(Events)
  BY StepKeepsSleepInv DEF QueueInv, SleepInv, IInv, RefusalsAreCounted
<1> SUFFICES Rest
  BY <1>1 DEF SleepTypeOK
<1>2. /\ settling \in BOOLEAN /\ (drained # <<>> => settling) /\ asked \in Nat
      /\ inhibitor \in BOOLEAN /\ release_by \in {"none", "armed", "past"}
      /\ locker \in BOOLEAN /\ settings.command \in BOOLEAN
      /\ machine \in {"awake", "preparing", "asleep"}
  BY DEF QueueInv, SleepTypeOK, Settings
<1>3. Holds \in BOOLEAN /\ Bound \in {"none", "armed", "past"} /\ Asks \in {0, 1}
  BY <1>2 DEF Holds, Bound, Asks
<1>4. CASE SessionStep
  <2>1. locker' \in BOOLEAN
    <3>1. locker' = locker \/ locker' = FALSE
      BY <1>4 DEF SessionStep
    <3> QED
      BY <1>2, <3>1
  <2>2. /\ UNCHANGED <<queueVars, machine>>
        /\ inhibitor' = Holds /\ release_by' = Bound /\ asked' = asked + Asks
    BY <1>4 DEF SessionStep, LockMoves
  <2> QED
    BY <1>2, <1>3, <2>1, <2>2 DEF queueVars
<1>5. CASE SettleLogind
  <2>1. CASE SettleBegin
    BY <1>2, <2>1 DEF SettleBegin
  <2>2. CASE OnLock
    BY <1>2, <1>3, <2>2 DEF OnLock, LockNowWith, RunLocker, Take
  <2>3. CASE OnUnlock
    BY <1>2, <1>3, <2>3 DEF OnUnlock, Take
  <2>4. CASE OnSleepImminent
    <3>1. locker' \in BOOLEAN
      BY <1>2, <2>4 DEF OnSleepImminent, BeforeSleep, LockNowWith, RunLocker
    <3> QED
      BY <1>2, <1>3, <2>4, <3>1 DEF OnSleepImminent, BeforeSleep, Take
  <2>5. CASE OnResumed
    BY <1>2, <2>5 DEF OnResumed, Take
  <2>6. CASE OnInhibitor
    BY <1>2, <2>6 DEF OnInhibitor, Take
  <2>7. CASE SettleEnd
    BY <1>2, <2>7 DEF SettleEnd
  <2> QED
    BY <1>5, <2>1, <2>2, <2>3, <2>4, <2>5, <2>6, <2>7 DEF SettleLogind
<1>6. ASSUME NEW new \in Configs, Configure(new) PROVE Rest
  BY <1>2, <1>6 DEF Configure, queueVars
<1>7. CASE LogindStep
  <2>1. CASE Deadline \/ LockerDies \/ Suspend
    BY <1>2, <2>1 DEF Deadline, LockerDies, Suspend, queueVars
  <2>2. CASE Post
    BY <1>2, <2>2 DEF Post
  <2>3. CASE Signal("Lock") \/ Signal("Unlock") \/ PrepareForSleep \/ Wake
    BY <1>2, <2>3 DEF Signal, PrepareForSleep, Wake
  <2> QED
    BY <1>7, <2>1, <2>2, <2>3 DEF LogindStep
<1>8. CASE UNCHANGED sleepVars
  BY <1>2, <1>8 DEF sleepVars, logindVars, queueVars
<1> HIDE DEF Rest
<1> QED
  BY <1>4, <1>5, <1>6, <1>7, <1>8 DEF SleepNext

\* A Sleep is not left behind by its Resume, nor a deadline by the wake.
LEMMA StepKeepsSleepsEnd == QueueInv /\ [SleepNext]_sleepVars => SleepsEnd'
<1> SUFFICES ASSUME QueueInv, [SleepNext]_sleepVars PROVE SleepsEnd'
  OBVIOUS
<1>1. /\ events \in Seq(Events) /\ drained \in Seq(Events)
      /\ SleepsEnd /\ (drained # <<>> => settling)
  BY DEF QueueInv, SleepTypeOK
<1>2. ASSUME UNCHANGED <<events, drained, machine>>, release_by' # "none" => release_by # "none"
      PROVE  SleepsEnd'
  BY <1>1, <1>2 DEF SleepsEnd
<1>3. ASSUME NEW e \in Events \ {"Sleep"}, events' = Append(events, e),
             UNCHANGED <<drained, machine, release_by>>
      PROVE  SleepsEnd'
  <2>1. /\ Followed(events, FALSE) => Followed(events', FALSE)
        /\ Has(events, "Resume") => Has(events', "Resume")
    BY <1>1, <1>3, PostedIsHad
  <2>2. Followed(drained, Has(events, "Resume")) => Followed(drained, Has(events', "Resume"))
    BY <2>1 DEF Followed
  <2> QED
    BY <1>1, <1>3, <2>1, <2>2 DEF SleepsEnd
<1>4. ASSUME machine' # "awake" PROVE SleepsEnd'
  BY <1>4 DEF SleepsEnd
<1>5. CASE Wake
  <2>1. "Resume" \in Events /\ events' = Append(events, "Resume") /\ UNCHANGED drained
    BY <1>5 DEF Wake, Events
  <2>2. Followed(events', FALSE) /\ Has(events', "Resume")
    BY <1>1, <2>1, PostedIsHad
  <2>3. Followed(drained', Has(events', "Resume"))
    BY <2>2 DEF Followed
  <2> QED
    BY <2>2, <2>3 DEF SleepsEnd
<1>6. CASE SettleBegin
  <2>1. drained = <<>> /\ events' = <<>> /\ drained' = events /\ UNCHANGED <<machine, release_by>>
    BY <1>1, <1>6 DEF SettleBegin
  <2>2. /\ Followed(events', FALSE)
        /\ Followed(events, FALSE) => Followed(events, Has(events', "Resume"))
        /\ Has(drained, "Resume") => Has(events', "Resume")
    BY <2>1 DEF Followed, Has
  <2> QED
    BY <1>1, <2>1, <2>2 DEF SleepsEnd
\* What is acted on: a Sleep has its Resume behind it, a Resume ends the wait.
<1>7. ASSUME NEW e, Take(e),
             e = "Resume" => release_by' = "none",
             e # "Sleep" => (release_by' # "none" => release_by # "none")
      PROVE  SleepsEnd'
  <2>1. /\ drained # <<>> /\ Head(drained) = e /\ drained' = Tail(drained)
        /\ UNCHANGED <<events, machine>>
    BY <1>7 DEF Take
  <2>2. Has(events, "Resume") \in BOOLEAN
    BY DEF Has
  <2>3. /\ Has(drained, "Resume") => e = "Resume" \/ Has(drained', "Resume")
        /\ Followed(drained, Has(events, "Resume")) =>
             /\ Followed(drained', Has(events, "Resume"))
             /\ e = "Sleep" => Has(events, "Resume") \/ Has(drained', "Resume")
    BY <1>1, <2>1, <2>2, TakenIsHad
  <2> QED
    BY <1>1, <1>7, <2>1, <2>3 DEF SleepsEnd
<1>8. Bound # "none" => release_by # "none"
  BY DEF Bound
<1>9. CASE SessionStep
  BY <1>2, <1>8, <1>9 DEF SessionStep, LockMoves, queueVars
<1>10. CASE OnLock \/ OnUnlock \/ OnInhibitor
  BY <1>7, <1>8, <1>10 DEF OnLock, OnUnlock, OnInhibitor
<1>11. CASE OnSleepImminent
  BY <1>7, <1>11 DEF OnSleepImminent, BeforeSleep
<1>12. CASE OnResumed
  BY <1>7, <1>12 DEF OnResumed
<1>13. CASE SettleEnd
  BY <1>2, <1>13 DEF SettleEnd
<1>14. ASSUME NEW new \in Configs, Configure(new) PROVE SleepsEnd'
  BY <1>2, <1>14 DEF Configure, queueVars
<1>15. CASE Post
  BY <1>3, <1>15 DEF Post, Events
<1>16. CASE Signal("Lock") \/ Signal("Unlock")
  BY <1>3, <1>16 DEF Signal, Events
<1>17. CASE PrepareForSleep \/ Suspend
  BY <1>4, <1>17 DEF PrepareForSleep, Suspend
<1>18. CASE Deadline \/ LockerDies
  BY <1>2, <1>18 DEF Deadline, LockerDies, queueVars
<1>19. CASE UNCHANGED sleepVars
  BY <1>2, <1>19 DEF sleepVars, logindVars, queueVars
<1> QED
  BY <1>5, <1>6, <1>9, <1>10, <1>11, <1>12, <1>13, <1>14, <1>15, <1>16, <1>17, <1>18, <1>19
  DEF SleepNext, SettleLogind, LogindStep

\* What is let go of, or was never held, is asked for, or will be.
LEMMA StepKeepsHeldOrComing == QueueInv /\ [SleepNext]_sleepVars => HeldOrComing'
<1> SUFFICES ASSUME QueueInv, [SleepNext]_sleepVars,
                    settings'.before_sleep, holder' = "none", machine' = "awake", refusals' = 0
             PROVE  inhibitor' \/ Coming'
  BY DEF HeldOrComing
<1>1. /\ events \in Seq(Events) /\ drained \in Seq(Events) /\ asked \in Nat
      /\ SleepsEnd /\ HeldOrComing /\ (drained # <<>> => settling) /\ RefusalsAreCounted
  BY DEF QueueInv, SleepTypeOK, SleepInv
<1>2. asked' > 0 => Coming'
  BY DEF Coming
<1>3. ~Confirmed /\ Holds = inhibitor
  BY DEF QueueInv, SleepTypeOK, Confirmed, Holds
\* Nothing acted on: what was held, or coming, is.
<1>4. ASSUME UNCHANGED <<settings, machine, refusals, events, drained>>,
             holder # "none" => inhibitor' \/ asked' > 0,
             inhibitor => inhibitor', asked' \in Nat, asked' >= asked
      PROVE  inhibitor' \/ Coming'
  <2>1. CASE holder # "none"
    BY <1>2, <1>4, <2>1
  <2>2. CASE holder = "none"
    <3>1. inhibitor \/ Coming
      BY <1>1, <1>4, <2>2 DEF HeldOrComing
    <3> QED
      BY <1>1, <1>4, <3>1 DEF Coming
  <2> QED
    BY <2>1, <2>2
<1>5. Asks \in Nat /\ (holder # "none" /\ settings'= settings => inhibitor \/ Asks > 0)
  BY DEF Asks, Released
<1>6. CASE SessionStep
  <2>1. /\ UNCHANGED <<settings, machine, refusals, events, drained>>
        /\ inhibitor' = inhibitor /\ asked' = asked + Asks
    BY <1>3, <1>6 DEF SessionStep, LockMoves, queueVars, countVars
  <2> QED
    BY <1>1, <1>4, <1>5, <2>1
\* An event acted on that is neither an answer nor a Resume leaves them there.
<1>7. ASSUME NEW e \in {"Lock", "Unlock", "Sleep"}, Take(e),
             holder # "none" => inhibitor' \/ asked' > 0,
             inhibitor => inhibitor', asked' \in Nat, asked' >= asked
      PROVE  inhibitor' \/ Coming'
  <2>1. /\ drained # <<>> /\ Head(drained) = e /\ drained' = Tail(drained)
        /\ UNCHANGED <<settings, events, machine, refusals>>
    BY <1>7 DEF Take, countVars
  <2>2. \A f \in {"Inhibitor", "Resume"} : Has(drained, f) => Has(drained', f)
    BY <1>1, <2>1, TakenIsHad
  <2>3. CASE holder # "none"
    BY <1>2, <1>7, <2>3
  <2>4. CASE holder = "none"
    <3>1. inhibitor \/ Coming
      BY <1>1, <2>1, <2>4 DEF HeldOrComing
    <3> QED
      BY <1>1, <1>7, <2>1, <2>2, <3>1 DEF Coming
  <2> QED
    BY <2>3, <2>4
<1>8. CASE OnLock
  <2>1. inhibitor' = inhibitor /\ asked' = asked /\ Take("Lock")
    BY <1>3, <1>8 DEF OnLock
  <2>2. holder = "none"
    BY <1>8 DEF OnLock, LockNowWith, LockNatively, TakeLock, vars, lockVars
  <2> QED
    BY <1>1, <1>7, <2>1, <2>2
<1>9. CASE OnUnlock
  <2>1. inhibitor' = inhibitor /\ asked' = asked + Asks /\ Take("Unlock")
    BY <1>9 DEF OnUnlock
  <2>2. settings' = settings
    BY <2>1 DEF Take
  <2> QED
    BY <1>1, <1>5, <1>7, <2>1, <2>2
\* A Sleep read with the machine awake again has its Resume behind it.
<1>10. CASE OnSleepImminent
  <2>1. /\ drained # <<>> /\ Head(drained) = "Sleep" /\ drained' = Tail(drained)
        /\ UNCHANGED <<events, machine>>
    BY <1>10 DEF OnSleepImminent, BeforeSleep, Take
  <2>2. Has(events, "Resume") \in BOOLEAN /\ Followed(drained, Has(events, "Resume"))
    BY <1>1, <2>1 DEF Has, SleepsEnd
  <2>3. Has(events, "Resume") \/ Has(drained', "Resume")
    BY <1>1, <2>1, <2>2, TakenIsHad
  <2> QED
    BY <2>1, <2>3 DEF Coming
<1>11. CASE OnResumed
  <2>1. holder' = holder /\ inhibitor' = inhibitor /\ settings' = settings
    BY <1>11 DEF OnResumed, Take, vars, lockVars
  <2>2. inhibitor \/ asked' = asked + 1
    BY <1>11, <2>1 DEF OnResumed
  <2> QED
    BY <1>1, <1>2, <2>1, <2>2
<1>12. CASE OnInhibitor
  <2>1. CASE inhibitor' = TRUE
    BY <2>1
  <2>2. CASE Take("NoInhibitor")
    <3>1. Len(drained) \in Nat \ {0} /\ drained[1] = "NoInhibitor" /\ refusals' = refusals
      BY <1>1, <2>2 DEF Take, countVars
    <3> QED
      BY <1>1, <3>1 DEF RefusalsAreCounted
  <2> QED
    BY <1>12, <2>1, <2>2 DEF OnInhibitor
<1>13. CASE SettleBegin
  <2>1. /\ drained = <<>> /\ events' = <<>> /\ drained' = events
        /\ UNCHANGED <<settings, holder, machine, refusals, asked, inhibitor>>
    BY <1>1, <1>13 DEF SettleBegin, countVars, vars, lockVars
  <2>2. inhibitor \/ Coming
    BY <1>1, <2>1 DEF HeldOrComing
  <2>3. \A f : ~Has(drained, f)
    BY <2>1, EmptyOrLater
  <2> QED
    BY <2>1, <2>2, <2>3 DEF Coming
\* Past its deadline with the machine awake, a Resume is on its way.
<1>14. CASE SettleEnd
  <2>1. /\ UNCHANGED <<settings, holder, machine, refusals, asked, events, drained>>
        /\ (inhibitor => inhibitor') \/ release_by # "none"
    BY <1>14 DEF SettleEnd, countVars, vars, lockVars
  <2>2. CASE inhibitor => inhibitor'
    BY <1>1, <2>1, <2>2 DEF HeldOrComing, Coming
  <2>3. CASE release_by # "none"
    BY <1>1, <2>1, <2>3 DEF SleepsEnd, Coming
  <2> QED
    BY <2>1, <2>2, <2>3
<1>15. ASSUME NEW new \in Configs, Configure(new) PROVE inhibitor' \/ Coming'
  <2>1. /\ UNCHANGED <<holder, machine, refusals, events, drained>> /\ settings' = new
        /\ inhibitor' = inhibitor
        /\ asked' = asked \/ asked' = asked + 1
        /\ ~settings.before_sleep => inhibitor \/ asked' = asked + 1
    BY <1>15 DEF Configure, queueVars, vars, lockVars, QueueInv, SleepTypeOK
  <2>2. CASE ~settings.before_sleep
    BY <1>1, <1>2, <2>1, <2>2
  <2>3. CASE settings.before_sleep
    <3>1. inhibitor \/ Coming
      BY <1>1, <2>1, <2>3 DEF HeldOrComing
    <3> QED
      BY <1>1, <2>1, <3>1 DEF Coming
  <2> QED
    BY <2>2, <2>3
\* What is posted is coming; what was coming still is.
<1>16. ASSUME NEW e \in Events, events' = Append(events, e),
              UNCHANGED <<settings, holder, machine, refusals, inhibitor, asked, drained>>
       PROVE  inhibitor' \/ Coming'
  <2>1. \A f : Has(events, f) => Has(events', f)
    BY <1>1, <1>16, PostedIsHad
  <2>2. inhibitor \/ Coming
    BY <1>1, <1>16 DEF HeldOrComing
  <2> QED
    BY <1>16, <2>1, <2>2 DEF Coming
<1>17. ASSUME NEW e \in {"Inhibitor", "Resume"}, events' = Append(events, e)
       PROVE  Coming'
  <2>1. e \in Events
    BY DEF Events
  <2>2. Has(events', e)
    BY <1>1, <1>17, <2>1, PostedIsHad
  <2> QED
    BY <2>2 DEF Coming
<1>18. CASE Post
  <2>1. CASE events' = Append(events, "Inhibitor")
    BY <1>17, <2>1
  <2>2. CASE refusals' = refusals + 1
    BY <1>1, <2>2 DEF RefusalsAreCounted
  <2> QED
    BY <1>18, <2>1, <2>2 DEF Post
<1>19. CASE Signal("Lock") \/ Signal("Unlock")
  BY <1>16, <1>19 DEF Signal, Events, vars, lockVars
<1>20. CASE Wake
  BY <1>17, <1>20 DEF Wake
<1>21. CASE PrepareForSleep \/ Suspend
  BY <1>21 DEF PrepareForSleep, Suspend
<1>22. CASE Deadline \/ LockerDies \/ UNCHANGED sleepVars
  BY <1>1, <1>22 DEF Deadline, LockerDies, HeldOrComing, Coming, sleepVars, logindVars, queueVars, countVars,
                     vars, lockVars
<1> QED
  BY <1>6, <1>8, <1>9, <1>10, <1>11, <1>12, <1>13, <1>14, <1>15, <1>18, <1>19, <1>20, <1>21, <1>22
  DEF SleepNext, SettleLogind, LogindStep

LEMMA QueueInvHolds == SleepSpec => []QueueInv
<1>1. QueueInv /\ [SleepNext]_sleepVars => QueueInv'
  BY StepKeepsSleepInv, StepKeepsType, StepKeepsSleepsEnd, StepKeepsHeldOrComing DEF QueueInv
<1> QED
  BY <1>1, InitQueueInv, PTL DEF SleepSpec

\* Every state of the composition is well typed.
THEOREM SleepTypeCorrect == SleepSpec => []SleepTypeOK
<1>1. QueueInv => SleepTypeOK
  BY DEF QueueInv
<1> QED
  BY <1>1, QueueInvHolds, PTL

\* With nothing of logind's on its way, an unlocked session awake holds an
\* inhibitor, however many sleeps, signals and reloads there have been.
THEOREM UnlockedIsHeld == SleepSpec => []HeldWhileUnlocked
<1>1. QueueInv => HeldWhileUnlocked
  <2> SUFFICES ASSUME QueueInv, settings.before_sleep, holder = "none", machine = "awake",
                      Quiet, refusals = 0
               PROVE  inhibitor
    BY DEF HeldWhileUnlocked
  <2>1. events = <<>> /\ drained = <<>> /\ asked = 0
    BY DEF Quiet, QueueInv, SleepTypeOK
  <2>2. ~Coming
    BY <2>1, EmptyOrLater DEF Coming
  <2> QED
    BY <2>2 DEF QueueInv, HeldOrComing
<1> QED
  BY <1>1, QueueInvHolds, PTL
=============================================================================
