---------------------------- MODULE LogindSleep ----------------------------
(***************************************************************************)
(* logind's Lock, Unlock and sleep signals and the delay inhibitor Solium  *)
(* holds for sleep (logind.rs), composed with the session lock they act on *)
(* and wait for.                                                           *)
(*                                                                         *)
(* Every call to logind is a thread of its own: an inhibitor asked for now *)
(* arrives later, as an event in the queue the listener thread fills too.  *)
(* The main thread drains that queue once a loop and acts on every event   *)
(* before it does anything else.                                           *)
(***************************************************************************)
EXTENDS SessionLock, Sequences

CONSTANTS
    MaxSleeps,   \* bound: how many times the machine is asked to sleep
    MaxSignals,  \* bound: how many Lock and Unlock signals logind sends
    MaxReloads,  \* bound: how many times the configuration is read again
    MaxRefusals, \* bound: how many inhibitors logind refuses
    Configs      \* the configurations lock.* has in turn

Settings == [native : BOOLEAN, command : BOOLEAN, before_sleep : BOOLEAN,
             logind_unlock : BOOLEAN]

ASSUME LogindAssumption ==
    /\ MaxSleeps \in Nat /\ MaxSignals \in Nat
    /\ MaxReloads \in Nat /\ MaxRefusals \in Nat
    /\ Configs \subseteq Settings

VARIABLES
    settings,   \* lock.native, lock.command set, before_sleep, logind_unlock
    events,     \* Logind.events: what the threads have seen, unread
    drained,    \* settle's own copy: what it has read and not acted on
    settling,   \* the main thread is in logind::settle
    asked,      \* inhibit threads whose answer is not in the queue yet
    inhibitor,  \* Logind.inhibitor: whether one is held
    release_by, \* none, armed, or past
    locker,     \* the locker last run did start, and has asked for no lock yet
    machine,    \* logind's: awake, about to sleep ("preparing"), asleep
    sleeps, signals, reloads, refusals

queueVars == <<events, drained, settling>>
countVars == <<sleeps, signals, reloads, refusals>>
logindVars == <<settings, queueVars, asked, inhibitor, release_by, locker, machine, countVars>>
sleepVars == <<vars, logindVars>>

Events == {"Lock", "Unlock", "Sleep", "Resume", "Inhibitor", "NoInhibitor"}

SleepTypeOK ==
    /\ TypeOK
    /\ settings \in Settings
    /\ events \in Seq(Events)
    /\ drained \in Seq(Events)
    /\ settling \in BOOLEAN
    /\ drained # <<>> => settling
    /\ asked \in Nat
    /\ inhibitor \in BOOLEAN
    /\ release_by \in {"none", "armed", "past"}
    /\ locker \in BOOLEAN
    /\ machine \in {"awake", "preparing", "asleep"}

\* Logind::begin: with before_sleep, an inhibitor is asked for at once.
SleepInit ==
    /\ Init
    /\ settings \in Configs
    /\ events = <<>> /\ drained = <<>> /\ settling = FALSE
    /\ asked = IF settings.before_sleep THEN 1 ELSE 0
    /\ inhibitor = FALSE
    /\ release_by = "none"
    /\ locker = FALSE
    /\ machine = "awake"
    /\ sleeps = 0 /\ signals = 0 /\ reloads = 0 /\ refusals = 0

----------------------------------------------------------------------------
(* What logind hears of the lock. *)

\* confirm_lock sent `locked` in this step: the one it owed, or a new lock's
\* that had no monitor to wait for.
Confirmed == holder' # "none" /\ ~owed' /\ (owed \/ LOCKS' # LOCKS)
Released == holder # "none" /\ holder' = "none"

\* Mutant: unlocking asks for no inhibitor.
AsksNever == 0

\* Logind::locked, from confirm_lock and release_lock: what is held, what
\* bounds it and what is asked for, once the lock has moved as the step's
\* primed variables say. The SetLockedHint it also sends changes nothing here.
Holds == inhibitor /\ ~Confirmed
Bound == IF Confirmed THEN "none" ELSE release_by
Asks == IF Released /\ settings.before_sleep /\ ~inhibitor THEN 1 ELSE 0

\* Nothing of Solium's runs while the machine is asleep.
Awake == machine # "asleep"

\* What the main thread does outside logind::settle, lock and frames first.
LockMoves(step) ==
    /\ step
    /\ inhibitor' = Holds
    /\ release_by' = Bound
    /\ asked' = asked + Asks
    /\ UNCHANGED <<settings, queueVars, machine, countVars>>

\* A client that asks for a lock may be the locker, or another.
SessionStep ==
    /\ Awake /\ ~settling
    /\ \/ \E c \in Clients : LockMoves(ClientLock(c)) /\ locker' \in {locker, FALSE}
       \/ /\ UNCHANGED locker
          /\ \/ \E c \in Clients : LockMoves(ClientUnlock(c) \/ ClientGoes(c))
             \/ settings.native /\ LockMoves(LockNatively)
             \/ LockMoves(UnlockNatively)
             \/ LockMoves(EntryReached \/ SettleEntry)
             \/ LockMoves(MonitorStep)
             \/ LockMoves(BackendStep)

\* Logind::configure.
Configure(new) ==
    /\ Awake /\ ~settling
    /\ reloads < MaxReloads
    /\ new # settings
    /\ settings' = new
    /\ LET had == settings.before_sleep
           asks == new.before_sleep /\ ~had /\ ~inhibitor /\ holder = "none"
           stops == ~new.before_sleep /\ had
       IN  /\ asked' = asked + (IF asks THEN 1 ELSE 0)
           /\ inhibitor' = (inhibitor /\ ~stops)
           /\ release_by' = IF stops THEN "none" ELSE release_by
    /\ reloads' = reloads + 1
    /\ UNCHANGED <<vars, queueVars, locker, machine, sleeps, signals, refusals>>

----------------------------------------------------------------------------
(* logind::settle: the queue is drained, each event acted on in turn, and  *)
(* the deadline looked at last.                                            *)

SettleBegin ==
    /\ Awake /\ ~settling
    /\ events # <<>> \/ (inhibitor /\ release_by = "past")
    /\ settling' = TRUE
    /\ drained' = events
    /\ events' = <<>>
    /\ UNCHANGED <<vars, settings, asked, inhibitor, release_by, locker, machine, countVars>>

Take(event) ==
    /\ Awake /\ settling
    /\ drained # <<>>
    /\ Head(drained) = event
    /\ drained' = Tail(drained)
    /\ UNCHANGED <<settings, events, settling, machine, countVars>>

\* run_locker, by should_run_locker: only where there is no lock. It may fail to
\* start; what became of one started before is not looked at.
RunLocker ==
    IF holder = "none" THEN locker' \in {FALSE, settings.command} ELSE UNCHANGED locker

\* Solium::lock_now_with: Solium's own lock by `native`, where there is no
\* lock to keep it from it; otherwise the locker, which asks for its lock
\* later as any client does.
LockNowWith(native, refused) ==
    IF settings.native
    THEN UNCHANGED locker /\ IF refused THEN UNCHANGED vars ELSE native
    ELSE UNCHANGED vars /\ RunLocker

\* What it returns: whether a `locked` is to come, of a locker it started or
\* of a lock owed to a holder still there.
Started == ~settings.native /\ holder = "none" /\ locker'
Pending == holder' # "none" /\ owed' /\ ~Gone(holder', object')

\* on_lock: a native lock with its entry.
OnLock ==
    /\ Take("Lock")
    /\ LockNowWith(LockNatively, ~Takeable)
    /\ inhibitor' = Holds
    /\ release_by' = Bound
    /\ UNCHANGED asked

\* on_unlock: the administrator's way out of Solium's own lock.
OnUnlock ==
    /\ Take("Unlock")
    /\ IF holder = "native" /\ settings.logind_unlock
       THEN UnlockNatively ELSE UNCHANGED vars
    /\ asked' = asked + Asks
    /\ UNCHANGED <<inhibitor, release_by, locker>>

\* The session is locked with no entry, and then the inhibitor waits for a
\* `locked` that is coming, by the deadline given, or is let go at once.
BeforeSleep(coming, deadline) ==
    /\ Take("Sleep")
    /\ IF settings.before_sleep
       THEN /\ LockNowWith(LockAtOnce, ~Takeable /\ ~(holder = "native" /\ entry # "none"))
            /\ inhibitor' = (Holds /\ coming)
            /\ release_by' = IF Holds /\ coming THEN deadline ELSE Bound
       ELSE UNCHANGED <<vars, inhibitor, release_by, locker>>
    /\ UNCHANGED asked

\* Mutants: only a locker just started is waited for; only a lock there is
\* already; and either, with no deadline.
OnSleepImminentForTheLocker == BeforeSleep(Started, "armed")
OnSleepImminentForTheLock == BeforeSleep(Pending, "armed")
OnSleepImminentForEver == BeforeSleep(Started \/ Pending, "none")

\* on_sleep_imminent: for max_delay at most.
OnSleepImminent == BeforeSleep(Started \/ Pending, "armed")

\* Mutant: waking asks for no inhibitor.
OnResumedUnasked ==
    /\ Take("Resume")
    /\ release_by' = "none"
    /\ UNCHANGED <<vars, inhibitor, asked, locker>>

\* on_resumed: another inhibitor, unless one is held or it is still locked.
OnResumed ==
    /\ Take("Resume")
    /\ release_by' = "none"
    /\ asked' = asked + (IF settings.before_sleep /\ ~inhibitor /\ holder = "none"
                         THEN 1 ELSE 0)
    /\ UNCHANGED <<vars, inhibitor, locker>>

\* Event::Inhibitor: the answer replaces whatever is held.
OnInhibitor ==
    /\ \/ Take("Inhibitor") /\ inhibitor' = TRUE
       \/ Take("NoInhibitor") /\ inhibitor' = FALSE
    /\ UNCHANGED <<vars, asked, release_by, locker>>

\* Mutant: settle stops with events it has drained and not acted on.
SettleEndEarly ==
    /\ Awake /\ settling
    /\ settling' = FALSE
    /\ UNCHANGED <<vars, settings, events, drained, asked, inhibitor, release_by, locker,
                   machine, countVars>>

\* The end of it: an inhibitor whose locker never confirmed is let go.
SettleEnd ==
    /\ Awake /\ settling
    /\ drained = <<>>
    /\ settling' = FALSE
    /\ LET over == inhibitor /\ release_by = "past"
       IN  /\ inhibitor' = (inhibitor /\ ~over)
           /\ release_by' = IF over THEN "none" ELSE release_by
    /\ UNCHANGED <<vars, settings, events, drained, asked, locker, machine, countVars>>

SettleLogind ==
    \/ SettleBegin
    \/ OnLock \/ OnUnlock \/ OnSleepImminent \/ OnResumed \/ OnInhibitor
    \/ SettleEnd

----------------------------------------------------------------------------
(* The threads, the clock, and logind itself. *)

\* release_by passes.
Deadline ==
    /\ release_by = "armed"
    /\ release_by' = "past"
    /\ UNCHANGED <<vars, settings, queueVars, asked, inhibitor, locker, machine, countVars>>

\* spawn_inhibit: a thread posts what logind answered it, in whatever order
\* the threads run.
Post ==
    /\ Awake
    /\ asked > 0
    /\ asked' = asked - 1
    /\ \/ /\ events' = Append(events, "Inhibitor")
          /\ UNCHANGED refusals
       \/ /\ refusals < MaxRefusals
          /\ refusals' = refusals + 1
          /\ events' = Append(events, "NoInhibitor")
    /\ UNCHANGED <<vars, settings, drained, settling, inhibitor, release_by, locker, machine,
                   sleeps, signals, reloads>>

\* The listener hears a Lock or an Unlock signal.
Signal(event) ==
    /\ Awake
    /\ signals < MaxSignals
    /\ signals' = signals + 1
    /\ events' = Append(events, event)
    /\ UNCHANGED <<vars, settings, drained, settling, asked, inhibitor, release_by, locker,
                   machine, sleeps, reloads, refusals>>

\* logind is asked to sleep, and says so before it does.
PrepareForSleep ==
    /\ machine = "awake"
    /\ sleeps < MaxSleeps
    /\ sleeps' = sleeps + 1
    /\ machine' = "preparing"
    /\ events' = Append(events, "Sleep")
    /\ UNCHANGED <<vars, settings, drained, settling, asked, inhibitor, release_by, locker,
                   signals, reloads, refusals>>

\* logind suspends once every descriptor it gave out is closed, or its own
\* limit has run out: Solium is told of neither.
Suspend ==
    /\ machine = "preparing"
    /\ machine' = "asleep"
    /\ UNCHANGED <<vars, settings, queueVars, asked, inhibitor, release_by, locker, countVars>>

Wake ==
    /\ machine = "asleep"
    /\ machine' = "awake"
    /\ events' = Append(events, "Resume")
    /\ UNCHANGED <<vars, settings, drained, settling, asked, inhibitor, release_by, locker,
                   countVars>>

\* The locker ends without asking for a lock. Solium is not told.
LockerDies ==
    /\ Awake
    /\ locker
    /\ locker' = FALSE
    /\ UNCHANGED <<vars, settings, queueVars, asked, inhibitor, release_by, machine, countVars>>

LogindStep ==
    \/ Deadline \/ Post \/ LockerDies
    \/ Signal("Lock") \/ Signal("Unlock")
    \/ PrepareForSleep \/ Suspend \/ Wake

SleepNext ==
    \/ SessionStep
    \/ \E new \in Configs : Configure(new)
    \/ SettleLogind
    \/ LogindStep

SleepSpec == SleepInit /\ [][SleepNext]_sleepVars

\* The loop turns, and settles at every turn; the clock runs.
FairSleepSpec == SleepSpec /\ WF_sleepVars(SettleLogind) /\ WF_sleepVars(Deadline)

----------------------------------------------------------------------------
(* Properties. *)

\* Whether an event is in the queue, or read and not acted on.
Unread(event) == \E q \in {events, drained} : \E i \in 1 .. Len(q) : q[i] = event

\* Every answer asked for has come and been acted on.
Quiet == events = <<>> /\ ~settling /\ asked = 0

\* With sleep announced and before_sleep on, the inhibitor is let go only once
\* every monitor shows the lock, past its deadline, with nothing that will
\* confirm one, or for logind's refusal of another: never with a native lock, a
\* client's, or that of the locker last run still on its way (on_sleep_imminent,
\* confirm_lock). A lock whose holder has gone is not waited for: no locker is
\* run over it, and the session stays locked.
SleepWaitsForTheLock ==
    [][/\ machine = "preparing" /\ settings.before_sleep
       /\ inhibitor /\ ~inhibitor' /\ settings' = settings
       => \/ holder' # "none" /\ ~owed'
          \/ release_by = "past"
          \/ holder' = "none" /\ ~settings.native /\ ~locker'
          \/ Gone(holder', object')
          \/ Take("NoInhibitor")]_sleepVars

\* A sleep announced is not held for ever, whether the locker fails to start,
\* dies with its lock or before it, or just never confirms one: what is held as
\* it is announced is let go, unless logind sleeps first.
SleepIsLetGo ==
    machine = "preparing" /\ settings.before_sleep /\ Unread("Sleep")
    ~> ~inhibitor \/ machine # "preparing"

\* logind.rs: it holds an inhibitor "at every moment the session is unlocked",
\* once what was asked for has come, whatever slept, woke, locked or unlocked
\* in between and however late the answers were.
HeldWhileUnlocked ==
    /\ settings.before_sleep /\ holder = "none" /\ machine = "awake"
    /\ Quiet /\ refusals = 0
    => inhibitor

\* logind.rs: turning before_sleep off "lets go of whatever it was holding",
\* so nothing is held while it is off and no answer is on its way.
NothingHeldWhileOff == ~settings.before_sleep /\ Quiet => ~inhibitor
=============================================================================
