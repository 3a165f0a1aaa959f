# A verification of Solium: the session lock, and how it and its clients agree

Solium is a Wayland compositor written in Rust (on Smithay), with policy in Lua and scenes in
QML. This directory holds TLA+ models of the parts of it where a mistake is worst and a test
reaches least: the session lock, with sleep and authentication around it, and the two places
where the compositor and a client that answers late must agree, on buffers (explicit sync) and on
sizes (live resize). Five models are here so far, and three abstract specifications they are proved
to implement: what a lock promises, what it promises of an entry typed at it, and what explicit
sync promises of a buffer. Every safety property checked of the five is also a theorem.

| Module | Models | Checked by | Proved in |
|---|---|---|---|
| `SessionLock` | taking, confirming and ending a lock, over monitors that flip frames, go dark, come and go (`lock.rs`, `tty.rs`, `power.rs`, `lock_scene.rs`) | `MCSessionLock`, 4 runs | `SessionLock_proofs` |
| `LockPromise` | what a session lock promises, with no frames or monitors' power in it | through `SessionLock`: `KeepsItsPromise` in `lock_hands` | `SessionLock_proofs` |
| `LogindSleep` | logind's signals and the sleep inhibitor, composed with `SessionLock` (`logind.rs`) | `MCLogindSleep`, 3 runs | `LogindSleep_proofs` |
| `LockAuth` | the secret typed at Solium's own lock, the helper's checks, the lockout, the PIN and its counts (`lock_auth.rs`, `auth.rs`, `pin.rs`, `pin_cli.rs`, `solium-auth`) | 2 runs | `LockAuth_proofs` |
| `EntryPromise` | what Solium's lock promises of an entry typed at it, with no helper, PIN counts or retries in it | through `LockAuth`: `KeepsItsPromise` in `lock_auth` | `LockAuth_proofs` |
| `ExplicitSync` | commits with acquire and release points, the queues they wait in, frames' fences, and who lets a buffer go (`explicit_sync.rs`) | `MCExplicitSync`, 1 run | `ExplicitSync_proofs` |
| `BufferPromise` | what explicit sync promises a client of its buffers, with no queues, surfaces or fences in it | through `ExplicitSync`: `KeepsItsPromise` in `explicit_sync` | `ExplicitSync_promise` |
| `LiveResize` | an edge drag's holds and configures, floating or a layout's, and the rounds of `resize.sync` (`resizing.rs`, `state/resize_bridge.rs`, `state/round.rs`) | `MCLiveResize`, 2 runs | `LiveResize_proofs` |

Paths below are under `src/crates/solium/src/` unless they say otherwise.

## 1. Inventory

For each component: what it keeps, what it does, whom it talks to, what is hard, what makes it
correct. `PROJECT.json` lists the same components with their files and status.

**Session lock** (`lock.rs`, `state/lock_screen.rs`). State: `Solium.lock`, a `Lock` with its
holder (a client's `ext_session_lock_v1` object, or Solium itself), whether `locked` is still
owed, the outputs that have shown it and its frame id. Operations: `lock`, `unlock_and_destroy`,
an object destroyed, `lock_natively[_at_once]`, `unlock_natively`, `confirm_lock`,
`end_lock_entry`. Talks to: the backend (every flip comes back as `frame_presented`), power
(`output_dark`), the lock's scenes, logind (`Logind::locked`), authentication. Hard: a lock is
taken at once but true only when every monitor shows it, with frames of before in flight, monitors
unplugged or asleep, holders crashing. Correct when: no confirmed lock leaves the desktop visible,
only its holder hears `locked` and unlocks, a crash never unlocks, a lock is confirmed in the end.

**Hardware backend** (`tty.rs`). State per screen: `lit`, a pending flip, `owed`; `redraw` for
all. Operations: a render pass, the vblank handler, hotplug (`resync_screens`), blanking, darkening
and waking, the VT switch. Hard: passes skip busy screens and must come back to them; every DRM
call may fail.

**Monitor power** (`power.rs`). State: `off` (asked) and `dark` (done). Hard: with the backend's
`lit` these are three copies of one fact.

**Lock scenes** (`lock_scene.rs`). State: the entry under way, its bound and monitors, peek, exit.
Hard: scenes are user code; the lock must not depend on them.

**logind** (`logind.rs`). State: the queue its threads fill, the inhibitor, its deadline, the
settings. Operations: `Lock`, `Unlock`, `PrepareForSleep`, inhibitor answers, `configure`,
`locked`. Hard: every D-Bus call is a thread whose answer comes whenever it comes, around a
machine going to sleep. Correct when: sleep waits for a lock that is coming, at most to its
deadline, and is not held where none is coming as it is announced.

**Lock authentication** (`lock_auth.rs`, `auth.rs`, `pin.rs`, `pin_cli.rs`, `solium-auth`). State:
the field, the copy submitted, the check under way and its serial, the answers' queue, the streak,
the retries, one wait; the PIN's file and state file and what was last read of them. Operations:
keys, submit, clear, the helper's answer, waits ending, begin and end of a lock, the configuration,
`solium pin set` and `clear` from another process. Hard: late answers, retries, crashes, a file
two processes write. Correct when: only a yes to the secret submitted under this lock unlocks, the
secret does not outlive the question, neither the lockout nor the PIN's limit can be walked around.

**Lock keyboard and focus** (`focus.rs`, `state/keyboard.rs`, `input/mod.rs`). State: who has the
keyboard now and before the lock. Correct when: while locked no client but the locker gets a key.

**Idleness** (`idle.rs`, `screensaver.rs`). State: idle notifications, Wayland and D-Bus
inhibitors. Correct when: an inhibitor of a dead client or bus name does not hold for ever.

**Live resize** (`resizing.rs`, `state/resize_bridge.rs`, `state/round.rs`, `input/resize.rs`).
State: the request the last motion left, the holds (one for a floating drag, one a pane in the
bridge of a tiled one), what each was asked and declined, the round under way with its barrier.
Operations: begin, motion, release, a pass's settling, a placement, a commit. Hard: input, passes
and clients' answers come in any order, an answer may be to any configure, a layout may claim a
drag on one pass and not on the next. Correct when: no hold outlives its drag and the patience
after it, a slow client is not taken for a stubborn one, it hears the size the drag ended on, and
nothing a round holds back stays there.

**Layout** (`crates/layout`). Pure: the tiling tree and the scroller. Correct when: insert, remove
and resize keep every window once, and rectangles tile the area.

**Explicit sync** (`explicit_sync.rs`). State: acquire points blocked on, who owns each release
point, buffers held until a frame's fence. Operations: the commit hook, the import, a frame's
snapshot and its end, the channel to the loop, cancellation. Hard: a release point changes owners
four times, every step of a fence may fail, a surface goes with its wait still in the channel.
Correct when: no buffer is read before its acquire or released before its last reader, each is
released in the end, and no other commit waits for a surface that has gone.

**Cadence and pacing** (`cadence.rs`, `pacing.rs`). Frame callbacks of a screen with nothing to
draw; measurements. Correct when: a callback owed is sent.

**Captures** (`screencopy.rs`, `image_copy.rs`, `capture.rs`). State: captures armed and waiting
for a frame. Correct when: each is answered once, also when its monitor goes.

**Output management** (`output_management.rs`, `monitor.rs`, `state/monitors.rs`). Arrangement
under serials. **Windows** (`state/open.rs`, `close.rs`, `minimize.rs`, `remains.rs`,
`successor.rs`, `pane.rs`, `launch.rs`). A pane's life before, with and after its client.
**Shell protocols** (`state/handlers.rs`, `toplevels.rs`, `ext_workspace.rs`, ...). Views for
clients. **XWayland** (`xwayland.rs`, `state/x11.rs`). Supervision of a process, and its windows.
**Input devices** (`input/devices.rs`, `keymap.rs`, ...). **Lua configuration** (`script.rs`,
`runs.rs`, `files.rs`, `autoreload.rs`, ...). **Services** (`services/`). D-Bus and PipeWire
mirrors with queues of their own. **Nested backend** (`winit.rs`). **Session start and end**
(`session.rs`, `signals.rs`, `warm.rs`, `main.rs`). **Renderer and effects** (`render.rs`,
`effect/`, `crates/effects`, ...). **QML host** (`qml.rs`, `decoration.rs`, ...). **Animation**
(`crates/animation`). **Developer tools** (`dev.rs`, `scenario.rs`, the probes).

How they meet: everything of the compositor runs on one thread, in a `calloop` loop. A turn
dispatches events (clients, input, vblanks, D-Bus queues), then settles logind, the scenes and
`lock_auth`, then draws. So handlers are atomic to each other, and what interleaves is their
order, the kernel's flips, the threads that talk to logind and to the helper, other processes
(clients, `solium pin`), the clock, and power. The models have one action per handler, and one per
thing outside that can happen between two.

## 2. The models

### SessionLock

An `Output` is one monitor as plugged in once; a monitor plugged in again is another (`used`). A
frame is the lock it was built under and what it shows: desktop, lock or black. `flight[o]` is the
frame queued on `o`, `screen[o]` what its display shows. `LOCKS` is the counter frame ids come
from; the lock there is always has the last one, so `Lock.frame` needs no variable.

- `ClientLock`, `ClientUnlock`, `ClientGoes`: the protocol's handlers, with a refused second
  client, `invalid_unlock`, and a crash that leaves the session locked by nobody.
- `LockNatively`, `LockAtOnce`, `UnlockNatively`: Solium's own lock. Its entry plays on any subset
  of the lit monitors, since a scene that cannot be had is covered by the fallback.
- `EndLockEntry` (from `SettleEntry` or `LockAtOnce`) renews the id. `ConfirmLock` is called at the
  end of every action that calls it in the code, with the values the step has made so far.
- `SetPower`, `WakeScreens`, `Resync`: what is asked of monitors, and a hotplug of any number.
- `Render` is one pass over all screens: `Step` says what is done with each; with `Faults` any
  DRM call fails. `VBlank` is the flip.

Left out: the VT switch (`Pause`, `Activate`), where the kernel takes the displays away; the
lock surfaces of a client and `lock_backdrop` (a client that draws nothing shows black, which is
not the desktop); the peek and the exit, which play unlocked; planes and scanout; the rest a screen
takes when a pass drew nothing; the nested backend. `Damage` stands for all that asks for a frame.

### LockPromise

Four facts: who holds the session, whether it was told `locked` (`up`), whether it is `gone`, and
which monitors the desktop is on or coming to (`exposed`). Five actions: a lock is taken, from
nobody or from a holder that went; it comes up, with the desktop nowhere and its holder there;
until then the desktop comes and goes; a client leaves; the lock is ended, natively or by a holder
that is there and was told. `SessionLock!Promise` maps to it: `up` is `holder # "none" /\ ~owed`,
`exposed` the monitors whose display or queued frame has the desktop. Everything else is a stutter.
What it does not promise, because the code does not: a lock taken over from a holder that went is
a new one, and the desktop may be seen again under the entry of a native lock that takes over.

### LogindSleep

Extends `SessionLock`: every step of the lock happens here with what `Logind::locked` makes of it
(`LockMoves`). `events` is the queue between the threads and the loop, `drained` the copy `settle`
works through, one action an event, nothing of the main thread between them. `asked` counts
inhibitor threads not answered. `locker` is a process outside Solium: the one last run has started
and not asked for its lock, which it may do at any time, as may another client, or die without
(`LockerDies`). Solium keeps no such thing; it knows what `run_locker` returned as it returns, and
what is waited for is decided then (`Started`, `Pending`). A locker run before the last one is not
looked at: where two `Lock`s or a `Lock` and a sleep run one each and the second does not start,
sleep does not wait for the first, and `locker` is the second. `PrepareForSleep`, `Suspend` and `Wake` are logind itself: it may
suspend whatever is held, as `InhibitDelayMaxSec` lets it. `SetLockedHint` threads and the bus
connection's loss are left out.

### LockAuth

What is typed is one of `Entries`: some of a PIN's shape, one the password, one the PIN; the
password may itself be of a PIN's shape. `check` is the check not answered yet, with the serial it
answers to; `Deliver` puts in the queue any answer the helper could give (`Says`), so a cancel
comes before it (the check is gone) or after it (the answer is there, stale). `settle` is a series
of actions between `SettleBegin` and the last, with deliveries in between, as the code's loop locks
the queue for each. `until` is a wait: none, armed, past; how long is left out. The record of the
PIN is on `disk` and in memory (`known`, re-read by `Refreshed` where the code does), and
`used = "fresh"` stands for a password given on this boot within `password_after` on both
clocks. `PinCommand` and `PinCommandEnds` are the two writes of `solium pin`, the second of which
may fail or never come. `Restart` is an end or crash of Solium, with the machine or without.
`wrong` and `lost` are history: what the file should say, and how often saving failed.

Left out: the selection, the keypad, layouts, what is displayed, `attempts`, `lockouts` and
`unanswered` (only a wait's length depends on them), limits changed under a lock, a PIN replaced
by another one, a state file that cannot be parsed (it turns the PIN off until the password).

The lock that authentication ends and the one of `SessionLock` are not composed yet: `native` here
is `holder = "native"` there, `Begin` its `TakeLock`, `End` and `Unlock` its `ReleaseLock`.

### EntryPromise

Whether these are the entries of a lock (`held`), the one at stake (`asked`), how many were counted
since the last lockout (`missed`), and a `gate`: free, locked out, or granted. An entry is asked
about only with none at stake, the gate free and less than a lockout's worth counted; it is then
granted, if it is a secret, counted once (`Miss`), or given up. A lockout comes only after
`Attempts` counted and with nothing at stake, and only `LockoutEnds` or the lock's end frees the
gate again. The lock may end at any time, as logind or a crash may end it. `LockAuth!Promise` maps
to it: `asked` is `submitted`, `missed` the `streak`, `Gate` the phase. A PIN's check that said no,
a retry and a stale answer are stutters: this is `lock_auth.rs:76`, "one entry counts one attempt".

### ExplicitSync

A commit of an explicit buffer is known by a number, which is both its points. The release point
is owned in turn by the pending part of a transaction (`pending`), the queue, the surface's current
state (`discard`), and the renderer's `Buffer` (`shown`), which a fading window's `picture` and the
frames in flight (`holds`) share. `Signal` is what dropping the last of them does. `CommitExplicit`
is the commit hook with its `Acquire` message, `ApplyNext` is Smithay applying one transaction
through `before_import` and its import, `Dispatch` the handler of the channel with each outcome a
source or fence may have, `FrameFenced`, `FrameFinished`, `FrameLost`, `FramePlain` the ways
`submitted` may end. `reads` is the GPU itself. Smithay's merge, queues and import are modelled
from how `explicit_sync.rs` uses them, and marked external.

Left out: scanout's own references to a buffer, the list of tracked surfaces, a synchronisation
object replaced by another, the channel's sender failing and the loop's shutdown (where `State`'s
drop forgets what it holds); a subsurface is always synchronised. `ApplyNext` applies one
transaction a step where the code applies all that are ready, and the GPU ends frames in any order:
more behaviours than the code has.

### BufferPromise

Where a buffer is, known by its release point: `queued` in a commit that waits, `onScreen`,
`leaving` (shown by nothing, kept for a fade or a frame), `given` back. Steps move any buffers
along that way, never back, never two places at once, and lose none (`GoOn`); one may be given back
early, when its commit is superseded or dropped. The client's GPU makes one `ready`; a frame is
drawn of what is there and ready, and while it is read a buffer stays. `ExplicitSync!Promise` maps
to it: `queued` is what pending parts and queues owe (`AllOwed`), `onScreen` what surfaces show,
`leaving` what else a `Buffer` carries, `given` what is signalled.

### LiveResize

A pane is a record: its slot, what its client committed and for which configure (`acked`, nothing
for X11), the newest configure sent (`told`), those unanswered (`asks`), its hold. A hold is
`resize_hold`'s ("drag") or the bridge's ("layout"). `Begin`, `Motion` and `Release` only record, as
the grab's callbacks do; `Pass` is `settle_resize` whole: the request is offered to a layout, which
may place any panes at any sizes and claim the drag or not (`Decided`), the throttle is flushed,
the round ended and started, the holds settled. `Noted`, `Offer`, `ReleasedTo`, `Settled` are the
methods of `Hold`. `Place` and `Restyle` are resizes from elsewhere; `Answer` is a client drawing
for any configure it has not passed over; `stuck` is its commits behind a round's barrier. A world
(`Worlds`) is the configuration and what clients may do, fixed in a behaviour.

Left out: positions, edges and what is drawn meanwhile (`seam_shown`, the fill); a capped
`resize.tell_hz` (the throttle is a size in flight; a client silent for long, or one whose
`resizing` state is still to be sent, may be told in any pass: `prompt`); the holds of maximise,
fullscreen and arrivals (`answering`), `sol.resize_hold`, the marks' own configures, `resize.sync`
changed under a drag. Where the code repeats the newest configure, unanswered, one is kept.

## 3. What is checked

| Run | Bounds | Shows |
|---|---|---|
| `lock_monitors` | 2 monitors, 1 client, 2 locks or entries, DRM faults | `TypeOK`, `NoDesktopOnceLocked`, `DarkShowsNothing` |
| `lock_hands` | 2 clients, 1 monitor and 1 to plug in, 2 locks | also `OnlyTheHolderIsTold`, `KeepsItsPromise`, `UnlockedByItsHolder`, `HeldUntilReleased` |
| `lock_confirmed` | native lock, 1 monitor and 1 to plug in, fairness | `NativeLockConfirmed` |
| `lock_dark` | 2 monitors, fairness | violated: `DarkIsNotWaitedFor` |
| `sleep_native` | native lock, 1 sleep, 1 signal, 1 refusal | `HeldWhileUnlocked`, `SleepWaitsForTheLock` |
| `sleep_locker` | a client as locker, 1 sleep, 1 signal, 1 reload, fairness | the same, `SleepTypeOK`, `SleepIsLetGo` |
| `sleep_off` | as `sleep_native` with a reload to off | violated: `NothingHeldWhileOff` |
| `lock_auth` | 3 entries, 2 attempts, 2 PIN attempts, 1 retry, 5 serials, 1 failed save | all seven safety properties of `LockAuth`, `KeepsItsPromise` among them |
| `lock_auth_back` | 2 entries, 1 attempt, 3 serials, fairness | `FieldComesBack` |
| `explicit_sync` | a window with a subsurface, 2 explicit commits of 1 `wl_buffer`, 1 queued transaction, 1 frame, fairness | `NothingReleasedInUse`, `NothingReadUnready`, `EveryReleaseComes`, `QueuesMove`, `KeepsItsPromise` |
| `live_resize` | 2 windows, 2 sizes, 2 configures unanswered, 6 worlds of 1 or 2 resizes, fairness | `NoHoldOutlivesItsDrag`, `TakenAtItsWordAlone`, `EndIsTold`, `NothingHeldBack`, `HeldBackTogether`, `EveryHoldEnds`, `EveryAnswerLands` |
| `resize_rounds` | the same under `resize.sync`, 3 motions, obedient clients | violated: `TakenAtItsWord` |

Why the bounds are enough for what they are for: two monitors are one that is waited for and one
that is not (dark, gone, just there); two ids are a lock and what was before it, or an entry and
what follows it; two clients are a holder and one that would be. In `lock_auth`, five serials are
a lock, its check, its end, another lock and a check under it, with the first one's yes still in the
queue (with four, an answer that counts for the wrong check is never seen), or an entry checked as
the PIN, then as the password, then another twice; two attempts mix a no and a refusal; the password
is of a PIN's shape, so it is also a wrong PIN. The theorems below have no bounds on any of these.
In `explicit_sync`, two points are a buffer on screen and the one that
takes its place, or two in one transaction; the frame may be drawn again and again. Its invariants were
also checked once with two commits queued (3.2 million states) and with two buffers (1.8 million),
which take longer than a run should. In
`live_resize`, one window is dragged and the other is its neighbour across a seam, or the window
dragged next; two motions are one answered and one that overtakes it; sizes are only compared, so
two tell a drag's from the client's. Gestures, passes and answers are not bounded, resizes are
(`changes`): a world has two where they interact and one where only their presence counts.
`MaxLocks`, `MaxSerial`, `MaxLost` and the `Max...` of `LogindSleep` only stop what would go on
for ever. A session locked, bounds used up and nothing moving is a legal end, so the `SessionLock`
and `LogindSleep` runs do not check for deadlock; the `LockAuth` runs do.

**Fairness.** `SessionLock`: the loop turns (`Render`, `SettleEntry`), the clock runs
(`EntryReached`), and the kernel flips each frame queued (`VBlank`). Nothing is assumed of clients,
scenes, users or hotplug. Liveness is checked with DRM calls that do not fail: a frame that could
not be queued is tried again only when something else asks for a frame, so with failures the code
promises less (see the hazards). `LockAuth`: the helper is killed at its timeout, so every check is
answered (`Deliver`); the loop turns (`Settle`); the clock runs (`Reached`). Nothing of keys.
`LogindSleep`, with a locker: the loop turns and settles logind at every turn (`SettleLogind`:
`tty.rs:916`, `winit.rs:1386`), and the deadline's time comes (`Deadline`). Nothing of the locker,
the inhibitor threads, or logind, which may never suspend.
`ExplicitSync`: a queue woken is applied, the loop's channel and sources are dispatched, the GPU
finishes what it was given, fades and a killed client's cleanup come to their end; a client's GPU
may never reach a point. `LiveResize`: the loop makes passes, a round's time and a hold's patience
run out; no client need ever answer, and a button may be held for ever. In both, where an action
ends the one condition that enables it, its weak fairness is written `[]<>` of the condition's
absence, which is the same and what TLC checks faster.

### Three disagreements between the code and what it says

- `lock_dark`: `power.rs:62` says a dark monitor "counts as having shown the lock". `set_power`
  forgets `dark` the moment a monitor is asked back on. Asked off again before the backend's next
  pass, its display is still dark, `power::step` says `Rest`, nothing puts it back in `dark`, and
  a lock taken then waits for it until it is woken.
- `sleep_off`: `logind.rs:256` says that turning `before_sleep` off "lets go of whatever it was
  holding". An inhibitor asked for just before arrives just after, and is held until a lock is
  next confirmed or the setting is turned on and off again.
- `resize_rounds`: `resizing.rs:713` says an xdg client's "answer is judged against that ask", the
  one it acked. `start_round` (`state/round.rs:231`) offers with the committed size alone, so the
  answer is judged against the newest ask. Under `resize.sync` a client that has done all it was
  told can be noted as having declined a size: in the counterexample, one its hold was born with
  and that was never sent. The same property holds without `resize.sync` (`TakenAtItsWordAlone`),
  where every caller passes the answer whole.

## 4. What is proved

By TLAPS, for any constants that meet the named assumptions (`SessionLockAssumption`,
`LogindAssumption`, `LockAuthAssumption`, `ExplicitSyncAssumption`, `LiveResizeAssumption`: the sets
are sets, limits are at least one as the code's `max(1)` makes them, a subsurface's root is a root,
and the values that stand for `None` are not clients, entries, buffers, holds or answers).

**SessionLock_proofs.** `NoDesktopOnceLocked` is not inductive: that no monitor shows the desktop
rests on what was counted, and what was counted on what frames carry. `IInv` adds: a frame with the
lock's own id is not of the desktop unless an entry is under way (`Current`); a monitor counted
shows no desktop and has none coming (`Shown`); what counts as dark is dark and black
(`DarkIsBlack`); a monitor never plugged in shows nothing (`FreshIsBlack`); ids only grow
(`FramesAreIssued`); an entry is a native lock's that is still owed (`EntryIsOwed`). From it:
`TypeCorrect`, `ConfirmedHidesTheDesktop`, `ToldIsHolding`, `DarkIsDark`, `OnlyTheHolderUnlocks`,
`LockIsHeld`, with DRM faults, any number of monitors, clients and locks. `LockKeepsItsPromise` is
the refinement of `LockPromise`: a step that takes, ends or leaves the lock maps to the action of
that name, and all others, in which the holder stays what it is, to `Draw`, `ComeUp` or a stutter
(`HeldStepKeepsPromise`), by what `IInv` says before and after.

**LogindSleep_proofs.** `SleepImplementsTheLock`: every step of the composition is a step of
`SessionLock` or leaves its variables alone, so all of the above holds around sleep
(`ConfirmedHidesTheDesktopAroundSleep`, `PromiseKeptAroundSleep`). `SleepIsHeldForTheLock` is
`SleepWaitsForTheLock` for every configuration. The case that matters is the announcement
(`OnSleepImminentLetsGo`): the native lock is taken by the end of the step, and of a client's, what
is let go of was neither `Pending` nor `Started`, so with no lock there is no locker on its way.
`UnlockedIsHeld` is `HeldWhileUnlocked`. Its invariant counts refusals in the queue and says that an inhibitor is held, asked for, in
the queue, or a `Resume` that asks for one is (`HeldOrComing`); and, since one is let go of with no
lock only for a sleep, that with the machine awake every unread `Sleep`, and any deadline, has a
`Resume` behind it (`SleepsEnd`).

**LockAuth_proofs.** `Inv` ties three copies of an attempt by the serial: what is kept is kept
exactly while it is asked about (`Kept`), the check under way is of it (`OfTheEntry`), and an answer
carries an old serial, or the present one with no check left, and then a yes is right
(`AnswersAreRight`). `StreakIsShort` says where the streak may be at its limit. `CountsKeepUp` says
that the file, and what a PIN's check goes by, run behind the true count by no more than what could
not be saved. `PinFirst` carries what was typed as a PIN to its check. From it, all the safety
properties of the run: `OnlyTheSecretLeavesTheLock`, `SecretIsKeptWhileAsked`, `TheLockoutHolds`,
`PinGuessesAreBounded`, `NoPinIsGivenToPAM`, `LockAuthIsTypeCorrect`. `EntriesCountOnce` is the
refinement of `EntryPromise`, one lemma for each kind of step: an answer that counts is of the entry
at stake (`CountedIsAnswered`), so it ends it just once; a field that takes keys keeps nothing and
is short of its lockout, so `Submit` is an `Ask`; and a field with no lock is as new
(`HeldByTheLock`), so a crash without one is a stutter.

**ExplicitSync_proofs.** What must not happen, a signal while something reads, cannot be shown from
itself: a point may be owed by a queue far from any frame. `UseInv` follows each point from owner to
owner: a part that owes one is whole, of a new buffer, of a surface still there (`PartsAreWhole`);
no two parts owe the same (`OwedOnce`); what is owed is neither referenced nor signalled
(`OwedIsUnused`), what is referenced is not signalled, and nothing is left to the surface's state
by an import (`NothingLeftToDiscard`). `Survive` says what every step does to what is owed: each
point owed after it was owed before, by the same part one place further back at most, or is the
next. With `ShownIsActive` (what `snapshot` skips has no point) and `ReadsAreKept` this gives
`ReleasedOnlyWhenUnused`. `ReadyInv` adds why a wait that is lifted was over: a wait is registered,
or on its way, for the one surface that owes the point (`WaitsAreOwn`), and what is cancelled has
gone (`CancelledHaveGone`), its parts with it. It gives `ReadOnlyWhenReady`.

**ExplicitSync_promise.** The refinement of `BufferPromise`. `HandsOn` is what every step does to
the places of points, both ways: backwards from `Survive`, and forwards, that nothing owed is lost
(`CommitLosesNothing`, `DestroyLosesNothing`, `ApplyLosesNothing`: what a merge replaces is
signalled, what a surface takes with it too, and what the oldest transaction owes is then shown,
`OwedIsImported`). So `NoPointIsLost`: every point given out is owed, referenced or signalled, and
`BuffersGoAsPromised`. Here "never lost" is safety; that a point is signalled in the end is
`EveryReleaseComes`, checked by TLC.

**LiveResize_proofs.** A hold is born, carried, settled and let go by operators on one pane's
record, and a pass applies several of them to all panes. So the lemmas are of these operators, each
saying what it keeps (`Drawn`, `GoesOn`, `HeldAnew`), and are put together for `Settle` and `Pass`.
The invariant adds to the properties: a request waiting is of the drag under way
(`RequestIsOfTheDrag`), the pane dragged has no released hold of a drag before
(`DragHoldIsFresh`), only a pane of the round is waited for or kept back, and there are rounds under
`resize.sync` alone (`RoundsAreWhole`), a client that obeys has drawn what it acknowledged and
declined nothing (`ObedientDrawsWhatItAcks`), and a hold released asks what its client was told,
which is where its slot is or will be (`ReleasedIsTold`). From it `HoldsEndWithTheirDrag`,
`ObedienceIsSeen`, `TheEndIsTold`, `KeptBackByTheRoundAlone` and the action property
`RoundsLandTogether`.

**Only model-checked:** the liveness properties (`NativeLockConfirmed`, `SleepIsLetGo`, `FieldComesBack`,
`EveryReleaseComes`, `QueuesMove`, `EveryHoldEnds`, `EveryAnswerLands`), which need fairness and
`ENABLED`, out of the prover's reach. Every safety and action property of the passing runs is a
theorem. What the three violated runs show is a counterexample, not a theorem.

## 5. Not modelled, and why

The renderer, effects, QML, animation: pictures and real-valued curves. Lua's semantics, X servers,
Qt, PipeWire: not in the repository. `SetLockedHint`'s threads, the VT switch, the entry's scenes
beyond their end: candidates for after the plan below. Developer tools are not part of the running shell.

## 6. Plan

Done: the five models and the three abstract specifications, checked, with the theorems of each.

Next, in order:

1. `LockedSession`, which composes `SessionLock` and `LockAuth` through `native`, and the theorems
   it inherits: that it implements `LockPromise`, and that only the secret ends a native lock.
2. `LockKeyboard`: who has the keyboard through take, take-over, refusal, exclusive layers and
   release (`focus_lock`, `settle_lock_focus`); while locked only the locker's surfaces.
3. `LayoutTree`: insert, remove and resize as functions against a reference, with lemmas.
4. `Idle`: inhibitors over Wayland and D-Bus against idle notifications; then captures, cadence.

## Running

    tlasany LockAuth.tla
    tlc -workers 2 -config SessionLock_monitors.cfg MCSessionLock
    tlc -workers 2 -config LockAuth.cfg LockAuth
    tlc -workers 2 -config LiveResize.cfg MCLiveResize
    tlapm LockAuth_proofs.tla
    tlapm --threads 2 ExplicitSync_promise.tla

Every property of a passing run has a mutant in its module, a definition as a plausible bug would
have it (`PROJECT.json` says which replaces which): replaced by it, the property fails in that run.
