---------------------------- MODULE SessionLock ----------------------------
(***************************************************************************)
(* The session lock of the compositor (lock.rs), with what decides when it *)
(* is really up: the frames the tty backend builds, queues and flips on    *)
(* each monitor (tty.rs), the power of the monitors (power.rs) and the     *)
(* entry of the native lock's scenes (lock_scene.rs).                      *)
(*                                                                         *)
(* A lock is taken at once and confirmed later: `locked` is sent, and      *)
(* logind hears of it, only when every monitor that is not dark has        *)
(* flipped a frame built under this very lock.                             *)
(***************************************************************************)
EXTENDS Naturals, FiniteSets

CONSTANTS
    Outputs,      \* Output objects; a monitor plugged in again is another one
    InitOutputs,  \* the ones the session starts with
    Clients,      \* ext_session_lock_v1 objects, each asked for at most once
    MaxLocks,     \* bound: no lock is taken once this many frame ids are used
    Faults        \* whether a DRM call (queue, flip, switch off) may fail

ASSUME SessionLockAssumption ==
    /\ InitOutputs \subseteq Outputs
    /\ MaxLocks \in Nat
    /\ Faults \in BOOLEAN
    /\ "none" \notin Clients
    /\ "native" \notin Clients

VARIABLES
    holder,    \* Solium.lock: "none", "native", or the client's lock object
    object,    \* each client's lock object, as its client knows it
    owed,      \* Lock.owed: `locked` is still to be sent
    LOCKS,     \* the frame ids issued; the lock there is carries the last
    shown,     \* Lock.shown
    entry,     \* enter_until: none, not reached ("playing"), reached ("due")
    entering,  \* entering_on: monitors with the desktop under their scene
    there,     \* the outputs of the space
    used,      \* the outputs there are or have been
    off,       \* Power.off: asked to be off
    dark,      \* Power.dark: made dark, as far as the compositor knows
    lit,       \* Screen.lit: what the backend has done to the display
    flight,    \* the frame queued on each screen and not flipped yet
    screen,    \* what each display is showing
    due,       \* Screen.owed: skipped while busy, drawn at its flip
    redraw     \* Solium.redraw

lockVars == <<holder, object, owed, LOCKS, shown>>
entryVars == <<entry, entering>>
monitorVars == <<there, used, off, dark>>
backendVars == <<lit, flight, screen, due, redraw>>
vars == <<lockVars, entryVars, monitorVars, backendVars>>

NoFrame == [under |-> 0, pic |-> "none"]
Black == [under |-> 0, pic |-> "black"]
Frames == [under : Nat, pic : {"none", "desktop", "lock", "black"}]
Held == {"none", "native"} \cup Clients

TypeOK ==
    /\ holder \in Held
    /\ object \in [Clients -> {"unborn", "waiting", "locked", "refused", "gone"}]
    /\ owed \in BOOLEAN
    /\ LOCKS \in Nat
    /\ shown \subseteq Outputs
    /\ entry \in {"none", "playing", "due"}
    /\ entering \subseteq Outputs
    /\ there \subseteq Outputs
    /\ used \subseteq Outputs
    /\ off \subseteq there
    /\ dark \subseteq off
    /\ lit \in [Outputs -> {"On", "Blanked", "Dark"}]
    /\ flight \in [Outputs -> Frames]
    /\ screen \in [Outputs -> {"desktop", "lock", "black"}]
    /\ due \subseteq Outputs
    /\ redraw \in BOOLEAN

Init ==
    /\ holder = "none"
    /\ object = [c \in Clients |-> "unborn"]
    /\ owed = FALSE
    /\ LOCKS = 0
    /\ shown = {}
    /\ entry = "none"
    /\ entering = {}
    /\ there = InitOutputs
    /\ used = InitOutputs
    /\ off = {}
    /\ dark = {}
    /\ lit = [o \in Outputs |-> "On"]
    /\ flight = [o \in Outputs |-> NoFrame]
    /\ screen = [o \in Outputs |-> IF o \in InitOutputs THEN "desktop" ELSE "black"]
    /\ due = {}
    /\ redraw = FALSE

----------------------------------------------------------------------------
(* The lock. *)

\* Lock::abandoned: a client's lock whose object is gone. Never a native one.
Gone(h, obj) == h \in Clients /\ obj[h] = "gone"
Abandoned == Gone(holder, object)

\* Solium::lock_frame: the id a frame built now carries, 0 for none.
LockFrame == IF holder = "none" THEN 0 ELSE LOCKS

\* Mutant: the lock of a client that has gone still comes up.
ConfirmLockOfTheGone(h, ow, sh, obj, en, outs, drk) ==
    LET sent == /\ ow
                /\ ~(h = "native" /\ en # "none")
                /\ outs \ drk \subseteq sh
    IN  /\ owed' = (ow /\ ~sent)
        /\ shown' = IF sent THEN {} ELSE sh
        /\ object' = [c \in Clients |-> IF sent /\ c = h THEN "locked" ELSE obj[c]]

\* Solium::confirm_lock, told what the step has made of the state so far: it
\* sends `locked` if it is owed to a holder still there, no entry is under
\* way, and every monitor that is not dark has shown the lock.
ConfirmLock(h, ow, sh, obj, en, outs, drk) ==
    LET sent == /\ ow
                /\ ~Gone(h, obj)
                /\ ~(h = "native" /\ en # "none")
                /\ outs \ drk \subseteq sh
    IN  /\ owed' = (ow /\ ~sent)
        /\ shown' = IF sent THEN {} ELSE sh
        /\ object' = [c \in Clients |-> IF sent /\ c = h THEN "locked" ELSE obj[c]]

\* Solium::take_lock: locked at once, whoever holds it. An entry plays on the
\* monitors `on`: lit ones whose scene is not the fallback; {} is no entry.
TakeLock(h, obj, on) ==
    /\ LOCKS < MaxLocks
    /\ on \subseteq there \ dark
    /\ holder' = h
    /\ LOCKS' = LOCKS + 1
    /\ entering' = on
    /\ entry' = IF on = {} THEN "none" ELSE "playing"
    /\ redraw' = TRUE
    /\ ConfirmLock(h, TRUE, {}, obj, entry', there, dark)
    /\ UNCHANGED <<monitorVars, lit, flight, screen, due>>

\* Solium::release_lock, the half of unlocking that every holder shares.
ReleaseLock(obj) ==
    /\ holder' = "none"
    /\ owed' = FALSE
    /\ shown' = {}
    /\ object' = obj
    /\ entry' = "none"
    /\ entering' = {}
    /\ redraw' = TRUE
    /\ UNCHANGED <<LOCKS, monitorVars, lit, flight, screen, due>>

\* Mutant: a second client takes over from one that is still there.
TakeableFromTheLiving == TRUE

\* Whether a lock asked for now would be taken rather than refused.
Takeable == holder = "none" \/ Abandoned

\* SessionLockHandler::lock: taken, taken over from a holder that has gone,
\* or answered `finished`.
ClientLock(c) ==
    /\ object[c] = "unborn"
    /\ IF Takeable
       THEN TakeLock(c, [object EXCEPT ![c] = "waiting"], {})
       ELSE /\ object' = [object EXCEPT ![c] = "refused"]
            /\ UNCHANGED <<holder, owed, LOCKS, shown, entryVars, monitorVars, backendVars>>

\* Mutant: an unlock before `locked` was sent is acted on.
ClientUnlockBeforeLocked(c) ==
    /\ object[c] \in {"waiting", "locked", "refused"}
    /\ IF holder = c
       THEN ReleaseLock([object EXCEPT ![c] = "gone"])
       ELSE /\ object' = [object EXCEPT ![c] = "gone"]
            /\ UNCHANGED <<holder, owed, LOCKS, shown, entryVars, monitorVars, backendVars>>

\* unlock_and_destroy: the holder's, once told `locked`, unlocks; any other
\* is invalid_unlock, which throws the client off, and unlocks nothing.
ClientUnlock(c) ==
    /\ object[c] \in {"waiting", "locked", "refused"}
    /\ IF holder = c /\ ~owed
       THEN ReleaseLock([object EXCEPT ![c] = "gone"])
       ELSE /\ object' = [object EXCEPT ![c] = "gone"]
            /\ redraw' = (redraw \/ holder = c)
            /\ UNCHANGED <<holder, owed, LOCKS, shown, entryVars, monitorVars,
                           lit, flight, screen, due>>

\* Dispatch::destroyed without an unlock: the client crashed, was thrown off,
\* or gave up. The session stays locked, by nobody.
ClientGoes(c) ==
    /\ object[c] \in {"waiting", "locked", "refused"}
    /\ object' = [object EXCEPT ![c] = "gone"]
    /\ redraw' = (redraw \/ holder = c)
    /\ UNCHANGED <<holder, owed, LOCKS, shown, entryVars, monitorVars,
                   lit, flight, screen, due>>

\* Mutant: Solium's own lock takes over from whoever holds the session.
LockNativelyOverAll ==
    \E on \in SUBSET (there \ dark) : TakeLock("native", object, on)

\* Solium::lock_natively: nothing over a lock whose holder is still there.
LockNatively ==
    /\ Takeable
    /\ \E on \in SUBSET (there \ dark) : TakeLock("native", object, on)

\* Mutant: the end of an entry does not renew the lock's frame id.
EndLockEntryUnrenewed ==
    /\ entry' = "none"
    /\ entering' = {}
    /\ redraw' = TRUE
    /\ ConfirmLock(holder, owed, shown, object, "none", there, dark)
    /\ UNCHANGED <<holder, LOCKS, monitorVars, lit, flight, screen, due>>

\* Mutant: the end of an entry asks for no frame.
EndLockEntryUndrawn ==
    /\ entry' = "none"
    /\ entering' = {}
    /\ LOCKS' = LOCKS + 1
    /\ ConfirmLock(holder, owed, {}, object, "none", there, dark)
    /\ UNCHANGED <<holder, monitorVars, backendVars>>

\* Solium::end_lock_entry: frames built from here on carry a new id, and
\* `locked` waits for every monitor to show one of those.
EndLockEntry ==
    /\ entry' = "none"
    /\ entering' = {}
    /\ LOCKS' = LOCKS + 1
    /\ redraw' = TRUE
    /\ ConfirmLock(holder, owed, {}, object, "none", there, dark)
    /\ UNCHANGED <<holder, monitorVars, lit, flight, screen, due>>

\* Solium::lock_natively_at_once: cuts an entry short, or locks with none.
LockAtOnce ==
    IF holder = "native" /\ entry # "none"
    THEN EndLockEntry
    ELSE Takeable /\ TakeLock("native", object, {})

\* Solium::unlock_natively: the password's yes, or logind's Unlock.
UnlockNatively == holder = "native" /\ ReleaseLock(object)

\* The clock reaches the entry's bound...
EntryReached ==
    /\ entry = "playing"
    /\ entry' = "due"
    /\ UNCHANGED <<lockVars, entering, monitorVars, backendVars>>

\* ...and lock_scene::settle, once a loop, sees it.
SettleEntry == entry = "due" /\ EndLockEntry

----------------------------------------------------------------------------
(* The monitors: power.rs and the hotplug. *)

\* Mutant: a monitor asked back on is still counted as dark.
SetPowerStillDark(o, on) ==
    /\ o \in there
    /\ on = (o \in off)
    /\ off' = IF on THEN off \ {o} ELSE off \cup {o}
    /\ redraw' = TRUE
    /\ UNCHANGED <<lockVars, entryVars, there, used, dark, lit, flight, screen, due>>

\* Mutant: a monitor asked to be off counts as dark before the backend says so.
SetPowerDarkAtOnce(o, on) ==
    /\ o \in there
    /\ on = (o \in off)
    /\ off' = IF on THEN off \ {o} ELSE off \cup {o}
    /\ dark' = IF on THEN dark \ {o} ELSE dark \cup {o}
    /\ redraw' = TRUE
    /\ UNCHANGED <<lockVars, entryVars, there, used, lit, flight, screen, due>>

\* Solium::set_power, from a script, the power protocol or the idle blank.
\* A monitor asked back on is not dark from this moment.
SetPower(o, on) ==
    /\ o \in there
    /\ on = (o \in off)
    /\ off' = IF on THEN off \ {o} ELSE off \cup {o}
    /\ dark' = dark \ {o}
    /\ redraw' = TRUE
    /\ UNCHANGED <<lockVars, entryVars, there, used, lit, flight, screen, due>>

\* Solium::wake_screens: input turns every screen back on.
WakeScreens ==
    /\ off # {}
    /\ off' = {}
    /\ dark' = {}
    /\ redraw' = TRUE
    /\ UNCHANGED <<lockVars, entryVars, there, used, lit, flight, screen, due>>

\* State::resync_screens: the screens that went are dropped, the new ones
\* added, and then Solium::settle_monitors runs once for all of them. The
\* entry knows its monitors by name, so one lit again in the same pass, with
\* another mode say, is another Output that keeps its place in it (`relit`).
Resync(went, came, relit) ==
    /\ went \subseteq there
    /\ came \subseteq Outputs \ used
    /\ relit \subseteq came
    /\ Cardinality(relit) <= Cardinality(entering \cap went)
    /\ went \cup came # {}
    /\ there' = (there \ went) \cup came
    /\ used' = used \cup came
    /\ off' = off \ went
    /\ dark' = dark \ went
    /\ entering' = (entering \ went) \cup relit
    /\ flight' = [o \in Outputs |-> IF o \in went THEN NoFrame ELSE flight[o]]
    /\ screen' = [o \in Outputs |-> IF o \in went THEN "black" ELSE screen[o]]
    /\ lit' = [o \in Outputs |-> IF o \in went THEN "On" ELSE lit[o]]
    /\ due' = there'
    /\ redraw' = TRUE
    /\ ConfirmLock(holder, owed, shown, object, entry, there', dark')
    /\ UNCHANGED <<holder, LOCKS, entry>>

----------------------------------------------------------------------------
(* The backend: tty.rs. *)

\* power::step: what is done with a monitor this pass.
Step(o) ==
    CASE o \notin off /\ lit[o] = "On" -> "Draw"
      [] o \notin off /\ lit[o] # "On" -> "Wake"
      [] o \in off /\ lit[o] = "On" -> "Blank"
      [] o \in off /\ lit[o] = "Blanked" -> "Darken"
      [] OTHER -> "Rest"

\* Screen::ready: its flip is not pending.
Ready == {o \in there : flight[o] = NoFrame}

\* Solium::desktop_under_lock, for a frame of the screen.
DesktopUnder(o) == holder = "native" /\ entry = "playing" /\ o \in entering

\* render::elements: while locked, the lock and nothing else but the desktop
\* under a scene that is still coming down.
Picture(o) ==
    [under |-> LockFrame,
     pic |-> IF holder = "none" \/ DesktopUnder(o) THEN "desktop" ELSE "lock"]

\* Something to draw: a client's commit, an animation.
Damage ==
    /\ ~redraw
    /\ redraw' = TRUE
    /\ UNCHANGED <<lockVars, entryVars, monitorVars, lit, flight, screen, due>>

\* State::render: one pass over the screens. On `failed` the DRM call did not
\* go through, or, unlocked, there was nothing to queue; on `broke` the lock
\* scene failed to draw, and its stand-in covers from the next frame
\* (LockScenes::after_draw). A screen whose flip is pending is due again.
Render ==
    /\ Ready # {}
    /\ redraw \/ due \cap Ready # {}
    /\ LET drawn == {o \in Ready : Step(o) \in {"Draw", "Wake"}}
           blanked == {o \in Ready : Step(o) = "Blank"}
           darkened == {o \in Ready : Step(o) = "Darken"}
           mayFail == IF Faults THEN drawn \cup blanked \cup darkened
                      ELSE IF holder = "none"
                           THEN {o \in drawn : Step(o) = "Draw"} ELSE {}
           mayBreak == IF holder = "native" THEN drawn \cap entering ELSE {}
       IN \E failed \in SUBSET mayFail, broke \in SUBSET mayBreak :
            /\ flight' = [o \in Outputs |->
                 IF o \in drawn \ failed THEN Picture(o)
                 ELSE IF o \in blanked \ failed THEN [Black EXCEPT !.under = LockFrame]
                 ELSE flight[o]]
            /\ lit' = [o \in Outputs |->
                 IF o \in drawn \cup (failed \cap (blanked \cup darkened)) THEN "On"
                 ELSE IF o \in blanked THEN "Blanked"
                 ELSE IF o \in darkened THEN "Dark"
                 ELSE lit[o]]
            /\ screen' = [o \in Outputs |->
                 IF o \in darkened \ failed THEN "black" ELSE screen[o]]
            /\ due' = (there \ Ready) \cup blanked
            /\ off' = off \ (darkened \cap failed)
            /\ dark' = (dark \ (darkened \cap failed)) \cup (darkened \ failed)
            /\ entering' = entering \ broke
            /\ redraw' = \/ failed \cap (blanked \cup darkened) # {}
                         \/ broke # {}
                         \/ \E o \in drawn : DesktopUnder(o)
            /\ IF darkened \subseteq failed
               THEN UNCHANGED <<owed, shown, object>>
               ELSE ConfirmLock(holder, owed, shown, object, entry, there, dark')
            /\ UNCHANGED <<holder, LOCKS, entry, there, used>>

\* Mutant: any flip while locking counts, whatever the frame was built under.
VBlankCountsAnyFrame(o) ==
    /\ flight[o] # NoFrame
    /\ screen' = [screen EXCEPT ![o] = flight[o].pic]
    /\ flight' = [flight EXCEPT ![o] = NoFrame]
    /\ ConfirmLock(holder, owed, shown \cup {o}, object, entry, there, dark)
    /\ UNCHANGED <<holder, LOCKS, entryVars, monitorVars, lit, due, redraw>>

\* A page flip: the frame is on the screen, and Solium::frame_presented counts
\* it if it was built under the lock there is now. The DRM compositor may not
\* accept it (frame_submitted), and then it counts for nothing.
VBlank(o) ==
    /\ flight[o] # NoFrame
    /\ screen' = [screen EXCEPT ![o] = flight[o].pic]
    /\ flight' = [flight EXCEPT ![o] = NoFrame]
    /\ \E accepted \in {TRUE, ~Faults} :
         IF accepted /\ holder # "none" /\ owed /\ flight[o].under = LOCKS
         THEN ConfirmLock(holder, owed, shown \cup {o}, object, entry, there, dark)
         ELSE UNCHANGED <<owed, shown, object>>
    /\ UNCHANGED <<holder, LOCKS, entryVars, monitorVars, lit, due, redraw>>

----------------------------------------------------------------------------

LockStep ==
    \/ \E c \in Clients : ClientLock(c) \/ ClientUnlock(c) \/ ClientGoes(c)
    \/ LockNatively \/ LockAtOnce \/ UnlockNatively
    \/ EntryReached \/ SettleEntry

MonitorStep ==
    \/ \E o \in Outputs, on \in BOOLEAN : SetPower(o, on)
    \/ WakeScreens
    \/ \E went \in SUBSET there, came \in SUBSET (Outputs \ used) :
         \E relit \in SUBSET came : Resync(went, came, relit)

BackendStep == Damage \/ Render \/ \E o \in Outputs : VBlank(o)

Next == LockStep \/ MonitorStep \/ BackendStep

Spec == Init /\ [][Next]_vars

\* The loop turns, the clock runs, and the kernel flips what is queued.
Fairness ==
    /\ WF_vars(EntryReached)
    /\ WF_vars(SettleEntry)
    /\ WF_vars(Render)
    /\ \A o \in Outputs : WF_vars(VBlank(o))

FairSpec == Spec /\ Fairness

----------------------------------------------------------------------------
(* Properties. *)

\* Once `locked` has been sent, no monitor shows the desktop and no frame on
\* its way to one does: the entry, a flip already in flight at the lock, a
\* monitor switched off or on, and one plugged in, all included (confirm_lock).
NoDesktopOnceLocked ==
    holder # "none" /\ ~owed =>
        \A o \in there : screen[o] # "desktop" /\ flight[o].pic # "desktop"

\* `locked` is told to one lock object at a time, the one that holds the
\* session, and to it exactly when the lock no longer owes it: a second
\* client, refused or taking over, never counts on a lock it does not have.
OnlyTheHolderIsTold ==
    \A c \in Clients : (object[c] = "locked") => (holder = c /\ ~owed)

\* A monitor counted as dark shows nothing and has nothing coming: what is
\* not waited for cannot be showing the desktop (Solium::output_dark).
DarkShowsNothing ==
    \A o \in dark : screen[o] = "black" /\ flight[o] = NoFrame

\* The session is unlocked by the native way, or by the client that holds it
\* and was told `locked`; a holder that went never unlocks by going.
UnlockedByItsHolder ==
    [][holder # "none" /\ holder' = "none" =>
         holder = "native" \/ object[holder] = "locked"]_vars

\* The lock changes hands only from one that is none or has gone, and a
\* confirmed one stays confirmed while it is held.
HeldUntilReleased ==
    [][/\ holder' # holder => holder' = "none" \/ Takeable
       /\ holder' = holder /\ holder # "none" /\ ~owed => ~owed']_vars

\* The monitors the desktop is on, or on its way to in a queued frame.
Exposed == {o \in there : screen[o] = "desktop" \/ flight[o].pic = "desktop"}

Promise == INSTANCE LockPromise WITH
    Monitors <- Outputs,
    Lockers <- Clients,
    up <- holder # "none" /\ ~owed,
    gone <- Abandoned,
    exposed <- Exposed

\* All of it together, frames, power, entries and plugging abstracted away,
\* is the lock LockPromise describes: one holder, a desktop gone from every
\* monitor from the moment its holder is told, a lock that never comes up
\* once its holder has gone, and no way out but its holder's.
KeepsItsPromise == Promise!Spec

\* A native lock is confirmed in the end, while every monitor stays on: no
\* frame it waits for is left undrawn (redraw, Screen.owed), whatever comes
\* and goes, and its entry ends whatever its scenes do.
NativeLockConfirmed ==
    (holder = "native" /\ owed) ~> (holder # "native" \/ ~owed \/ off # {})

\* What a lock owes when nothing but switched-off displays is left to show it.
OnlyTheDarkAreLeft ==
    /\ holder # "none" /\ owed /\ ~Abandoned /\ entry = "none"
    /\ \A o \in there : o \in shown \/ (o \in off /\ lit[o] = "Dark")

\* power.rs says of a dark monitor that "it counts as having shown the lock":
\* no lock waits for ever for monitors whose displays are switched off.
DarkIsNotWaitedFor == OnlyTheDarkAreLeft ~> ~OnlyTheDarkAreLeft

=============================================================================
