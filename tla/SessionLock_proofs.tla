------------------------- MODULE SessionLock_proofs -------------------------
(***************************************************************************)
(* Proofs about SessionLock, for any sets of monitors and lock objects.    *)
(*                                                                         *)
(* That no confirmed lock leaves the desktop on a monitor is not inductive *)
(* by itself: it rests on what a frame says of the lock it was built under *)
(* (Current), on what being counted as shown means (Shown), on what being  *)
(* dark means (DarkIsBlack), and on there being no entry under way once    *)
(* `locked` is sent (EntryIsOwed). IInv is all of it together.             *)
(***************************************************************************)
EXTENDS SessionLock, TLAPS

Objects == {"unborn", "waiting", "locked", "refused", "gone"}

\* A display switched off shows black, and nothing is on its way to it; and a
\* monitor the compositor counts as dark is one the backend switched off.
DarkIsBlack ==
    /\ \A o \in Outputs : lit[o] = "Dark" => flight[o] = NoFrame /\ screen[o] = "black"
    /\ \A o \in dark : lit[o] = "Dark"

\* A monitor never plugged in yet has nothing on it.
FreshIsBlack ==
    /\ there \subseteq used
    /\ \A o \in Outputs \ used : flight[o] = NoFrame /\ screen[o] = "black"

\* A frame carries an id already issued, and a picture.
FramesAreIssued ==
    \A o \in Outputs :
        flight[o].under <= LOCKS /\ (flight[o] # NoFrame => flight[o].pic # "none")

\* A frame that carries the lock's own id does not show the desktop, unless
\* it is one of an entry's.
Current ==
    holder # "none" /\ entry = "none" =>
        \A o \in Outputs : flight[o].under = LOCKS => flight[o].pic # "desktop"

\* A monitor counted as having shown the lock has no desktop on it or coming.
Shown ==
    holder # "none" /\ entry = "none" =>
        \A o \in shown : screen[o] # "desktop" /\ flight[o].pic # "desktop"

\* An entry is a native lock's, and one that still owes `locked`.
EntryIsOwed == entry # "none" => holder = "native" /\ owed

\* A client that holds the session asked for it, and was told once it is up.
HolderAsked ==
    \A c \in Clients : holder = c =>
        /\ object[c] \in {"waiting", "locked", "gone"}
        /\ ~owed => object[c] \in {"locked", "gone"}

IInv ==
    /\ TypeOK
    /\ DarkIsBlack
    /\ FreshIsBlack
    /\ FramesAreIssued
    /\ Current
    /\ Shown
    /\ EntryIsOwed
    /\ HolderAsked
    /\ OnlyTheHolderIsTold
    /\ NoDesktopOnceLocked

USE SessionLockAssumption

-----------------------------------------------------------------------------

\* The initial state, with nothing locked, satisfies the invariant.
LEMMA InitIInv == Init => IInv
<1> SUFFICES ASSUME Init PROVE IInv
  OBVIOUS
<1>1. TypeOK
  BY DEF Init, TypeOK, Held, Frames, NoFrame
<1>2. DarkIsBlack /\ FreshIsBlack
  BY DEF Init, DarkIsBlack, FreshIsBlack
<1>3. FramesAreIssued
  BY DEF Init, FramesAreIssued, NoFrame
<1>4. Current /\ Shown /\ EntryIsOwed /\ HolderAsked
  BY DEF Init, Current, Shown, EntryIsOwed, HolderAsked
<1>5. OnlyTheHolderIsTold /\ NoDesktopOnceLocked
  BY DEF Init, OnlyTheHolderIsTold, NoDesktopOnceLocked
<1> QED
  BY <1>1, <1>2, <1>3, <1>4, <1>5 DEF IInv

\* Taking a lock that may be taken keeps the invariant: no frame built before
\* it carries its id, and nothing is counted as shown.
LEMMA TakeLockKeepsIInv ==
  ASSUME IInv, Takeable,
         NEW h \in {"native"} \cup Clients, NEW on \in SUBSET Outputs,
         NEW obj \in [Clients -> Objects],
         h \in Clients => obj[h] = "waiting" /\ on = {} /\ object[h] = "unborn",
         \A c \in Clients : c # h => obj[c] = object[c],
         TakeLock(h, obj, on)
  PROVE  IInv'
<1> DEFINE sent == ~(h = "native" /\ entry' # "none") /\ there \ dark \subseteq {}
<1>1. /\ holder' = h /\ LOCKS' = LOCKS + 1 /\ redraw' = TRUE
      /\ entry' = IF on = {} THEN "none" ELSE "playing"
      /\ entering' = on
      /\ UNCHANGED <<there, used, off, dark, lit, flight, screen, due>>
  BY DEF TakeLock, monitorVars
<1>2. ~Gone(h, obj)
  BY DEF Gone
<1>3. /\ owed' = ~sent /\ shown' = {}
      /\ object' = [c \in Clients |-> IF sent /\ c = h THEN "locked" ELSE obj[c]]
  BY <1>2 DEF TakeLock, ConfirmLock
<1> HIDE DEF sent
<1>4. TypeOK'
  <2>1. sent \in BOOLEAN
    BY DEF sent
  <2>2. object' \in [Clients -> Objects]
    BY <1>3, <2>1 DEF Objects
  <2> QED
    BY <1>1, <1>3, <2>1, <2>2 DEF IInv, TypeOK, Held, Objects
<1>5. DarkIsBlack' /\ FreshIsBlack'
  BY <1>1 DEF IInv, DarkIsBlack, FreshIsBlack
<1>6. FramesAreIssued' /\ Current'
  BY <1>1 DEF IInv, TypeOK, Frames, FramesAreIssued, Current
<1>7. Shown'
  BY <1>3 DEF Shown
<1>8. EntryIsOwed'
  BY <1>1, <1>3 DEF EntryIsOwed, sent
<1>9. \A c \in Clients : object[c] # "locked"
  BY DEF IInv, OnlyTheHolderIsTold, Takeable, Abandoned, Gone
<1>10. OnlyTheHolderIsTold' /\ HolderAsked'
  BY <1>1, <1>3, <1>9 DEF OnlyTheHolderIsTold, HolderAsked
<1>11. NoDesktopOnceLocked'
  <2> SUFFICES ASSUME ~owed', NEW o \in there
               PROVE  screen'[o] # "desktop" /\ flight'[o].pic # "desktop"
    BY <1>1 DEF NoDesktopOnceLocked
  <2>1. o \in dark
    BY <1>3 DEF sent
  <2> QED
    BY <2>1, <1>1 DEF IInv, TypeOK, DarkIsBlack, NoFrame
<1> QED
  BY <1>4, <1>5, <1>6, <1>7, <1>8, <1>10, <1>11 DEF IInv

\* The rest of the lock's own steps: giving it up...
LEMMA ReleaseLockKeepsIInv ==
  ASSUME IInv, NEW obj \in [Clients -> Objects],
         \A c \in Clients : obj[c] # "locked",
         ReleaseLock(obj)
  PROVE  IInv'
<1>1. /\ holder' = "none" /\ owed' = FALSE /\ shown' = {} /\ object' = obj
      /\ entry' = "none" /\ entering' = {} /\ redraw' = TRUE
      /\ UNCHANGED <<LOCKS, there, used, off, dark, lit, flight, screen, due>>
  BY DEF ReleaseLock, monitorVars
<1>2. TypeOK'
  BY <1>1 DEF IInv, TypeOK, Held, Objects
<1>3. DarkIsBlack' /\ FreshIsBlack' /\ FramesAreIssued'
  BY <1>1 DEF IInv, DarkIsBlack, FreshIsBlack, FramesAreIssued
<1>4. Current' /\ Shown' /\ EntryIsOwed' /\ HolderAsked'
  BY <1>1 DEF Current, Shown, EntryIsOwed, HolderAsked
<1>5. OnlyTheHolderIsTold' /\ NoDesktopOnceLocked'
  BY <1>1 DEF OnlyTheHolderIsTold, NoDesktopOnceLocked
<1> QED
  BY <1>2, <1>3, <1>4, <1>5 DEF IInv

\* ...and ending its entry, after which only frames with a new id count.
LEMMA EndLockEntryKeepsIInv ==
  ASSUME IInv, entry # "none", EndLockEntry
  PROVE  IInv'
<1> DEFINE sent == there \ dark \subseteq {}
<1>1. /\ entry' = "none" /\ entering' = {} /\ LOCKS' = LOCKS + 1 /\ redraw' = TRUE
      /\ UNCHANGED <<holder, there, used, off, dark, lit, flight, screen, due>>
  BY DEF EndLockEntry, monitorVars
<1>2. holder = "native" /\ owed
  BY DEF IInv, EntryIsOwed
<1>3. owed' = ~sent /\ shown' = {} /\ object' = object
  BY <1>2 DEF EndLockEntry, ConfirmLock, Gone, IInv, TypeOK
<1>4. TypeOK'
  BY <1>1, <1>3 DEF IInv, TypeOK
<1>5. DarkIsBlack' /\ FreshIsBlack'
  BY <1>1 DEF IInv, DarkIsBlack, FreshIsBlack
<1>6. FramesAreIssued' /\ Current'
  BY <1>1 DEF IInv, TypeOK, Frames, FramesAreIssued, Current
<1>7. Shown' /\ EntryIsOwed' /\ HolderAsked'
  BY <1>1, <1>2, <1>3 DEF Shown, EntryIsOwed, HolderAsked
<1>8. OnlyTheHolderIsTold'
  BY <1>1, <1>2, <1>3 DEF IInv, OnlyTheHolderIsTold
<1>9. NoDesktopOnceLocked'
  <2> SUFFICES ASSUME ~owed', NEW o \in there
               PROVE  screen'[o] # "desktop" /\ flight'[o].pic # "desktop"
    BY <1>1 DEF NoDesktopOnceLocked
  <2>1. o \in dark
    BY <1>3
  <2> QED
    BY <2>1, <1>1 DEF IInv, TypeOK, DarkIsBlack, NoFrame
<1> QED
  BY <1>4, <1>5, <1>6, <1>7, <1>8, <1>9 DEF IInv

\* Asking whether the lock the session has is up: its holder is told, and only
\* its holder, if `sent`, for which there must be no entry under way.
LEMMA ConfirmLockTells ==
  ASSUME IInv, NEW sent \in BOOLEAN, NEW sh \in SUBSET Outputs,
         holder' = holder, entry' = entry,
         sent => owed /\ ~Gone(holder, object) /\ ~(holder = "native" /\ entry # "none"),
         owed' = (owed /\ ~sent),
         shown' = IF sent THEN {} ELSE sh,
         object' = [c \in Clients |-> IF sent /\ c = holder THEN "locked" ELSE object[c]]
  PROVE  /\ owed' \in BOOLEAN
         /\ shown' \in {sh, {}}
         /\ object' \in [Clients -> Objects]
         /\ EntryIsOwed' /\ HolderAsked' /\ OnlyTheHolderIsTold'
         /\ owed' => owed
         /\ owed /\ ~owed' => sent /\ entry = "none"
<1>1. owed \in BOOLEAN
  BY DEF IInv, TypeOK
<1>2. sent => entry = "none"
  BY DEF IInv, EntryIsOwed
<1>3. owed' \in BOOLEAN /\ shown' \in {sh, {}} /\ (owed' => owed)
  BY <1>1
<1>4. object' \in [Clients -> Objects]
  BY DEF IInv, TypeOK, Objects
<1>5. EntryIsOwed'
  BY <1>1, <1>2 DEF IInv, EntryIsOwed
<1>6. OnlyTheHolderIsTold'
  BY <1>1 DEF IInv, OnlyTheHolderIsTold
<1>7. HolderAsked'
  BY <1>1 DEF IInv, HolderAsked, Gone
<1>8. owed /\ ~owed' => sent /\ entry = "none"
  BY <1>1, <1>2
<1> QED
  BY <1>3, <1>4, <1>5, <1>6, <1>7, <1>8

-----------------------------------------------------------------------------
(* One lemma per part of the next-state relation. *)

\* What clients, Solium's own lock and the clock do to the lock.
LEMMA LockStepKeepsIInv == IInv /\ LockStep => IInv'
<1> SUFFICES ASSUME IInv, LockStep PROVE IInv'
  OBVIOUS
<1>1. ASSUME NEW c \in Clients, ClientLock(c) PROVE IInv'
  <2>1. CASE Takeable
    <3> DEFINE obj == [object EXCEPT ![c] = "waiting"]
    <3>1. TakeLock(c, obj, {}) /\ object[c] = "unborn"
      BY <1>1, <2>1 DEF ClientLock
    <3>2. obj \in [Clients -> Objects] /\ obj[c] = "waiting"
      BY DEF IInv, TypeOK, Objects
    <3>3. \A k \in Clients : k # c => obj[k] = object[k]
      BY DEF IInv, TypeOK
    <3>4. c \in {"native"} \cup Clients /\ {} \in SUBSET Outputs
      OBVIOUS
    <3> HIDE DEF obj
    <3> QED
      BY <2>1, <3>1, <3>2, <3>3, <3>4, TakeLockKeepsIInv
  <2>2. CASE ~Takeable
    <3>1. /\ object[c] = "unborn"
          /\ object' = [object EXCEPT ![c] = "refused"]
          /\ UNCHANGED <<holder, owed, LOCKS, shown, entry, entering, there, used, off, dark,
                          lit, flight, screen, due, redraw>>
      BY <1>1, <2>2 DEF ClientLock, entryVars, monitorVars, backendVars
    <3>2. TypeOK'
      BY <3>1 DEF IInv, TypeOK
    <3>3. /\ DarkIsBlack' /\ FreshIsBlack' /\ FramesAreIssued' /\ Current' /\ Shown'
          /\ EntryIsOwed' /\ NoDesktopOnceLocked'
      BY <3>1 DEF IInv, DarkIsBlack, FreshIsBlack, FramesAreIssued, Current, Shown,
                  EntryIsOwed, NoDesktopOnceLocked
    <3>4. HolderAsked' /\ OnlyTheHolderIsTold'
      BY <3>1 DEF IInv, TypeOK, HolderAsked, OnlyTheHolderIsTold
    <3> QED
      BY <3>2, <3>3, <3>4 DEF IInv
  <2> QED
    BY <2>1, <2>2
<1>2. ASSUME NEW c \in Clients,
             /\ object' = [object EXCEPT ![c] = "gone"]
             /\ redraw' \in BOOLEAN
             /\ UNCHANGED <<holder, owed, LOCKS, shown, entry, entering, there, used, off, dark,
                             lit, flight, screen, due>>
      PROVE IInv'
  <2>1. TypeOK'
    BY <1>2 DEF IInv, TypeOK
  <2>2. /\ DarkIsBlack' /\ FreshIsBlack' /\ FramesAreIssued' /\ Current' /\ Shown'
        /\ EntryIsOwed' /\ NoDesktopOnceLocked'
    BY <1>2 DEF IInv, DarkIsBlack, FreshIsBlack, FramesAreIssued, Current, Shown,
                EntryIsOwed, NoDesktopOnceLocked
  <2>3. HolderAsked' /\ OnlyTheHolderIsTold'
    BY <1>2 DEF IInv, TypeOK, HolderAsked, OnlyTheHolderIsTold
  <2> QED
    BY <2>1, <2>2, <2>3 DEF IInv
<1>3. ASSUME NEW c \in Clients, ClientUnlock(c) PROVE IInv'
  <2>1. CASE holder = c /\ ~owed
    <3> DEFINE obj == [object EXCEPT ![c] = "gone"]
    <3>1. ReleaseLock(obj)
      BY <1>3, <2>1 DEF ClientUnlock
    <3>2. obj \in [Clients -> Objects] /\ \A k \in Clients : obj[k] # "locked"
      BY <2>1 DEF IInv, TypeOK, Objects, OnlyTheHolderIsTold
    <3> HIDE DEF obj
    <3> QED
      BY <3>1, <3>2, ReleaseLockKeepsIInv
  <2>2. CASE ~(holder = c /\ ~owed)
    BY <1>2, <1>3, <2>2 DEF ClientUnlock, IInv, TypeOK, entryVars, monitorVars
  <2> QED
    BY <2>1, <2>2
<1>4. ASSUME NEW c \in Clients, ClientGoes(c) PROVE IInv'
  BY <1>2, <1>4 DEF ClientGoes, IInv, TypeOK, entryVars, monitorVars
<1>5. ASSUME NEW on \in SUBSET Outputs, Takeable, TakeLock("native", object, on) PROVE IInv'
  <2>1. object \in [Clients -> Objects] /\ "native" \in {"native"} \cup Clients
    BY DEF IInv, TypeOK, Objects
  <2> QED
    BY <1>5, <2>1, TakeLockKeepsIInv
<1>6. CASE LockNatively
  <2>1. PICK on \in SUBSET (there \ dark) : Takeable /\ TakeLock("native", object, on)
    BY <1>6 DEF LockNatively
  <2>2. on \in SUBSET Outputs
    BY DEF IInv, TypeOK
  <2> QED
    BY <1>5, <2>1, <2>2
<1>7. CASE LockAtOnce
  <2>1. CASE holder = "native" /\ entry # "none"
    BY <1>7, <2>1, EndLockEntryKeepsIInv DEF LockAtOnce
  <2>2. CASE ~(holder = "native" /\ entry # "none")
    BY <1>5, <1>7, <2>2 DEF LockAtOnce
  <2> QED
    BY <2>1, <2>2
<1>8. CASE UnlockNatively
  <2>1. object \in [Clients -> Objects] /\ \A k \in Clients : object[k] # "locked"
    BY <1>8 DEF UnlockNatively, IInv, TypeOK, Objects, OnlyTheHolderIsTold
  <2> QED
    BY <1>8, <2>1, ReleaseLockKeepsIInv DEF UnlockNatively
<1>9. CASE EntryReached
  <2>1. /\ entry = "playing" /\ entry' = "due"
        /\ UNCHANGED <<holder, object, owed, LOCKS, shown, entering, there, used, off, dark,
                        lit, flight, screen, due, redraw>>
    BY <1>9 DEF EntryReached, lockVars, monitorVars, backendVars
  <2>2. TypeOK'
    BY <2>1 DEF IInv, TypeOK
  <2> QED
    BY <2>1, <2>2 DEF IInv, DarkIsBlack, FreshIsBlack, FramesAreIssued, Current, Shown,
                      EntryIsOwed, HolderAsked, OnlyTheHolderIsTold, NoDesktopOnceLocked
<1>10. CASE SettleEntry
  BY <1>10, EndLockEntryKeepsIInv DEF SettleEntry
<1> QED
  BY <1>1, <1>3, <1>4, <1>6, <1>7, <1>8, <1>9, <1>10 DEF LockStep

\* What switches monitors off and on, and what plugs them in and out.
LEMMA MonitorStepKeepsIInv == IInv /\ MonitorStep => IInv'
<1> SUFFICES ASSUME IInv, MonitorStep PROVE IInv'
  OBVIOUS
<1>1. ASSUME off' \subseteq there, dark' \subseteq dark, dark' \subseteq off',
             redraw' = TRUE,
             UNCHANGED <<lockVars, entryVars, there, used, lit, flight, screen, due>>
      PROVE IInv'
  <2>1. UNCHANGED <<holder, object, owed, LOCKS, shown, entry, entering>>
    BY <1>1 DEF lockVars, entryVars
  <2>2. TypeOK'
    BY <1>1, <2>1 DEF IInv, TypeOK
  <2> QED
    BY <1>1, <2>1, <2>2
    DEF IInv, DarkIsBlack, FreshIsBlack, FramesAreIssued, Current, Shown,
        EntryIsOwed, HolderAsked, OnlyTheHolderIsTold, NoDesktopOnceLocked
<1>2. ASSUME NEW o \in Outputs, NEW on \in BOOLEAN, SetPower(o, on) PROVE IInv'
  BY <1>1, <1>2 DEF SetPower, IInv, TypeOK
<1>3. CASE WakeScreens
  BY <1>1, <1>3 DEF WakeScreens
<1>4. ASSUME NEW went \in SUBSET there, NEW came \in SUBSET (Outputs \ used),
             NEW relit \in SUBSET came, Resync(went, came, relit)
      PROVE  IInv'
  <2>1. /\ there' = (there \ went) \cup came
        /\ used' = used \cup came
        /\ off' = off \ went /\ dark' = dark \ went
        /\ entering' = (entering \ went) \cup relit
        /\ flight' = [o \in Outputs |-> IF o \in went THEN NoFrame ELSE flight[o]]
        /\ screen' = [o \in Outputs |-> IF o \in went THEN "black" ELSE screen[o]]
        /\ lit' = [o \in Outputs |-> IF o \in went THEN "On" ELSE lit[o]]
        /\ due' = there' /\ redraw' = TRUE
        /\ UNCHANGED <<holder, LOCKS, entry>>
    BY <1>4 DEF Resync
  <2>2. /\ owed' \in BOOLEAN /\ shown' \in {shown, {}} /\ object' \in [Clients -> Objects]
        /\ EntryIsOwed' /\ HolderAsked' /\ OnlyTheHolderIsTold'
        /\ owed /\ ~owed' => there' \ dark' \subseteq shown /\ entry = "none"
    <3> DEFINE sent == /\ owed
                       /\ ~Gone(holder, object)
                       /\ ~(holder = "native" /\ entry # "none")
                       /\ there' \ dark' \subseteq shown
    <3>1. /\ owed' = (owed /\ ~sent)
          /\ shown' = IF sent THEN {} ELSE shown
          /\ object' = [c \in Clients |-> IF sent /\ c = holder THEN "locked" ELSE object[c]]
      BY <1>4 DEF Resync, ConfirmLock
    <3>2. /\ sent \in BOOLEAN /\ shown \in SUBSET Outputs
          /\ sent => owed /\ ~Gone(holder, object) /\ ~(holder = "native" /\ entry # "none")
      BY DEF IInv, TypeOK
    <3>3. sent => there' \ dark' \subseteq shown
      OBVIOUS
    <3> HIDE DEF sent
    <3> QED
      BY <2>1, <3>1, <3>2, <3>3, ConfirmLockTells
  <2>3. TypeOK'
    BY <1>4, <2>1, <2>2 DEF IInv, TypeOK, Objects, Frames, NoFrame
  <2>4. DarkIsBlack' /\ FreshIsBlack'
    BY <2>1 DEF IInv, TypeOK, DarkIsBlack, FreshIsBlack
  <2>5. FramesAreIssued'
    BY <2>1 DEF IInv, TypeOK, FramesAreIssued, NoFrame
  <2>6. Current' /\ Shown'
    BY <2>1, <2>2 DEF IInv, TypeOK, Current, Shown, NoFrame
  <2>7. NoDesktopOnceLocked'
    <3> SUFFICES ASSUME holder # "none", ~owed', NEW o \in there'
                 PROVE  screen'[o] # "desktop" /\ flight'[o].pic # "desktop"
      BY <2>1 DEF NoDesktopOnceLocked
    <3>0. o \in Outputs
      BY <2>3 DEF TypeOK
    <3>1. CASE o \in went
      BY <2>1, <3>0, <3>1 DEF NoFrame
    <3>2. CASE o \in came
      BY <2>1, <3>0, <3>2 DEF IInv, FreshIsBlack, NoFrame
    <3>3. CASE o \in there \ went /\ ~owed
      BY <2>1, <3>0, <3>3 DEF IInv, NoDesktopOnceLocked
    <3>4. CASE o \in there \ went /\ owed /\ o \in dark
      BY <2>1, <3>0, <3>4 DEF IInv, DarkIsBlack, NoFrame
    <3>5. CASE o \in there \ went /\ owed /\ o \notin dark
      BY <2>1, <2>2, <3>0, <3>5 DEF IInv, Shown
    <3> QED
      BY <2>1, <3>1, <3>2, <3>3, <3>4, <3>5
  <2> QED
    BY <2>2, <2>3, <2>4, <2>5, <2>6, <2>7 DEF IInv
<1> QED
  BY <1>2, <1>3, <1>4 DEF MonitorStep

\* What a pass over the screens does, with any of it failing or broken.
LEMMA RenderKeepsIInv == IInv /\ Render => IInv'
<1> SUFFICES ASSUME IInv, Render PROVE IInv'
  OBVIOUS
<1> DEFINE drawn == {o \in Ready : Step(o) \in {"Draw", "Wake"}}
           blanked == {o \in Ready : Step(o) = "Blank"}
           darkened == {o \in Ready : Step(o) = "Darken"}
<1>1. PICK failed, broke :
        /\ flight' = [o \in Outputs |->
             IF o \in drawn \ failed THEN Picture(o)
             ELSE IF o \in blanked \ failed THEN [Black EXCEPT !.under = LockFrame]
             ELSE flight[o]]
        /\ lit' = [o \in Outputs |->
             IF o \in drawn \cup (failed \cap (blanked \cup darkened)) THEN "On"
             ELSE IF o \in blanked THEN "Blanked"
             ELSE IF o \in darkened THEN "Dark"
             ELSE lit[o]]
        /\ screen' = [o \in Outputs |->
             IF o \in darkened \ failed THEN "black" ELSE screen[o]]
        /\ due' = (there \ Ready) \cup blanked
        /\ off' = off \ (darkened \cap failed)
        /\ dark' = (dark \ (darkened \cap failed)) \cup (darkened \ failed)
        /\ entering' = entering \ broke
        /\ redraw' \in BOOLEAN
        /\ IF darkened \subseteq failed
           THEN UNCHANGED <<owed, shown, object>>
           ELSE ConfirmLock(holder, owed, shown, object, entry, there, dark')
        /\ UNCHANGED <<holder, LOCKS, entry, there, used>>
  BY DEF Render
<1>2. /\ \A o \in drawn : o \in there /\ flight[o] = NoFrame /\ o \notin off
      /\ \A o \in blanked : o \in there /\ flight[o] = NoFrame /\ lit[o] = "On"
      /\ \A o \in darkened :
           o \in there /\ flight[o] = NoFrame /\ lit[o] = "Blanked" /\ o \in off
  BY DEF Ready, Step
<1>3. \A o \in Outputs : Picture(o) \in Frames /\ [Black EXCEPT !.under = LockFrame] \in Frames
  BY DEF Picture, Frames, Black, LockFrame, IInv, TypeOK
<1> HIDE DEF drawn, blanked, darkened
<1>4. /\ owed' \in BOOLEAN /\ shown' \in {shown, {}} /\ object' \in [Clients -> Objects]
      /\ EntryIsOwed' /\ HolderAsked' /\ OnlyTheHolderIsTold'
      /\ owed' => owed
      /\ owed /\ ~owed' => there \ dark' \subseteq shown /\ entry = "none"
  <2>1. CASE darkened \subseteq failed
    BY <1>1, <2>1 DEF IInv, TypeOK, Objects, EntryIsOwed, HolderAsked, OnlyTheHolderIsTold
  <2>2. CASE ~(darkened \subseteq failed)
    <3> DEFINE sent == /\ owed
                       /\ ~Gone(holder, object)
                       /\ ~(holder = "native" /\ entry # "none")
                       /\ there \ dark' \subseteq shown
    <3>1. /\ owed' = (owed /\ ~sent)
          /\ shown' = IF sent THEN {} ELSE shown
          /\ object' = [c \in Clients |-> IF sent /\ c = holder THEN "locked" ELSE object[c]]
      BY <1>1, <2>2 DEF ConfirmLock
    <3>2. /\ sent \in BOOLEAN /\ shown \in SUBSET Outputs
          /\ sent => owed /\ ~Gone(holder, object) /\ ~(holder = "native" /\ entry # "none")
      BY DEF IInv, TypeOK
    <3>3. sent => there \ dark' \subseteq shown
      OBVIOUS
    <3> HIDE DEF sent
    <3> QED
      BY <1>1, <3>1, <3>2, <3>3, ConfirmLockTells
  <2> QED
    BY <2>1, <2>2
<1>5. TypeOK'
  <2>1. flight' \in [Outputs -> Frames]
    BY <1>1, <1>3 DEF IInv, TypeOK
  <2>2. lit' \in [Outputs -> {"On", "Blanked", "Dark"}]
    BY <1>1 DEF IInv, TypeOK
  <2>3. screen' \in [Outputs -> {"desktop", "lock", "black"}]
    BY <1>1 DEF IInv, TypeOK
  <2>4. due' \subseteq Outputs /\ off' \subseteq there /\ dark' \subseteq off'
    BY <1>1, <1>2 DEF IInv, TypeOK
  <2> QED
    BY <1>1, <1>4, <2>1, <2>2, <2>3, <2>4 DEF IInv, TypeOK, Objects
<1>6. DarkIsBlack'
  <2>1. ASSUME NEW o \in Outputs, lit'[o] = "Dark"
        PROVE  flight'[o] = NoFrame /\ screen'[o] = "black"
    <3>1. o \notin drawn /\ ~(o \in failed /\ o \in blanked \cup darkened) /\ o \notin blanked
      BY <1>1, <2>1
    <3>2. CASE o \in darkened
      BY <1>1, <1>2, <3>1, <3>2
    <3>3. CASE o \notin darkened
      BY <1>1, <2>1, <3>1, <3>3 DEF IInv, DarkIsBlack
    <3> QED
      BY <3>2, <3>3
  <2>2. ASSUME NEW o \in dark' PROVE lit'[o] = "Dark"
    <3>1. o \in Outputs
      BY <1>5, <2>2 DEF TypeOK
    <3>2. CASE o \in darkened \ failed
      <4>1. o \notin drawn /\ o \notin blanked
        BY <1>2, <3>2
      <4> QED
        BY <1>1, <3>1, <3>2, <4>1
    <3>3. CASE o \in dark /\ o \notin darkened
      <4>1. lit[o] = "Dark" /\ o \in off
        BY <3>3 DEF IInv, TypeOK, DarkIsBlack
      <4>2. o \notin drawn /\ o \notin blanked
        BY <1>2, <4>1
      <4> QED
        BY <1>1, <3>1, <3>3, <4>1, <4>2
    <3> QED
      BY <1>1, <2>2, <3>2, <3>3
  <2> QED
    BY <2>1, <2>2 DEF DarkIsBlack
<1>7. FreshIsBlack'
  <2>1. drawn \cup blanked \cup darkened \subseteq used
    BY <1>2 DEF IInv, FreshIsBlack
  <2> QED
    BY <1>1, <2>1 DEF IInv, FreshIsBlack
<1>8. FramesAreIssued'
  <2>1. \A o \in Outputs : Picture(o).under <= LOCKS /\ [Black EXCEPT !.under = LockFrame].under <= LOCKS
    BY DEF Picture, Black, LockFrame, IInv, TypeOK
  <2>2. \A o \in Outputs : Picture(o).pic # "none" /\ [Black EXCEPT !.under = LockFrame].pic # "none"
    BY DEF Picture, Black
  <2> QED
    BY <1>1, <2>1, <2>2 DEF IInv, FramesAreIssued
<1>9. /\ Current'
      /\ \A o \in Outputs : holder # "none" /\ entry = "none" =>
           (flight'[o] # flight[o] => flight'[o].pic # "desktop")
  <2>1. \A o \in Outputs : holder # "none" /\ entry = "none" => Picture(o).pic # "desktop"
    BY DEF Picture, DesktopUnder
  <2>2. [Black EXCEPT !.under = LockFrame].pic = "black"
    BY DEF Black
  <2>3. \A o \in Outputs : holder # "none" /\ entry = "none" =>
          (flight'[o] # flight[o] => flight'[o].pic # "desktop")
    BY <1>1, <2>1, <2>2
  <2> QED
    BY <1>1, <2>3 DEF IInv, Current
<1>10. Shown'
  BY <1>1, <1>4, <1>9 DEF IInv, TypeOK, Shown
<1>11. NoDesktopOnceLocked'
  <2> SUFFICES ASSUME holder # "none", ~owed', NEW o \in there
               PROVE  screen'[o] # "desktop" /\ flight'[o].pic # "desktop"
    BY <1>1 DEF NoDesktopOnceLocked
  <2>0. o \in Outputs /\ owed \in BOOLEAN
    BY DEF IInv, TypeOK
  <2>1. CASE ~owed
    <3>1. entry = "none" /\ screen[o] # "desktop" /\ flight[o].pic # "desktop"
      BY <2>1 DEF IInv, EntryIsOwed, NoDesktopOnceLocked
    <3> QED
      BY <1>1, <1>9, <2>0, <3>1
  <2>2. CASE owed /\ o \in dark'
    BY <1>6, <2>0, <2>2 DEF DarkIsBlack, NoFrame
  <2>3. CASE owed /\ o \notin dark'
    <3>1. entry = "none" /\ screen[o] # "desktop" /\ flight[o].pic # "desktop"
      BY <1>4, <2>3 DEF IInv, Shown
    <3> QED
      BY <1>1, <1>9, <2>0, <3>1
  <2> QED
    BY <2>0, <2>1, <2>2, <2>3
<1> QED
  BY <1>4, <1>5, <1>6, <1>7, <1>8, <1>9, <1>10, <1>11 DEF IInv

\* What a page flip does: only a frame of this lock's counts, and it shows it.
LEMMA VBlankKeepsIInv ==
  ASSUME IInv, NEW o \in Outputs, VBlank(o)
  PROVE  IInv'
<1>1. /\ screen' = [screen EXCEPT ![o] = flight[o].pic]
      /\ flight' = [flight EXCEPT ![o] = NoFrame]
      /\ flight[o] # NoFrame
      /\ UNCHANGED <<holder, LOCKS, entry, entering, there, used, off, dark, lit, due, redraw>>
  BY DEF VBlank, entryVars, monitorVars
<1>a. PICK accepted \in BOOLEAN :
         IF accepted /\ holder # "none" /\ owed /\ flight[o].under = LOCKS
         THEN ConfirmLock(holder, owed, shown \cup {o}, object, entry, there, dark)
         ELSE UNCHANGED <<owed, shown, object>>
  BY SessionLockAssumption DEF VBlank
<1> DEFINE counts == accepted /\ holder # "none" /\ owed /\ flight[o].under = LOCKS
           sh == IF counts THEN shown \cup {o} ELSE shown
           sent == /\ counts
                   /\ ~Gone(holder, object)
                   /\ ~(holder = "native" /\ entry # "none")
                   /\ there \ dark \subseteq sh
<1>2. /\ owed' = (owed /\ ~sent)
      /\ shown' = IF sent THEN {} ELSE sh
      /\ object' = [c \in Clients |-> IF sent /\ c = holder THEN "locked" ELSE object[c]]
  BY <1>a DEF ConfirmLock, IInv, TypeOK
<1>3. /\ sent \in BOOLEAN /\ sh \in SUBSET Outputs
      /\ sent => owed /\ ~Gone(holder, object) /\ ~(holder = "native" /\ entry # "none")
      /\ sent => there \ dark \subseteq sh
  BY DEF IInv, TypeOK
<1>4. /\ sh = shown \/ (sh = shown \cup {o} /\ flight[o].under = LOCKS)
  OBVIOUS
<1> HIDE DEF counts, sh, sent
<1>5. /\ owed' \in BOOLEAN /\ shown' \in {sh, {}} /\ object' \in [Clients -> Objects]
      /\ EntryIsOwed' /\ HolderAsked' /\ OnlyTheHolderIsTold'
      /\ owed' => owed
      /\ owed /\ ~owed' => sent /\ entry = "none"
  BY <1>1, <1>2, <1>3, ConfirmLockTells
\* The frame shows what it was drawn with; "none" is no frame's picture.
<1>6. flight[o].pic \in {"desktop", "lock", "black"}
  BY <1>1 DEF IInv, TypeOK, Frames, FramesAreIssued
<1>7. TypeOK'
  BY <1>1, <1>3, <1>5, <1>6 DEF IInv, TypeOK, Objects, Frames, NoFrame
<1>8. DarkIsBlack' /\ FreshIsBlack' /\ FramesAreIssued' /\ Current'
  BY <1>1 DEF IInv, TypeOK, DarkIsBlack, FreshIsBlack, FramesAreIssued, Current, NoFrame
<1>9. holder # "none" /\ entry = "none" =>
        \A p \in sh : screen'[p] # "desktop" /\ flight'[p].pic # "desktop"
  BY <1>1, <1>4, <1>7 DEF IInv, TypeOK, Shown, Current, NoFrame
<1>10. Shown'
  BY <1>1, <1>5, <1>9 DEF Shown
<1>11. NoDesktopOnceLocked'
  <2> SUFFICES ASSUME holder # "none", ~owed', NEW p \in there
               PROVE  screen'[p] # "desktop" /\ flight'[p].pic # "desktop"
    BY <1>1 DEF NoDesktopOnceLocked
  <2>0. p \in Outputs /\ owed \in BOOLEAN
    BY DEF IInv, TypeOK
  <2>1. CASE ~owed
    BY <1>1, <2>0, <2>1 DEF IInv, TypeOK, NoDesktopOnceLocked, NoFrame
  <2>2. CASE owed /\ p \in dark
    BY <1>1, <2>0, <2>2 DEF IInv, TypeOK, DarkIsBlack, NoFrame
  <2>3. CASE owed /\ p \notin dark
    BY <1>3, <1>5, <1>9, <2>3
  <2> QED
    BY <2>0, <2>1, <2>2, <2>3
<1> QED
  BY <1>5, <1>7, <1>8, <1>10, <1>11 DEF IInv

\* The invariant is inductive.
LEMMA NextKeepsIInv == IInv /\ [Next]_vars => IInv'
<1> SUFFICES ASSUME IInv, [Next]_vars PROVE IInv'
  OBVIOUS
<1>1. CASE LockStep
  BY <1>1, LockStepKeepsIInv
<1>2. CASE MonitorStep
  BY <1>2, MonitorStepKeepsIInv
<1>3. ASSUME UNCHANGED <<lockVars, entryVars, monitorVars, lit, flight, screen, due>>,
             redraw' \in BOOLEAN
      PROVE  IInv'
  <2>1. UNCHANGED <<holder, object, owed, LOCKS, shown, entry, entering, there, used, off, dark,
                    lit, flight, screen, due>>
    BY <1>3 DEF lockVars, entryVars, monitorVars
  <2>2. TypeOK'
    BY <1>3, <2>1 DEF IInv, TypeOK
  <2> QED
    BY <2>1, <2>2
    DEF IInv, DarkIsBlack, FreshIsBlack, FramesAreIssued, Current, Shown,
        EntryIsOwed, HolderAsked, OnlyTheHolderIsTold, NoDesktopOnceLocked
<1>4. CASE Damage
  BY <1>3, <1>4 DEF Damage
<1>5. CASE Render
  BY <1>5, RenderKeepsIInv
<1>6. ASSUME NEW o \in Outputs, VBlank(o) PROVE IInv'
  BY <1>6, VBlankKeepsIInv
<1>7. CASE UNCHANGED vars
  BY <1>3, <1>7 DEF vars, backendVars, IInv, TypeOK
<1> QED
  BY <1>1, <1>2, <1>4, <1>5, <1>6, <1>7 DEF Next, BackendStep

\* Every state of every behaviour satisfies the inductive invariant.
THEOREM InvariantHolds == Spec => []IInv
  BY InitIInv, NextKeepsIInv, PTL DEF Spec
-----------------------------------------------------------------------------
(* What it gives, for any monitors, clients, bound on locks and faults. *)

\* Every variable keeps its type.
THEOREM TypeCorrect == Spec => []TypeOK
<1>1. IInv => TypeOK
  BY DEF IInv
<1> QED
  BY <1>1, InvariantHolds, PTL

\* No monitor shows the desktop, or is about to, once `locked` is sent.
THEOREM ConfirmedHidesTheDesktop == Spec => []NoDesktopOnceLocked
<1>1. IInv => NoDesktopOnceLocked
  BY DEF IInv
<1> QED
  BY <1>1, InvariantHolds, PTL

\* Only the lock object that holds a confirmed lock has been told `locked`.
THEOREM ToldIsHolding == Spec => []OnlyTheHolderIsTold
<1>1. IInv => OnlyTheHolderIsTold
  BY DEF IInv
<1> QED
  BY <1>1, InvariantHolds, PTL

\* A monitor left out of what the lock waits for shows black.
THEOREM DarkIsDark == Spec => []DarkShowsNothing
<1>1. IInv => DarkShowsNothing
  BY DEF IInv, TypeOK, DarkIsBlack, DarkShowsNothing
<1> QED
  BY <1>1, InvariantHolds, PTL

\* What a step may do to the lock's hands, told from the next-state relation.
HandsStep ==
    /\ holder # "none" /\ holder' = "none" => holder = "native" \/ object[holder] = "locked"
    /\ /\ holder' # holder => holder' = "none" \/ Takeable
       /\ holder' = holder /\ holder # "none" /\ ~owed => ~owed'

\* No step unlocks, hands over or un-confirms a lock but as its holder may.
LEMMA StepsKeepHands == IInv /\ [Next]_vars => HandsStep
<1> SUFFICES ASSUME IInv, [Next]_vars PROVE HandsStep
  OBVIOUS
<1>1. ASSUME holder' = holder, ~owed => ~owed' PROVE HandsStep
  BY <1>1 DEF HandsStep
<1>2. owed \in BOOLEAN
  BY DEF IInv, TypeOK
<1>3. ASSUME NEW h, NEW obj, NEW on, Takeable, h # "none", h # holder, TakeLock(h, obj, on)
      PROVE  HandsStep
  BY <1>3 DEF HandsStep, TakeLock
<1>4. ASSUME NEW c \in Clients, ClientLock(c) PROVE HandsStep
  <2>1. CASE Takeable
    <3>1. c # holder /\ c # "none"
      BY <1>4 DEF ClientLock, IInv, HolderAsked
    <3> QED
      BY <1>3, <1>4, <2>1, <3>1 DEF ClientLock
  <2>2. CASE ~Takeable
    BY <1>1, <1>4, <2>2 DEF ClientLock
  <2> QED
    BY <2>1, <2>2
<1>5. ASSUME NEW c \in Clients, ClientUnlock(c) \/ ClientGoes(c) PROVE HandsStep
  <2>1. CASE ClientUnlock(c) /\ holder = c /\ ~owed
    <3>1. object[c] = "locked"
      BY <2>1 DEF ClientUnlock, IInv, HolderAsked
    <3> QED
      BY <2>1, <3>1 DEF ClientUnlock, ReleaseLock, HandsStep
  <2>2. CASE ClientGoes(c) \/ ~(holder = c /\ ~owed)
    BY <1>1, <1>5, <2>2 DEF ClientUnlock, ClientGoes
  <2> QED
    BY <1>5, <2>1, <2>2
<1>6. ASSUME NEW on, Takeable, TakeLock("native", object, on) PROVE HandsStep
  <2>1. holder # "native"
    BY <1>6 DEF Takeable, Abandoned, Gone
  <2> QED
    BY <1>3, <1>6, <2>1
<1>7. CASE LockNatively
  BY <1>6, <1>7 DEF LockNatively
<1>8. ASSUME EndLockEntry PROVE HandsStep
  BY <1>1, <1>2, <1>8 DEF EndLockEntry, ConfirmLock
<1>9. CASE LockAtOnce
  BY <1>6, <1>8, <1>9 DEF LockAtOnce
<1>10. CASE UnlockNatively
  BY <1>10 DEF UnlockNatively, ReleaseLock, HandsStep
<1>11. CASE EntryReached \/ SettleEntry
  BY <1>1, <1>8, <1>11 DEF EntryReached, SettleEntry, lockVars
<1>12. CASE MonitorStep
  <2>1. ASSUME NEW went, NEW came, NEW relit, Resync(went, came, relit)
        PROVE  HandsStep
    BY <1>1, <1>2, <2>1 DEF Resync, ConfirmLock
  <2>2. CASE UNCHANGED lockVars
    BY <1>1, <2>2 DEF lockVars
  <2> QED
    BY <1>12, <2>1, <2>2 DEF MonitorStep, SetPower, WakeScreens
<1>13. CASE Render
  BY <1>1, <1>2, <1>13 DEF Render, ConfirmLock
<1>14. ASSUME NEW o \in Outputs, VBlank(o) PROVE HandsStep
  BY <1>1, <1>2, <1>14 DEF VBlank, ConfirmLock
<1>15. CASE Damage \/ UNCHANGED vars
  BY <1>1, <1>15 DEF Damage, vars, lockVars
<1> QED
  BY <1>4, <1>5, <1>7, <1>9, <1>10, <1>11, <1>12, <1>13, <1>14, <1>15
  DEF Next, LockStep, BackendStep

\* A lock is ended by the native way, or by its holder once told `locked`.
THEOREM OnlyTheHolderUnlocks == Spec => UnlockedByItsHolder
<1>1. IInv /\ [Next]_vars =>
        [holder # "none" /\ holder' = "none" => holder = "native" \/ object[holder] = "locked"]_vars
  BY StepsKeepHands DEF HandsStep
<1> QED
  BY <1>1, InvariantHolds, PTL DEF Spec, UnlockedByItsHolder

\* A lock changes hands only if it is none or abandoned, and stays confirmed.
THEOREM LockIsHeld == Spec => HeldUntilReleased
<1>1. IInv /\ [Next]_vars =>
        [/\ holder' # holder => holder' = "none" \/ Takeable
         /\ holder' = holder /\ holder # "none" /\ ~owed => ~owed']_vars
  BY StepsKeepHands DEF HandsStep
<1> QED
  BY <1>1, InvariantHolds, PTL DEF Spec, HeldUntilReleased
-----------------------------------------------------------------------------
(* The lock is the one LockPromise describes. *)

\* The session starts unlocked, with the desktop wherever it is.
LEMMA InitKeepsPromise == Init => Promise!Init
<1> SUFFICES ASSUME Init PROVE Promise!Init
  OBVIOUS
<1>1. holder = "none" /\ ~Abandoned /\ Exposed \in SUBSET Outputs
  BY DEF Init, Abandoned, Gone, Exposed
<1> QED
  BY <1>1 DEF Promise!Init

\* Once a lock is up, the desktop is nowhere.
LEMMA UpIsHidden ==
  ASSUME IInv, holder # "none", ~owed
  PROVE  Exposed = {}
BY DEF IInv, NoDesktopOnceLocked, Exposed

\* A step that leaves the lock with its holder, there or not, draws, tells the
\* holder or changes nothing that is promised.
LEMMA HeldStepKeepsPromise ==
  ASSUME IInv, IInv', holder' = holder, Abandoned' = Abandoned,
         owed' => owed, owed /\ ~owed' /\ holder # "none" => ~Abandoned
  PROVE  [Promise!Next]_(Promise!vars)
<1>1. Exposed' \in SUBSET Outputs
  BY DEF IInv, TypeOK, Exposed
<1>2. owed \in BOOLEAN /\ owed' \in BOOLEAN /\ Abandoned \in BOOLEAN
  BY DEF IInv, TypeOK, Abandoned, Gone
<1>3. holder # "none" /\ ~owed' => Exposed' = {}
  BY DEF IInv, NoDesktopOnceLocked, Exposed
<1> DEFINE isUp == holder # "none" /\ ~owed
<1>4. CASE ~isUp /\ ~isUp'
  <2>1. Promise!Draw
    BY <1>1, <1>2, <1>4 DEF Promise!Draw
  <2> QED
    BY <2>1 DEF Promise!Next
<1>5. CASE ~isUp /\ isUp'
  <2>1. Promise!ComeUp
    BY <1>2, <1>3, <1>5 DEF Promise!ComeUp
  <2> QED
    BY <2>1 DEF Promise!Next
<1>6. CASE isUp
  <2>1. Exposed = {} /\ Exposed' = {}
    BY <1>3, <1>6, UpIsHidden
  <2> QED
    BY <1>2, <1>6, <2>1 DEF Promise!vars
<1> QED
  BY <1>4, <1>5, <1>6

\* The lock is taken from nobody, or from a holder that has gone.
LEMMA TakeLockKeepsPromise ==
  ASSUME IInv, IInv', Takeable, NEW h \in {"native"} \cup Clients, NEW on, NEW obj,
         h \in Clients => obj[h] = "waiting" /\ on = {},
         TakeLock(h, obj, on)
  PROVE  Promise!Next
<1>1. /\ holder' = h /\ h # "none"
      /\ UNCHANGED <<there, screen, flight>>
  BY DEF TakeLock, monitorVars
<1>2. ~Abandoned'
  <2>1. ~Gone(h, obj)
    BY DEF Gone
  <2>2. h \in Clients => object'[h] \in {"waiting", "locked"}
    BY DEF TakeLock, ConfirmLock
  <2> QED
    BY <1>1, <2>2 DEF Abandoned, Gone
<1>3. Exposed' = Exposed
  BY <1>1 DEF Exposed
<1>4. ~owed' => Exposed = {}
  BY <1>1, <1>3 DEF IInv, NoDesktopOnceLocked, Exposed
<1>5. owed' \in BOOLEAN /\ Abandoned' = FALSE
  BY <1>2 DEF IInv, TypeOK, Abandoned, Gone
<1>6. holder = "none" \/ Abandoned
  BY DEF Takeable
<1>7. Promise!Take(h)
  BY <1>1, <1>3, <1>4, <1>5, <1>6 DEF Promise!Take
<1> QED
  BY <1>7 DEF Promise!Next

\* The lock is ended, natively or by a holder that is there and was told.
LEMMA ReleaseLockKeepsPromise ==
  ASSUME IInv, holder # "none", holder = "native" \/ (~owed /\ ~Abandoned),
         NEW obj, ReleaseLock(obj)
  PROVE  Promise!Next
<1>1. /\ holder' = "none" /\ UNCHANGED <<there, screen, flight>>
  BY DEF ReleaseLock, monitorVars
<1>2. Exposed' = Exposed
  BY <1>1 DEF Exposed
<1>3. Abandoned' = FALSE
  BY <1>1 DEF Abandoned, Gone
<1>4. Promise!Release
  BY <1>1, <1>2, <1>3 DEF Promise!Release
<1> QED
  BY <1>4 DEF Promise!Next

\* A lock object goes: the holder's, or one that holds nothing.
LEMMA GoingKeepsPromise ==
  ASSUME IInv, NEW c \in Clients, object[c] # "gone",
         object' = [object EXCEPT ![c] = "gone"],
         UNCHANGED <<holder, owed, there, screen, flight>>
  PROVE  [Promise!Next]_(Promise!vars)
<1>1. Exposed' = Exposed
  BY DEF Exposed
<1>2. object' \in [Clients -> Objects] /\ object \in [Clients -> Objects]
  BY DEF IInv, TypeOK, Objects
<1>3. CASE holder = c
  <2>1. Abandoned = FALSE /\ Abandoned' = TRUE
    BY <1>2, <1>3 DEF Abandoned, Gone
  <2>2. Promise!Leave
    BY <1>1, <1>3, <2>1 DEF Promise!Leave
  <2> QED
    BY <2>2 DEF Promise!Next
<1>4. CASE holder # c
  <2>1. Abandoned' = Abandoned
    BY <1>2, <1>4 DEF Abandoned, Gone
  <2> QED
    BY <1>1, <2>1 DEF Promise!vars
<1> QED
  BY <1>3, <1>4

\* Every step of the lock, the monitors and the backend keeps the promise.
LEMMA StepsKeepPromise == IInv /\ [Next]_vars => [Promise!Next]_(Promise!vars)
<1> SUFFICES ASSUME IInv, [Next]_vars PROVE [Promise!Next]_(Promise!vars)
  OBVIOUS
<1>1. IInv'
  BY NextKeepsIInv
<1>2. owed \in BOOLEAN /\ object \in [Clients -> Objects]
  BY DEF IInv, TypeOK, Objects
\* Where the objects are as they were, so is whether the holder has gone.
<1>3. ASSUME UNCHANGED <<holder, object, owed>> PROVE [Promise!Next]_(Promise!vars)
  <2>1. Abandoned' = Abandoned
    BY <1>3 DEF Abandoned, Gone
  <2> QED
    BY <1>1, <1>3, <2>1, HeldStepKeepsPromise
\* Asking whether the lock is up: only one whose holder is there comes up.
<1>4. ASSUME NEW sh, NEW en, NEW outs, NEW drk, holder' = holder,
             ConfirmLock(holder, owed, sh, object, en, outs, drk)
      PROVE  [Promise!Next]_(Promise!vars)
  <2>1. /\ owed' => owed
        /\ owed /\ ~owed' => ~Gone(holder, object)
        /\ holder \in Clients => (object'[holder] = "gone" <=> object[holder] = "gone")
    BY <1>2, <1>4 DEF ConfirmLock, Gone
  <2>2. Abandoned' = Abandoned
    BY <1>4, <2>1 DEF Abandoned, Gone
  <2> QED
    BY <1>1, <1>4, <2>1, <2>2, HeldStepKeepsPromise DEF Abandoned
<1>5. ASSUME NEW c \in Clients, ClientLock(c) PROVE [Promise!Next]_(Promise!vars)
  <2>1. CASE Takeable
    <3> DEFINE obj == [object EXCEPT ![c] = "waiting"]
    <3>1. obj[c] = "waiting" /\ TakeLock(c, obj, {})
      BY <1>2, <1>5, <2>1 DEF ClientLock
    <3> HIDE DEF obj
    <3> QED
      BY <1>1, <2>1, <3>1, TakeLockKeepsPromise
  <2>2. CASE ~Takeable
    <3>1. /\ object[c] = "unborn" /\ object' = [object EXCEPT ![c] = "refused"]
          /\ UNCHANGED <<holder, owed>>
      BY <1>5, <2>2 DEF ClientLock
    <3>2. Abandoned' = Abandoned
      BY <1>2, <3>1 DEF Abandoned, Gone, IInv, HolderAsked
    <3> QED
      BY <1>1, <3>1, <3>2, HeldStepKeepsPromise
  <2> QED
    BY <2>1, <2>2
<1>6. ASSUME NEW c \in Clients, ClientUnlock(c) \/ ClientGoes(c)
      PROVE  [Promise!Next]_(Promise!vars)
  <2>1. CASE ClientUnlock(c) /\ holder = c /\ ~owed
    <3>1. object[c] # "gone" /\ ReleaseLock([object EXCEPT ![c] = "gone"])
      BY <2>1 DEF ClientUnlock
    <3>2. holder # "none" /\ ~Abandoned
      BY <2>1, <3>1 DEF Abandoned, Gone
    <3> QED
      BY <2>1, <3>1, <3>2, ReleaseLockKeepsPromise
  <2>2. CASE ClientGoes(c) \/ ~(holder = c /\ ~owed)
    <3>1. /\ object[c] # "gone" /\ object' = [object EXCEPT ![c] = "gone"]
          /\ UNCHANGED <<holder, owed, there, screen, flight>>
      BY <1>6, <2>2 DEF ClientUnlock, ClientGoes, monitorVars
    <3> QED
      BY <3>1, GoingKeepsPromise
  <2> QED
    BY <1>6, <2>1, <2>2
<1>7. ASSUME NEW on, Takeable, TakeLock("native", object, on)
      PROVE  [Promise!Next]_(Promise!vars)
  BY <1>1, <1>7, TakeLockKeepsPromise
<1>8. ASSUME EndLockEntry PROVE [Promise!Next]_(Promise!vars)
  BY <1>4, <1>8 DEF EndLockEntry
<1>9. CASE LockNatively
  BY <1>7, <1>9 DEF LockNatively
<1>10. CASE LockAtOnce
  BY <1>7, <1>8, <1>10 DEF LockAtOnce
<1>11. CASE UnlockNatively
  BY <1>11, ReleaseLockKeepsPromise DEF UnlockNatively
<1>12. CASE EntryReached \/ SettleEntry
  BY <1>3, <1>8, <1>12 DEF EntryReached, SettleEntry, lockVars
<1>13. CASE MonitorStep
  <2>1. ASSUME NEW went, NEW came, NEW relit, Resync(went, came, relit)
        PROVE  [Promise!Next]_(Promise!vars)
    BY <1>4, <2>1 DEF Resync
  <2>2. CASE UNCHANGED lockVars
    BY <1>3, <2>2 DEF lockVars
  <2> QED
    BY <1>13, <2>1, <2>2 DEF MonitorStep, SetPower, WakeScreens
<1>14. CASE Render
  <2>1. CASE UNCHANGED <<holder, object, owed>>
    BY <1>3, <2>1
  <2>2. CASE ~UNCHANGED <<holder, object, owed>>
    BY <1>4, <1>14, <2>2 DEF Render
  <2> QED
    BY <2>1, <2>2
<1>15. ASSUME NEW o \in Outputs, VBlank(o) PROVE [Promise!Next]_(Promise!vars)
  <2>1. holder' = holder
    BY <1>15 DEF VBlank
  <2>2. CASE UNCHANGED <<holder, object, owed>>
    BY <1>3, <2>2
  <2>3. CASE ~UNCHANGED <<holder, object, owed>>
    BY <1>4, <1>15, <2>1, <2>3 DEF VBlank
  <2> QED
    BY <2>2, <2>3
<1>16. CASE Damage \/ UNCHANGED vars
  BY <1>3, <1>16 DEF Damage, vars, lockVars
<1> QED
  BY <1>5, <1>6, <1>9, <1>10, <1>11, <1>12, <1>13, <1>14, <1>15, <1>16
  DEF Next, LockStep, BackendStep

\* The lock, with its frames, power, entries and hotplug, is the promised one.
THEOREM LockKeepsItsPromise == Spec => KeepsItsPromise
BY InitKeepsPromise, StepsKeepPromise, InvariantHolds, PTL
   DEF Spec, KeepsItsPromise, Promise!Spec
=============================================================================
