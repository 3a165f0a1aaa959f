---------------------------- MODULE LockPromise ----------------------------
(***************************************************************************)
(* What the session lock promises, with no frames, power or entries in it: *)
(* one holder at a time, who alone ends the lock; and, from the moment it  *)
(* is up, not one monitor with the desktop on it or coming to it.          *)
(*                                                                         *)
(* A holder that has gone leaves the session locked, and its lock, if not  *)
(* up by then, never comes up: the next holder takes a lock of its own.    *)
(***************************************************************************)

CONSTANTS
    Monitors,  \* every monitor there may be
    Lockers    \* the clients' lock objects

VARIABLES
    holder,    \* "none", "native", or a locker
    up,        \* the holder has been told `locked`
    gone,      \* the holder's lock object is destroyed
    exposed    \* the monitors the desktop is on, or on its way to

vars == <<holder, up, gone, exposed>>

Init ==
    /\ holder = "none"
    /\ up = FALSE
    /\ gone = FALSE
    /\ exposed \in SUBSET Monitors

\* A lock is taken, from nobody or from a holder that has gone. It is up at
\* once only with no monitor to hide the desktop on.
Take(h) ==
    /\ holder = "none" \/ gone
    /\ holder' = h
    /\ gone' = FALSE
    /\ up' \in BOOLEAN
    /\ up' => exposed = {}
    /\ UNCHANGED exposed

\* The holder, still there, is told, and the desktop is nowhere.
ComeUp ==
    /\ holder # "none" /\ ~gone /\ ~up
    /\ up' = TRUE
    /\ exposed' = {}
    /\ UNCHANGED <<holder, gone>>

\* Until then the desktop comes and goes: frames, monitors, the entry.
Draw ==
    /\ ~up
    /\ exposed' \in SUBSET Monitors
    /\ UNCHANGED <<holder, up, gone>>

\* The client that holds the session goes without unlocking it.
Leave ==
    /\ holder \in Lockers /\ ~gone
    /\ gone' = TRUE
    /\ UNCHANGED <<holder, up, exposed>>

\* The session is unlocked: natively, or by a holder that is there and told.
Release ==
    /\ holder = "native" \/ (holder # "none" /\ up /\ ~gone)
    /\ holder' = "none"
    /\ up' = FALSE
    /\ gone' = FALSE
    /\ UNCHANGED exposed

Next ==
    \/ \E h \in {"native"} \cup Lockers : Take(h)
    \/ ComeUp \/ Draw \/ Leave \/ Release

Spec == Init /\ [][Next]_vars
=============================================================================
