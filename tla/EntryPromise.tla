---------------------------- MODULE EntryPromise ----------------------------
(***************************************************************************)
(* What Solium's lock promises of an entry, with no helper, serials, PIN   *)
(* counts, retries or waits in it: one entry is at stake at a time, and is *)
(* granted if it is a secret, counted once, or given up; so many counted,  *)
(* and no entry is taken before a lockout has come and gone.               *)
(***************************************************************************)
EXTENDS Naturals

CONSTANTS
    Entries,   \* what can be typed
    Secrets,   \* what the lock opens to
    Nothing,   \* no entry
    Attempts   \* how many are counted before a lockout

VARIABLES
    held,      \* the session is locked, and these are its entries
    asked,     \* the entry at stake
    missed,    \* entries counted since the last lockout
    gate       \* "free", "lockedOut", or "granted"

vars == <<held, asked, missed, gate>>

AsNew == asked' = Nothing /\ missed' = 0 /\ gate' = "free"

Init == held = FALSE /\ asked = Nothing /\ missed = 0 /\ gate = "free"

Take == ~held /\ held' = TRUE /\ AsNew

\* The lock is over: granted, ended from elsewhere, or Solium itself ended.
Leave == held /\ held' = FALSE /\ AsNew

Ask(entry) ==
    /\ held /\ gate = "free"
    /\ asked = Nothing
    /\ missed < Attempts
    /\ asked' = entry
    /\ UNCHANGED <<held, missed, gate>>

\* An answer against the entry: counted, and no more is asked of it.
Miss ==
    /\ asked # Nothing
    /\ asked' = Nothing
    /\ missed' = missed + 1
    /\ UNCHANGED <<held, gate>>

\* No answer to be had, or none wanted any more.
GiveUp ==
    /\ asked # Nothing
    /\ asked' = Nothing
    /\ UNCHANGED <<held, missed, gate>>

Grant ==
    /\ asked \in Secrets
    /\ asked' = Nothing
    /\ gate' = "granted"
    /\ UNCHANGED <<held, missed>>

LockOut ==
    /\ gate = "free" /\ asked = Nothing
    /\ missed = Attempts
    /\ missed' = 0
    /\ gate' = "lockedOut"
    /\ UNCHANGED <<held, asked>>

LockoutEnds ==
    /\ gate = "lockedOut"
    /\ gate' = "free"
    /\ UNCHANGED <<held, asked, missed>>

Next ==
    \/ Take \/ Leave
    \/ \E entry \in Entries : Ask(entry)
    \/ Miss \/ GiveUp \/ Grant
    \/ LockOut \/ LockoutEnds

Spec == Init /\ [][Next]_vars
=============================================================================
