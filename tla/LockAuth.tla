------------------------------ MODULE LockAuth ------------------------------
(***************************************************************************)
(* The secret typed at Solium's own lock (lock_auth.rs): the field, the    *)
(* checks the helper makes of it (auth.rs, solium-auth) on threads of      *)
(* their own, the lockout, the retries, and the PIN (pin.rs), whose wrong  *)
(* guesses are counted in a file that outlives the lock and Solium itself, *)
(* and that `solium pin` (pin_cli.rs) writes from another process.         *)
(***************************************************************************)
EXTENDS Naturals, Sequences

CONSTANTS
    Entries,     \* what can be typed
    Shaped,      \* the entries of a PIN's shape
    Password,    \* the account's password
    Pin,         \* the PIN `solium pin set` stores
    Nothing,     \* an empty field
    Attempts,    \* lock.lockout.attempts
    PinAttempts, \* lock.pin.attempts
    Retries,     \* lock.retry.attempts
    MaxSerial,   \* bound: no lock is taken and no entry submitted past this serial
    MaxLost      \* bound: how many times the PIN's counts cannot be saved

ASSUME LockAuthAssumption ==
    /\ Shaped \subseteq Entries
    /\ Password \in Entries
    /\ Pin \in Shaped
    /\ Nothing \notin Entries
    /\ Attempts \in Nat \ {0} /\ PinAttempts \in Nat \ {0}
    /\ Retries \in Nat /\ MaxSerial \in Nat /\ MaxLost \in Nat

VARIABLES
    native,      \* Solium holds the session's lock
    phase, typed, typedAsPin, submitted,
    streak,      \* wrong answers since the last lockout
    retried,     \* retries of the entry kept now
    refused,     \* the last check was refused
    checkingPin, \* the check under way, or the last one, is of a PIN
    entryPin,    \* what was last submitted was checked as the PIN first
    until,       \* the wait under way: none, armed, past
    serial,      \* which check an answer must be for to count
    check,       \* the check no answer has come from yet
    answers,     \* what the check's threads answered, unread
    settling,    \* whether lock_auth::settle is under way ("unlock": to unlock)
    enabled,     \* lock.pin.enabled
    pinSet,      \* whether the PIN's file is there
    disk,        \* the state file: wrong PINs in a row, password last used
    known,       \* pin::Known: the same as last read, and whether a PIN is set
    unsaved,     \* Known.unsaved
    cli,         \* what `solium pin` has still to do
    wrong,       \* history: PINs said no to since a yes or a new PIN
    lost         \* history: counts that could not be saved

fieldVars == <<phase, typed, typedAsPin, submitted>>
countVars == <<streak, retried, refused>>
checkVars == <<checkingPin, entryPin, until, serial, check>>
pinVars == <<enabled, pinSet, disk, known, unsaved, cli, wrong, lost>>
vars == <<native, fieldVars, countVars, checkVars, answers, settling, pinVars>>

Phases == {"Idle", "Prompting", "Checking", "Failed", "LockedOut", "Unavailable",
           "Unlocking"}
Outcomes == {"Ok", "Failed", "Refused", "Unavailable", "Lasting"}
Checks == [serial : Nat, entry : Entries, pin : BOOLEAN]
NoCheck == [serial |-> 0, entry |-> Nothing, pin |-> FALSE]
Uses == {"never", "fresh", "stale"} \* the password last unlocked the lock

TypeOK ==
    /\ native \in BOOLEAN
    /\ phase \in Phases
    /\ typed \in Entries \cup {Nothing} /\ submitted \in Entries \cup {Nothing}
    /\ typedAsPin \in BOOLEAN
    /\ streak \in 0..Attempts /\ retried \in 0..Retries /\ refused \in BOOLEAN
    /\ checkingPin \in BOOLEAN /\ entryPin \in BOOLEAN
    /\ until \in {"none", "armed", "past"}
    /\ serial \in Nat
    /\ check \in Checks \cup {NoCheck}
    /\ answers \in Seq([serial : Nat, outcome : Outcomes])
    /\ settling \in {"no", "yes", "unlock"}
    /\ enabled \in BOOLEAN /\ pinSet \in BOOLEAN /\ unsaved \in BOOLEAN
    /\ disk \in [failures : Nat, used : Uses]
    /\ known \in [set : BOOLEAN, failures : Nat, used : Uses]
    /\ cli \in {"idle", "set", "clear"}
    /\ wrong \in Nat /\ lost \in Nat

\* LockAuth::default, with whatever PIN and counts the files hold.
Init ==
    /\ native = FALSE
    /\ phase = "Idle" /\ typed = Nothing /\ typedAsPin = FALSE /\ submitted = Nothing
    /\ streak = 0 /\ retried = 0 /\ refused = FALSE
    /\ checkingPin = FALSE /\ entryPin = FALSE /\ until = "none"
    /\ serial = 0 /\ check = NoCheck /\ answers = <<>> /\ settling = "no"
    /\ enabled \in BOOLEAN /\ pinSet \in BOOLEAN
    /\ disk \in [failures : {0}, used : {"never", "fresh"}]
    /\ known = [set |-> FALSE, failures |-> 0, used |-> "never"]
    /\ unsaved = FALSE
    /\ cli = "idle"
    /\ wrong = 0 /\ lost = 0

----------------------------------------------------------------------------
(* The PIN. *)

\* Known::mode: whether the lock takes a PIN, going by what is known of it.
TakesPin(k) ==
    /\ enabled /\ k.set /\ ~unsaved
    /\ k.failures < PinAttempts
    /\ k.used = "fresh"

\* Known::refresh: the files read again.
Refreshed == [set |-> pinSet, failures |-> disk.failures, used |-> disk.used]

\* Known::save, of the record as it is now known. It may fail, and then no
\* PIN is taken again this run.
Save(before, failures, used) ==
    \/ /\ disk' = [failures |-> failures, used |-> used]
       /\ unsaved' = before
       /\ UNCHANGED lost
    \/ /\ lost < MaxLost
       /\ lost' = lost + 1
       /\ unsaved' = TRUE
       /\ UNCHANGED disk

\* Known::failed: a wrong PIN, counted and saved.
PinFailed ==
    /\ known' = [known EXCEPT !.failures = @ + 1]
    /\ wrong' = wrong + 1
    /\ Save(unsaved, known.failures + 1, known.used)

\* Known::pin_unlocked and Known::password_unlocked.
PinUnlocked ==
    /\ wrong' = 0
    /\ known' = [known EXCEPT !.failures = 0]
    /\ IF known.failures > 0
       THEN Save(unsaved, 0, known.used)
       ELSE UNCHANGED <<disk, unsaved, lost>>

PasswordUnlocked ==
    /\ wrong' = 0
    /\ IF known.set
       THEN /\ known' = [known EXCEPT !.failures = 0, !.used = "fresh"]
            /\ Save(FALSE, 0, "fresh")
       ELSE UNCHANGED <<known, disk, unsaved, lost>>

----------------------------------------------------------------------------
(* The field. *)

\* LockAuth::accepting.
Accepting ==
    \/ phase \in {"Idle", "Prompting", "Failed"}
    \/ phase = "Unavailable" /\ submitted = Nothing

\* The main thread, at Solium's own lock and not in lock_auth::settle.
AtTheLock == native /\ settling = "no"

\* Mutant: what was submitted outlives its lock.
ResetKeepingIt ==
    /\ serial' = serial + 1
    /\ check' = NoCheck
    /\ phase' = "Idle" /\ typed' = Nothing
    /\ streak' = 0 /\ retried' = 0 /\ refused' = FALSE
    /\ checkingPin' = FALSE /\ entryPin' = FALSE /\ until' = "none"
    /\ UNCHANGED <<submitted, typedAsPin>>

\* LockAuth::reset, as the lock is taken and as it ends: a check under way is
\* cancelled, and no answer already in the queue counts.
Reset ==
    /\ serial' = serial + 1
    /\ check' = NoCheck
    /\ phase' = "Idle" /\ typed' = Nothing /\ submitted' = Nothing
    /\ streak' = 0 /\ retried' = 0 /\ refused' = FALSE
    /\ checkingPin' = FALSE /\ entryPin' = FALSE /\ until' = "none"
    /\ UNCHANGED typedAsPin

\* LockAuth::begin, from take_lock.
Begin ==
    /\ ~native /\ settling = "no"
    /\ serial < MaxSerial
    /\ native' = TRUE
    /\ Reset
    /\ known' = Refreshed
    /\ UNCHANGED <<answers, settling, enabled, pinSet, disk, unsaved, cli, wrong, lost>>

\* LockAuth::end, from release_lock: here, logind's Unlock.
End ==
    /\ AtTheLock
    /\ native' = FALSE
    /\ Reset
    /\ UNCHANGED <<answers, settling, pinVars>>

\* LockAuth::edit: a character typed.
Type(entry) ==
    /\ AtTheLock /\ Accepting
    /\ typed' = entry
    /\ typedAsPin' = TakesPin(known)
    /\ phase' = "Prompting"
    /\ UNCHANGED <<native, submitted, countVars, checkVars, answers, settling, pinVars>>

\* An erase leaves less of it, or nothing.
Erase(left) ==
    /\ AtTheLock /\ Accepting
    /\ typed = Nothing => left = Nothing
    /\ typed' = left
    /\ phase' = IF left = Nothing THEN "Idle" ELSE "Prompting"
    /\ UNCHANGED <<native, typedAsPin, submitted, countVars, checkVars, answers, settling,
                   pinVars>>

\* LockAuth::clear: unavailable, the entry kept for a retry goes too.
Clear ==
    /\ AtTheLock
    /\ phase \in {"Idle", "Prompting", "Failed", "Unavailable"}
    /\ phase' = "Idle" /\ typed' = Nothing
    /\ IF phase = "Unavailable"
       THEN /\ serial' = serial + 1 /\ check' = NoCheck
            /\ submitted' = Nothing /\ until' = "none"
       ELSE UNCHANGED <<serial, check, submitted, until>>
    /\ UNCHANGED <<native, typedAsPin, countVars, checkingPin, entryPin, answers, settling,
                   pinVars>>

\* LockAuth::start_check: the helper is asked, on a thread of its own.
StartCheck(entry, pin) ==
    /\ phase' = "Checking"
    /\ until' = "none"
    /\ serial' = serial + 1
    /\ check' = [serial |-> serial + 1, entry |-> entry, pin |-> pin]

\* Mutant: an entry typed as a PIN is checked as the password all the same
\* when the lock no longer takes a PIN.
SubmitAllTheSame ==
    /\ AtTheLock /\ Accepting
    /\ typed # Nothing
    /\ serial < MaxSerial
    /\ known' = Refreshed
    /\ LET pin == typed \in Shaped /\ TakesPin(Refreshed)
       IN  /\ submitted' = typed
           /\ checkingPin' = pin /\ entryPin' = pin
           /\ retried' = 0
           /\ StartCheck(typed, pin)
    /\ typed' = Nothing
    /\ UNCHANGED <<native, typedAsPin, streak, refused, answers, settling, enabled, pinSet,
                   disk, unsaved, cli, wrong, lost>>

\* LockAuth::submit. The PIN's files are read again; an entry of a PIN's shape
\* typed while the lock took a PIN, which it no longer does, is wiped.
Submit ==
    /\ AtTheLock /\ Accepting
    /\ typed # Nothing
    /\ serial < MaxSerial
    /\ known' = Refreshed
    /\ LET pin == typed \in Shaped /\ TakesPin(Refreshed)
       IN  IF typed \in Shaped /\ typedAsPin /\ ~pin
           THEN /\ phase' = "Idle"
                /\ UNCHANGED <<submitted, retried, checkVars>>
           ELSE /\ submitted' = typed
                /\ checkingPin' = pin /\ entryPin' = pin
                /\ retried' = 0
                /\ StartCheck(typed, pin)
    /\ typed' = Nothing
    /\ UNCHANGED <<native, typedAsPin, streak, refused, answers, settling, enabled, pinSet,
                   disk, unsaved, cli, wrong, lost>>

----------------------------------------------------------------------------
(* The helper, on the check's own thread. *)

\* What it may say of a check: yes only to the secret itself. A PIN is only
\* hashed; PAM may say no to anything, or neither. Any check may crash, hang
\* until it is stopped, or not be possible at all.
Says(c) ==
    {"Unavailable", "Lasting"} \cup
    IF c.pin
    THEN IF ~pinSet THEN {} ELSE {IF c.entry = Pin THEN "Ok" ELSE "Failed"}
    ELSE {"Failed", "Refused"} \cup (IF c.entry = Password THEN {"Ok"} ELSE {})

\* auth::deliver: into the queue, unless the check was cancelled first.
Deliver ==
    /\ check # NoCheck
    /\ \E outcome \in Says(check) :
         answers' = Append(answers, [serial |-> check.serial, outcome |-> outcome])
    /\ check' = NoCheck
    /\ UNCHANGED <<native, fieldVars, countVars, checkingPin, entryPin, until, serial,
                   settling, pinVars>>

----------------------------------------------------------------------------
(* lock_auth::settle, once a loop: the answers one by one, then the wait. *)

SettleBegin ==
    /\ settling = "no"
    /\ answers # <<>> \/ until = "past"
    /\ settling' = "yes"
    /\ UNCHANGED <<native, fieldVars, countVars, checkVars, answers, pinVars>>

\* Mutant: an answer counts whichever check it is of.
CountsAnyAnswer(answer) == phase = "Checking" /\ until = "none"

\* Whether an answer is the one waited for.
Counts(answer) == answer.serial = serial /\ phase = "Checking" /\ until = "none"

Take(outcome) ==
    /\ settling # "no"
    /\ answers # <<>>
    /\ Head(answers).outcome = outcome
    /\ Counts(Head(answers))
    /\ answers' = Tail(answers)
    /\ UNCHANGED <<native, typedAsPin, enabled, pinSet, cli>>

Stale ==
    /\ settling # "no"
    /\ answers # <<>>
    /\ ~Counts(Head(answers))
    /\ answers' = Tail(answers)
    /\ UNCHANGED <<native, fieldVars, countVars, checkVars, settling, pinVars>>

\* A yes, the only answer that unlocks.
Yes ==
    /\ Take("Ok")
    /\ submitted' = Nothing /\ typed' = Nothing
    /\ phase' = "Unlocking"
    /\ settling' = "unlock"
    /\ IF checkingPin THEN PinUnlocked ELSE PasswordUnlocked
    /\ UNCHANGED <<countVars, checkingPin, entryPin, until, serial, check>>

\* Mutant: a wrong PIN is saved only once the password is wrong too.
WrongPinUnsaved ==
    /\ Take("Failed") /\ checkingPin
    /\ known' = [known EXCEPT !.failures = @ + 1]
    /\ wrong' = wrong + 1
    /\ checkingPin' = FALSE
    /\ StartCheck(submitted, FALSE)
    /\ UNCHANGED <<typed, submitted, countVars, entryPin, settling, disk, unsaved, lost>>

\* Mutant: a wrong PIN counts as an attempt, and then as the password again.
WrongPinCounts ==
    /\ Take("Failed") /\ checkingPin
    /\ PinFailed
    /\ streak' = streak + 1
    /\ checkingPin' = FALSE
    /\ StartCheck(submitted, FALSE)
    /\ UNCHANGED <<typed, submitted, retried, refused, entryPin, settling>>

\* Not the PIN: counted and saved at once, and the same entry is checked as
\* the password.
WrongPin ==
    /\ Take("Failed") /\ checkingPin
    /\ PinFailed
    /\ checkingPin' = FALSE
    /\ StartCheck(submitted, FALSE)
    /\ UNCHANGED <<typed, submitted, countVars, entryPin, settling>>

\* A no: an attempt. The field stays shut for the delay PAM asked for.
No ==
    /\ Take("Failed") /\ ~checkingPin
    /\ submitted' = Nothing
    /\ streak' = streak + 1
    /\ refused' = FALSE
    /\ until' = "armed"
    /\ UNCHANGED <<phase, typed, retried, checkingPin, entryPin, serial, check, settling,
                   known, disk, unsaved, wrong, lost>>

\* Mutant: a refusal shows at once, and the lockout is not looked at.
RefusedAtOnce ==
    /\ Take("Refused")
    /\ submitted' = Nothing
    /\ streak' = streak + 1
    /\ phase' = "Unavailable"
    /\ UNCHANGED <<typed, retried, refused, checkVars, settling, known, disk, unsaved,
                   wrong, lost>>

\* PAM would say neither: an attempt, and never tried again.
Refused ==
    /\ Take("Refused")
    /\ submitted' = Nothing
    /\ streak' = streak + 1
    /\ refused' = TRUE
    /\ until' = "past"
    /\ UNCHANGED <<phase, typed, retried, checkingPin, entryPin, serial, check, settling,
                   known, disk, unsaved, wrong, lost>>

\* LockAuth::pin_gone reads the PIN's files again.
Seen == IF checkingPin THEN Refreshed ELSE known

\* No answer to a PIN's check as there is no PIN to check against any more.
PinGone ==
    /\ Take("Unavailable") \/ Take("Lasting")
    /\ checkingPin /\ ~TakesPin(Refreshed)
    /\ known' = Refreshed
    /\ submitted' = Nothing
    /\ phase' = "Idle"
    /\ UNCHANGED <<typed, countVars, checkVars, settling, disk, unsaved, wrong, lost>>

\* Mutant: what cannot be checked is kept although it is not tried again.
LastingKeepsIt ==
    /\ Take("Lasting")
    /\ ~(checkingPin /\ ~TakesPin(Refreshed))
    /\ known' = Seen
    /\ phase' = "Unavailable"
    /\ UNCHANGED <<typed, submitted, countVars, checkVars, settling, disk, unsaved, wrong,
                   lost>>

\* No answer, and no retry would have one.
Lasting ==
    /\ Take("Lasting")
    /\ ~(checkingPin /\ ~TakesPin(Refreshed))
    /\ known' = Seen
    /\ submitted' = Nothing
    /\ phase' = "Unavailable"
    /\ UNCHANGED <<typed, countVars, checkVars, settling, disk, unsaved, wrong, lost>>

\* Mutant: one retry too many.
UnavailableOnceMore ==
    /\ Take("Unavailable")
    /\ ~(checkingPin /\ ~TakesPin(Refreshed))
    /\ known' = Seen
    /\ phase' = "Unavailable"
    /\ IF retried <= Retries
       THEN /\ retried' = retried + 1 /\ until' = "armed"
            /\ UNCHANGED submitted
       ELSE submitted' = Nothing /\ UNCHANGED <<retried, until>>
    /\ UNCHANGED <<typed, streak, refused, checkingPin, entryPin, serial, check, settling,
                   disk, unsaved, wrong, lost>>

\* No answer this time: kept and tried again, up to Retries times.
Unavailable ==
    /\ Take("Unavailable")
    /\ ~(checkingPin /\ ~TakesPin(Refreshed))
    /\ known' = Seen
    /\ phase' = "Unavailable"
    /\ IF retried < Retries
       THEN /\ retried' = retried + 1 /\ until' = "armed"
            /\ UNCHANGED submitted
       ELSE submitted' = Nothing /\ UNCHANGED <<retried, until>>
    /\ UNCHANGED <<typed, streak, refused, checkingPin, entryPin, serial, check, settling,
                   disk, unsaved, wrong, lost>>

\* No answer is left.
Drained(how) == settling = how /\ answers = <<>> /\ settling' = "no"

\* unlock_natively, on a yes.
Unlock ==
    /\ Drained("unlock")
    /\ native
    /\ native' = FALSE
    /\ Reset
    /\ UNCHANGED <<answers, pinVars>>

NoWaitOver ==
    /\ Drained("yes")
    /\ until # "past"
    /\ UNCHANGED <<native, fieldVars, countVars, checkVars, answers, pinVars>>

\* PAM's delay is over: the lockout, or the answer shows.
DelayOver ==
    /\ Drained("yes")
    /\ until = "past" /\ phase = "Checking"
    /\ IF streak >= Attempts
       THEN phase' = "LockedOut" /\ streak' = 0 /\ until' = "armed"
       ELSE /\ phase' = IF refused THEN "Unavailable" ELSE "Failed"
            /\ until' = "none"
            /\ UNCHANGED streak
    /\ refused' = FALSE
    /\ UNCHANGED <<native, typed, typedAsPin, submitted, retried, checkingPin, entryPin,
                   serial, check, answers, pinVars>>

\* The lockout is over.
LockoutOver ==
    /\ Drained("yes")
    /\ until = "past" /\ phase = "LockedOut"
    /\ until' = "none"
    /\ phase' = "Idle"
    /\ UNCHANGED <<native, typed, typedAsPin, submitted, countVars, checkingPin, entryPin,
                   serial, check, answers, pinVars>>

\* The next try of what was kept.
Retry ==
    /\ Drained("yes")
    /\ until = "past" /\ phase = "Unavailable"
    /\ StartCheck(submitted, checkingPin)
    /\ UNCHANGED <<native, typed, typedAsPin, submitted, countVars, checkingPin, entryPin,
                   answers, pinVars>>

Settle ==
    \/ SettleBegin \/ Stale
    \/ Yes \/ WrongPin \/ No \/ Refused \/ PinGone \/ Lasting \/ Unavailable
    \/ Unlock \/ NoWaitOver \/ DelayOver \/ LockoutOver \/ Retry

----------------------------------------------------------------------------
(* Everything else. *)

\* The clock reaches `until`.
Reached ==
    /\ until = "armed"
    /\ until' = "past"
    /\ UNCHANGED <<native, fieldVars, countVars, checkingPin, entryPin, serial, check,
                   answers, settling, pinVars>>

\* lock.pin.password_after_hours have passed since a record's password unlock.
Aged(record) == IF record.used = "fresh" THEN [record EXCEPT !.used = "stale"] ELSE record

HoursPass ==
    /\ \E older \in SUBSET {"disk", "known"} :
         /\ disk' = IF "disk" \in older THEN Aged(disk) ELSE disk
         /\ known' = IF "known" \in older THEN Aged(known) ELSE known
    /\ UNCHANGED <<native, fieldVars, countVars, checkVars, answers, settling, enabled,
                   pinSet, unsaved, cli, wrong, lost>>

\* LockAuth::configure, of lock.pin.enabled.
Configure ==
    /\ settling = "no"
    /\ enabled' = ~enabled
    /\ UNCHANGED <<native, fieldVars, countVars, checkVars, answers, settling, pinSet, disk,
                   known, unsaved, cli, wrong, lost>>

\* pin_cli::set and pin_cli::clear, the password proved: the PIN's file, and
\* then the state file, which may fail.
PinCommand(what) ==
    /\ cli = "idle"
    /\ what = "clear" => pinSet
    /\ cli' = what
    /\ pinSet' = (what = "set")
    /\ wrong' = 0
    /\ UNCHANGED <<native, fieldVars, countVars, checkVars, answers, settling, enabled, disk,
                   known, unsaved, lost>>

PinCommandEnds ==
    /\ cli # "idle"
    /\ cli' = "idle"
    /\ \/ /\ disk' = [failures |-> 0, used |-> IF cli = "set" THEN "fresh" ELSE "never"]
          /\ wrong' = 0
       \/ UNCHANGED <<disk, wrong>>
    /\ UNCHANGED <<native, fieldVars, countVars, checkVars, answers, settling, enabled,
                   pinSet, known, unsaved, lost>>

\* Solium ends or crashes, alone or with the machine, and starts again.
Restart ==
    /\ native' = FALSE
    /\ phase' = "Idle" /\ typed' = Nothing /\ typedAsPin' = FALSE /\ submitted' = Nothing
    /\ streak' = 0 /\ retried' = 0 /\ refused' = FALSE
    /\ checkingPin' = FALSE /\ entryPin' = FALSE /\ until' = "none"
    /\ serial' = 0 /\ check' = NoCheck /\ answers' = <<>> /\ settling' = "no"
    /\ known' = [set |-> FALSE, failures |-> 0, used |-> "never"]
    /\ unsaved' = FALSE
    /\ disk' \in {disk, Aged(disk)}
    /\ UNCHANGED <<enabled, pinSet, cli, wrong, lost>>

Typing ==
    \/ \E entry \in Entries : Type(entry)
    \/ \E left \in Entries \cup {Nothing} : Erase(left)
    \/ Clear \/ Submit

Outside ==
    \/ HoursPass \/ Configure
    \/ PinCommand("set") \/ PinCommand("clear") \/ PinCommandEnds
    \/ Restart

Next == Begin \/ End \/ Typing \/ Deliver \/ Settle \/ Reached \/ Outside

Spec == Init /\ [][Next]_vars

\* The helper is stopped at its timeout, so every check is answered; the loop
\* turns, and the clock runs.
Fairness == WF_vars(Deliver) /\ WF_vars(Settle) /\ WF_vars(Reached)

FairSpec == Spec /\ Fairness

----------------------------------------------------------------------------
(* Properties. *)

\* lock_auth.rs, "Only Rust unlocks, and only on the helper's yes": whatever
\* answers of ended locks and cancelled checks are still in the queue, what is
\* acted on as a yes was submitted under this lock, and is the secret itself.
OnlyTheSecretUnlocks ==
    [][phase # "Unlocking" /\ phase' = "Unlocking"
         => native /\ submitted = IF checkingPin THEN Pin ELSE Password]_vars

\* What was submitted is kept while it is being checked or waits for a retry,
\* and at no other time: not past an answer, a lockout, Escape or the lock.
KeptWhileAsked ==
    submitted # Nothing =>
        /\ native
        /\ \/ phase = "Checking" /\ until = "none"
           \/ phase = "Unavailable" /\ until # "none"

\* Whatever mixture of noes and refusals the attempts were, typing starts
\* again only with less than a lockout's worth of them since the last one.
LockoutHolds == Accepting => streak < Attempts

\* pin.rs: "restarting Solium does not give anyone a fresh run of guesses".
\* No more than lock.pin.attempts wrong PINs are ever said no to in a row,
\* over locks, crashes and `solium pin` at work, but one for each count that
\* could not be saved.
GuessesBounded == wrong <= PinAttempts + lost

\* An entry of a PIN's shape typed while the lock took a PIN is given to PAM
\* as a password only after it was checked as the PIN, whatever became of the
\* PIN between the typing, the submit and the retries (LockAuth::submit).
NoPinToPAM ==
    check # NoCheck /\ ~check.pin /\ check.entry \in Shaped /\ typedAsPin => entryPin

Gate ==
    IF phase = "LockedOut" THEN "lockedOut"
    ELSE IF phase = "Unlocking" THEN "granted" ELSE "free"

Promise == INSTANCE EntryPromise WITH
    Secrets <- {Password, Pin},
    held <- native,
    asked <- submitted,
    missed <- streak,
    gate <- Gate

\* "One entry counts one attempt" (lock_auth.rs), however many checks, retries
\* and stale answers it takes: with those abstracted away an entry submitted is
\* granted, counted once or given up before the next, a lockout comes after
\* just so many counted, and nothing is asked in it or after a yes.
KeepsItsPromise == Promise!Spec

\* The field comes back: no check, failure delay, lockout or wait for a retry
\* is without an end.
FieldComesBack == native ~> (~native \/ Accepting)
=============================================================================
