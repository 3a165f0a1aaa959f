--------------------------- MODULE LockAuth_proofs ---------------------------
(***************************************************************************)
(* Proofs about LockAuth, for any entries, limits and bounds: a lock is    *)
(* left only on a yes to the secret submitted under it, what was submitted *)
(* is kept no longer than it is asked about, and neither the lockout nor   *)
(* the PIN's limit lets a guess more through.                              *)
(*                                                                         *)
(* The inductive invariant, Inv, ties the three copies of an attempt       *)
(* together: what the field keeps (`submitted`), what the helper was asked *)
(* (`check`) and what it has answered (`answers`), by the serial; and the  *)
(* three counts of wrong PINs, the file's, the one last read from it, and  *)
(* the true one (`wrong`).                                                 *)
(***************************************************************************)
EXTENDS LockAuth, TLAPS

USE LockAuthAssumption

\* Waiting for the helper, and waiting to ask it again.
Asking == phase = "Checking" /\ until = "none"
Waiting == phase = "Unavailable" /\ until # "none"

\* Something is kept exactly while it is asked about or will be again.
Kept == (submitted # Nothing) <=> (Asking \/ Waiting)

\* Only a lock's field is ever anything but idle, and counts answers.
HeldByTheLock == phase # "Idle" \/ streak # 0 => native

\* The check under way is of what is kept.
OfTheEntry ==
    check # NoCheck =>
        /\ Asking
        /\ check.serial = serial
        /\ check.entry = submitted
        /\ check.pin = checkingPin

\* An answer is of no check to come or still under way, and a yes that would
\* count is right.
Right == IF checkingPin THEN Pin ELSE Password
AnswerIsRight(answer) ==
    /\ answer.serial <= serial
    /\ answer.serial = serial =>
         /\ check = NoCheck
         /\ answer.outcome = "Ok" /\ Asking => submitted = Right
AnswersAreRight == \A i \in 1..Len(answers) : AnswerIsRight(answers[i])

\* The streak reaches the limit only while PAM's delay is waited out.
StreakIsShort == phase # "Checking" \/ until = "none" => streak < Attempts

\* The PIN's counts: the file's never runs behind but by what could not be
\* saved, and nor does the one a PIN's check goes by, which is below the limit.
CountsKeepUp ==
    /\ wrong <= disk.failures + lost
    /\ submitted # Nothing /\ checkingPin =>
         known.failures < PinAttempts /\ wrong <= known.failures + lost

\* What was typed as a PIN is asked about as one first.
PinFirst ==
    /\ checkingPin => entryPin
    /\ submitted # Nothing /\ submitted \in Shaped /\ typedAsPin => entryPin

-----------------------------------------------------------------------------
(* The type invariant in two, the flags and the rest.                      *)

Flags ==
    /\ native \in BOOLEAN /\ typedAsPin \in BOOLEAN /\ refused \in BOOLEAN
    /\ checkingPin \in BOOLEAN /\ entryPin \in BOOLEAN
    /\ enabled \in BOOLEAN /\ pinSet \in BOOLEAN /\ unsaved \in BOOLEAN

Answers == [serial : Nat, outcome : Outcomes]

Values ==
    /\ phase \in Phases
    /\ typed \in Entries \cup {Nothing} /\ submitted \in Entries \cup {Nothing}
    /\ streak \in 0..Attempts /\ retried \in 0..Retries
    /\ until \in {"none", "armed", "past"}
    /\ serial \in Nat
    /\ check \in Checks \cup {NoCheck}
    /\ answers \in Seq(Answers)
    /\ settling \in {"no", "yes", "unlock"}
    /\ disk \in [failures : Nat, used : Uses]
    /\ known \in [set : BOOLEAN, failures : Nat, used : Uses]
    /\ cli \in {"idle", "set", "clear"}
    /\ wrong \in Nat /\ lost \in Nat

LEMMA TypeIsFlagsAndValues == TypeOK <=> Flags /\ Values
  BY DEF TypeOK, Flags, Values, Answers

Inv ==
    /\ Flags
    /\ Values
    /\ Kept
    /\ HeldByTheLock
    /\ OfTheEntry
    /\ AnswersAreRight
    /\ StreakIsShort
    /\ CountsKeepUp
    /\ GuessesBounded
    /\ PinFirst

\* What is in the queue has a serial.
LEMMA AnswersAreAnswers ==
  ASSUME Values, NEW i \in 1..Len(answers)
  PROVE  answers[i] \in Answers
  BY DEF Values

\* What is left of the queue was in it.
LEMMA TheRestWasThere ==
  ASSUME Values, answers # <<>>, answers' = Tail(answers)
  PROVE  /\ answers' \in Seq(Answers)
         /\ Head(answers) = answers[1] /\ 1 \in 1..Len(answers)
         /\ \A i \in 1..Len(answers') : i + 1 \in 1..Len(answers) /\ answers'[i] = answers[i + 1]
  BY DEF Values

\* The queue stays right under a step that takes nothing in, as long as the
\* serial moves on, or what is asked about stays the same.
LEMMA AnswersStayRight ==
  ASSUME Inv, serial' \in Nat,
         answers' = answers \/ (answers # <<>> /\ answers' = Tail(answers)),
         \/ serial' > serial
         \/ /\ serial' = serial
            /\ check = NoCheck => check' = NoCheck
            /\ Asking' => Asking /\ submitted' = submitted /\ checkingPin' = checkingPin
  PROVE  AnswersAreRight'
<1> Values
  BY DEF Inv
<1> SUFFICES ASSUME NEW i \in 1..Len(answers') PROVE AnswerIsRight(answers[i])'
  BY DEF AnswersAreRight
<1>1. PICK j \in 1..Len(answers) : answers'[i] = answers[j]
  BY TheRestWasThere
<1>2. answers[j].serial \in Nat /\ AnswerIsRight(answers[j])
  BY <1>1, AnswersAreAnswers DEF Inv, AnswersAreRight, Answers
<1> QED
  BY <1>1, <1>2 DEF AnswerIsRight, Right, Values

\* What is known of the PIN keeps its shape as a count or a use is put in it.
LEMMA RecordKeepsShape ==
  ASSUME NEW record \in [set : BOOLEAN, failures : Nat, used : Uses],
         NEW n \in Nat, NEW use \in Uses
  PROVE  /\ [record EXCEPT !.failures = n] \in [set : BOOLEAN, failures : Nat, used : Uses]
         /\ [record EXCEPT !.failures = n, !.used = use]
              \in [set : BOOLEAN, failures : Nat, used : Uses]
  OBVIOUS

\* A count is saved as one, or not at all.
LEMMA SaveKeepsTypes ==
  ASSUME Values, NEW before, NEW failures \in Nat, NEW used \in Uses,
         Save(before, failures, used)
  PROVE  disk' \in [failures : Nat, used : Uses] /\ lost' \in Nat
  BY DEF Values, Save

\* With no wrong PIN to count and nothing kept every count has kept up.
LEMMA NoneWrongIsInBounds ==
  ASSUME wrong' = 0, submitted' = Nothing,
         disk' \in [failures : Nat, used : Uses], lost' \in Nat
  PROVE  (CountsKeepUp /\ GuessesBounded)'
<1>1. disk'.failures \in Nat /\ lost' \in Nat
  OBVIOUS
<1>2. PinAttempts \in Nat
  OBVIOUS
<1>3. wrong' <= disk'.failures + lost' /\ wrong' <= PinAttempts + lost'
  <2>1. ASSUME NEW n \in Nat, NEW m \in Nat PROVE 0 <= n + m
    OBVIOUS
  <2>2. 0 <= disk'.failures + lost' /\ 0 <= PinAttempts + lost'
    BY <1>1, <1>2, <2>1, Zenon
  <2> QED
    BY <2>2, Zenon
<1>4. ~(submitted # Nothing)'
  OBVIOUS
<1> QED
  BY <1>3, <1>4, Zenon DEF CountsKeepUp, GuessesBounded

\* An answer that counts is the one to what is kept, and no check is left.
LEMMA CountedIsAnswered ==
  ASSUME Inv, answers # <<>>, Counts(Head(answers))
  PROVE  /\ Asking /\ check = NoCheck
         /\ Head(answers).outcome = "Ok" => submitted = Right
<1>1. Head(answers) = answers[1] /\ 1 \in 1..Len(answers)
  BY DEF Inv, Values
<1> QED
  BY <1>1 DEF Inv, AnswersAreRight, AnswerIsRight, Counts, Asking

\* The lock taken or ended: the field is as new, and nothing of before counts.
LEMMA ResetKeepsInv ==
  ASSUME Inv, Reset, native' \in BOOLEAN, settling' \in {"no", "yes", "unlock"},
         known' = known \/ known' = Refreshed,
         UNCHANGED <<answers, enabled, pinSet, disk, unsaved, cli, wrong, lost>>
  PROVE  Inv'
<1> USE DEF Inv, Asking, Waiting
<1>1. Flags'
  BY Zenon DEF Flags, Reset
<1>2. Values'
  BY DEF Flags, Values, Phases, Reset, Refreshed
<1>3. (Kept /\ HeldByTheLock /\ OfTheEntry)'
  BY DEF Kept, HeldByTheLock, OfTheEntry, Reset
<1>4. AnswersAreRight'
  BY <1>2, AnswersStayRight DEF Values, Reset
<1>5. (StreakIsShort /\ CountsKeepUp /\ GuessesBounded /\ PinFirst)'
  BY DEF StreakIsShort, CountsKeepUp, GuessesBounded, PinFirst, Values, Reset
<1> QED
  BY <1>1, <1>2, <1>3, <1>4, <1>5

LEMMA LockKeepsInv == Inv /\ (Begin \/ End \/ Unlock) => Inv'
<1> SUFFICES ASSUME Inv, Begin \/ End \/ Unlock PROVE Inv'
  OBVIOUS
<1> Values
  BY TypeIsFlagsAndValues DEF Inv
<1>1. CASE Begin
  BY <1>1, ResetKeepsInv DEF Begin, Values
<1>2. CASE End
  BY <1>2, ResetKeepsInv DEF End, AtTheLock, Values, pinVars
<1>3. CASE Unlock
  BY <1>3, ResetKeepsInv DEF Unlock, Drained, Values, pinVars
<1> QED
  BY <1>1, <1>2, <1>3

\* Keys and the scene's requests.
LEMMA TypingKeepsInv == Inv /\ Typing => Inv'
<1> SUFFICES ASSUME Inv, Typing PROVE Inv'
  OBVIOUS
<1> USE DEF Inv, Asking, Waiting, fieldVars, countVars, checkVars, pinVars
<1>1. ASSUME NEW entry \in Entries, Type(entry) PROVE Inv'
  <2>1. Flags'
    BY <1>1, Zenon DEF Flags, Type, AtTheLock, Accepting, TakesPin
  <2>2. Values'
    BY <1>1 DEF Flags, Values, Phases, Checks, Uses, Type, AtTheLock, Accepting
  <2>3. (Kept /\ HeldByTheLock /\ OfTheEntry)'
    BY <1>1 DEF Kept, HeldByTheLock, OfTheEntry, Values, Type, AtTheLock, Accepting
  <2>4. AnswersAreRight'
    BY <1>1, <2>2, AnswersStayRight DEF Values, Type, AtTheLock, Accepting
  <2>5. (StreakIsShort /\ CountsKeepUp /\ GuessesBounded /\ PinFirst)'
    BY <1>1 DEF Kept, StreakIsShort, CountsKeepUp, GuessesBounded, PinFirst, Flags, Values,
       Type, AtTheLock, Accepting
  <2> QED
    BY <2>1, <2>2, <2>3, <2>4, <2>5
<1>2. ASSUME NEW left \in Entries \cup {Nothing}, Erase(left) PROVE Inv'
  <2>1. Flags'
    BY <1>2, Zenon DEF Flags, Erase, AtTheLock, Accepting
  <2>2. Values'
    BY <1>2 DEF Flags, Values, Phases, Checks, Uses, Erase, AtTheLock, Accepting
  <2>3. (Kept /\ HeldByTheLock /\ OfTheEntry)'
    BY <1>2 DEF Kept, HeldByTheLock, OfTheEntry, Values, Erase, AtTheLock, Accepting
  <2>4. AnswersAreRight'
    BY <1>2, <2>2, AnswersStayRight DEF Values, Erase, AtTheLock, Accepting
  <2>5. (StreakIsShort /\ CountsKeepUp /\ GuessesBounded /\ PinFirst)'
    BY <1>2 DEF Kept, StreakIsShort, CountsKeepUp, GuessesBounded, PinFirst, Flags, Values,
       Erase, AtTheLock, Accepting
  <2> QED
    BY <2>1, <2>2, <2>3, <2>4, <2>5
<1>3. CASE Clear
  <2>1. Flags'
    BY <1>3, Zenon DEF Flags, Clear, AtTheLock
  <2>2. Values'
    BY <1>3 DEF Flags, Values, Phases, Checks, Uses, Clear, AtTheLock
  <2>3. (Kept /\ HeldByTheLock /\ OfTheEntry)'
    BY <1>3 DEF Kept, HeldByTheLock, OfTheEntry, Values, Clear, AtTheLock
  <2>4. AnswersAreRight'
    BY <1>3, <2>2, AnswersStayRight DEF Values, Clear, AtTheLock
  <2>5. (StreakIsShort /\ CountsKeepUp /\ GuessesBounded /\ PinFirst)'
    BY <1>3 DEF Kept, StreakIsShort, CountsKeepUp, GuessesBounded, PinFirst, Flags, Values,
       Clear, AtTheLock
  <2> QED
    BY <2>1, <2>2, <2>3, <2>4, <2>5
<1>4. CASE Submit
  <2>1. Flags'
    BY <1>4, Zenon DEF Flags, Submit, StartCheck, Refreshed, TakesPin, AtTheLock, Accepting
  <2>2. Values'
    <3>1. check' \in Checks \cup {NoCheck}
      <4>1. checkingPin' \in BOOLEAN
        BY <2>1 DEF Flags
      <4>2. \/ UNCHANGED check
            \/ check' = [serial |-> serial + 1, entry |-> typed, pin |-> checkingPin']
        BY <1>4, Zenon DEF Submit, StartCheck
      <4>3. typed \in Entries /\ serial + 1 \in Nat
        BY <1>4 DEF Submit, Values
      <4> QED
        BY <4>1, <4>2, <4>3 DEF Values, Checks
    <3>2. known' \in [set : BOOLEAN, failures : Nat, used : Uses]
      BY <1>4 DEF Submit, Refreshed, Values, Flags
    <3> QED
      BY <1>4, <3>1, <3>2 DEF Submit, StartCheck, Values, Phases
  <2>3. (Kept /\ HeldByTheLock /\ OfTheEntry)'
    BY <1>4, CountedIsAnswered DEF Kept, HeldByTheLock, OfTheEntry, Values, Submit,
       StartCheck, Refreshed, TakesPin, AtTheLock, Accepting
  <2>4. AnswersAreRight'
    BY <1>4, <2>2, AnswersStayRight DEF Values, Submit, StartCheck, Refreshed, TakesPin,
       AtTheLock, Accepting
  <2>5. (StreakIsShort /\ CountsKeepUp /\ GuessesBounded /\ PinFirst)'
    BY <1>4 DEF Kept, StreakIsShort, CountsKeepUp, GuessesBounded, PinFirst, Flags, Values,
       Submit, StartCheck, Refreshed, TakesPin, AtTheLock, Accepting
  <2> QED
    BY <2>1, <2>2, <2>3, <2>4, <2>5
<1> QED
  BY <1>1, <1>2, <1>3, <1>4 DEF Typing

\* An answer comes from the helper.
LEMMA DeliverKeepsInv == Inv /\ Deliver => Inv'
<1> SUFFICES ASSUME Inv, Deliver PROVE Inv'
  OBVIOUS
<1> USE DEF Inv, Asking, Waiting, fieldVars, countVars, pinVars
<1> DEFINE given(outcome) == [serial |-> check.serial, outcome |-> outcome]
<1>1. PICK outcome \in Says(check) : answers' = Append(answers, given(outcome))
  BY DEF Deliver
<1>2. given(outcome) \in Answers
  BY DEF Deliver, Says, Values, Checks, Answers, Outcomes
<1>3. check.serial = serial /\ (outcome = "Ok" => submitted = Right)
  BY DEF Deliver, Says, OfTheEntry, Right
<1>4. Flags'
  BY Zenon DEF Flags, Deliver
<1>5. Values'
  BY <1>1, <1>2 DEF Values, Deliver
<1>6. (Kept /\ HeldByTheLock /\ OfTheEntry)'
  BY DEF Kept, HeldByTheLock, OfTheEntry, Values, Deliver
<1>7. AnswersAreRight'
  <2> SUFFICES ASSUME NEW i \in 1..Len(answers') PROVE AnswerIsRight(answers[i])'
    BY DEF AnswersAreRight
  <2>1. CASE i \in 1..Len(answers)
    <3>1. answers'[i] = answers[i] /\ AnswerIsRight(answers[i])
      BY <1>1, <1>2, <2>1 DEF Values, AnswersAreRight
    <3> QED
      BY <3>1 DEF AnswerIsRight, Right, Deliver
  <2>2. CASE i = Len(answers) + 1
    <3>1. answers'[i] = given(outcome)
      BY <1>1, <1>2, <2>2 DEF Values
    <3> QED
      BY <1>3, <3>1 DEF AnswerIsRight, Right, Deliver, Values
  <2> QED
    BY <1>1, <1>2, <2>1, <2>2 DEF Values
<1>8. (StreakIsShort /\ CountsKeepUp /\ GuessesBounded /\ PinFirst)'
  BY DEF StreakIsShort, CountsKeepUp, GuessesBounded, PinFirst, Deliver
<1> QED
  BY <1>4, <1>5, <1>6, <1>7, <1>8

\* The waits, and what lock_auth::settle makes of them.
LEMMA WaitsKeepInv ==
  /\ Inv
  /\ SettleBegin \/ NoWaitOver \/ DelayOver \/ LockoutOver \/ Retry \/ Reached
  => Inv'
<1> SUFFICES ASSUME Inv,
                    SettleBegin \/ NoWaitOver \/ DelayOver \/ LockoutOver \/ Retry \/ Reached
             PROVE  Inv'
  OBVIOUS
<1> USE DEF Inv, Asking, Waiting, fieldVars, countVars, checkVars, pinVars
<1>1. CASE SettleBegin
  <2>1. Flags'
    BY <1>1, Zenon DEF Flags, SettleBegin
  <2>2. Values'
    BY <1>1 DEF Flags, Values, Phases, Checks, Uses, SettleBegin
  <2>3. (Kept /\ HeldByTheLock /\ OfTheEntry)'
    BY <1>1 DEF Kept, HeldByTheLock, OfTheEntry, Values, SettleBegin
  <2>4. AnswersAreRight'
    BY <1>1, <2>2, AnswersStayRight DEF Values, SettleBegin
  <2>5. (StreakIsShort /\ CountsKeepUp /\ GuessesBounded /\ PinFirst)'
    BY <1>1 DEF Kept, StreakIsShort, CountsKeepUp, GuessesBounded, PinFirst, Flags, Values,
       SettleBegin
  <2> QED
    BY <2>1, <2>2, <2>3, <2>4, <2>5
<1>2. CASE NoWaitOver
  <2>1. Flags'
    BY <1>2, Zenon DEF Flags, NoWaitOver, Drained
  <2>2. Values'
    BY <1>2 DEF Flags, Values, Phases, Checks, Uses, NoWaitOver, Drained
  <2>3. (Kept /\ HeldByTheLock /\ OfTheEntry)'
    BY <1>2 DEF Kept, HeldByTheLock, OfTheEntry, Values, NoWaitOver, Drained
  <2>4. AnswersAreRight'
    BY <1>2, <2>2, AnswersStayRight DEF Values, NoWaitOver, Drained
  <2>5. (StreakIsShort /\ CountsKeepUp /\ GuessesBounded /\ PinFirst)'
    BY <1>2 DEF Kept, StreakIsShort, CountsKeepUp, GuessesBounded, PinFirst, Flags, Values,
       NoWaitOver, Drained
  <2> QED
    BY <2>1, <2>2, <2>3, <2>4, <2>5
<1>3. CASE DelayOver
  <2>1. Flags'
    BY <1>3, Zenon DEF Flags, DelayOver, Drained
  <2>2. Values'
    BY <1>3 DEF Flags, Values, Phases, Checks, Uses, DelayOver, Drained
  <2>3. (Kept /\ HeldByTheLock /\ OfTheEntry)'
    BY <1>3 DEF Kept, HeldByTheLock, OfTheEntry, Values, DelayOver, Drained
  <2>4. AnswersAreRight'
    BY <1>3, <2>2, AnswersStayRight DEF Values, DelayOver, Drained
  <2>5. (StreakIsShort /\ CountsKeepUp /\ GuessesBounded /\ PinFirst)'
    BY <1>3 DEF Kept, StreakIsShort, CountsKeepUp, GuessesBounded, PinFirst, Flags, Values,
       DelayOver, Drained
  <2> QED
    BY <2>1, <2>2, <2>3, <2>4, <2>5
<1>4. CASE LockoutOver
  <2>1. Flags'
    BY <1>4, Zenon DEF Flags, LockoutOver, Drained
  <2>2. Values'
    BY <1>4 DEF Flags, Values, Phases, Checks, Uses, LockoutOver, Drained
  <2>3. (Kept /\ HeldByTheLock /\ OfTheEntry)'
    BY <1>4 DEF Kept, HeldByTheLock, OfTheEntry, Values, LockoutOver, Drained
  <2>4. AnswersAreRight'
    BY <1>4, <2>2, AnswersStayRight DEF Values, LockoutOver, Drained
  <2>5. (StreakIsShort /\ CountsKeepUp /\ GuessesBounded /\ PinFirst)'
    BY <1>4 DEF Kept, StreakIsShort, CountsKeepUp, GuessesBounded, PinFirst, Flags, Values,
       LockoutOver, Drained
  <2> QED
    BY <2>1, <2>2, <2>3, <2>4, <2>5
<1>5. CASE Retry
  <2>1. Flags'
    BY <1>5, Zenon DEF Flags, Retry, Drained, StartCheck
  <2>2. Values'
    BY <1>5 DEF Flags, Values, Phases, Checks, Kept, Retry, Drained, StartCheck
  <2>3. (Kept /\ HeldByTheLock /\ OfTheEntry)'
    BY <1>5 DEF Kept, HeldByTheLock, OfTheEntry, Values, Retry, Drained, StartCheck
  <2>4. AnswersAreRight'
    BY <1>5, <2>2, AnswersStayRight DEF Values, Retry, Drained, StartCheck
  <2>5. (StreakIsShort /\ CountsKeepUp /\ GuessesBounded /\ PinFirst)'
    BY <1>5 DEF Kept, StreakIsShort, CountsKeepUp, GuessesBounded, PinFirst, Flags, Values,
       Retry, Drained, StartCheck
  <2> QED
    BY <2>1, <2>2, <2>3, <2>4, <2>5
<1>6. CASE Reached
  <2>1. Flags'
    BY <1>6, Zenon DEF Flags, Reached
  <2>2. Values'
    BY <1>6 DEF Flags, Values, Phases, Checks, Uses, Reached
  <2>3. (Kept /\ HeldByTheLock /\ OfTheEntry)'
    BY <1>6 DEF Kept, HeldByTheLock, OfTheEntry, Values, Reached
  <2>4. AnswersAreRight'
    BY <1>6, <2>2, AnswersStayRight DEF Values, Reached
  <2>5. (StreakIsShort /\ CountsKeepUp /\ GuessesBounded /\ PinFirst)'
    BY <1>6 DEF Kept, StreakIsShort, CountsKeepUp, GuessesBounded, PinFirst, Flags, Values,
       Reached
  <2> QED
    BY <2>1, <2>2, <2>3, <2>4, <2>5
<1> QED
  BY <1>1, <1>2, <1>3, <1>4, <1>5, <1>6

\* The answers, one action of lock_auth::settle each.
LEMMA AnswersKeepInv ==
  /\ Inv
  /\ Stale \/ Yes \/ WrongPin \/ No \/ Refused \/ PinGone \/ Lasting \/ Unavailable
  => Inv'
<1> SUFFICES ASSUME Inv,
                    \/ Stale \/ Yes \/ WrongPin \/ No
                    \/ Refused \/ PinGone \/ Lasting \/ Unavailable
             PROVE  Inv'
  OBVIOUS
<1> USE DEF Inv, Asking, Waiting, fieldVars, countVars, checkVars, pinVars
<1>1. CASE Stale
  <2>1. Flags'
    BY <1>1, Zenon DEF Flags, Stale
  <2>2. Values'
    BY <1>1 DEF Flags, Values, Phases, Checks, Uses, Stale
  <2>3. (Kept /\ HeldByTheLock /\ OfTheEntry)'
    BY <1>1 DEF Kept, HeldByTheLock, OfTheEntry, Values, Stale
  <2>4. AnswersAreRight'
    BY <1>1, <2>2, AnswersStayRight DEF Values, Stale
  <2>5. (StreakIsShort /\ CountsKeepUp /\ GuessesBounded /\ PinFirst)'
    BY <1>1 DEF Kept, StreakIsShort, CountsKeepUp, GuessesBounded, PinFirst, Flags, Values,
       Stale
  <2> QED
    BY <2>1, <2>2, <2>3, <2>4, <2>5
<1>2. CASE Yes
  <2>1. Flags'
    BY <1>2, Zenon DEF Flags, Yes, PinUnlocked, PasswordUnlocked, Save, Take, Counts
  <2>2. Values'
    <3>1. /\ known' \in [set : BOOLEAN, failures : Nat, used : Uses]
          /\ disk' \in [failures : Nat, used : Uses]
          /\ wrong' \in Nat /\ lost' \in Nat
      <4>1. CASE checkingPin /\ PinUnlocked
        <5>1. /\ known' = [known EXCEPT !.failures = 0] /\ wrong' = 0
              /\ Save(unsaved, 0, known.used) \/ UNCHANGED <<disk, lost>>
          BY <4>1 DEF PinUnlocked
        <5>2. known.used \in Uses /\ known' \in [set : BOOLEAN, failures : Nat, used : Uses]
          BY <5>1 DEF Values
        <5>3. disk' \in [failures : Nat, used : Uses] /\ lost' \in Nat
          <6>1. CASE Save(unsaved, 0, known.used)
            BY <5>2, <6>1, SaveKeepsTypes
          <6>2. CASE UNCHANGED <<disk, lost>>
            BY <6>2 DEF Values
          <6> QED
            BY <5>1, <6>1, <6>2
        <5> QED
          BY <5>1, <5>2, <5>3
      <4>2. CASE ~checkingPin /\ PasswordUnlocked
        <5>1. CASE known.set
          <6>1. Save(FALSE, 0, "fresh") /\ wrong' = 0
            BY <4>2, <5>1 DEF PasswordUnlocked
          <6>2. known' \in [set : BOOLEAN, failures : Nat, used : Uses]
            <7>1. known' = [known EXCEPT !.failures = 0, !.used = "fresh"]
              BY <4>2, <5>1 DEF PasswordUnlocked
            <7> QED
              BY <7>1, RecordKeepsShape DEF Values, Uses
          <6>3. "fresh" \in Uses /\ 0 \in Nat
            BY DEF Uses
          <6>4. disk' \in [failures : Nat, used : Uses] /\ lost' \in Nat
            BY <6>1, <6>3, SaveKeepsTypes
          <6> QED
            BY <6>1, <6>2, <6>4
        <5>2. CASE ~known.set
          BY <4>2, <5>2 DEF PasswordUnlocked, Values
        <5> QED
          BY <5>1, <5>2
      <4> QED
        BY <1>2, <4>1, <4>2 DEF Yes
    <3> QED
      BY <1>2, <3>1, TheRestWasThere DEF Yes, Take, Values, Phases
  <2>3. (Kept /\ HeldByTheLock /\ OfTheEntry)'
    BY <1>2, CountedIsAnswered DEF Kept, HeldByTheLock, OfTheEntry, Values, Yes,
       PinUnlocked, PasswordUnlocked, Save, Take, Counts
  <2>4. AnswersAreRight'
    BY <1>2, <2>2, AnswersStayRight DEF Values, Yes, PinUnlocked, PasswordUnlocked, Save,
       Take, Counts
  <2>5. (StreakIsShort /\ PinFirst)'
    BY <1>2 DEF StreakIsShort, PinFirst, Yes, Take, Counts
  <2>6. (CountsKeepUp /\ GuessesBounded)'
    <3>1. wrong' = 0 /\ submitted' = Nothing
      BY <1>2 DEF Yes, PinUnlocked, PasswordUnlocked
    <3>2. disk' \in [failures : Nat, used : Uses] /\ lost' \in Nat
      BY <2>2, Zenon DEF Values
    <3> QED
      BY <3>1, <3>2, NoneWrongIsInBounds, Zenon
  <2> QED
    BY <2>1, <2>2, <2>3, <2>4, <2>5, <2>6
<1>3. CASE WrongPin
  <2>1. Flags'
    BY <1>3, Zenon DEF Flags, WrongPin, PinFailed, Save, StartCheck, Take, Counts
  <2>2. Values'
    <3>1. submitted \in Entries
      BY <1>3, CountedIsAnswered DEF WrongPin, Take, Kept, Values
    <3>2. check' \in Checks
      BY <1>3, <3>1 DEF WrongPin, StartCheck, Values, Checks
    <3>3. /\ known' \in [set : BOOLEAN, failures : Nat, used : Uses]
          /\ disk' \in [failures : Nat, used : Uses]
          /\ wrong' \in Nat /\ lost' \in Nat
      <4>1. /\ known' = [known EXCEPT !.failures = @ + 1] /\ wrong' = wrong + 1
            /\ Save(unsaved, known.failures + 1, known.used)
        BY <1>3 DEF WrongPin, PinFailed
      <4>2. known.failures + 1 \in Nat /\ known.used \in Uses
        BY DEF Values
      <4>3. disk' \in [failures : Nat, used : Uses] /\ lost' \in Nat
        BY <4>1, <4>2, SaveKeepsTypes
      <4>4. known' \in [set : BOOLEAN, failures : Nat, used : Uses]
        <5>1. known \in [set : BOOLEAN, failures : Nat, used : Uses]
          BY DEF Values
        <5> QED
          BY <4>1, <4>2, <5>1, RecordKeepsShape, Zenon
      <4>5. wrong' \in Nat
        <5>1. wrong \in Nat
          BY DEF Values
        <5> QED
          BY <4>1, <5>1
      <4> QED
        BY <4>3, <4>4, <4>5, Zenon
    <3>4. answers' \in Seq(Answers)
      BY <1>3, TheRestWasThere DEF WrongPin, Take
    <3>5. serial' = serial + 1 /\ phase' = "Checking" /\ until' = "none"
      BY <1>3 DEF WrongPin, StartCheck
    <3>6. UNCHANGED <<typed, submitted, streak, retried, settling, cli>>
      BY <1>3 DEF WrongPin, Take
    <3> QED
      BY <3>2, <3>3, <3>4, <3>5, <3>6 DEF Values, Phases
  <2>3. (Kept /\ HeldByTheLock /\ OfTheEntry)'
    BY <1>3, CountedIsAnswered DEF Kept, HeldByTheLock, OfTheEntry, Values, WrongPin,
       PinFailed, Save, StartCheck, Take, Counts
  <2>4. AnswersAreRight'
    <3>1. serial' = serial + 1 /\ answers # <<>> /\ answers' = Tail(answers)
      BY <1>3 DEF WrongPin, StartCheck, Take
    <3>2. serial \in Nat
      BY DEF Values
    <3> QED
      BY <3>1, <3>2, AnswersStayRight
  <2>5. (StreakIsShort /\ CountsKeepUp /\ GuessesBounded /\ PinFirst)'
    <3>1. Asking /\ submitted # Nothing /\ checkingPin /\ ~checkingPin'
      BY <1>3, CountedIsAnswered DEF WrongPin, Take, Kept
    <3>2. wrong <= known.failures + lost /\ known.failures < PinAttempts
      BY <3>1 DEF CountsKeepUp
    <3>3. wrong' = wrong + 1 /\ Save(unsaved, known.failures + 1, known.used)
      BY <1>3 DEF WrongPin, PinFailed
    <3>4. \/ disk'.failures = known.failures + 1 /\ lost' = lost
          \/ disk' = disk /\ lost' = lost + 1
      BY <3>3 DEF Save
    <3>5. (CountsKeepUp /\ GuessesBounded)'
      BY <3>1, <3>2, <3>3, <3>4 DEF CountsKeepUp, GuessesBounded, Values
    <3>6. (StreakIsShort /\ PinFirst)'
      BY <1>3, <3>1 DEF StreakIsShort, PinFirst, WrongPin, StartCheck, Take
    <3> QED
      BY <3>5, <3>6
  <2> QED
    BY <2>1, <2>2, <2>3, <2>4, <2>5
<1>4. CASE No
  <2>1. Flags'
    BY <1>4, Zenon DEF Flags, No, Take, Counts
  <2>2. Values'
    BY <1>4, TheRestWasThere, CountedIsAnswered DEF Flags, Values, Phases, Checks, Uses,
       Kept, StreakIsShort, No, Take, Counts
  <2>3. (Kept /\ HeldByTheLock /\ OfTheEntry)'
    BY <1>4, CountedIsAnswered DEF Kept, HeldByTheLock, OfTheEntry, Values, No, Take, Counts
  <2>4. AnswersAreRight'
    BY <1>4, <2>2, AnswersStayRight DEF Values, No, Take, Counts
  <2>5. (StreakIsShort /\ CountsKeepUp /\ GuessesBounded /\ PinFirst)'
    BY <1>4 DEF Kept, StreakIsShort, CountsKeepUp, GuessesBounded, PinFirst, Flags, Values,
       No, Take, Counts
  <2> QED
    BY <2>1, <2>2, <2>3, <2>4, <2>5
<1>5. CASE Refused
  <2>1. Flags'
    BY <1>5, Zenon DEF Flags, Refused, Take, Counts
  <2>2. Values'
    BY <1>5, TheRestWasThere, CountedIsAnswered DEF Flags, Values, Phases, Checks, Uses,
       Kept, StreakIsShort, Refused, Take, Counts
  <2>3. (Kept /\ HeldByTheLock /\ OfTheEntry)'
    BY <1>5, CountedIsAnswered DEF Kept, HeldByTheLock, OfTheEntry, Values, Refused, Take,
       Counts
  <2>4. AnswersAreRight'
    BY <1>5, <2>2, AnswersStayRight DEF Values, Refused, Take, Counts
  <2>5. (StreakIsShort /\ CountsKeepUp /\ GuessesBounded /\ PinFirst)'
    BY <1>5 DEF Kept, StreakIsShort, CountsKeepUp, GuessesBounded, PinFirst, Flags, Values,
       Refused, Take, Counts
  <2> QED
    BY <2>1, <2>2, <2>3, <2>4, <2>5
<1>6. CASE PinGone
  <2>1. Flags'
    BY <1>6, Zenon DEF Flags, PinGone, Refreshed, Take, Counts
  <2>2. Values'
    BY <1>6, TheRestWasThere, CountedIsAnswered DEF Flags, Values, Phases, Checks, Uses,
       Kept, StreakIsShort, PinGone, Refreshed, Take, Counts
  <2>3. (Kept /\ HeldByTheLock /\ OfTheEntry)'
    <3>1. native /\ native' = native
      BY <1>6 DEF HeldByTheLock, PinGone, Take, Counts
    <3>2. (Kept /\ OfTheEntry)'
      BY <1>6, CountedIsAnswered DEF Kept, OfTheEntry, Values, PinGone, Take
    <3> QED
      BY <3>1, <3>2 DEF HeldByTheLock
  <2>4. AnswersAreRight'
    BY <1>6, <2>2, AnswersStayRight DEF Values, PinGone, Refreshed, Take, Counts
  <2>5. (StreakIsShort /\ CountsKeepUp /\ GuessesBounded /\ PinFirst)'
    BY <1>6 DEF Kept, StreakIsShort, CountsKeepUp, GuessesBounded, PinFirst, Flags, Values,
       PinGone, Refreshed, Take, Counts
  <2> QED
    BY <2>1, <2>2, <2>3, <2>4, <2>5
<1>7. CASE Lasting
  <2>1. Flags'
    BY <1>7, Zenon DEF Flags, Lasting, Seen, Refreshed, TakesPin, Take, Counts
  <2>2. Values'
    BY <1>7, TheRestWasThere, CountedIsAnswered DEF Flags, Values, Phases, Checks, Uses,
       Kept, StreakIsShort, Lasting, Seen, Refreshed, TakesPin, Take, Counts
  <2>3. (Kept /\ HeldByTheLock /\ OfTheEntry)'
    BY <1>7, CountedIsAnswered DEF Kept, HeldByTheLock, OfTheEntry, Values, Lasting, Seen,
       Refreshed, TakesPin, Take, Counts
  <2>4. AnswersAreRight'
    BY <1>7, <2>2, AnswersStayRight DEF Values, Lasting, Seen, Refreshed, TakesPin, Take,
       Counts
  <2>5. (StreakIsShort /\ CountsKeepUp /\ GuessesBounded /\ PinFirst)'
    BY <1>7 DEF Kept, StreakIsShort, CountsKeepUp, GuessesBounded, PinFirst, Flags, Values,
       Lasting, Seen, Refreshed, TakesPin, Take, Counts
  <2> QED
    BY <2>1, <2>2, <2>3, <2>4, <2>5
<1>8. CASE Unavailable
  <2>1. Flags'
    BY <1>8, Zenon DEF Flags, Unavailable, Seen, Refreshed, TakesPin, Take, Counts
  <2>2. Values'
    BY <1>8, TheRestWasThere, CountedIsAnswered DEF Flags, Values, Phases, Checks, Uses,
       Kept, StreakIsShort, Unavailable, Seen, Refreshed, TakesPin, Take, Counts
  <2>3. (Kept /\ HeldByTheLock /\ OfTheEntry)'
    BY <1>8, CountedIsAnswered DEF Kept, HeldByTheLock, OfTheEntry, Values, Unavailable,
       Seen, Refreshed, TakesPin, Take, Counts
  <2>4. AnswersAreRight'
    BY <1>8, <2>2, AnswersStayRight DEF Values, Unavailable, Seen, Refreshed, TakesPin,
       Take, Counts
  <2>5. (StreakIsShort /\ CountsKeepUp /\ GuessesBounded /\ PinFirst)'
    BY <1>8 DEF Kept, StreakIsShort, CountsKeepUp, GuessesBounded, PinFirst, Flags, Values,
       Unavailable, Seen, Refreshed, TakesPin, Take, Counts
  <2> QED
    BY <2>1, <2>2, <2>3, <2>4, <2>5
<1> QED
  BY <1>1, <1>2, <1>3, <1>4, <1>5, <1>6, <1>7, <1>8 DEF Inv

\* Time, the configuration, `solium pin` and a restart.
LEMMA OutsideKeepsInv == Inv /\ Outside => Inv'
<1> SUFFICES ASSUME Inv, Outside PROVE Inv'
  OBVIOUS
<1> USE DEF Inv, Asking, Waiting, fieldVars, countVars, checkVars, pinVars
<1>1. CASE HoursPass
  <2>1. Flags'
    BY <1>1, Zenon DEF Flags, HoursPass, Aged
  <2>2. Values'
    BY <1>1 DEF Flags, Values, Phases, Checks, Uses, HoursPass, Aged
  <2>3. (Kept /\ HeldByTheLock /\ OfTheEntry)'
    BY <1>1 DEF Kept, HeldByTheLock, OfTheEntry, Values, HoursPass, Aged
  <2>4. AnswersAreRight'
    BY <1>1, <2>2, AnswersStayRight DEF Values, HoursPass, Aged
  <2>5. (StreakIsShort /\ CountsKeepUp /\ GuessesBounded /\ PinFirst)'
    BY <1>1 DEF Kept, StreakIsShort, CountsKeepUp, GuessesBounded, PinFirst, Flags, Values,
       HoursPass, Aged
  <2> QED
    BY <2>1, <2>2, <2>3, <2>4, <2>5
<1>2. CASE Configure
  <2>1. Flags'
    BY <1>2, Zenon DEF Flags, Configure
  <2>2. Values'
    BY <1>2 DEF Flags, Values, Phases, Checks, Uses, Configure
  <2>3. (Kept /\ HeldByTheLock /\ OfTheEntry)'
    BY <1>2 DEF Kept, HeldByTheLock, OfTheEntry, Values, Configure
  <2>4. AnswersAreRight'
    BY <1>2, <2>2, AnswersStayRight DEF Values, Configure
  <2>5. (StreakIsShort /\ CountsKeepUp /\ GuessesBounded /\ PinFirst)'
    BY <1>2 DEF Kept, StreakIsShort, CountsKeepUp, GuessesBounded, PinFirst, Flags, Values,
       Configure
  <2> QED
    BY <2>1, <2>2, <2>3, <2>4, <2>5
<1>3. ASSUME NEW what \in {"set", "clear"}, PinCommand(what) PROVE Inv'
  <2>1. Flags'
    BY <1>3, Zenon DEF Flags, PinCommand
  <2>2. Values'
    BY <1>3 DEF Flags, Values, Phases, Checks, Uses, PinCommand
  <2>3. (Kept /\ HeldByTheLock /\ OfTheEntry)'
    BY <1>3 DEF Kept, HeldByTheLock, OfTheEntry, Values, PinCommand
  <2>4. AnswersAreRight'
    BY <1>3, <2>2, AnswersStayRight DEF Values, PinCommand
  <2>5. (StreakIsShort /\ CountsKeepUp /\ GuessesBounded /\ PinFirst)'
    BY <1>3 DEF Kept, StreakIsShort, CountsKeepUp, GuessesBounded, PinFirst, Flags, Values,
       PinCommand
  <2> QED
    BY <2>1, <2>2, <2>3, <2>4, <2>5
<1>4. CASE PinCommandEnds
  <2>1. Flags'
    BY <1>4, Zenon DEF Flags, PinCommandEnds
  <2>2. Values'
    BY <1>4 DEF Flags, Values, Phases, Checks, Uses, PinCommandEnds
  <2>3. (Kept /\ HeldByTheLock /\ OfTheEntry)'
    BY <1>4 DEF Kept, HeldByTheLock, OfTheEntry, Values, PinCommandEnds
  <2>4. AnswersAreRight'
    BY <1>4, <2>2, AnswersStayRight DEF Values, PinCommandEnds
  <2>5. (StreakIsShort /\ CountsKeepUp /\ GuessesBounded /\ PinFirst)'
    BY <1>4 DEF Kept, StreakIsShort, CountsKeepUp, GuessesBounded, PinFirst, Flags, Values,
       PinCommandEnds
  <2> QED
    BY <2>1, <2>2, <2>3, <2>4, <2>5
<1>5. CASE Restart
  <2>1. Flags'
    BY <1>5, Zenon DEF Flags, Restart, Aged
  <2>2. Values'
    BY <1>5 DEF Flags, Values, Phases, Checks, Uses, Restart, Aged
  <2>3. (Kept /\ HeldByTheLock /\ OfTheEntry)'
    BY <1>5 DEF Kept, HeldByTheLock, OfTheEntry, Values, Restart, Aged
  <2>4. AnswersAreRight'
    BY <1>5 DEF AnswersAreRight, Restart
  <2>5. (StreakIsShort /\ GuessesBounded /\ PinFirst)'
    BY <1>5 DEF StreakIsShort, GuessesBounded, PinFirst, Restart
  <2>6. CountsKeepUp'
    <3>1. disk'.failures = disk.failures /\ UNCHANGED <<wrong, lost>> /\ submitted' = Nothing
      BY <1>5 DEF Restart, Aged, Values
    <3> QED
      BY <3>1 DEF CountsKeepUp
  <2> QED
    BY <2>1, <2>2, <2>3, <2>4, <2>5, <2>6
<1> QED
  BY <1>1, <1>2, <1>3, <1>4, <1>5 DEF Outside

-----------------------------------------------------------------------------
(* The theorems.                                                           *)

LEMMA InitHasInv == Init => Inv
<1> SUFFICES ASSUME Init PROVE Inv
  OBVIOUS
<1>1. Flags
  BY Zenon DEF Init, Flags
<1>2. Values
  BY DEF Init, Values, Phases, Uses
<1>3. Kept /\ HeldByTheLock /\ OfTheEntry /\ AnswersAreRight
  BY DEF Init, Kept, Asking, Waiting, HeldByTheLock, OfTheEntry, AnswersAreRight
<1>4. StreakIsShort /\ CountsKeepUp /\ GuessesBounded /\ PinFirst
  BY DEF Init, StreakIsShort, CountsKeepUp, GuessesBounded, PinFirst
<1> QED
  BY <1>1, <1>2, <1>3, <1>4 DEF Inv

LEMMA NextKeepsInv == Inv /\ [Next]_vars => Inv'
<1> SUFFICES ASSUME Inv, [Next]_vars PROVE Inv'
  OBVIOUS
<1>1. CASE UNCHANGED vars
  BY <1>1 DEF Inv, vars, fieldVars, countVars, checkVars, pinVars, Flags, Values, Kept,
     Asking, Waiting, HeldByTheLock, OfTheEntry, AnswersAreRight, AnswerIsRight, Right,
     StreakIsShort, CountsKeepUp, GuessesBounded, PinFirst
<1>2. CASE Next
  BY <1>2, LockKeepsInv, TypingKeepsInv, DeliverKeepsInv, WaitsKeepInv, AnswersKeepInv,
     OutsideKeepsInv DEF Next, Settle
<1> QED
  BY <1>1, <1>2

\* The inductive invariant holds of every execution.
THEOREM InvHolds == Spec => []Inv
  BY InitHasInv, NextKeepsInv, PTL DEF Spec

\* The field, the checks and the PIN's counts are always what the code's types
\* and limits allow: no streak past the lockout's limit, no retry too many.
THEOREM LockAuthIsTypeCorrect == Spec => []TypeOK
<1>1. Inv => TypeOK
  BY TypeIsFlagsAndValues DEF Inv
<1> QED
  BY <1>1, InvHolds, PTL

\* What was submitted lives exactly as long as it is asked about or waits to be
\* again, at Solium's own lock (LockAuth::submitted, wiped when dropped).
THEOREM SecretIsKeptWhileAsked == Spec => []KeptWhileAsked
<1>1. Inv => KeptWhileAsked
  BY DEF Inv, Kept, Asking, Waiting, HeldByTheLock, KeptWhileAsked
<1> QED
  BY <1>1, InvHolds, PTL

\* The field never takes a key with a lockout's worth of wrong answers since
\* the last lockout (LockAuth::settle).
THEOREM TheLockoutHolds == Spec => []LockoutHolds
<1>1. Inv => LockoutHolds
  BY DEF Inv, Values, Phases, Kept, Asking, Waiting, StreakIsShort, LockoutHolds, Accepting
<1> QED
  BY <1>1, InvHolds, PTL

\* Locks, restarts and `solium pin` give nobody more wrong PINs in a row than
\* lock.pin.attempts, but one for each count that could not be saved.
THEOREM PinGuessesAreBounded == Spec => []GuessesBounded
<1>1. Inv => GuessesBounded
  BY DEF Inv
<1> QED
  BY <1>1, InvHolds, PTL

\* What was typed as a PIN reaches PAM only after it was checked as the PIN.
THEOREM NoPinIsGivenToPAM == Spec => []NoPinToPAM
<1>1. Inv => NoPinToPAM
  <2> SUFFICES ASSUME Inv, check # NoCheck, ~check.pin, check.entry \in Shaped, typedAsPin
               PROVE  entryPin
    BY DEF NoPinToPAM
  <2>1. Asking /\ check.entry = submitted
    BY DEF Inv, OfTheEntry
  <2>2. submitted # Nothing
    BY <2>1 DEF Inv, Kept
  <2> QED
    BY <2>1, <2>2 DEF Inv, PinFirst
<1> QED
  BY <1>1, InvHolds, PTL

\* Every step but a yes leaves the field short of unlocking, and a yes that
\* counts is to the entry submitted under this lock, which is the secret.
THEOREM OnlyTheSecretLeavesTheLock == Spec => OnlyTheSecretUnlocks
<1> DEFINE Wanted == phase # "Unlocking" /\ phase' = "Unlocking"
                       => native /\ submitted = IF checkingPin THEN Pin ELSE Password
<1>1. Inv /\ [Next]_vars => [Wanted]_vars
  <2> SUFFICES ASSUME Inv, Next, phase # "Unlocking", phase' = "Unlocking"
               PROVE  native /\ submitted = Right
    BY DEF Right
  <2>1. Yes
    <3>1. ~(Begin \/ End \/ Unlock)
      BY DEF Begin, End, Unlock, Reset
    <3>2. ~Typing
      BY DEF Typing, Type, Erase, Clear, Submit, StartCheck
    <3>3. ~(SettleBegin \/ NoWaitOver \/ DelayOver \/ LockoutOver \/ Retry \/ Reached)
      BY DEF SettleBegin, NoWaitOver, DelayOver, LockoutOver, Retry, Reached, StartCheck,
         fieldVars
    <3>4. ~(Stale \/ WrongPin \/ No \/ Refused \/ PinGone \/ Lasting \/ Unavailable)
      BY DEF Stale, WrongPin, No, Refused, PinGone, Lasting, Unavailable, StartCheck,
         fieldVars
    <3>5. ~(Outside \/ Deliver)
      BY DEF Outside, HoursPass, Configure, PinCommand, PinCommandEnds, Restart, Deliver,
         fieldVars
    <3> QED
      BY <3>1, <3>2, <3>3, <3>4, <3>5 DEF Next, Settle
  <2>2. Asking /\ submitted = Right
    BY <2>1, CountedIsAnswered DEF Yes, Take
  <2> QED
    BY <2>2 DEF Inv, HeldByTheLock, Asking
<1> QED
  BY <1>1, InvHolds, PTL DEF Spec, OnlyTheSecretUnlocks

-----------------------------------------------------------------------------
(* LockAuth implements EntryPromise.                                       *)

\* What the promise is about, left alone.
Aside == UNCHANGED <<native, submitted, streak>> /\ Gate' = Gate

LEMMA AsideIsStutter == Aside => UNCHANGED Promise!vars
  BY DEF Aside, Promise!vars

LEMMA ResetIsAsNew == Reset => Promise!AsNew
  BY DEF Reset, Promise!AsNew, Gate

\* The lock taken and ended, and the field typed in.
LEMMA LockKeepsPromise ==
  ASSUME Inv, Begin \/ End \/ Unlock
  PROVE  Promise!Take \/ Promise!Leave
  BY ResetIsAsNew DEF Begin, End, Unlock, AtTheLock, Promise!Take, Promise!Leave

LEMMA TypingKeepsPromise ==
  ASSUME Inv, Typing
  PROVE  Aside \/ Promise!GiveUp \/ \E entry \in Entries : Promise!Ask(entry)
<1>1. ASSUME NEW entry \in Entries, Type(entry) PROVE Aside
  BY <1>1 DEF Type, Accepting, Aside, Gate, countVars
<1>2. ASSUME NEW left \in Entries \cup {Nothing}, Erase(left) PROVE Aside
  BY <1>2 DEF Erase, Accepting, Aside, Gate, countVars
<1>3. CASE Clear
  <2>1. native /\ Gate = "free" /\ Gate' = "free" /\ UNCHANGED <<native, streak>>
    BY <1>3 DEF Clear, AtTheLock, Gate, countVars
  <2>2. submitted' = submitted \/ submitted' = Nothing
    BY <1>3 DEF Clear
  <2> QED
    BY <2>1, <2>2 DEF Aside, Promise!GiveUp
<1>4. CASE Submit
  <2>1. /\ native /\ submitted = Nothing /\ streak < Attempts
        /\ Gate = "free" /\ Gate' = "free" /\ UNCHANGED <<native, streak>>
    <3>1. submitted = Nothing
      BY <1>4 DEF Inv, Values, Kept, Asking, Waiting, Submit, Accepting
    <3>2. streak < Attempts
      BY <1>4 DEF Inv, StreakIsShort, Submit, Accepting
    <3>3. Gate = "free" /\ Gate' = "free"
      BY <1>4 DEF Submit, Accepting, StartCheck, Gate
    <3> QED
      BY <1>4, <3>1, <3>2, <3>3 DEF Submit, AtTheLock
  <2>2. submitted' = Nothing \/ submitted' \in Entries
    BY <1>4, <2>1 DEF Submit, Inv, Values
  <2>3. CASE submitted' = Nothing
    BY <2>1, <2>3 DEF Aside
  <2>4. CASE submitted' \in Entries
    BY <2>1, <2>4 DEF Promise!Ask
  <2> QED
    BY <2>2, <2>3, <2>4
<1> QED
  BY <1>1, <1>2, <1>3, <1>4 DEF Typing

\* An answer that counts ends the question, or leaves it asked.
LEMMA AnswersKeepPromise ==
  ASSUME Inv, Yes \/ WrongPin \/ No \/ Refused \/ PinGone \/ Lasting \/ Unavailable
  PROVE  Aside \/ Promise!Grant \/ Promise!Miss \/ Promise!GiveUp
<1>1. /\ answers # <<>> /\ Counts(Head(answers))
      /\ phase = "Checking" /\ Gate = "free" /\ UNCHANGED native
  BY DEF Yes, WrongPin, No, Refused, PinGone, Lasting, Unavailable, Take, Counts, Gate
<1>2. submitted # Nothing
  BY <1>1, CountedIsAnswered DEF Inv, Kept
<1>3. CASE Yes
  <2>1. submitted \in {Password, Pin}
    BY <1>1, <1>3, CountedIsAnswered DEF Yes, Take, Right
  <2> QED
    BY <1>1, <1>3, <2>1 DEF Yes, Gate, countVars, Promise!Grant
<1>4. CASE WrongPin
  BY <1>1, <1>4 DEF WrongPin, StartCheck, Gate, countVars, Aside
<1>5. CASE No \/ Refused
  BY <1>1, <1>2, <1>5 DEF No, Refused, Gate, Promise!Miss
<1>6. CASE PinGone \/ Lasting
  BY <1>1, <1>2, <1>6 DEF PinGone, Lasting, Gate, countVars, Promise!GiveUp
<1>7. CASE Unavailable
  <2>1. Gate' = "free" /\ UNCHANGED <<native, streak>>
    BY <1>1, <1>7 DEF Unavailable, Gate
  <2>2. submitted' = submitted \/ submitted' = Nothing
    BY <1>7 DEF Unavailable
  <2> QED
    BY <1>1, <1>2, <2>1, <2>2 DEF Aside, Promise!GiveUp
<1> QED
  BY <1>3, <1>4, <1>5, <1>6, <1>7

\* A wait over: the lockout comes, goes, or the question is asked once more.
LEMMA WaitsKeepPromise ==
  ASSUME Inv, SettleBegin \/ Stale \/ NoWaitOver \/ DelayOver \/ LockoutOver \/ Retry
  PROVE  Aside \/ Promise!LockOut \/ Promise!LockoutEnds
<1>1. CASE SettleBegin \/ Stale \/ NoWaitOver
  BY <1>1 DEF SettleBegin, Stale, NoWaitOver, fieldVars, countVars, Aside, Gate
<1>2. CASE DelayOver
  <2>1. submitted = Nothing /\ Gate = "free"
    BY <1>2 DEF Inv, Kept, Asking, Waiting, DelayOver, Gate
  <2>2. CASE streak >= Attempts
    <3>1. streak = Attempts
      BY <2>2 DEF Inv, Values
    <3> QED
      BY <1>2, <2>1, <2>2, <3>1 DEF DelayOver, Gate, Promise!LockOut
  <2>3. CASE ~(streak >= Attempts)
    <3>1. Gate' = "free"
      BY <1>2, <2>3 DEF DelayOver, Gate
    <3> QED
      BY <1>2, <2>1, <2>3, <3>1 DEF DelayOver, Aside
  <2> QED
    BY <2>2, <2>3
<1>3. CASE LockoutOver
  BY <1>3 DEF LockoutOver, countVars, Gate, Promise!LockoutEnds
<1>4. CASE Retry
  BY <1>4 DEF Retry, StartCheck, countVars, Gate, Aside
<1> QED
  BY <1>1, <1>2, <1>3, <1>4

\* Of all that happens elsewhere only the end of Solium is of the promise.
LEMMA OutsideKeepsPromise ==
  ASSUME Inv, Outside \/ Deliver \/ Reached
  PROVE  Aside \/ Promise!Leave
<1>1. CASE Deliver \/ Reached
  BY <1>1 DEF Deliver, Reached, fieldVars, countVars, Aside, Gate
<1>2. CASE HoursPass \/ Configure \/ PinCommandEnds
  BY <1>2 DEF HoursPass, Configure, PinCommandEnds, fieldVars, countVars, Aside, Gate
<1>3. CASE PinCommand("set") \/ PinCommand("clear")
  BY <1>3 DEF PinCommand, fieldVars, countVars, Aside, Gate
<1>4. CASE Restart
  <2>1. native' = FALSE /\ Promise!AsNew
    BY <1>4 DEF Restart, Gate, Promise!AsNew
  <2>2. CASE native
    BY <2>1, <2>2 DEF Promise!Leave
  <2>3. CASE ~native
    <3>1. phase = "Idle" /\ submitted = Nothing
      BY <2>3 DEF Inv, HeldByTheLock, Kept, Asking, Waiting
    <3>2. streak = 0
      BY <2>3 DEF Inv, HeldByTheLock
    <3> QED
      BY <2>1, <2>3, <3>1, <3>2 DEF Promise!AsNew, Aside, Gate, Inv, Flags
  <2> QED
    BY <2>2, <2>3
<1> QED
  BY <1>1, <1>2, <1>3, <1>4 DEF Outside

\* "One entry counts one attempt": Solium's lock, with its helper, PIN, retries,
\* crashes and answers out of time, treats entries as EntryPromise says
\* (LockAuth::settle).
THEOREM EntriesCountOnce == Spec => KeepsItsPromise
<1>1. Init => Promise!Init
  BY DEF Init, Promise!Init, Gate
<1>2. Inv /\ [Next]_vars => [Promise!Next]_Promise!vars
  <2> SUFFICES ASSUME Inv, [Next]_vars PROVE [Promise!Next]_Promise!vars
    OBVIOUS
  <2>1. CASE UNCHANGED vars
    <3>1. Aside
      BY <2>1 DEF vars, fieldVars, countVars, Aside, Gate
    <3> QED
      BY <3>1, AsideIsStutter
  <2>2. CASE Next
    BY <2>2, AsideIsStutter, LockKeepsPromise, TypingKeepsPromise, AnswersKeepPromise,
       WaitsKeepPromise, OutsideKeepsPromise DEF Next, Settle, Promise!Next
  <2> QED
    BY <2>1, <2>2
<1> QED
  BY <1>1, <1>2, InvHolds, PTL DEF Spec, KeepsItsPromise, Promise!Spec

=============================================================================
