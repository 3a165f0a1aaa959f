--------------------------- MODULE MCLogindSleep ---------------------------
(***************************************************************************)
(* LogindSleep with the configurations TLC goes through.                   *)
(***************************************************************************)
EXTENDS LogindSleep, TLC

Native == [native |-> TRUE, command |-> FALSE, before_sleep |-> TRUE,
           logind_unlock |-> TRUE]
Locker == [Native EXCEPT !.native = FALSE, !.command = TRUE]
SleepOff == [Native EXCEPT !.before_sleep = FALSE, !.logind_unlock = FALSE]

NativeConfigs == {Native, SleepOff}
NativeOnly == {Native}
LockerConfigs == {Locker, [SleepOff EXCEPT !.native = FALSE]}
=============================================================================
