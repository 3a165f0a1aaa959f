CONSTANTS
    Entries = {word, digits, pin}
    Shaped = {digits, pin}
    Password = digits
    Pin = pin
    Nothing = nothing
    Attempts = 2
    PinAttempts = 2
    Retries = 1
    MaxSerial = 5
    MaxLost = 1
SPECIFICATION Spec
INVARIANT TypeOK KeptWhileAsked LockoutHolds GuessesBounded NoPinToPAM
PROPERTY OnlyTheSecretUnlocks KeepsItsPromise
