CONSTANTS
    Entries = {pw, pin}
    Shaped = {pin}
    Password = pw
    Pin = pin
    Nothing = nothing
    Attempts = 1
    PinAttempts = 2
    Retries = 1
    MaxSerial = 3
    MaxLost = 0
SPECIFICATION FairSpec
PROPERTY FieldComesBack
