SPECIFICATION Spec
CONSTANTS
    MaxSends = 3
    MaxPosted = 2
    SendFromSendComplete = TRUE
INVARIANT
    OneWriteInFlight
CHECK_DEADLOCK FALSE
