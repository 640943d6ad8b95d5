SPECIFICATION FairSpec
CONSTANTS
    MaxSends = 3
    MaxPosted = 2
    SendFromSendComplete = FALSE
INVARIANTS
    TypeOK
    OneWriteInFlight
    NoStall
    DownAtMostTwice
PROPERTIES
    DownIsReported
    DataGoesOut
    ImplementsStream
CHECK_DEADLOCK FALSE
