SPECIFICATION Spec
CONSTANTS
    Wait = 4
    Poll = 2
    Timeouts <- ShortAndLong
INVARIANTS
    TypeOK
    PrintedWhenReady
    EndsInTime
    NotReadyIsNoTimeout
