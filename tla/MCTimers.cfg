CONSTANTS
    Owner = {track, listbox}
    NoOwner = noowner
    MaxTimers = 4
    MaxQueue = 3
SPECIFICATION Spec
INVARIANTS
    TypeOK
    CallbackKept
    OwnersAndTimersAgree
    NoGhostExpiry
PROPERTIES
    GoneForGood
    TimersFire
