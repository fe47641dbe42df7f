\* Two restarts: one start is cut off, the next begins with what it left.
SPECIFICATION BootFairSpec
CONSTANTS
    Delay = 3
    MaxRestarts = 2
INVARIANTS
    BootTypeOK
    ReadyWhenUsed
    OneStation
PROPERTIES
    BootEnds
