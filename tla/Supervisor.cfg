\* The loop and a shell, no symmetry; the configuration is asked for every two
\* ticks, so that a timer which always restarts would never be due.
CONSTANTS
    Shells = {usb}
    Main = Main
    StuckAfter = 2
    ResetGap = 1
    ConfigEvery = 2
    BeatEvery = 1
    WatchdogAfter = 2
    MaxFrames = 1
    Limit = 3
SPECIFICATION FairSpec
INVARIANTS TypeOK LineReleased
PROPERTIES StuckIsReset KeepsTalking ResetsApart
