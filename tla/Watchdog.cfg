\* What the comment on the watchdog's configuration says, against what it does.
CONSTANTS
    Shells = {usb}
    Main = Main
    StuckAfter = 3
    ResetGap = 2
    ConfigEvery = 1
    BeatEvery = 1
    WatchdogAfter = 1
    MaxFrames = 1
    Limit = 4
SPECIFICATION Spec
INVARIANT RestartOnTimeout
