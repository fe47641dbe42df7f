\* esp_ping waits up to a second for a reply and a second for the next turn;
\* the shell gives it three.
CONSTANTS
    Cycle = 2
    Grace = 3
    MaxInput = 2
SPECIFICATION PingFairSpec
INVARIANTS PingTypeOK QuietAtPrompt EndsForAReason
PROPERTIES Interruptible
