\* Two callers and a queue of four events: room for what two commands post
\* while none of their events has been handled.  No symmetry with liveness.
CONSTANTS
    Callers = {usb, tcp}
    MaxEvents = 4
SPECIFICATION FairSpec
INVARIANTS TypeOK StartedMirrorsDriver LastCommandWins StatusMirrorsLink
PROPERTIES NeverGivesUp
