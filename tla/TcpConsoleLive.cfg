\* No symmetry with liveness; one descriptor less, so that accept() fails.
CONSTANTS
    Clients = {c1, c2, c3}
    Fds = {f1, f2}
    NoClient = NoClient
    NoFd = NoFd
    Backlog = 1
SPECIFICATION FairSpec
PROPERTIES BacklogDrains AbortFreesConsole
