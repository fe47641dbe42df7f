\* Three clients and three descriptors: one more client than the console and
\* its queue can hold, and enough descriptors for each to have one.
CONSTANTS
    Clients = {c1, c2, c3}
    Fds = {f1, f2, f3}
    NoClient = NoClient
    NoFd = NoFd
    Backlog = 1
SPECIFICATION Spec
SYMMETRY Symmetry
INVARIANTS TypeOK NoLeak Exclusive OneSpeaker
PROPERTIES ImplementsService
