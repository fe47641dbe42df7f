----------------------------- MODULE TcpConsole -----------------------------
(***************************************************************************)
(* The network console on TCP port 16876 (src/main/meshroof.cxx).          *)
(*                                                                         *)
(* Two FreeRTOS tasks of core 1 share the global tcp_fd and a queue of one *)
(* descriptor.  binder_task accepts connections and either hands the       *)
(* descriptor over or refuses the client; tcp_console_task serves one      *)
(* descriptor at a time with the shell object shell2, whose "exit" command *)
(* closes the descriptor from inside the session.                          *)
(*                                                                         *)
(* An action is what a task does between two points at which the other one *)
(* can run: every lwIP call may block, and binder_task has the lower       *)
(* priority, so it can be stopped between any two statements.              *)
(***************************************************************************)
EXTENDS Naturals, Sequences

CONSTANTS
    Clients,    \* remote hosts, each with at most one connection at a time
    Fds,        \* descriptors of the lwIP socket table
    NoClient,   \* a free entry of the socket table
    NoFd,       \* the value -1 of tcp_fd, and the empty queue
    Backlog     \* connections lwIP keeps for accept(): the 1 of listen()

ASSUME SentinelAssumption == NoClient \notin Clients /\ NoFd \notin Fds
ASSUME BacklogAssumption == Backlog \in Nat \ {0}

VARIABLES
    backlog,      \* connections waiting for accept()
    peer,         \* the remote end of each client's connection
    told,         \* clients that got "Too many connected clients, bye!"
    sock,         \* lwIP socket table: the connection behind a descriptor
    queue,        \* the slot of xQueueCreate(1, sizeof(int))
    tcp_fd,       \* the global read by both tasks
    bpc,          \* next statement of binder_task
    client_sock,  \* its local; NoFd once its value is dead
    cpc,          \* next statement of tcp_console_task
    served,       \* history: the client shell2 was attached to
    speaker,      \* history: the client whose command shell2 ran last
    exited        \* history: descriptors closed by "exit", still referred to

env == <<backlog, peer, told>>
binder == <<bpc, client_sock>>
console == <<tcp_fd, cpc, served, speaker, exited>>
vars == <<backlog, peer, told, sock, queue, tcp_fd, bpc, client_sock, cpc,
          served, speaker, exited>>

PeerStates == {"away", "connecting", "open", "fin", "reset"}
BinderSteps == {"listen", "accept", "check", "send", "tell", "close", "dead"}
ConsoleSteps == {"receive", "attach", "process", "close", "clear"}

TypeOK ==
    /\ backlog \in Seq(Clients)
    /\ peer \in [Clients -> PeerStates]
    /\ told \subseteq Clients
    /\ sock \in [Fds -> Clients \cup {NoClient}]
    /\ queue \in Fds \cup {NoFd}
    /\ tcp_fd \in Fds \cup {NoFd}
    /\ bpc \in BinderSteps
    /\ client_sock \in Fds \cup {NoFd}
    /\ cpc \in ConsoleSteps
    /\ served \in Clients \cup {NoClient}
    /\ speaker \in Clients \cup {NoClient}
    /\ exited \subseteq Fds

Init ==
    /\ backlog = <<>>
    /\ peer = [c \in Clients |-> "away"]
    /\ told = {}
    /\ sock = [f \in Fds |-> NoClient]
    /\ queue = NoFd
    /\ tcp_fd = NoFd
    /\ bpc = "listen"
    /\ client_sock = NoFd
    /\ cpc = "receive"
    /\ served = NoClient
    /\ speaker = NoClient
    /\ exited = {}

-----------------------------------------------------------------------------
(* The network: remote clients and the lwIP socket table (external).       *)

\* A connection request is taken while the listening socket has room for it.
Connect(c) ==
    /\ bpc \notin {"listen", "dead"}
    /\ peer[c] = "away"
    /\ Len(backlog) < Backlog
    /\ peer' = [peer EXCEPT ![c] = "connecting"]
    /\ backlog' = Append(backlog, c)
    /\ told' = told \ {c}
    /\ UNCHANGED <<sock, queue, binder, console>>

\* The client closes its end: from now on read() returns 0.
HangUp(c) ==
    /\ peer[c] = "open"
    /\ peer' = [peer EXCEPT ![c] = "fin"]
    /\ UNCHANGED <<backlog, told, sock, queue, binder, console>>

\* The client aborts, or answers a write with a reset: read() returns -1.
Abort(c) ==
    /\ peer[c] \in {"open", "fin"}
    /\ peer' = [peer EXCEPT ![c] = "reset"]
    /\ UNCHANGED <<backlog, told, sock, queue, binder, console>>

\* close(f): ends whatever connection f stands for at this moment; closing a
\* free descriptor is EBADF and changes nothing.
Close(f) ==
    /\ sock' = [sock EXCEPT ![f] = NoClient]
    /\ peer' = [c \in Clients |-> IF sock[f] = c THEN "away" ELSE peer[c]]
    /\ UNCHANGED <<backlog, told>>

-----------------------------------------------------------------------------
(* binder_task                                                             *)

\* socket(), bind() and listen() succeed.
BinderListens ==
    /\ bpc = "listen"
    /\ bpc' = "accept"
    /\ UNCHANGED <<client_sock, env, sock, queue, console>>

\* One of them fails: the task only reports its death, once a minute.
BinderDies ==
    /\ bpc = "listen"
    /\ bpc' = "dead"
    /\ UNCHANGED <<client_sock, env, sock, queue, console>>

BinderIsDead == bpc = "dead" /\ UNCHANGED vars

BinderAccept ==
    /\ bpc = "accept"
    /\ backlog # <<>>
    /\ \E f \in Fds :
         /\ sock[f] = NoClient
         /\ sock' = [sock EXCEPT ![f] = Head(backlog)]
         /\ client_sock' = f
    /\ peer' = [peer EXCEPT ![Head(backlog)] = "open"]
    /\ backlog' = Tail(backlog)
    /\ bpc' = "check"
    /\ UNCHANGED <<told, queue, console>>

\* accept() finds no free descriptor and drops the connection; the task
\* sleeps for a second and tries again.
BinderAcceptFails ==
    /\ bpc = "accept"
    /\ backlog # <<>>
    /\ \A f \in Fds : sock[f] # NoClient
    /\ peer' = [peer EXCEPT ![Head(backlog)] = "away"]
    /\ backlog' = Tail(backlog)
    /\ UNCHANGED <<told, sock, queue, binder, console>>

\* Mutant: the task waits until the console is free.
BinderCheck_Waits ==
    /\ bpc = "check"
    /\ tcp_fd = NoFd
    /\ bpc' = "send"
    /\ UNCHANGED <<client_sock, env, sock, queue, console>>

\* if (tcp_fd != -1)
BinderCheck ==
    /\ bpc = "check"
    /\ bpc' = IF tcp_fd # NoFd THEN "tell" ELSE "send"
    /\ UNCHANGED <<client_sock, env, sock, queue, console>>

\* Mutant: a full queue is not noticed and the descriptor is forgotten.
BinderSend_ForgetsWhenFull ==
    /\ bpc = "send"
    /\ queue' = IF queue = NoFd THEN client_sock ELSE queue
    /\ bpc' = "accept"
    /\ client_sock' = NoFd
    /\ UNCHANGED <<env, sock, console>>

\* Mutant: the client is refused although its descriptor was handed over.
BinderSend_RefusesAfterHandOver ==
    /\ bpc = "send"
    /\ queue' = IF queue = NoFd THEN client_sock ELSE queue
    /\ bpc' = "tell"
    /\ UNCHANGED <<client_sock, env, sock, console>>

\* xQueueSend(queue, &client_sock, 0): hands the descriptor over, or finds
\* the slot taken and goes on to refuse the client.
BinderSend ==
    /\ bpc = "send"
    /\ IF queue = NoFd
         THEN queue' = client_sock /\ bpc' = "accept" /\ client_sock' = NoFd
         ELSE bpc' = "tell" /\ UNCHANGED <<queue, client_sock>>
    /\ UNCHANGED <<env, sock, console>>

\* write(client_sock, msg): reaches whoever client_sock stands for now.
BinderTell ==
    /\ bpc = "tell"
    /\ told' = told \cup ({sock[client_sock]} \ {NoClient})
    /\ bpc' = "close"
    /\ UNCHANGED <<client_sock, backlog, peer, sock, queue, console>>

BinderClose ==
    /\ bpc = "close"
    /\ Close(client_sock)
    /\ client_sock' = NoFd
    /\ bpc' = "accept"
    /\ UNCHANGED <<queue, console>>

Binder ==
    \/ BinderListens \/ BinderDies \/ BinderIsDead
    \/ BinderAccept \/ BinderAcceptFails
    \/ BinderCheck \/ BinderSend \/ BinderTell \/ BinderClose

-----------------------------------------------------------------------------
(* tcp_console_task and the shell commands it runs                         *)

\* xQueueReceive(queue, &tcp_fd, portMAX_DELAY)
ConsoleReceive ==
    /\ cpc = "receive"
    /\ queue # NoFd
    /\ tcp_fd' = queue
    /\ queue' = NoFd
    /\ cpc' = "attach"
    /\ UNCHANGED <<served, speaker, exited, env, sock, binder>>

\* shell2->attach() and showWelcome()
ConsoleAttach ==
    /\ cpc = "attach"
    /\ served' = sock[tcp_fd]
    /\ speaker' = NoClient
    /\ cpc' = "process"
    /\ UNCHANGED <<tcp_fd, exited, env, sock, queue, binder>>

\* The session reads from a live connection.
HasInput(c) ==
    /\ cpc = "process"
    /\ sock[tcp_fd] = c
    /\ peer[c] = "open"

\* process() reads and runs a command other than exit.
ConsoleCommand(c) ==
    /\ HasInput(c)
    /\ speaker' = c
    /\ UNCHANGED <<tcp_fd, cpc, served, exited, env, sock, queue, binder>>

\* The exit command closes the descriptor and leaves tcp_fd and the shell's
\* context as they are.
ConsoleExit(c) ==
    /\ HasInput(c)
    /\ speaker' = c
    /\ exited' = exited \cup {tcp_fd}
    /\ Close(tcp_fd)
    /\ UNCHANGED <<tcp_fd, cpc, served, queue, binder>>

\* Mutant: an aborted connection is not recognised, only a closed descriptor.
ConsoleReadFails_IgnoresReset ==
    /\ cpc = "process"
    /\ sock[tcp_fd] = NoClient
    /\ cpc' = "close"
    /\ UNCHANGED <<tcp_fd, served, speaker, exited, env, sock, queue, binder>>

\* Mutant: a read that timed out ends the session.
ConsoleReadFails_TimedOut ==
    /\ cpc = "process"
    /\ cpc' = "close"
    /\ UNCHANGED <<tcp_fd, served, speaker, exited, env, sock, queue, binder>>

\* rx_read returns -1: the descriptor is closed or its connection aborted.
\* The end of the peer's stream is not among these: read() returns 0, which
\* is also what rx_read returns when its select() times out.
ConsoleReadFails ==
    /\ cpc = "process"
    /\ sock[tcp_fd] \notin {c \in Clients : peer[c] # "reset"}
    /\ cpc' = "close"
    /\ UNCHANGED <<tcp_fd, served, speaker, exited, env, sock, queue, binder>>

\* shell2->detach(); close(tcp_fd)
ConsoleClose ==
    /\ cpc = "close"
    /\ Close(tcp_fd)
    /\ cpc' = "clear"
    /\ UNCHANGED <<tcp_fd, served, speaker, exited, queue, binder>>

HeldByBinder(f) == bpc \in {"check", "send", "tell", "close"} /\ client_sock = f
HeldByQueue(f) == queue = f
HeldByConsole(f) == cpc \in {"attach", "process", "close"} /\ tcp_fd = f

\* Mutant: tcp_fd is cleared to 0, a value other than the one it is tested for.
ConsoleClear_Zero ==
    /\ cpc = "clear"
    /\ tcp_fd' = 0
    /\ cpc' = "receive"
    /\ served' = NoClient
    /\ speaker' = NoClient
    /\ UNCHANGED <<exited, env, sock, queue, binder>>

\* tcp_fd = -1.  A descriptor closed by exit is trustworthy again once no
\* variable of the program still holds its number.
ConsoleClear ==
    /\ cpc = "clear"
    /\ tcp_fd' = NoFd
    /\ cpc' = "receive"
    /\ served' = NoClient
    /\ speaker' = NoClient
    /\ exited' = IF HeldByBinder(tcp_fd) \/ HeldByQueue(tcp_fd)
                   THEN exited ELSE exited \ {tcp_fd}
    /\ UNCHANGED <<env, sock, queue, binder>>

Console ==
    \/ ConsoleReceive \/ ConsoleAttach \/ ConsoleReadFails
    \/ ConsoleClose \/ ConsoleClear
    \/ \E c \in Clients : ConsoleCommand(c) \/ ConsoleExit(c)

Next ==
    \/ \E c \in Clients : Connect(c) \/ HangUp(c) \/ Abort(c)
    \/ Binder
    \/ Console

\* FreeRTOS runs a ready task: binder_task never waits for a client it has
\* accepted, and process() returns after at most half a second.  Clients owe
\* nothing, and nothing forces a client to type exit.
Fairness ==
    /\ WF_vars(Binder)
    /\ WF_vars(ConsoleReceive \/ ConsoleAttach \/ ConsoleReadFails
               \/ ConsoleClose \/ ConsoleClear)

Spec == Init /\ [][Next]_vars
FairSpec == Spec /\ Fairness

-----------------------------------------------------------------------------
(* What must hold                                                          *)

\* No descriptor leak: an open descriptor is always in the hands of
\* binder_task, of the queue or of tcp_console_task, whatever exit did to the
\* numbering meanwhile (CONFIG_LWIP_MAX_SOCKETS is 10: a leak would silence
\* the console for good).
NoLeak ==
    \A f \in Fds : sock[f] # NoClient =>
        HeldByBinder(f) \/ HeldByQueue(f) \/ HeldByConsole(f)

\* Each descriptor is in one place at a time and stands for an open
\* connection there: no task reads, writes or closes a descriptor that
\* another one owns.  The exit command is the only way out of this: the
\* property exempts exactly the descriptors it closed under a session.
Exclusive ==
    \A f \in Fds \ exited :
        /\ HeldByBinder(f) \/ HeldByQueue(f) \/ HeldByConsole(f)
             => sock[f] # NoClient
        /\ ~(HeldByBinder(f) /\ HeldByQueue(f))
        /\ ~(HeldByBinder(f) /\ HeldByConsole(f))
        /\ ~(HeldByQueue(f) /\ HeldByConsole(f))

\* A session runs the commands of the client it was opened for and of nobody
\* else, unless its descriptor was closed by exit and reused by accept().
OneSpeaker ==
    cpc = "process" /\ speaker # NoClient /\ tcp_fd \notin exited
        => speaker = served /\ sock[tcp_fd] = served

\* A live client is never cut off silently: it got the refusal message, or it
\* asked for it with exit (or is a victim of an earlier exit on the same
\* descriptor).
ToldBeforeClose ==
    [][\A c \in Clients : peer[c] = "open" /\ peer'[c] = "away" =>
          c \in told \/ \E f \in exited' : sock[f] = c]_vars

\* A connection request is answered: accepted, or dropped for want of a
\* descriptor.  binder_task never gets stuck on tcp_console_task.
BacklogDrains ==
    \A c \in Clients : peer[c] = "connecting" ~> peer[c] # "connecting"

\* A client that aborts its connection frees the console for the next one.
\* (After exit this is not so: as long as accept() reuses the number before
\* each select(), the session finds a live connection and carries on.)
AbortFreesConsole ==
    \A c \in Clients :
        (cpc = "process" /\ tcp_fd \notin exited /\ sock[tcp_fd] = c
           /\ peer[c] = "reset")
            ~> (cpc = "receive")
=============================================================================
