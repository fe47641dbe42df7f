---------------------------- MODULE ConsoleProofs ----------------------------
(***************************************************************************)
(* The network console for any set of clients and descriptors: first what  *)
(* TcpConsole keeps, then that it implements ConsoleService.               *)
(*                                                                         *)
(* The invariant IInv adds to the properties what keeps them true: which   *)
(* program counters imply a descriptor, that the socket table and the      *)
(* peers agree, and what the two closing steps know about the connection   *)
(* they are about to close.  The refinement rests on the same invariant:   *)
(* every step of the tasks is a step of the service or changes nothing it  *)
(* can see, and the invariant tells which.                                 *)
(***************************************************************************)
EXTENDS ConsoleRefinement, TLAPS

\* Past its first statement a task has a descriptor in its variable.
HasDescriptor ==
    /\ cpc # "receive" => tcp_fd \in Fds
    /\ bpc \in {"check", "send", "tell", "close"} => client_sock \in Fds

\* A connection is in the backlog or behind exactly one descriptor.
Connections ==
    /\ \A f \in Fds : sock[f] # NoClient =>
         peer[sock[f]] \in {"open", "fin", "reset"}
    /\ \A f, g \in Fds : sock[f] # NoClient /\ sock[f] = sock[g] => f = g
    /\ \A c \in Clients : peer[c] \in {"open", "fin", "reset"}
                            => \E f \in Fds : sock[f] = c
    /\ \A i \in 1..Len(backlog) : peer[backlog[i]] = "connecting"
    /\ \A i, j \in 1..Len(backlog) : backlog[i] = backlog[j] => i = j

\* While its descriptor was not closed by exit, a session is bound to the
\* client it was opened for, and it ends only when that client aborted.
Session ==
    /\ cpc \in {"process", "close"} /\ tcp_fd \notin exited
         => sock[tcp_fd] = served
    /\ cpc = "process" /\ tcp_fd \notin exited /\ speaker # NoClient
         => speaker = served
    /\ cpc = "close" /\ tcp_fd \notin exited
         => peer[sock[tcp_fd]] = "reset"

\* binder_task closes a connection only after the refusal was written to it.
Refused ==
    bpc = "close" /\ client_sock \notin exited => sock[client_sock] \in told

IInv ==
    /\ TypeOK
    /\ HasDescriptor
    /\ Connections
    /\ NoLeak
    /\ Exclusive
    /\ Session
    /\ Refused

-----------------------------------------------------------------------------
\* Nothing is open before binder_task has listened.
LEMMA InitHolds == Init => IInv
BY SentinelAssumption, BacklogAssumption
   DEF Init, IInv, TypeOK, HasDescriptor, Connections, NoLeak, Exclusive,
       Session, Refused, HeldByBinder, HeldByQueue, HeldByConsole,
       PeerStates, BinderSteps, ConsoleSteps

\* Every step of a task, of a client or of the network preserves IInv.
LEMMA StepPreserves == IInv /\ [Next]_vars => IInv'
<1> SUFFICES ASSUME IInv, [Next]_vars PROVE IInv'
  OBVIOUS
<1> USE SentinelAssumption
    DEF IInv, TypeOK, HasDescriptor, Connections, NoLeak, Exclusive, Session,
        Refused, HeldByBinder, HeldByQueue, HeldByConsole, env, binder,
        console, PeerStates, BinderSteps, ConsoleSteps
<1>1. ASSUME NEW c \in Clients, Connect(c) PROVE IInv'
  BY <1>1 DEF Connect
<1>2. ASSUME NEW c \in Clients, HangUp(c) PROVE IInv'
  BY <1>2 DEF HangUp
<1>3. ASSUME NEW c \in Clients, Abort(c) PROVE IInv'
  BY <1>3 DEF Abort
<1>4. ASSUME NEW c \in Clients, ConsoleCommand(c) PROVE IInv'
  BY <1>4 DEF ConsoleCommand, HasInput
<1>5. ASSUME NEW c \in Clients, ConsoleExit(c) PROVE IInv'
  BY <1>5 DEF ConsoleExit, HasInput, Close
<1>6. CASE BinderListens
  BY <1>6 DEF BinderListens
<1>7. CASE BinderDies
  BY <1>7 DEF BinderDies
<1>8. CASE BinderIsDead
  BY <1>8 DEF BinderIsDead, vars
<1>9. CASE BinderAccept
  BY <1>9 DEF BinderAccept
<1>10. CASE BinderAcceptFails
  BY <1>10 DEF BinderAcceptFails
<1>11. CASE BinderCheck
  BY <1>11 DEF BinderCheck
<1>12. CASE BinderSend
  BY <1>12 DEF BinderSend
<1>13. CASE BinderTell
  BY <1>13 DEF BinderTell
<1>14. CASE BinderClose
  BY <1>14 DEF BinderClose, Close
<1>15. CASE ConsoleReceive
  BY <1>15 DEF ConsoleReceive
<1>16. CASE ConsoleAttach
  BY <1>16 DEF ConsoleAttach
<1>17. CASE ConsoleReadFails
  BY <1>17 DEF ConsoleReadFails
<1>18. CASE ConsoleClose
  BY <1>18 DEF ConsoleClose, Close
<1>19. CASE ConsoleClear
  BY <1>19 DEF ConsoleClear
<1>20. CASE UNCHANGED vars
  BY <1>20 DEF vars
<1> QED
  BY <1>1, <1>2, <1>3, <1>4, <1>5, <1>6, <1>7, <1>8, <1>9, <1>10,
     <1>11, <1>12, <1>13, <1>14, <1>15, <1>16, <1>17, <1>18, <1>19, <1>20
  DEF Next, Binder, Console

\* The inductive invariant holds of every behaviour of the two tasks and the network.
THEOREM Invariance == Spec => []IInv
BY InitHolds, StepPreserves, PTL DEF Spec

-----------------------------------------------------------------------------
\* The variables of the two tasks, the queue and the socket table keep their
\* types (meshroof.cxx:87-181).
THEOREM TypeCorrect == Spec => []TypeOK
<1>1. IInv => TypeOK
  BY DEF IInv
<1> QED
  BY <1>1, Invariance, PTL

\* binder_task, the queue and tcp_console_task never lose an open descriptor.
THEOREM NeverLeaks == Spec => []NoLeak
<1>1. IInv => NoLeak
  BY DEF IInv
<1> QED
  BY <1>1, Invariance, PTL

\* A descriptor that exit did not close has one owner and is open there.
THEOREM OneOwner == Spec => []Exclusive
<1>1. IInv => Exclusive
  BY DEF IInv
<1> QED
  BY <1>1, Invariance, PTL

\* A session runs the commands of its own client only.
THEOREM SessionsDoNotMix == Spec => []OneSpeaker
<1>1. IInv => OneSpeaker
  BY DEF IInv, Session, OneSpeaker
<1> QED
  BY <1>1, Invariance, PTL

\* The step behind ToldBeforeClose: only four actions end a connection, and
\* each of them knows why.
LEMMA CutOffForAReason ==
    ASSUME IInv, [Next]_vars, NEW c \in Clients,
           peer[c] = "open", peer'[c] = "away"
    PROVE  c \in told \/ \E f \in exited' : sock[f] = c
<1> USE SentinelAssumption
    DEF IInv, TypeOK, HasDescriptor, env, binder, console
<1>1. ASSUME NEW d \in Clients, Connect(d) \/ HangUp(d) \/ Abort(d)
      PROVE FALSE
  BY <1>1 DEF Connect, HangUp, Abort
<1>2. ASSUME NEW d \in Clients, ConsoleCommand(d)
      PROVE FALSE
  BY <1>2 DEF ConsoleCommand
<1>3. ASSUME NEW d \in Clients, ConsoleExit(d)
      PROVE \E f \in exited' : sock[f] = c
  BY <1>3 DEF ConsoleExit, HasInput, Close
<1>4. CASE BinderAcceptFails
  <2>1. backlog # <<>> => 1 \in 1..Len(backlog) /\ Head(backlog) = backlog[1]
    OBVIOUS
  <2> QED
    BY <1>4, <2>1 DEF BinderAcceptFails, Connections
<1>5. CASE BinderClose
  <2>1. sock[client_sock] = c /\ exited' = exited
    BY <1>5 DEF BinderClose, Close
  <2> QED
    BY <1>5, <2>1 DEF BinderClose, Refused
<1>6. CASE ConsoleClose
  <2>1. sock[tcp_fd] = c /\ exited' = exited
    BY <1>6 DEF ConsoleClose, Close
  <2> QED
    BY <1>6, <2>1 DEF ConsoleClose, Session
<1>7. CASE BinderAccept
  BY <1>7 DEF BinderAccept
<1>8. CASE BinderListens \/ BinderDies \/ BinderIsDead \/ BinderCheck
             \/ BinderSend \/ BinderTell
  BY <1>8 DEF BinderListens, BinderDies, BinderIsDead, BinderCheck,
              BinderSend, BinderTell, vars
<1>9. CASE ConsoleReceive \/ ConsoleAttach \/ ConsoleReadFails
             \/ ConsoleClear \/ UNCHANGED vars
  BY <1>9 DEF ConsoleReceive, ConsoleAttach, ConsoleReadFails, ConsoleClear,
              vars
<1> QED
  BY <1>1, <1>2, <1>3, <1>4, <1>5, <1>6, <1>7, <1>8, <1>9
  DEF Next, Binder, Console

\* A live client is cut off only after it was told, or because of exit.
THEOREM NobodyCutOffUntold == Spec => ToldBeforeClose
<1>1. IInv /\ [Next]_vars
        => [\A c \in Clients : peer[c] = "open" /\ peer'[c] = "away" =>
              c \in told \/ \E f \in exited' : sock[f] = c]_vars
  BY CutOffForAReason
<1> QED
  BY <1>1, Invariance, PTL DEF Spec, ToldBeforeClose
-----------------------------------------------------------------------------
(* TcpConsole implements ConsoleService.                                   *)

\* At first nobody is there, and the console is free.
LEMMA InitRefines == Init => Service!Init
BY SentinelAssumption DEF Init, Service!Init, Status

\* What a step does to the view of the clients it does not concern.
Same(c) == Status(c)' = Status(c)

\* The steps of the network.
LEMMA NetworkRefines ==
    ASSUME IInv, NEW c \in Clients, Connect(c) \/ HangUp(c) \/ Abort(c)
    PROVE  [Service!Next]_(Service!vars)
<1> USE SentinelAssumption DEF IInv, TypeOK, PeerStates, env, binder, console
<1>1. CASE Connect(c)
  <2>1. \A d \in Clients \ {c} : Same(d)
    BY <1>1 DEF Connect, Same, Status, Behind, Considered
  <2>2. Status(c) = "away" /\ Status(c)' = "asking"
    BY <1>1 DEF Connect, Status
  <2>3. Service!Ask(c)
    BY <1>1, <2>1, <2>2 DEF Connect, Same, Service!Ask, Service!Becomes
  <2> QED
    BY <2>3 DEF Service!Next
<1>2. CASE HangUp(c)
  <2>1. \A d \in Clients : Same(d)
    BY <1>2 DEF HangUp, Same, Status, Behind, Considered
  <2> QED
    BY <1>2, <2>1 DEF HangUp, Same, Service!vars
<1>3. CASE Abort(c)
  <2>1. \A d \in Clients \ {c} : Same(d)
    BY <1>3 DEF Abort, Same, Status, Behind, Considered
  <2>2. CASE Status(c) = "served"
    <3>1. Status(c)' = "lost"
      BY <1>3, <2>2 DEF Abort, Status, Behind, Considered
    <3>2. Service!Lose(c)
      BY <1>3, <2>1, <2>2, <3>1 DEF Abort, Same, Service!Lose, Service!Becomes
    <3> QED
      BY <3>2 DEF Service!Next
  <2>3. CASE Status(c) # "served"
    <3>1. Same(c)
      BY <1>3, <2>3 DEF Abort, Same, Status, Behind, Considered
    <3> QED
      BY <1>3, <2>1, <3>1 DEF Abort, Same, Service!vars
  <2> QED
    BY <2>2, <2>3
<1> QED
  BY <1>1, <1>2, <1>3

-----------------------------------------------------------------------------
\* Who is in the hands of a task is where the task's variables say.
LEMMA WhoIsWhere ==
    ASSUME IInv, NEW c \in Clients
    PROVE  /\ Status(c) \in Service!InHand
                => /\ bpc \in {"check", "send", "tell", "close"}
                   /\ sock[client_sock] = c
           /\ Status(c) = "parked" => queue \in Fds /\ sock[queue] = c
           /\ Status(c) \in Service!InSession
                => /\ cpc \in {"attach", "process", "close"}
                   /\ sock[tcp_fd] = c
           /\ Status(c) = "victim" => exited # {}
<1> USE SentinelAssumption
    DEF IInv, TypeOK, Service!InHand, Service!InSession
<1>1. CASE peer[c] \in {"away", "connecting"}
  BY <1>1 DEF Status
<1>2. CASE peer[c] \notin {"away", "connecting"}
  <2>1. Status(c) \in Service!InSession =>
           \E f \in Fds : sock[f] = c /\ HeldByConsole(f)
    <3>1. ASSUME NEW f \in Fds, sock[f] = c, ~HeldByConsole(f)
          PROVE  Status(c) \notin Service!InSession
      BY <1>2, <3>1 DEF NoLeak, HeldByBinder, HeldByQueue, Status, Behind,
                        Considered
    <3>2. \E f \in Fds : sock[f] = c
      BY <1>2 DEF Connections, PeerStates
    <3> QED
      BY <3>1, <3>2
  <2> QED
    BY <1>2, <2>1 DEF Status, Behind, Considered, HeldByConsole
<1> QED
  BY <1>1, <1>2

\* If nobody's status changes, and the console stays as occupied and as
\* trustworthy as it was, the service stutters.
LEMMA Unseen ==
    ASSUME \A c \in Clients : Same(c),
           (tcp_fd # NoFd \/ queue # NoFd) = (tcp_fd' # NoFd \/ queue' # NoFd),
           (exited # {}) = (exited' # {})
    PROVE  UNCHANGED Service!vars
BY DEF Same, Service!vars

-----------------------------------------------------------------------------
\* The client binder_task has in hand, if its descriptor can be trusted.
LEMMA InHandOf ==
    ASSUME IInv, bpc \in {"check", "send", "tell", "close"},
           client_sock \notin exited
    PROVE  /\ sock[client_sock] \in Clients
           /\ client_sock # queue
           /\ peer[sock[client_sock]] \in {"open", "fin", "reset"}
           /\ ~Behind(sock[client_sock], exited)
           /\ ~Behind(sock[client_sock], {queue})
           /\ Behind(sock[client_sock], Considered)
<1>1. client_sock \in Fds /\ sock[client_sock] # NoClient /\ client_sock # queue
  BY DEF IInv, HasDescriptor, Exclusive, HeldByBinder, HeldByQueue
<1>2. /\ sock[client_sock] \in Clients
      /\ peer[sock[client_sock]] \in {"open", "fin", "reset"}
      /\ \A f \in Fds : sock[f] = sock[client_sock] => f = client_sock
  BY <1>1 DEF IInv, TypeOK, Connections
<1> QED
  BY <1>1, <1>2 DEF Behind, Considered

\* Nobody else is considered.
LEMMA OneInHand ==
    ASSUME NEW d, d # sock[client_sock]
    PROVE  ~Behind(d, Considered)
BY DEF Behind, Considered

\* Who sits behind a descriptor closed by exit is a victim wherever it is.
LEMMA VictimsStay ==
    ASSUME NEW d, client_sock \in exited, Behind(d, Considered)
    PROVE  Behind(d, exited)
BY DEF Behind, Considered

\* The check and the hand-over, the refusal and the disconnection.
LEMMA CheckRefines ==
    ASSUME IInv, BinderCheck
    PROVE  [Service!Next]_(Service!vars)
<1> PICK c : c = sock[client_sock]
  OBVIOUS
<1>0. /\ bpc = "check" /\ bpc' = IF tcp_fd # NoFd THEN "tell" ELSE "send"
      /\ UNCHANGED <<client_sock, peer, sock, queue, tcp_fd, exited>>
  BY DEF BinderCheck, env, console
<1>1. \A d : /\ Behind(d, exited)' = Behind(d, exited)
             /\ Behind(d, {queue})' = Behind(d, {queue})
             /\ Behind(d, Considered)' = Behind(d, Considered)
  BY <1>0 DEF Behind, Considered
<1>2. \A d \in Clients \ {c} : Same(d)
  BY <1>0, <1>1, OneInHand DEF Same, Status
<1>3. CASE client_sock \notin exited /\ tcp_fd # NoFd
  <2>1. c \in Clients /\ Status(c) = "accepted" /\ Status(c)' = "refused"
    BY <1>0, <1>1, <1>3, InHandOf DEF Status
  <2>2. Service!Refuse(c)
    BY <1>0, <1>2, <1>3, <2>1 DEF Same, Service!Refuse, Service!Becomes
  <2> QED
    BY <2>1, <2>2 DEF Service!Next
<1>4. CASE client_sock \in exited \/ tcp_fd = NoFd
  <2>1. \A d \in Clients : Same(d)
    BY <1>0, <1>1, <1>4, VictimsStay DEF Same, Status
  <2> QED
    BY <1>0, <2>1, Unseen
<1> QED
  BY <1>3, <1>4

LEMMA SendRefines ==
    ASSUME IInv, BinderSend
    PROVE  [Service!Next]_(Service!vars)
<1> PICK c : c = sock[client_sock]
  OBVIOUS
<1>0. /\ bpc = "send" /\ client_sock \in Fds /\ client_sock # NoFd
      /\ UNCHANGED <<peer, sock, tcp_fd, exited>>
  BY SentinelAssumption DEF BinderSend, env, console, IInv, HasDescriptor
<1>1. \A d : Behind(d, exited)' = Behind(d, exited)
  BY <1>0 DEF Behind
<1>2. CASE queue = NoFd
  <2>0. queue' = client_sock /\ bpc' = "accept"
    BY <1>2 DEF BinderSend
  <2>1. \A d : /\ ~Behind(d, {queue})
               /\ Behind(d, {queue})' = Behind(d, Considered)
               /\ ~Behind(d, Considered)'
    BY <1>0, <1>2, <2>0, SentinelAssumption DEF Behind, Considered
  <2>2. \A d \in Clients \ {c} : Same(d)
    BY <1>0, <1>1, <2>1, OneInHand DEF Same, Status
  <2>3. CASE client_sock \notin exited
    <3>1. c \in Clients /\ Status(c) = "accepted" /\ Status(c)' = "parked"
      BY <1>0, <1>1, <2>1, <2>3, InHandOf DEF Status
    <3>2. Service!Nobody({"parked"})
      BY <2>1 DEF Service!Nobody, Status
    <3>3. Service!Admit(c)
      BY <1>0, <2>0, <2>2, <3>1, <3>2 DEF Same, Service!Admit, Service!Becomes
    <3> QED
      BY <3>1, <3>3 DEF Service!Next
  <2>4. CASE client_sock \in exited
    <3>1. \A d \in Clients : Same(d)
      BY <1>0, <1>1, <2>1, <2>4, VictimsStay DEF Same, Status
    <3>2. Service!Occupy
      BY <1>0, <2>0, <2>4, <3>1 DEF Same, Service!Occupy
    <3> QED
      BY <3>2 DEF Service!Next
  <2> QED
    BY <2>3, <2>4
<1>3. CASE queue # NoFd
  <2>0. queue' = queue /\ client_sock' = client_sock /\ bpc' = "tell"
    BY <1>3 DEF BinderSend
  <2>1. \A d : /\ Behind(d, {queue})' = Behind(d, {queue})
               /\ Behind(d, Considered)' = Behind(d, Considered)
    BY <1>0, <2>0 DEF Behind, Considered
  <2>2. \A d \in Clients \ {c} : Same(d)
    BY <1>0, <1>1, <2>1, OneInHand DEF Same, Status
  <2>3. CASE client_sock \notin exited
    <3>1. c \in Clients /\ Status(c) = "accepted" /\ Status(c)' = "refused"
      BY <1>0, <1>1, <2>0, <2>1, <2>3, InHandOf DEF Status
    <3>2. Service!Refuse(c)
      BY <1>0, <1>3, <2>0, <2>2, <3>1 DEF Same, Service!Refuse, Service!Becomes
    <3> QED
      BY <3>1, <3>2 DEF Service!Next
  <2>4. CASE client_sock \in exited
    <3>1. \A d \in Clients : Same(d)
      BY <1>0, <1>1, <2>1, <2>4, VictimsStay DEF Same, Status
    <3> QED
      BY <1>0, <2>0, <3>1, Unseen
  <2> QED
    BY <2>3, <2>4
<1> QED
  BY <1>2, <1>3

LEMMA TellRefines ==
    ASSUME IInv, BinderTell
    PROVE  [Service!Next]_(Service!vars)
<1> PICK c : c = sock[client_sock]
  OBVIOUS
<1>0. /\ bpc = "tell" /\ bpc' = "close"
      /\ UNCHANGED <<client_sock, peer, sock, queue, tcp_fd, exited>>
  BY DEF BinderTell, console
<1>1. \A d : /\ Behind(d, exited)' = Behind(d, exited)
             /\ Behind(d, {queue})' = Behind(d, {queue})
             /\ Behind(d, Considered)' = Behind(d, Considered)
  BY <1>0 DEF Behind, Considered
<1>2. \A d \in Clients \ {c} : Same(d)
  BY <1>0, <1>1, OneInHand DEF Same, Status
<1>3. CASE client_sock \notin exited
  <2>1. c \in Clients /\ Status(c) = "refused" /\ Status(c)' = "told"
    BY <1>0, <1>1, <1>3, InHandOf DEF Status
  <2>2. Service!Tell(c)
    BY <1>0, <1>2, <2>1 DEF Same, Service!Tell, Service!Becomes
  <2> QED
    BY <2>1, <2>2 DEF Service!Next
<1>4. CASE client_sock \in exited
  <2>1. \A d \in Clients : Same(d)
    BY <1>0, <1>1, <1>4, VictimsStay DEF Same, Status
  <2> QED
    BY <1>0, <2>1, Unseen
<1> QED
  BY <1>3, <1>4

\* Closing a descriptor ends the connection of its client and of nobody else.
LEMMA CloseEnds ==
    ASSUME IInv, NEW f \in Fds, Close(f), exited' = exited, queue' = queue,
           NEW d \in Clients
    PROVE  /\ d = sock[f] => Status(d)' = "away"
           /\ d # sock[f] =>
                 /\ peer'[d] = peer[d]
                 /\ Behind(d, exited)' = Behind(d, exited)
                 /\ Behind(d, {queue})' = Behind(d, {queue})
<1>1. d = sock[f] => peer'[d] = "away"
  BY DEF Close
<1>2. d # sock[f] => peer'[d] = peer[d] /\ \A g \in Fds : (sock'[g] = d) = (sock[g] = d)
  BY SentinelAssumption DEF Close, IInv, TypeOK
<1> QED
  BY <1>1, <1>2 DEF Status, Behind

LEMMA DismissalRefines ==
    ASSUME IInv, BinderClose
    PROVE  [Service!Next]_(Service!vars)
<1> PICK c : c = sock[client_sock]
  OBVIOUS
<1>0. /\ bpc = "close" /\ bpc' = "accept" /\ client_sock \in Fds
      /\ Close(client_sock)
      /\ UNCHANGED <<queue, tcp_fd, exited>>
  BY DEF BinderClose, console, IInv, HasDescriptor
<1>1. \A d \in Clients \ {c} : Same(d)
  <2>1. \A d : ~Behind(d, Considered)'
    BY <1>0 DEF Behind, Considered
  <2> QED
    BY <1>0, <2>1, CloseEnds, OneInHand DEF Same, Status
<1>2. CASE c \notin Clients
  BY <1>0, <1>1, <1>2, Unseen
<1>3. CASE c \in Clients /\ client_sock \notin exited
  <2>1. Status(c) = "told" /\ Status(c)' = "away"
    BY <1>0, <1>3, CloseEnds, InHandOf DEF Status
  <2>2. Service!Dismiss(c)
    BY <1>0, <1>1, <1>3, <2>1 DEF Same, Service!Dismiss, Service!Becomes
  <2> QED
    BY <1>3, <2>2 DEF Service!Next
<1>4. CASE c \in Clients /\ client_sock \in exited
  <2>1. Status(c)' = "away"
    BY <1>0, <1>4, CloseEnds
  <2>2. Status(c) = "victim"
    <3>1. peer[c] \in {"open", "fin", "reset"}
      BY <1>0, <1>4, SentinelAssumption DEF IInv, Connections
    <3> QED
      BY <1>0, <1>4, <3>1 DEF Status, Behind
  <2>3. Service!Banish(c)
    BY <1>0, <1>1, <1>4, <2>1, <2>2 DEF Same, Service!Banish, Service!Becomes
  <2> QED
    BY <1>4, <2>3 DEF Service!Next
<1> QED
  BY <1>2, <1>3, <1>4

\* The client at the head of the backlog is asking and has no descriptor.
LEMMA HeadIsAsking ==
    ASSUME IInv, backlog # <<>>
    PROVE  /\ Head(backlog) \in Clients
           /\ peer[Head(backlog)] = "connecting"
           /\ Status(Head(backlog)) = "asking"
           /\ \A g \in Fds : sock[g] # Head(backlog)
<1>1. 1 \in 1..Len(backlog) /\ Head(backlog) = backlog[1] /\ backlog[1] \in Clients
  BY DEF IInv, TypeOK
<1>2. peer[Head(backlog)] = "connecting"
  BY <1>1 DEF IInv, Connections
<1> QED
  BY <1>1, <1>2, SentinelAssumption DEF Status, IInv, Connections

LEMMA AcceptRefines ==
    ASSUME IInv, BinderAccept
    PROVE  [Service!Next]_(Service!vars)
<1> PICK c : c = Head(backlog)
  OBVIOUS
<1>1. PICK f \in Fds : /\ sock[f] = NoClient
                       /\ sock' = [sock EXCEPT ![f] = c]
                       /\ client_sock' = f
  BY DEF BinderAccept
<1>2. /\ backlog # <<>> /\ bpc = "accept" /\ bpc' = "check"
      /\ peer' = [peer EXCEPT ![c] = "open"]
      /\ UNCHANGED <<queue, tcp_fd, exited>>
  BY DEF BinderAccept, console
<1>3. /\ c \in Clients /\ Status(c) = "asking"
      /\ \A g \in Fds : sock[g] # c
  BY <1>2, HeadIsAsking
<1>4. /\ peer'[c] = "open" /\ \A d \in Clients \ {c} : peer'[d] = peer[d]
      /\ \A g \in Fds : sock'[g] = IF g = f THEN c ELSE sock[g]
  BY <1>1, <1>2, <1>3 DEF IInv, TypeOK
<1>5. \A d : ~Behind(d, Considered)
  BY <1>2 DEF Behind, Considered
<1>6. \A d \in Clients \ {c} : /\ Behind(d, exited)' = Behind(d, exited)
                              /\ Behind(d, {queue})' = Behind(d, {queue})
                              /\ ~Behind(d, Considered)'
  BY <1>1, <1>2, <1>3, <1>4, SentinelAssumption DEF Behind, Considered
<1>7. \A d \in Clients \ {c} : Same(d)
  BY <1>4, <1>5, <1>6 DEF Same, Status
<1>8. CASE f \in exited
  <2>1. Behind(c, exited)'
    BY <1>2, <1>4, <1>8 DEF Behind
  <2>2. Status(c)' = "victim"
    BY <1>4, <2>1 DEF Status
  <2>3. Service!Haunt(c)
    BY <1>2, <1>3, <1>7, <1>8, <2>2 DEF Same, Service!Haunt, Service!Becomes
  <2> QED
    BY <1>3, <2>3 DEF Service!Next
<1>9. CASE f \notin exited
  <2>1. f # queue
    BY <1>1, <1>9 DEF IInv, Exclusive, HeldByQueue
  <2>2. ~Behind(c, exited)' /\ ~Behind(c, {queue})' /\ Behind(c, Considered)'
    BY <1>1, <1>2, <1>3, <1>4, <1>9, <2>1 DEF Behind, Considered
  <2>3. Status(c)' = "accepted"
    BY <1>2, <1>4, <2>2 DEF Status
  <2>4. Service!Nobody(Service!InHand)
    BY <1>2, WhoIsWhere DEF Service!Nobody
  <2>5. Service!Accept(c)
    BY <1>2, <1>3, <1>7, <2>3, <2>4 DEF Same, Service!Accept, Service!Becomes
  <2> QED
    BY <1>3, <2>5 DEF Service!Next
<1> QED
  BY <1>8, <1>9

LEMMA DropRefines ==
    ASSUME IInv, BinderAcceptFails
    PROVE  [Service!Next]_(Service!vars)
<1> PICK c : c = Head(backlog)
  OBVIOUS
<1>1. /\ backlog # <<>>
      /\ peer' = [peer EXCEPT ![c] = "away"]
      /\ UNCHANGED <<bpc, client_sock, sock, queue, tcp_fd, exited>>
  BY DEF BinderAcceptFails, binder, console
<1>2. c \in Clients /\ Status(c) = "asking"
  BY <1>1, HeadIsAsking
<1>3. peer'[c] = "away" /\ \A d \in Clients \ {c} : peer'[d] = peer[d]
  BY <1>1, <1>2 DEF IInv, TypeOK
<1>4. \A d \in Clients \ {c} : Same(d)
  BY <1>1, <1>3 DEF Same, Status, Behind, Considered
<1>5. Service!Drop(c)
  BY <1>1, <1>2, <1>3, <1>4 DEF Same, Status, Service!Drop, Service!Becomes
<1> QED
  BY <1>2, <1>5 DEF Service!Next

\* The steps of binder_task.
LEMMA BinderRefines ==
    ASSUME IInv, Binder
    PROVE  [Service!Next]_(Service!vars)
<1>1. CASE BinderListens \/ BinderDies \/ BinderIsDead
  <2>1. /\ UNCHANGED <<client_sock, peer, sock, queue, tcp_fd, exited>>
        /\ bpc \notin {"check", "send", "tell", "close"}
        /\ bpc' \notin {"check", "send", "tell", "close"}
    BY <1>1 DEF BinderListens, BinderDies, BinderIsDead, vars, env, console
  <2>2. \A d \in Clients : Same(d)
    BY <2>1 DEF Same, Status, Behind, Considered
  <2> QED
    BY <2>1, <2>2, Unseen
<1> QED
  BY <1>1, AcceptRefines, DropRefines, CheckRefines, SendRefines, TellRefines,
     DismissalRefines
  DEF Binder

-----------------------------------------------------------------------------
\* The client a session belongs to, if its descriptor can be trusted.
LEMMA InSessionOf ==
    ASSUME IInv, cpc \in {"attach", "process", "close"}, tcp_fd \notin exited
    PROVE  /\ sock[tcp_fd] \in Clients
           /\ peer[sock[tcp_fd]] \in {"open", "fin", "reset"}
           /\ Status(sock[tcp_fd]) =
                IF peer[sock[tcp_fd]] = "reset" THEN "lost" ELSE "served"
<1>1. /\ tcp_fd \in Fds /\ sock[tcp_fd] # NoClient /\ tcp_fd # queue
      /\ tcp_fd \notin Considered
  BY DEF IInv, HasDescriptor, Exclusive, HeldByBinder, HeldByQueue,
         HeldByConsole, Considered
<1>2. /\ sock[tcp_fd] \in Clients
      /\ peer[sock[tcp_fd]] \in {"open", "fin", "reset"}
      /\ \A f \in Fds : sock[f] = sock[tcp_fd] => f = tcp_fd
  BY <1>1 DEF IInv, TypeOK, Connections
<1>3. /\ ~Behind(sock[tcp_fd], exited) /\ ~Behind(sock[tcp_fd], {queue})
      /\ ~Behind(sock[tcp_fd], Considered)
  BY <1>1, <1>2 DEF Behind
<1> QED
  BY <1>2, <1>3 DEF Status

LEMMA ReceiveRefines ==
    ASSUME IInv, ConsoleReceive
    PROVE  [Service!Next]_(Service!vars)
<1> PICK c : c = sock[queue]
  OBVIOUS
<1>0. /\ cpc = "receive" /\ queue \in Fds /\ queue # NoFd
      /\ tcp_fd' = queue /\ queue' = NoFd
      /\ UNCHANGED <<bpc, client_sock, peer, sock, exited>>
  BY DEF ConsoleReceive, env, binder, IInv, TypeOK
<1>1. \A d : /\ Behind(d, exited)' = Behind(d, exited)
             /\ Behind(d, Considered)' = Behind(d, Considered)
             /\ ~Behind(d, {queue})'
             /\ Behind(d, {queue}) = (d = c)
  BY <1>0, SentinelAssumption DEF Behind, Considered
<1>2. \A d \in Clients \ {c} : Same(d)
  BY <1>0, <1>1 DEF Same, Status
<1>3. CASE queue \in exited
  <2>1. Behind(c, exited)
    BY <1>0, <1>3 DEF Behind
  <2>2. \A d \in Clients : Same(d)
    BY <1>0, <1>1, <1>2, <2>1 DEF Same, Status
  <2> QED
    BY <1>0, <2>2, SentinelAssumption, Unseen
<1>4. CASE queue \notin exited
  <2>1. c \in Clients /\ c # NoClient
    BY <1>0, <1>4 DEF IInv, TypeOK, Exclusive, HeldByQueue
  <2>2. peer[c] \in {"open", "fin", "reset"}
    BY <1>0, <2>1 DEF IInv, Connections
  <2>3. \A f \in Fds : sock[f] = c => f = queue
    BY <1>0, <2>1 DEF IInv, Connections
  <2>4. ~Behind(c, exited) /\ ~Behind(c, Considered)
    <3>1. queue \notin Considered
      BY <1>0, <1>4 DEF IInv, Exclusive, HeldByBinder, HeldByQueue, Considered
    <3> QED
      BY <1>4, <2>3, <3>1 DEF Behind
  <2>5. /\ Status(c) = "parked"
        /\ Status(c)' = IF peer[c] = "reset" THEN "lost" ELSE "served"
    BY <1>0, <1>1, <2>2, <2>4 DEF Status
  <2>6. Service!Nobody(Service!InSession)
    BY <1>0, WhoIsWhere DEF Service!Nobody
  <2>7. Service!Serve(c)
    BY <1>0, <1>2, <2>1, <2>5, <2>6, SentinelAssumption
    DEF Same, Service!Serve, Service!Becomes
  <2> QED
    BY <2>1, <2>7 DEF Service!Next
<1> QED
  BY <1>3, <1>4

LEMMA ExitRefines ==
    ASSUME IInv, NEW c \in Clients, ConsoleExit(c)
    PROVE  [Service!Next]_(Service!vars)
<1>0. /\ cpc = "process" /\ tcp_fd \in Fds /\ sock[tcp_fd] = c
      /\ peer[c] = "open"
      /\ exited' = exited \cup {tcp_fd}
      /\ Close(tcp_fd)
      /\ UNCHANGED <<bpc, client_sock, queue, tcp_fd>>
  BY DEF ConsoleExit, HasInput, binder, IInv, HasDescriptor
<1>1. peer'[c] = "away" /\ Status(c)' = "away"
  BY <1>0 DEF Close, Status
<1>2. \A d \in Clients \ {c} :
        /\ peer'[d] = peer[d]
        /\ \A g \in Fds : (sock'[g] = d) = (sock[g] = d)
  BY <1>0, SentinelAssumption DEF Close, IInv, TypeOK
<1>3. \A d \in Clients \ {c} :
        /\ Behind(d, exited)' = Behind(d, exited)
        /\ Behind(d, {queue})' = Behind(d, {queue})
        /\ Behind(d, Considered)' = Behind(d, Considered)
  BY <1>0, <1>2 DEF Behind, Considered
<1>4. \A d \in Clients \ {c} : Same(d)
  BY <1>0, <1>2, <1>3 DEF Same, Status
<1>5. CASE tcp_fd \notin exited
  <2>1. Status(c) = "served"
    BY <1>0, <1>5, InSessionOf
  <2>2. Service!Exit(c)
    BY <1>0, <1>1, <1>4, <2>1 DEF Same, Service!Exit, Service!Becomes
  <2> QED
    BY <2>2 DEF Service!Next
<1>6. CASE tcp_fd \in exited
  <2>1. Status(c) = "victim"
    BY <1>0, <1>6 DEF Status, Behind
  <2>2. Service!Banish(c)
    BY <1>0, <1>1, <1>4, <1>6, <2>1 DEF Same, Service!Banish, Service!Becomes
  <2> QED
    BY <2>2 DEF Service!Next
<1> QED
  BY <1>5, <1>6

LEMMA CloseRefines ==
    ASSUME IInv, ConsoleClose
    PROVE  [Service!Next]_(Service!vars)
<1> PICK c : c = sock[tcp_fd]
  OBVIOUS
<1>0. /\ cpc = "close" /\ tcp_fd \in Fds
      /\ Close(tcp_fd)
      /\ UNCHANGED <<bpc, client_sock, queue, tcp_fd, exited>>
  BY DEF ConsoleClose, binder, IInv, HasDescriptor
<1>1. \A d \in Clients \ {c} : Same(d)
  <2>1. \A d \in Clients \ {c} : Behind(d, Considered)' = Behind(d, Considered)
    <3>1. \A d \in Clients \ {c} : \A g \in Fds : (sock'[g] = d) = (sock[g] = d)
      BY <1>0, SentinelAssumption DEF Close, IInv, TypeOK
    <3> QED
      BY <1>0, <3>1 DEF Behind, Considered
  <2> QED
    BY <1>0, <2>1, CloseEnds DEF Same, Status
<1>2. CASE c \notin Clients
  BY <1>0, <1>1, <1>2, Unseen
<1>3. CASE c \in Clients /\ tcp_fd \notin exited
  <2>1. Status(c)' = "away"
    BY <1>0, <1>3, CloseEnds
  <2>2. Status(c) = "lost"
    BY <1>0, <1>3, InSessionOf DEF IInv, Session
  <2>3. Service!End(c)
    BY <1>0, <1>1, <1>3, <2>1, <2>2 DEF Same, Service!End, Service!Becomes
  <2> QED
    BY <1>3, <2>3 DEF Service!Next
<1>4. CASE c \in Clients /\ tcp_fd \in exited
  <2>1. Status(c)' = "away"
    BY <1>0, <1>4, CloseEnds
  <2>2. Status(c) = "victim"
    <3>1. peer[c] \in {"open", "fin", "reset"}
      BY <1>0, <1>4, SentinelAssumption DEF IInv, Connections
    <3> QED
      BY <1>0, <1>4, <3>1 DEF Status, Behind
  <2>3. Service!Banish(c)
    BY <1>0, <1>1, <1>4, <2>1, <2>2 DEF Same, Service!Banish, Service!Becomes
  <2> QED
    BY <1>4, <2>3 DEF Service!Next
<1> QED
  BY <1>2, <1>3, <1>4

LEMMA ClearRefines ==
    ASSUME IInv, ConsoleClear
    PROVE  [Service!Next]_(Service!vars)
<1>0. /\ cpc = "clear" /\ tcp_fd \in Fds /\ tcp_fd' = NoFd
      /\ exited' = IF HeldByBinder(tcp_fd) \/ HeldByQueue(tcp_fd)
                     THEN exited ELSE exited \ {tcp_fd}
      /\ UNCHANGED <<bpc, client_sock, queue, peer, sock>>
  BY DEF ConsoleClear, env, binder, IInv, HasDescriptor
<1>1. HeldByBinder(tcp_fd) \/ HeldByQueue(tcp_fd) \/ sock[tcp_fd] = NoClient
  BY <1>0 DEF IInv, NoLeak, HeldByConsole
<1>2. \A d \in Clients :
        /\ Behind(d, exited)' = Behind(d, exited)
        /\ Behind(d, {queue})' = Behind(d, {queue})
        /\ Behind(d, Considered)' = Behind(d, Considered)
  BY <1>0, <1>1, SentinelAssumption DEF Behind, Considered
<1>3. \A d \in Clients : Same(d)
  BY <1>0, <1>2 DEF Same, Status
<1>4. Service!Nobody(Service!InSession)
  BY <1>0, WhoIsWhere DEF Service!Nobody
<1>5. exited' # {} \/ Service!Nobody({"victim"})
  <2>1. SUFFICES ASSUME exited' = {}, NEW d \in Clients PROVE Status(d) # "victim"
    BY DEF Service!Nobody
  <2>2. ~Behind(d, exited)'
    BY <2>1 DEF Behind
  <2> QED
    BY <1>2, <2>2 DEF Status
<1>6. queue # NoFd \/ Service!Nobody({"parked"})
  BY SentinelAssumption, WhoIsWhere DEF Service!Nobody
<1>7. Service!Release
  BY <1>0, <1>3, <1>4, <1>5, <1>6, SentinelAssumption DEF Same, Service!Release
<1> QED
  BY <1>7 DEF Service!Next

\* The steps of tcp_console_task.
LEMMA ConsoleRefines ==
    ASSUME IInv, Console
    PROVE  [Service!Next]_(Service!vars)
<1>1. ASSUME \/ ConsoleAttach \/ ConsoleReadFails
             \/ \E c \in Clients : ConsoleCommand(c)
      PROVE  UNCHANGED Service!vars
  <2>1. UNCHANGED <<bpc, client_sock, queue, peer, sock, tcp_fd, exited>>
    BY <1>1 DEF ConsoleAttach, ConsoleReadFails, ConsoleCommand, env, binder
  <2>2. \A d \in Clients : Same(d)
    BY <2>1 DEF Same, Status, Behind, Considered
  <2> QED
    BY <2>1, <2>2, Unseen
<1> QED
  BY <1>1, ReceiveRefines, ExitRefines, CloseRefines, ClearRefines DEF Console

\* A step of the program is a step of the service, or none.
LEMMA StepRefines ==
    ASSUME IInv, [Next]_vars
    PROVE  [Service!Next]_(Service!vars)
<1>1. CASE UNCHANGED vars
  <2>1. \A d \in Clients : Same(d)
    BY <1>1 DEF vars, Same, Status, Behind, Considered
  <2> QED
    BY <1>1, <2>1, Unseen DEF vars
<1> QED
  BY <1>1, NetworkRefines, BinderRefines, ConsoleRefines DEF Next

\* binder_task, tcp_console_task and the exit command together keep what
\* ConsoleService promises, for any number of clients and descriptors.
THEOREM Refinement == Spec => ImplementsService
<1>1. IInv /\ [Next]_vars => [Service!Next]_(Service!vars)
  BY StepRefines
<1> QED
  BY <1>1, InitRefines, Invariance, PTL DEF Spec, ImplementsService, Service!Spec
=============================================================================
