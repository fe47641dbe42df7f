------------------------- MODULE ConsoleRefinement -------------------------
(***************************************************************************)
(* The two tasks of TcpConsole implement ConsoleService.  A client's       *)
(* status is where its descriptor is: with binder_task, in the queue or    *)
(* with tcp_console_task.                                                  *)
(***************************************************************************)
EXTENDS TcpConsole

\* c's connection is behind one of these descriptors.
Behind(c, fds) == \E f \in Fds \cap fds : sock[f] = c

Considered == IF bpc \in {"check", "send", "tell", "close"} THEN {client_sock}
                                                           ELSE {}

Status(c) ==
    IF peer[c] = "away" THEN "away"
    ELSE IF peer[c] = "connecting" THEN "asking"
    ELSE IF Behind(c, exited) THEN "victim"
    ELSE IF Behind(c, {queue}) THEN "parked"
    ELSE IF Behind(c, Considered)
      THEN IF bpc = "tell" THEN "refused"
           ELSE IF bpc = "close" THEN "told" ELSE "accepted"
    ELSE IF peer[c] = "reset" THEN "lost" ELSE "served"

Service == INSTANCE ConsoleService WITH
    status <- [c \in Clients |-> Status(c)],
    busy <- tcp_fd # NoFd \/ queue # NoFd,
    haunted <- exited # {}

\* binder_task and tcp_console_task keep the promises of the console to its
\* clients at every step, however they interleave.
ImplementsService == Service!Spec
=============================================================================
