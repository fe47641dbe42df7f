--------------------------- MODULE ConsoleService ---------------------------
(***************************************************************************)
(* What the network console promises its clients, whatever its tasks and   *)
(* descriptors do: at most one of them is served and one more waits, a     *)
(* client is refused only while the console is occupied and is told so,    *)
(* and a session ends only when its client leaves.                         *)
(*                                                                         *)
(* The exit command breaks the promise for clients that are accepted while *)
(* the closed descriptor's number is still in use.  These are the victims; *)
(* nobody else is affected.                                                *)
(***************************************************************************)

CONSTANT Clients

VARIABLES
    status,   \* what the console owes each client: "away", "asking",
              \* "parked", "victim", or one of the states below
    busy,     \* a session is open or waiting to be
    haunted   \* a descriptor closed by exit is still referred to

vars == <<status, busy, haunted>>

InHand == {"accepted", "refused", "told"}
InSession == {"served", "lost"}

Init ==
    /\ status = [c \in Clients |-> "away"]
    /\ busy = FALSE
    /\ haunted = FALSE

Nobody(states) == \A c \in Clients : status[c] \notin states

Becomes(c, from, to) ==
    /\ status[c] = from
    /\ status' = [status EXCEPT ![c] = to]

Ask(c) == Becomes(c, "away", "asking") /\ UNCHANGED <<busy, haunted>>

\* The request finds no descriptor.
Drop(c) == Becomes(c, "asking", "away") /\ UNCHANGED <<busy, haunted>>

\* One client at a time is considered ...
Accept(c) ==
    /\ Nobody(InHand)
    /\ Becomes(c, "asking", "accepted")
    /\ UNCHANGED <<busy, haunted>>

\* ... and may wait for its session if nobody else does, ...
Admit(c) ==
    /\ Nobody({"parked"})
    /\ Becomes(c, "accepted", "parked")
    /\ busy' = TRUE
    /\ UNCHANGED haunted

\* ... or is refused, which it learns before it is disconnected.
Refuse(c) ==
    /\ busy
    /\ Becomes(c, "accepted", "refused")
    /\ UNCHANGED <<busy, haunted>>

Tell(c) == Becomes(c, "refused", "told") /\ UNCHANGED <<busy, haunted>>
Dismiss(c) == Becomes(c, "told", "away") /\ UNCHANGED <<busy, haunted>>

\* Sessions do not overlap.  The client may have aborted while it waited.
Serve(c) ==
    /\ Nobody(InSession)
    /\ Becomes(c, "parked", "served") \/ Becomes(c, "parked", "lost")
    /\ UNCHANGED <<busy, haunted>>

Lose(c) == Becomes(c, "served", "lost") /\ UNCHANGED <<busy, haunted>>
End(c) == Becomes(c, "lost", "away") /\ UNCHANGED <<busy, haunted>>

Exit(c) ==
    /\ Becomes(c, "served", "away")
    /\ haunted' = TRUE
    /\ UNCHANGED busy

\* The console is free again, or the next client has its turn.
Release ==
    /\ Nobody(InSession)
    /\ haunted' \in {haunted, FALSE}
    /\ haunted' \/ Nobody({"victim"})
    /\ busy' \in {busy, FALSE}
    /\ busy' \/ Nobody({"parked"})
    /\ UNCHANGED status

\* What may happen after exit, and only then.
Haunt(c) == haunted /\ Becomes(c, "asking", "victim") /\ UNCHANGED <<busy, haunted>>
Banish(c) == Becomes(c, "victim", "away") /\ UNCHANGED <<busy, haunted>>
Occupy == haunted /\ busy' = TRUE /\ UNCHANGED <<status, haunted>>

Next ==
    \/ \E c \in Clients :
         \/ Ask(c) \/ Drop(c) \/ Accept(c) \/ Admit(c)
         \/ Refuse(c) \/ Tell(c) \/ Dismiss(c)
         \/ Serve(c) \/ Lose(c) \/ End(c) \/ Exit(c)
         \/ Haunt(c) \/ Banish(c)
    \/ Release \/ Occupy

Spec == Init /\ [][Next]_vars
=============================================================================
