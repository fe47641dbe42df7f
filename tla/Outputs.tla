------------------------------ MODULE Outputs ------------------------------
(***************************************************************************)
(* The outputs of the board and the commands that drive them               *)
(* (src/main/MeshRoof.cxx, src/main/MeshRoofShell.cxx): the amplifier and  *)
(* its antenna switch, the buzzer, and the count of device resets.         *)
(*                                                                         *)
(* The two shells, meshtastic_task and morsebuzzer_task use them without a *)
(* lock and on two cores; a task can be overtaken between any two of its   *)
(* statements.  The reset line itself is in Supervisor.                    *)
(***************************************************************************)
EXTENDS Naturals

CONSTANTS
    Shells,     \* tasks that run the shell commands
    Main,       \* meshtastic_task: mesh messages and the loop's own resets
    Morse,      \* morsebuzzer_task
    CountWidth  \* values of _resetCount, an unsigned int

ASSUME TasksAssumption == Main \notin Shells /\ Morse \notin Shells \cup {Main}
ASSUME WidthAssumption == CountWidth \in Nat \ {0, 1}

VARIABLES
    amplifying,   \* MeshRoof::_isAmplifying
    amplify_pin,  \* the levels of AMPLIFY_PIN and SWITCH_PIN: low is on
    switch_pin,
    buzzer_pin,   \* the level of BUZZER_PIN: high is on
    reset_count,  \* MeshRoof::_resetCount
    pc,           \* what a task has begun and not finished
    on,           \* the argument of a task's amplify()
    seen,         \* the count a task has read and will write back plus one
    tangled,      \* history: calls of amplify() with both arguments overlapped,
                  \* and none has begun undisturbed since
    base,         \* history: the count when it was last at rest, or is,
                  \* before the latest increments, and how many of these have
    since         \* begun since then, up to the width of the count

amplifier == <<amplifying, amplify_pin, switch_pin, on, tangled>>
counter == <<reset_count, seen, base, since>>
vars == <<amplifying, amplify_pin, switch_pin, buzzer_pin, reset_count, pc, on,
          seen, tangled, base, since>>

Users == Shells \cup {Main}
Tasks == Users \cup {Morse}
AmplifySteps == {"amplify_pin", "switch_pin"}

TypeOK ==
    /\ amplifying \in BOOLEAN
    /\ amplify_pin \in BOOLEAN /\ switch_pin \in BOOLEAN
    /\ buzzer_pin \in BOOLEAN
    /\ reset_count \in 0..(CountWidth - 1)
    /\ pc \in [Tasks -> {"idle", "sound", "count"} \cup AmplifySteps]
    /\ on \in [Tasks -> BOOLEAN]
    /\ seen \in [Tasks -> 0..(CountWidth - 1)]
    /\ tangled \in BOOLEAN
    /\ base \in 0..(CountWidth - 1) /\ since \in 1..CountWidth

\* The constructor: amplify(false), a first reset(), and a silent buzzer.
Init ==
    /\ amplifying = FALSE
    /\ amplify_pin = TRUE /\ switch_pin = TRUE
    /\ buzzer_pin = FALSE
    /\ reset_count = 1
    /\ pc = [t \in Tasks |-> "idle"]
    /\ on = [t \in Tasks |-> FALSE]
    /\ seen = [t \in Tasks |-> 0]
    /\ tangled = FALSE
    /\ base = 0 /\ since = 1

In(steps) == {t \in Tasks : pc[t] \in steps}

-----------------------------------------------------------------------------
(* amplify                                                                 *)

\* "amplify on" and "amplify off": the flag first ...
Amplify(t, level) ==
    /\ pc[t] = "idle"
    /\ pc' = [pc EXCEPT ![t] = "amplify_pin"]
    /\ amplifying' = level
    /\ on' = [on EXCEPT ![t] = level]
    /\ tangled' = \E u \in In(AmplifySteps) : tangled \/ on[u] # level
    /\ UNCHANGED <<amplify_pin, switch_pin, buzzer_pin, counter>>

\* ... then the amplifier ...
AmplifyPin(t) ==
    /\ pc[t] = "amplify_pin"
    /\ pc' = [pc EXCEPT ![t] = "switch_pin"]
    /\ amplify_pin' = ~on[t]
    /\ UNCHANGED <<amplifying, switch_pin, on, tangled, buzzer_pin, counter>>

\* Mutant: the antenna switch is driven like the buzzer, high for on.
SwitchPin_Inverted(t) ==
    /\ pc[t] = "switch_pin"
    /\ pc' = [pc EXCEPT ![t] = "idle"]
    /\ switch_pin' = on[t]
    /\ UNCHANGED <<amplifying, amplify_pin, on, tangled, buzzer_pin, counter>>

\* ... and the antenna switch.
SwitchPin(t) ==
    /\ pc[t] = "switch_pin"
    /\ pc' = [pc EXCEPT ![t] = "idle"]
    /\ switch_pin' = ~on[t]
    /\ UNCHANGED <<amplifying, amplify_pin, on, tangled, buzzer_pin, counter>>

-----------------------------------------------------------------------------
(* The buzzer                                                              *)

SoundStarts(t) ==
    /\ pc[t] = "idle"
    /\ pc' = [pc EXCEPT ![t] = "sound"]
    /\ buzzer_pin' = TRUE
    /\ UNCHANGED <<amplifier, counter>>

\* The pin goes low, whoever else is sounding.
SoundStops(t) ==
    /\ pc[t] = "sound"
    /\ pc' = [pc EXCEPT ![t] = "idle"]
    /\ buzzer_pin' = FALSE
    /\ UNCHANGED <<amplifier, counter>>

\* The buzz command of a shell, and a "buzz" message from the mesh.
Buzz(t) == t \in Users /\ SoundStarts(t)
BuzzEnds(t) == t \in Users /\ SoundStops(t)

\* A tone of the Morse code.
ToggleBuzzer == SoundStarts(Morse) \/ SoundStops(Morse)

-----------------------------------------------------------------------------
(* The count of resets                                                     *)

\* _resetCount++ reads ...
Count(t) ==
    /\ pc[t] = "idle"
    /\ pc' = [pc EXCEPT ![t] = "count"]
    /\ seen' = [seen EXCEPT ![t] = reset_count]
    /\ IF In({"count"}) = {}
         THEN base' = reset_count /\ since' = 1
         ELSE base' = base /\ since' = IF since < CountWidth THEN since + 1 ELSE since
    /\ UNCHANGED <<reset_count, buzzer_pin, amplifier>>

\* Mutant: the count is wider than the type it is kept in.
Counted_Unbounded(t) ==
    /\ pc[t] = "count"
    /\ pc' = [pc EXCEPT ![t] = "idle"]
    /\ reset_count' = seen[t] + 1
    /\ UNCHANGED <<seen, base, since, buzzer_pin, amplifier>>

\* Mutant: the count stops at its largest value.
Counted_Saturates(t) ==
    /\ pc[t] = "count"
    /\ pc' = [pc EXCEPT ![t] = "idle"]
    /\ reset_count' = IF seen[t] + 1 < CountWidth THEN seen[t] + 1 ELSE seen[t]
    /\ UNCHANGED <<seen, base, since, buzzer_pin, amplifier>>

\* ... and writes.
Counted(t) ==
    /\ pc[t] = "count"
    /\ pc' = [pc EXCEPT ![t] = "idle"]
    /\ reset_count' = (seen[t] + 1) % CountWidth
    /\ UNCHANGED <<seen, base, since, buzzer_pin, amplifier>>

Next ==
    \/ \E t \in Shells :
         \/ \E level \in BOOLEAN : Amplify(t, level)
         \/ AmplifyPin(t) \/ SwitchPin(t)
    \/ \E t \in Users : Buzz(t) \/ BuzzEnds(t) \/ Count(t) \/ Counted(t)
    \/ ToggleBuzzer

Spec == Init /\ [][Next]_vars

-----------------------------------------------------------------------------
(* What must hold                                                          *)

\* The amplifier, the antenna switch and what "amplify" reports agree when no
\* call is running, also after calls that overlapped, as long as these did not
\* ask for different things.
AmplifierAgrees ==
    In(AmplifySteps) = {} /\ ~tangled =>
        amplify_pin = ~amplifying /\ switch_pin = ~amplifying

\* The buzzer is silent when nobody sounds it, whatever tones overlapped.
SilentAtRest == buzzer_pin => In({"sound"}) # {}

\* With no call running the pins are as the last call left them.
PinsAtRest == AmplifierAgrees /\ SilentAtRest

\* How far the count has to go from base to n, across its largest value.
Advance(n) == IF n >= base THEN n - base ELSE n + CountWidth - base

\* From one rest of the count to the next it goes up, by no more than there
\* were resets: one that nobody disturbs counts once, and of those that overlap
\* (meshtastic_task runs on the other core than the shells) at least one
\* counts, though in between the count may even go back.  So who compares the
\* count before and after sees that there were resets, unless as many of them
\* overlap as the count has values.
CountAdvances ==
    In({"count"}) = {} /\ since < CountWidth => Advance(reset_count) \in 1..since
=============================================================================
