---------------------------- MODULE PingSession ----------------------------
(***************************************************************************)
(* The ping command (src/main/MeshRoofShell.cxx): the shell's task creates *)
(* a session of esp_ping, whose own task pings and prints through the      *)
(* shell's callbacks, and reads the client's connection meanwhile until it *)
(* finds a reason to stop.                                                 *)
(*                                                                         *)
(* A tick of the clock is a second.  Printing takes no time, unless the    *)
(* client is deaf: it does not read, and the write waits for it.           *)
(***************************************************************************)
EXTENDS Naturals, Sequences

CONSTANTS
    Cycle,    \* longest turn of esp_ping: its time-out and its interval
    Grace,    \* the vTaskDelay() between the stop and the deletion
    MaxInput  \* bound: characters that wait to be read

ASSUME TimesAssumption == Cycle \in Nat /\ Grace \in Nat /\ Cycle < Grace
ASSUME InputAssumption == MaxInput \in Nat \ {0}

VARIABLES
    input,     \* what the client typed and nobody read yet
    remote,    \* "here", or "reset" when its connection is aborted
    deaf,      \* the client does not read
    doing,     \* where the shell's task is
    c,         \* its local character; rx_read() may leave it as it was
    heard,     \* history: the last character read in this ping, if any
    session,   \* what the task of esp_ping is doing
    running,   \* its START flag
    age,       \* ticks since its turn began
    grace,     \* ticks since the shell's task began to wait
    late,      \* a task of a deleted session has something left to print
    hampered   \* history: a print had to wait for the client in that time

typist == <<input, remote, deaf>>
shell == <<doing, c, heard>>
pinger == <<session, running, age>>
pingVars == <<typist, shell, pinger, grace, late, hampered>>

\* ^C, the IAC of Telnet, its "interrupt process", and all else.
Chars == {"intr", "iac", "ip", "other"}
ShellSteps == {"prompt", "start", "read", "iac", "answer", "stop", "grace"}
SessionSteps == {"none", "idle", "wait", "line", "sleep", "summary", "done"}

PingTypeOK ==
    /\ input \in Seq(Chars) /\ Len(input) <= MaxInput
    /\ remote \in {"here", "reset"}
    /\ deaf \in BOOLEAN
    /\ doing \in ShellSteps
    /\ c \in Chars
    /\ heard \in Chars \cup {"nothing"}
    /\ session \in SessionSteps
    /\ running \in BOOLEAN
    /\ age \in 0..Cycle
    /\ grace \in 0..Grace
    /\ late \in BOOLEAN
    /\ hampered \in BOOLEAN

PingInit ==
    /\ input = <<>> /\ remote = "here" /\ deaf = FALSE
    /\ doing = "prompt" /\ c = "other" /\ heard = "nothing"
    /\ session = "none" /\ running = FALSE /\ age = 0
    /\ grace = 0 /\ late = FALSE /\ hampered = FALSE

-----------------------------------------------------------------------------
(* The client, and the time (external).                                    *)

Type(ch) ==
    /\ remote = "here" /\ Len(input) < MaxInput
    /\ input' = Append(input, ch)
    /\ UNCHANGED <<remote, deaf, shell, pinger, grace, late, hampered>>

Reset ==
    /\ remote' = "reset"
    /\ UNCHANGED <<input, deaf, shell, pinger, grace, late, hampered>>

Listen ==
    /\ remote = "here"
    /\ deaf' = ~deaf
    /\ UNCHANGED <<input, remote, shell, pinger, grace, late, hampered>>

\* write() returns: the client takes the text, or is not there any more.
CanPrint == ~deaf \/ remote = "reset"

Printing == session \in {"line", "summary"}

Tick ==
    /\ Printing => ~CanPrint
    /\ session \in {"wait", "sleep"} => age < Cycle
    /\ age' = IF session \in {"wait", "sleep"} THEN age + 1 ELSE age
    /\ grace' = IF doing = "grace" /\ grace < Grace THEN grace + 1 ELSE grace
    /\ hampered' = (hampered \/ (Printing /\ doing = "grace"))
    /\ UNCHANGED <<typist, shell, session, running, late>>

-----------------------------------------------------------------------------
(* The task of esp_ping (external) and the callbacks it runs.              *)

\* A reply, or a second without one.
PingAnswers ==
    /\ session = "wait"
    /\ session' = "line"
    /\ UNCHANGED <<typist, shell, running, age, grace, late, hampered>>

\* on_ping_success, on_ping_timeout
OnPingLine ==
    /\ session = "line" /\ CanPrint
    /\ session' = "sleep"
    /\ UNCHANGED <<typist, shell, running, age, grace, late, hampered>>

NextPing ==
    /\ session = "sleep"
    /\ IF running THEN session' = "wait" /\ age' = 0
                  ELSE session' = "summary" /\ UNCHANGED age
    /\ UNCHANGED <<typist, shell, running, grace, late, hampered>>

OnPingEnd ==
    /\ session = "summary" /\ CanPrint
    /\ session' = "done"
    /\ UNCHANGED <<typist, shell, running, age, grace, late, hampered>>

\* The same callbacks, for a session that was deleted under them.
OnPingLate ==
    /\ late /\ CanPrint
    /\ late' = FALSE
    /\ UNCHANGED <<typist, shell, pinger, grace, hampered>>

Pinger == PingAnswers \/ OnPingLine \/ NextPing \/ OnPingEnd \/ OnPingLate

-----------------------------------------------------------------------------
(* The shell's task                                                        *)

\* Outside of ping, process() reads what is typed; when the connection is
\* aborted its session ends, and the next client finds the shell.
Process ==
    /\ doing = "prompt"
    /\ input' = <<>> /\ remote' = "here" /\ deaf' = (deaf /\ remote = "here")
    /\ UNCHANGED <<shell, pinger, grace, late, hampered>>

\* Mutant: the character starts as a value of its own.
Ping_Sentinel ==
    /\ doing = "prompt"
    /\ doing' = "start" /\ session' = "idle" /\ c' = "none"
    /\ heard' = "nothing"
    /\ hampered' = late
    /\ UNCHANGED <<typist, running, age, grace, late>>

\* ping resolves the name and creates the session.  Its character is
\* whatever the stack held.
Ping ==
    /\ doing = "prompt"
    /\ doing' = "start" /\ session' = "idle" /\ c' \in Chars
    /\ heard' = "nothing"
    /\ hampered' = late
    /\ UNCHANGED <<typist, running, age, grace, late>>

StartPing ==
    /\ doing = "start"
    /\ doing' = "read" /\ session' = "wait" /\ running' = TRUE /\ age' = 0
    /\ UNCHANGED <<typist, c, heard, grace, late, hampered>>

StartFails ==
    /\ doing = "start" /\ CanPrint
    /\ doing' = "grace" /\ grace' = 0
    /\ UNCHANGED <<typist, c, heard, pinger, late, hampered>>

\* The tests of the character, whether or not it has just been read.
Tested(ch) == IF ch = "iac" THEN "iac" ELSE IF ch = "intr" THEN "stop" ELSE "read"

\* Mutant: the character is signed and never equal to 0xff.
ReadChar_Signed ==
    /\ doing = "read" /\ input # <<>>
    /\ c' = Head(input) /\ heard' = Head(input) /\ input' = Tail(input)
    /\ doing' = IF c' = "intr" THEN "stop" ELSE "read"
    /\ UNCHANGED <<remote, deaf, pinger, grace, late, hampered>>

ReadChar ==
    /\ doing = "read" /\ input # <<>>
    /\ c' = Head(input) /\ heard' = Head(input) /\ input' = Tail(input)
    /\ doing' = Tested(c')
    /\ UNCHANGED <<remote, deaf, pinger, grace, late, hampered>>

\* Mutant: what is not a character is a reason to stop.
ReadNothing_Stops ==
    /\ doing = "read" /\ input = <<>> /\ remote = "here"
    /\ doing' = "stop"
    /\ UNCHANGED <<typist, c, heard, pinger, grace, late, hampered>>

\* rx_read() returns 0: half a second went by, or the client closed its end.
ReadNothing ==
    /\ doing = "read" /\ input = <<>> /\ remote = "here"
    /\ doing' = Tested(c)
    /\ UNCHANGED <<typist, c, heard, pinger, grace, late, hampered>>

ReadFails ==
    /\ doing = "read" /\ remote = "reset"
    /\ doing' = "stop"
    /\ UNCHANGED <<typist, c, heard, pinger, grace, late, hampered>>

\* The second character of a Telnet command, if it comes in time.
ReadIac ==
    /\ doing = "iac"
    /\ \/ /\ input # <<>>
          /\ input' = Tail(input)
          /\ doing' = IF Head(input) = "ip" THEN "answer" ELSE "stop"
       \/ /\ input = <<>> \/ remote = "reset"
          /\ doing' = "stop" /\ UNCHANGED input
    /\ UNCHANGED <<remote, deaf, c, heard, pinger, grace, late, hampered>>

AnswerIac ==
    /\ doing = "answer" /\ CanPrint
    /\ doing' = "stop"
    /\ UNCHANGED <<typist, c, heard, pinger, grace, late, hampered>>

StopPing ==
    /\ doing = "stop"
    /\ doing' = "grace" /\ grace' = 0 /\ running' = FALSE
    /\ UNCHANGED <<typist, c, heard, session, age, late, hampered>>

\* Mutant: the session is deleted without the delay.
DeletePing_AtOnce ==
    /\ doing = "grace"
    /\ doing' = "prompt" /\ session' = "none"
    /\ late' = (late \/ session \notin {"idle", "done"})
    /\ UNCHANGED <<typist, c, heard, running, age, grace, hampered>>

\* A session that still has something to print does so later.
DeletePing ==
    /\ doing = "grace" /\ grace >= Grace
    /\ doing' = "prompt" /\ session' = "none"
    /\ late' = (late \/ session \notin {"idle", "done"})
    /\ UNCHANGED <<typist, c, heard, running, age, grace, hampered>>

Foreground ==
    \/ StartPing \/ StartFails
    \/ ReadChar \/ ReadNothing \/ ReadFails \/ ReadIac \/ AnswerIac
    \/ StopPing \/ DeletePing

PingNext ==
    \/ \E ch \in Chars : Type(ch)
    \/ Reset \/ Listen \/ Tick
    \/ Pinger
    \/ Process \/ Ping \/ Foreground

\* Both tasks run when they can, and time passes.  The client owes nothing.
PingSpec == PingInit /\ [][PingNext]_pingVars
PingFairSpec ==
    /\ PingSpec
    /\ WF_pingVars(Foreground) /\ WF_pingVars(Pinger) /\ WF_pingVars(Tick)

-----------------------------------------------------------------------------
(* What must hold                                                          *)

\* The grace period is long enough: when the shell prompts again, the session
\* has printed its summary and nothing of it is left to disturb the next
\* command, unless the client did not read while the shell waited.
QuietAtPrompt ==
    /\ late => hampered
    /\ doing = "prompt" => session = "none"

\* A ping ends when the client asks for it or is gone; neither a time-out nor
\* another character ends it.  Before the first character the code tests what
\* the stack held: only then may it end for nothing.
EndsForAReason ==
    doing = "stop" =>
        heard \in {"intr", "iac"} \/ remote = "reset" \/ heard = "nothing"

\* A ping can be ended: after ^C or a Telnet command, once it is the next
\* character to read, the shell prompts again unless its answer has to wait
\* for the client; and a ping whose client is gone ends by itself.
Interruptible ==
    /\ (doing = "read" /\ input # <<>> /\ Head(input) \in {"intr", "iac"})
         ~> (doing = "prompt" \/ deaf)
    /\ (doing = "read" /\ remote = "reset") ~> (doing = "prompt")
=============================================================================
