----------------------------- MODULE Supervisor -----------------------------
(***************************************************************************)
(* The supervision of the attached Meshtastic device: the loop of          *)
(* meshtastic_task (src/main/meshroof.cxx:183), MeshRoof::reset, which the *)
(* loop and the shells call, and the task watchdog.                        *)
(*                                                                         *)
(* The loop reads no lock: a shell can reset the device between any two of *)
(* its statements, and usb_printf spins for as long as a USB host is       *)
(* attached and does not read.                                             *)
(*                                                                         *)
(* Time passes in ticks.  A clock holds the ticks since an event, up to    *)
(* the largest value the code compares it with.                            *)
(***************************************************************************)
EXTENDS Naturals

CONSTANTS
    Shells,         \* tasks that may run "reset apply"
    Main,           \* meshtastic_task
    StuckAfter,     \* the 300 s of silence that mean stuck
    ResetGap,       \* the 120 s after a reset without another
    ConfigEvery,    \* the 5 s between two sendWantConfig
    BeatEvery,      \* the 60 s between two sendHeartbeat
    WatchdogAfter,  \* CONFIG_ESP_TASK_WDT_TIMEOUT_S
    MaxFrames,      \* bound: frames that wait in the UART's receive buffer
    Limit           \* bound: a clock stops here, beyond what it is compared with

ASSUME MainAssumption == Main \notin Shells
ASSUME TimesAssumption ==
    /\ Limit \in Nat
    /\ ConfigEvery \in 1..Limit /\ BeatEvery \in 1..Limit
    /\ WatchdogAfter \in 1..(Limit - 1)
    /\ StuckAfter \in 1..(Limit - 1) /\ ResetGap \in 1..(StuckAfter - 1)
ASSUME FramesAssumption == MaxFrames \in Nat

VARIABLES
    pc,         \* next statement of each task
    connected,  \* SimpleClient::isConnected()
    released,   \* the level of OUTRESET_PIN: low holds the device in reset
    hung,       \* the device has stopped talking until it is reset
    frames,     \* what it has sent and the loop has not read
    stalled,    \* a USB host is attached and does not read
    rx,         \* clock: meshDeviceLastRecivedSecondsAgo()
    reset,      \* clock: getLastResetSecsAgo()
    now,        \* clock: since now was sampled and the watchdog reset
    want,       \* now - last_want_config, up to ConfigEvery
    beat,       \* now - last_heartbeat, up to BeatEvery
    panics,     \* the task watchdog restarts the board when it expires
    expired,    \* history: it expired, and the board went on
    raced       \* history: a shell's reset disconnected the device after the
                \* loop found it silent

device == <<hung, frames, stalled>>
timers == <<want, beat>>
clocks == <<rx, reset, now>>
dog == <<panics, expired>>
vars == <<pc, connected, released, hung, frames, stalled, rx, reset, now, want,
          beat, panics, expired, raced>>

Tasks == Shells \cup {Main}
ResetSteps == {"disconnect", "lower", "pulse", "pulsed", "stamp"}
PrintSteps == {"say_stuck", "say_want", "say_beat", "say_serial"}
LoopSteps == {"boot", "feed", "silence", "gap", "want", "still", "ask",
              "beat", "send_beat", "serial"}

Later(clock) == IF clock < Limit THEN clock + 1 ELSE Limit
Plus(timer, passed, due) ==
    IF timer + passed < due THEN timer + passed ELSE due

TypeOK ==
    /\ pc \in [Tasks -> {"idle"} \cup ResetSteps \cup PrintSteps \cup LoopSteps]
    /\ connected \in BOOLEAN /\ released \in BOOLEAN
    /\ hung \in BOOLEAN /\ frames \in 0..MaxFrames
    /\ stalled \in BOOLEAN
    /\ rx \in 0..Limit /\ reset \in 0..Limit /\ now \in 0..Limit
    /\ want \in 0..ConfigEvery /\ beat \in 0..BeatEvery
    /\ panics \in BOOLEAN /\ expired \in BOOLEAN /\ raced \in BOOLEAN

\* The IDF starts the watchdog before app_main (CONFIG_ESP_TASK_WDT_INIT=y),
\* without CONFIG_ESP_TASK_WDT_PANIC.
StartupWatchdog == [initialized |-> TRUE, panics |-> FALSE]

AtBoot == [t \in Tasks |-> IF t = Main THEN "boot" ELSE "idle"]

\* app_main has built MeshRoof, whose constructor reset the device.
Init ==
    /\ pc = AtBoot
    /\ connected = FALSE
    /\ released = TRUE
    /\ hung = FALSE /\ frames = 0
    /\ rx = 0 /\ reset = 0 /\ now = 0
    /\ want = 0 /\ beat = 0
    /\ panics = StartupWatchdog.panics
    /\ expired = FALSE
    /\ raced = FALSE
    /\ stalled = FALSE

-----------------------------------------------------------------------------
(* The device, the USB host and the clock (external)                       *)

FrameArrives ==
    /\ ~hung /\ released
    /\ frames < MaxFrames
    /\ frames' = frames + 1
    /\ UNCHANGED <<pc, connected, released, hung, stalled, clocks, timers, dog,
                   raced>>

Hang ==
    /\ ~hung
    /\ hung' = TRUE
    /\ UNCHANGED <<pc, connected, released, frames, stalled, clocks, timers, dog,
                   raced>>

HostStalls ==
    /\ ~stalled
    /\ stalled' = TRUE
    /\ UNCHANGED <<pc, connected, released, hung, frames, clocks, timers, dog,
                   raced>>

HostReads ==
    /\ stalled
    /\ stalled' = FALSE
    /\ UNCHANGED <<pc, connected, released, hung, frames, clocks, timers, dog,
                   raced>>

Spinning == pc[Main] \in PrintSteps /\ stalled

\* Time passes while the loop spins in usb_printf, handles frames or pulses
\* the line; otherwise the loop turns faster than the clock.  A reset() takes
\* half a second: at most one tick falls into it.
Tick ==
    /\ now = 0 \/ Spinning \/ pc[Main] \in {"serial", "pulse"}
    /\ \A t \in Tasks : pc[t] \notin {"lower", "pulsed", "stamp"}
    /\ pc' = [t \in Tasks |-> IF pc[t] = "pulse" THEN "pulsed" ELSE pc[t]]
    /\ rx' = Later(rx) /\ reset' = Later(reset) /\ now' = Later(now)
    /\ UNCHANGED <<connected, released, device, timers, dog, raced>>

-----------------------------------------------------------------------------
(* The watchdog and restarts                                               *)

\* app_main runs again, as in Init.
Restart ==
    /\ pc' = AtBoot
    /\ connected' = FALSE
    /\ released' = TRUE
    /\ hung' = FALSE /\ frames' = 0
    /\ rx' = 0 /\ reset' = 0 /\ now' = 0
    /\ want' = 0 /\ beat' = 0
    /\ panics' = StartupWatchdog.panics
    /\ expired' = FALSE
    /\ raced' = FALSE
    /\ UNCHANGED stalled

\* The handler of the IDF: it panics, or reports the task and goes on.
WatchdogExpires ==
    /\ pc[Main] # "boot"
    /\ now > WatchdogAfter
    /\ ~expired
    /\ IF panics
         THEN Restart
         ELSE /\ expired' = TRUE
              /\ UNCHANGED <<pc, connected, released, device, clocks, timers,
                             panics, raced>>

\* The shell's reboot command: sendDisconnect() and esp_restart().
Reboot(s) == pc[s] = "idle" /\ Restart

\* esp_task_wdt_init() refuses a watchdog that is running.
ConfigureWatchdog ==
    panics' = IF StartupWatchdog.initialized THEN panics ELSE TRUE

\* The head of meshtastic_task.  last_want_config = 0 is long ago, unless the
\* clock of the board has just started from 0 as well.
Boot ==
    /\ pc[Main] = "boot"
    /\ pc' = [pc EXCEPT ![Main] = "feed"]
    /\ ConfigureWatchdog
    /\ want' \in {0, ConfigEvery}
    /\ beat' = 0
    /\ now' = 0
    /\ UNCHANGED <<connected, released, device, rx, reset, expired, raced>>

-----------------------------------------------------------------------------
(* MeshRoof::reset                                                         *)

\* "reset apply"
ShellReset(s) ==
    /\ pc[s] = "idle"
    /\ pc' = [pc EXCEPT ![s] = "disconnect"]
    /\ UNCHANGED <<connected, released, device, clocks, timers, dog, raced>>

\* Mutant: the client is not told that the device goes away.
ResetDisconnect_Missing(t) ==
    /\ pc[t] = "disconnect"
    /\ pc' = [pc EXCEPT ![t] = "lower"]
    /\ raced' = (raced \/ t # Main)
    /\ UNCHANGED <<connected, released, device, clocks, timers, dog>>

\* sendDisconnect()
ResetDisconnect(t) ==
    /\ pc[t] = "disconnect"
    /\ pc' = [pc EXCEPT ![t] = "lower"]
    /\ connected' = FALSE
    /\ raced' = (raced \/ t # Main)
    /\ UNCHANGED <<released, device, clocks, timers, dog>>

ResetLower(t) ==
    /\ pc[t] = "lower"
    /\ pc' = [pc EXCEPT ![t] = "pulse"]
    /\ released' = FALSE
    /\ UNCHANGED <<connected, device, clocks, timers, dog, raced>>

\* Mutant: the level is inverted, and the device stays in reset.
ResetRelease_Inverted(t) ==
    /\ pc[t] \in {"pulse", "pulsed"}
    /\ pc' = [pc EXCEPT ![t] = "stamp"]
    /\ released' = FALSE
    /\ hung' = FALSE
    /\ UNCHANGED <<connected, frames, stalled, clocks, timers, dog, raced>>

\* The line goes up, whoever else holds it down; the device starts afresh.
ResetRelease(t) ==
    /\ pc[t] \in {"pulse", "pulsed"}
    /\ pc' = [pc EXCEPT ![t] = "stamp"]
    /\ released' = TRUE
    /\ hung' = FALSE
    /\ UNCHANGED <<connected, frames, stalled, clocks, timers, dog, raced>>

\* _lastReset = time(NULL)
ResetStamp(t) ==
    /\ pc[t] = "stamp"
    /\ pc' = [pc EXCEPT ![t] = IF t = Main THEN "want" ELSE "idle"]
    /\ reset' = 0
    /\ UNCHANGED <<connected, released, device, rx, now, timers, dog, raced>>

Resetting(t) ==
    ResetDisconnect(t) \/ ResetLower(t) \/ ResetRelease(t) \/ ResetStamp(t)

-----------------------------------------------------------------------------
(* The loop of meshtastic_task                                             *)

Go(from, to) == pc[Main] = from /\ pc' = [pc EXCEPT ![Main] = to]

\* esp_task_wdt_reset(); now = time(NULL)
Feed ==
    /\ Go("feed", "silence")
    /\ now' = 0
    /\ want' = Plus(want, now, ConfigEvery)
    /\ beat' = Plus(beat, now, BeatEvery)
    /\ expired' = FALSE
    /\ UNCHANGED <<connected, released, device, rx, reset, panics, raced>>

\* isConnected() and more than 300 s of silence ...
CheckSilence ==
    /\ Go("silence", IF connected /\ rx > StuckAfter THEN "gap" ELSE "want")
    /\ raced' = FALSE
    /\ UNCHANGED <<connected, released, device, clocks, timers, dog>>

\* ... and no reset in the last 120 s: stuck.
CheckGap ==
    /\ Go("gap", IF reset > ResetGap THEN "say_stuck" ELSE "want")
    /\ UNCHANGED <<connected, released, device, clocks, timers, dog, raced>>

\* usb_printf() returns once the host has read all of it, or is not there.
Say(from, to) ==
    /\ ~stalled
    /\ Go(from, to)
    /\ UNCHANGED <<connected, released, device, clocks, timers, dog, raced>>

\* Mutant: last_want_config = now at every turn of the loop.
CheckWant_AlwaysStamps ==
    /\ IF connected THEN Go("want", "still")
       ELSE Go("want", IF want >= ConfigEvery THEN "ask" ELSE "beat")
    /\ want' = 0
    /\ UNCHANGED <<connected, released, device, clocks, beat, dog, raced>>

CheckWant ==
    /\ IF connected THEN Go("want", "still")
       ELSE Go("want", IF want >= ConfigEvery THEN "ask" ELSE "beat")
    /\ UNCHANGED <<connected, released, device, clocks, timers, dog, raced>>

\* The else branch asks isConnected() again.
StillConnected ==
    /\ Go("still", "beat")
    /\ want' = IF connected THEN 0 ELSE want
    /\ UNCHANGED <<connected, released, device, clocks, beat, dog, raced>>

\* sendWantConfig() succeeds or fails; the timer restarts either way.
Ask ==
    /\ Go("ask", "beat") \/ Go("ask", "say_want")
    /\ want' = 0
    /\ UNCHANGED <<connected, released, device, clocks, beat, dog, raced>>

CheckBeat ==
    /\ Go("beat", IF connected /\ beat >= BeatEvery THEN "send_beat"
                                                     ELSE "serial")
    /\ UNCHANGED <<connected, released, device, clocks, timers, dog, raced>>

SendBeat ==
    /\ Go("send_beat", "serial") \/ Go("send_beat", "say_beat")
    /\ beat' = 0
    /\ UNCHANGED <<connected, released, device, clocks, want, dog, raced>>

\* Mutant: any result of serial_rx_ready() but 0 is taken for a frame.
HandleFrame_Unready ==
    /\ Go("serial", "serial")
    /\ frames' = frames - 1
    /\ rx' = 0
    /\ connected' \in {connected, TRUE}
    /\ UNCHANGED <<released, hung, stalled, reset, now, timers, dog, raced>>

\* mt_serial_process() handles a frame, which may complete the configuration.
HandleFrame ==
    /\ Go("serial", "serial")
    /\ frames > 0
    /\ frames' = frames - 1
    /\ rx' = 0
    /\ connected' \in {connected, TRUE}
    /\ UNCHANGED <<released, hung, stalled, reset, now, timers, dog, raced>>

\* It fails: the loop over the frames is left.
RejectFrame ==
    /\ Go("serial", "say_serial")
    /\ frames > 0
    /\ frames' = frames - 1
    /\ UNCHANGED <<connected, released, hung, stalled, clocks, timers, dog, raced>>

\* Mutant: the loop waits for a frame.
SerialDry_Waits ==
    /\ Go("serial", "feed")
    /\ frames > 0
    /\ UNCHANGED <<connected, released, device, clocks, timers, dog, raced>>

\* serial_rx_ready() <= 0
SerialDry ==
    /\ Go("serial", "feed")
    /\ frames = 0
    /\ UNCHANGED <<connected, released, device, clocks, timers, dog, raced>>

Says ==
    \/ Say("say_stuck", "disconnect") \/ Say("say_want", "beat")
    \/ Say("say_beat", "serial") \/ Say("say_serial", "feed")

Loop ==
    \/ Boot \/ Feed \/ CheckSilence \/ CheckGap
    \/ CheckWant \/ StillConnected \/ Ask \/ CheckBeat \/ SendBeat
    \/ HandleFrame \/ RejectFrame \/ SerialDry
    \/ Resetting(Main)

Next ==
    \/ FrameArrives \/ Hang \/ HostStalls \/ HostReads \/ Tick
    \/ WatchdogExpires
    \/ \E s \in Shells : Reboot(s) \/ ShellReset(s) \/ Resetting(s)
    \/ Loop
    \/ Says

\* The highest priority of its core makes the loop run; a tick comes in the
\* end.  What the code does not guarantee is assumed of its surroundings: the
\* host reads its port again, and the device pauses now and then.
Fairness ==
    /\ WF_vars(Loop)
    /\ SF_vars(Tick)
    /\ \A s \in Shells : WF_vars(Resetting(s))
    /\ WF_vars(HostReads)
    /\ SF_vars(Says)
    /\ SF_vars(SerialDry)

Spec == Init /\ [][Next]_vars
FairSpec == Spec /\ Fairness

-----------------------------------------------------------------------------
(* What must hold                                                          *)

\* However many tasks reset the device at once, the line is up again when the
\* last of them is through: the device is not left in reset.
LineReleased == released \/ \E t \in Tasks : pc[t] \in {"pulse", "pulsed"}

\* The loop does not reset a device that anybody has reset since its silence
\* began: sendDisconnect() stands in the way, and the 120 s matter only when a
\* shell's reset comes between the two checks.
ResetsApart ==
    [][pc[Main] = "disconnect" /\ pc'[Main] = "lower" =>
          raced \/ (released /\ reset >= StuckAfter)]_vars

\* A connected device that hangs is reset in the end.
StuckIsReset == (hung /\ connected) ~> (~hung \/ ~connected)

\* Unless somebody keeps rebooting the board, a disconnected device is asked for
\* its configuration again and again, and a connected one gets heartbeats.
KeepsTalking ==
    /\ []<>(connected \/ pc[Main] \in {"ask", "boot"})
    /\ []<>(~connected \/ pc[Main] \in {"send_beat", "boot"})

\* "trigger_panic = true, // Restart on timeout" (meshroof.cxx:191): a board
\* that runs has not let the watchdog expire.
RestartOnTimeout == ~expired
=============================================================================
