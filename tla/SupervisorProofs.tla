-------------------------- MODULE SupervisorProofs --------------------------
(* What holds of Supervisor for any number of shells and any times.        *)
EXTENDS Supervisor, TLAPS

\* A connected client has heard from the device since every task's last
\* disconnect, hence at most one tick before the end of that reset.
Recent ==
    connected =>
        /\ rx <= reset + 1
        /\ \A t \in Tasks :
             /\ pc[t] \in {"lower", "pulse"} => rx = 0
             /\ pc[t] \in {"pulsed", "stamp"} => rx <= 1

\* What the loop has found out still holds, unless a shell's reset disconnected
\* the device meanwhile.
Silent ==
    pc[Main] \in {"gap", "say_stuck", "disconnect"} /\ ~raced =>
        connected /\ rx > StuckAfter

IInv ==
    /\ TypeOK
    /\ LineReleased
    /\ Recent
    /\ Silent

Steps == {"idle"} \cup ResetSteps \cup PrintSteps \cup LoopSteps

-----------------------------------------------------------------------------
\* Advancing a clock keeps it in its range, keeps the order of two clocks one
\* tick apart, and keeps a clock beyond a time it has passed.
LEMMA Clocks ==
    ASSUME NEW a \in 0..Limit, NEW b \in 0..Limit
    PROVE  /\ Later(a) \in 0..Limit
           /\ \A due \in 1..Limit : \A t \in 0..due : Plus(t, b, due) \in 0..due
           /\ Later(a) >= a
           /\ a <= b + 1 => Later(a) <= Later(b) + 1
           /\ a = 0 => Later(a) <= 1
  BY TimesAssumption DEF Later, Plus

\* After a start of the board meshtastic_task is at its head, and no shell is in
\* a command.
LEMMA Starts ==
    /\ AtBoot \in [Tasks -> Steps]
    /\ AtBoot[Main] = "boot"
    /\ \A t \in Tasks : AtBoot[t] \in {"boot", "idle"}
    /\ StartupWatchdog.panics = FALSE
  BY DEF AtBoot, Tasks, Steps, LoopSteps, StartupWatchdog

\* The board starts with the line up and nobody connected.
LEMMA InitHolds == Init => IInv
<1> SUFFICES ASSUME Init PROVE IInv
  OBVIOUS
<1> USE TimesAssumption, FramesAssumption, Starts
<1>1. TypeOK
  <2>1. panics \in BOOLEAN /\ expired \in BOOLEAN /\ raced \in BOOLEAN
    BY DEF Init
  <2>2. pc \in [Tasks -> Steps]
    BY DEF Init
  <2>3. /\ frames \in 0..MaxFrames /\ rx \in 0..Limit /\ reset \in 0..Limit
        /\ now \in 0..Limit /\ want \in 0..ConfigEvery /\ beat \in 0..BeatEvery
    BY DEF Init
  <2>4. /\ connected \in BOOLEAN /\ released \in BOOLEAN
        /\ hung \in BOOLEAN /\ stalled \in BOOLEAN
    BY DEF Init
  <2> QED BY <2>1, <2>2, <2>3, <2>4 DEF TypeOK, Steps
<1>2. LineReleased /\ Recent /\ Silent
  BY DEF Init, LineReleased, Recent, Silent
<1> QED BY <1>1, <1>2 DEF IInv

\* So does a restarted one.
LEMMA RestartHolds == TypeOK /\ Restart => IInv'
<1> SUFFICES ASSUME TypeOK, Restart PROVE IInv'
  OBVIOUS
<1> USE TimesAssumption, FramesAssumption, Starts
<1>1. TypeOK'
  <2>1. panics' \in BOOLEAN /\ expired' \in BOOLEAN /\ raced' \in BOOLEAN
    BY DEF Restart
  <2>2. pc' \in [Tasks -> Steps]
    BY DEF Restart
  <2>3. /\ frames' \in 0..MaxFrames /\ rx' \in 0..Limit /\ reset' \in 0..Limit
        /\ now' \in 0..Limit /\ want' \in 0..ConfigEvery /\ beat' \in 0..BeatEvery
    BY DEF Restart
  <2>4. /\ connected' \in BOOLEAN /\ released' \in BOOLEAN
        /\ hung' \in BOOLEAN /\ stalled' \in BOOLEAN
    BY DEF Restart, TypeOK
  <2> QED BY <2>1, <2>2, <2>3, <2>4 DEF TypeOK, Steps
<1>2. LineReleased' /\ Recent' /\ Silent'
  BY DEF Restart, LineReleased, Recent, Silent
<1> QED BY <1>1, <1>2 DEF IInv

\* Every step of the loop, of a shell and of the surroundings preserves IInv.
LEMMA StepPreserves == IInv /\ [Next]_vars => IInv'
<1> SUFFICES ASSUME IInv, [Next]_vars PROVE IInv'
  OBVIOUS
<1> USE TimesAssumption, FramesAssumption, MainAssumption
<1>0. TypeOK /\ LineReleased /\ Recent /\ Silent
  BY DEF IInv
<1>1. CASE FrameArrives \/ Hang \/ HostStalls \/ HostReads
  <2>1. UNCHANGED <<pc, connected, released, rx, reset, now, want, beat,
                    panics, expired, raced>>
    BY <1>1 DEF FrameArrives, Hang, HostStalls, HostReads, clocks, timers, dog
  <2>2. hung' \in BOOLEAN /\ stalled' \in BOOLEAN
    BY <1>0, <1>1 DEF FrameArrives, Hang, HostStalls, HostReads, TypeOK
  <2>3. frames' \in 0..MaxFrames
    <3>1. frames \in 0..MaxFrames
      BY <1>0 DEF TypeOK
    <3> QED
      BY <1>1, <3>1 DEF FrameArrives, Hang, HostStalls, HostReads
  <2>4. TypeOK'
    BY <1>0, <2>1, <2>2, <2>3 DEF TypeOK
  <2>5. LineReleased' /\ Recent' /\ Silent'
    BY <1>0, <2>1 DEF LineReleased, Recent, Silent
  <2> QED BY <2>4, <2>5 DEF IInv
<1>2. CASE Tick
  <2>1. TypeOK'
    BY <1>0, <1>2, Clocks DEF Tick, TypeOK, device, timers, dog, Tasks,
       ResetSteps, PrintSteps, LoopSteps
  <2>2. LineReleased'
    BY <1>0, <1>2 DEF Tick, TypeOK, LineReleased, device
  <2>3. Recent'
    BY <1>0, <1>2, Clocks DEF Tick, TypeOK, Recent
  <2>4. Silent'
    BY <1>0, <1>2, Clocks DEF Tick, TypeOK, Silent, Tasks
  <2> QED BY <2>1, <2>2, <2>3, <2>4 DEF IInv
<1>3. CASE WatchdogExpires
  <2>1. CASE panics
    BY <1>0, <1>3, <2>1, RestartHolds DEF WatchdogExpires
  <2>2. CASE ~panics
    BY <1>0, <1>3, <2>2 DEF WatchdogExpires, IInv, TypeOK, LineReleased,
       Recent, Silent, device, clocks, timers
  <2> QED BY <2>1, <2>2
<1>4. ASSUME NEW s \in Shells, Reboot(s) PROVE IInv'
  BY <1>0, <1>4, RestartHolds DEF Reboot
<1>5. ASSUME NEW s \in Shells, ShellReset(s) PROVE IInv'
  BY <1>0, <1>5 DEF ShellReset, IInv, TypeOK, LineReleased, Recent, Silent,
     Tasks, ResetSteps, device, clocks, timers, dog
<1>6. ASSUME NEW t \in Tasks, Resetting(t) PROVE IInv'
  <2>1. CASE ResetDisconnect(t)
    BY <1>0, <2>1 DEF ResetDisconnect, IInv, TypeOK, LineReleased, Recent,
       Silent, Tasks, ResetSteps, device, clocks, timers, dog
  <2>2. CASE ResetLower(t)
    BY <1>0, <2>2 DEF ResetLower, IInv, TypeOK, LineReleased, Recent,
       Silent, Tasks, ResetSteps, device, clocks, timers, dog
  <2>3. CASE ResetRelease(t)
    <3>1. TypeOK'
      BY <1>0, <2>3 DEF ResetRelease, TypeOK, Tasks, ResetSteps, clocks,
         timers, dog
    <3>2. LineReleased'
      BY <2>3 DEF ResetRelease, LineReleased
    <3>3. Recent'
      BY <1>0, <2>3 DEF ResetRelease, TypeOK, Recent, clocks
    <3>4. Silent'
      BY <1>0, <2>3 DEF ResetRelease, TypeOK, Silent, clocks, Tasks
    <3> QED BY <3>1, <3>2, <3>3, <3>4 DEF IInv
  <2>4. CASE ResetStamp(t)
    BY <1>0, <2>4 DEF ResetStamp, IInv, TypeOK, LineReleased, Recent,
       Silent, Tasks, ResetSteps, LoopSteps, device, timers, dog
  <2> QED BY <1>6, <2>1, <2>2, <2>3, <2>4 DEF Resetting
<1>7. CASE Boot
  BY <1>0, <1>7 DEF Boot, ConfigureWatchdog, StartupWatchdog, IInv, TypeOK,
     LineReleased, Recent, Silent, Tasks, LoopSteps, ResetSteps, device
<1>8. CASE Feed
  <2>1. TypeOK'
    <3>1. /\ Plus(want, now, ConfigEvery) \in 0..ConfigEvery
          /\ Plus(beat, now, BeatEvery) \in 0..BeatEvery
      BY <1>0, Clocks DEF TypeOK
    <3>2. now' \in 0..Limit /\ want' \in 0..ConfigEvery /\ beat' \in 0..BeatEvery
      BY <1>8, <3>1 DEF Feed
    <3>3. pc' \in [Tasks -> Steps]
      BY <1>0, <1>8 DEF Feed, Go, TypeOK, Steps, LoopSteps
    <3> QED
      BY <1>0, <1>8, <3>2, <3>3 DEF Feed, TypeOK, Steps, device
  <2>2. LineReleased' /\ Recent' /\ Silent'
    BY <1>0, <1>8 DEF Feed, Go, TypeOK, LineReleased, Recent, Silent, Tasks
  <2> QED BY <2>1, <2>2 DEF IInv
<1>9. CASE CheckSilence
  BY <1>0, <1>9 DEF CheckSilence, Go, IInv, TypeOK, LineReleased, Recent,
     Silent, Tasks, LoopSteps, device, clocks, timers, dog
<1>10. CASE CheckGap
  BY <1>0, <1>10 DEF CheckGap, Go, IInv, TypeOK, LineReleased, Recent,
     Silent, Tasks, LoopSteps, PrintSteps, device, clocks, timers, dog
<1>11. CASE CheckWant \/ StillConnected \/ Ask
  BY <1>0, <1>11 DEF CheckWant, StillConnected, Ask, Go, IInv, TypeOK,
     LineReleased, Recent, Silent, Tasks, LoopSteps, PrintSteps, device,
     clocks, timers, dog
<1>12. CASE CheckBeat \/ SendBeat
  BY <1>0, <1>12 DEF CheckBeat, SendBeat, Go, IInv, TypeOK, LineReleased,
     Recent, Silent, Tasks, LoopSteps, PrintSteps, device, clocks, timers, dog
<1>13. CASE HandleFrame
  <2>1. TypeOK'
    <3>1. frames \in 0..MaxFrames /\ frames - 1 \in 0..MaxFrames
      BY <1>0, <1>13 DEF TypeOK, HandleFrame
    <3>2. pc' \in [Tasks -> Steps] /\ connected' \in BOOLEAN
      BY <1>0, <1>13 DEF HandleFrame, Go, TypeOK, Steps
    <3> QED
      BY <1>0, <1>13, <3>1, <3>2 DEF HandleFrame, TypeOK, Steps, timers, dog
  <2>2. LineReleased' /\ Silent'
    BY <1>0, <1>13 DEF HandleFrame, Go, TypeOK, LineReleased, Silent, Tasks
  <2>3. Recent'
    BY <1>0, <1>13 DEF HandleFrame, TypeOK, Recent
  <2> QED BY <2>1, <2>2, <2>3 DEF IInv
<1>14. CASE RejectFrame \/ SerialDry
  BY <1>0, <1>14 DEF RejectFrame, SerialDry, Go, IInv, TypeOK,
     LineReleased, Recent, Silent, Tasks, LoopSteps, PrintSteps, device,
     clocks, timers, dog
<1>15. CASE Says
  BY <1>0, <1>15 DEF Says, Say, Go, IInv, TypeOK, LineReleased, Recent,
     Silent, Tasks, LoopSteps, PrintSteps, ResetSteps, device, clocks, timers,
     dog
<1>16. CASE UNCHANGED vars
  BY <1>0, <1>16 DEF vars, IInv, TypeOK, LineReleased, Recent, Silent
<1> QED
  BY <1>1, <1>2, <1>3, <1>4, <1>5, <1>6, <1>7, <1>8, <1>9, <1>10, <1>11,
     <1>12, <1>13, <1>14, <1>15, <1>16
  DEF Next, Loop, Tasks

\* The inductive invariant holds of every behaviour of the loop and the shells.
THEOREM Invariance == Spec => []IInv
  BY InitHolds, StepPreserves, PTL DEF Spec

-----------------------------------------------------------------------------
\* The tasks, the timers and the line keep their types (meshroof.cxx:183-273).
THEOREM TypeCorrect == Spec => []TypeOK
<1>1. IInv => TypeOK
  BY DEF IInv
<1> QED BY <1>1, Invariance, PTL

\* Whatever resets overlap, the device is not left in reset
\* (MeshRoof.cxx:84-95).
THEOREM LineIsReleased == Spec => []LineReleased
<1>1. IInv => LineReleased
  BY DEF IInv
<1> QED BY <1>1, Invariance, PTL

\* The loop resets only a device that nobody has reset since its silence began
\* (meshroof.cxx:232-237).
THEOREM LoopKeepsApart == Spec => ResetsApart
<1>1. IInv /\ [Next]_vars =>
        [pc[Main] = "disconnect" /\ pc'[Main] = "lower" =>
            raced \/ (released /\ reset >= StuckAfter)]_vars
  <2> SUFFICES ASSUME IInv, pc[Main] = "disconnect", ~raced
               PROVE  released /\ reset >= StuckAfter
    OBVIOUS
  <2>1. connected /\ rx > StuckAfter /\ rx <= reset + 1
    BY DEF IInv, Silent, Recent
  <2>2. reset >= StuckAfter
    BY <2>1, TimesAssumption DEF IInv, TypeOK
  <2>3. \A t \in Tasks : pc[t] \notin {"pulse", "pulsed"}
    BY <2>1, TimesAssumption DEF IInv, TypeOK, Recent
  <2> QED BY <2>2, <2>3 DEF IInv, LineReleased
<1> QED BY <1>1, Invariance, PTL DEF Spec, ResetsApart
=============================================================================
