# Formal model of the meshroof firmware

meshroof is the firmware of an ESP32-S3 board that is wired to a Meshtastic
radio. It keeps the radio alive (asks for its configuration, sends heartbeats,
resets it when it is stuck), drives an amplifier with an antenna switch and a
buzzer, joins a Wi-Fi network, and offers a command shell on USB and on TCP port
16876. All of it is in `main/`; the ESP-IDF and libmeshtastic (SimpleClient,
HomeChat, SimpleShell, BaseNvm, MorseBuzzer) are submodules and are not part of
the repository.

There is hardly a lock in this code. Eight tasks on two cores share the
`MeshRoof` object, the `EspWifi` object, the sockets and the flash, and every
statement that calls FreeRTOS, lwIP, a driver or the NVS library is a point at
which another task may run. What the code promises therefore depends on the
order of single statements, and this is what the modules model.

Paths below are relative to the repository; `MeshRoof.cxx` and the like stand
for `main/MeshRoof.cxx`.

## 1. Inventory

| Component | Code | State | Operations | Module |
|---|---|---|---|---|
| Network console | `meshroof.cxx` 89-181, `MeshRoofShell::exit`, `rx_read` | `tcp_fd`, a queue of one descriptor, lwIP's sockets, shell2's context | accept, refuse, hand over, serve, exit | `TcpConsole`; its promise is `ConsoleService` |
| Wi-Fi station | `EspWifi.cxx`, `MeshRoofShell::wifi` | `_started`, `_sta_connected`, `_ip_info`, `_dns?_info`, the driver, the event queue | start, stop, apply, five event handlers | `EspWifi`; name and password in `Credentials` |
| Saved configuration | `MeshRoof::loadNvm`, `saveNvm`, `meshroof.cxx` 204 | `_main_body` and three lists, two NVS keys | load, save, edit, restart | `NvmStore` |
| Supervision | `meshtastic_task`, `MeshRoof::reset`, task watchdog | the reset line, `_lastReset`, timers, the watchdog | loop, reset, reboot | `Supervisor` |
| Outputs | `MeshRoof::amplify`, `buzz`, `toggleBuzzer`, `_resetCount` | pins, `_isAmplifying`, `_resetCount` | amplify, buzz, Morse tone, count | `Outputs` |
| Morse texts | `morsebuzzer_task`, `addMorseText` | a queue in the library | add, clear, run | tones only, in `Outputs` |
| On-board LED | `led_task`, `flipOnboardLed` | a flag and a pin | flip | none: one writer |
| Serial and USB | `serial.c` | the driver's transmit buffer | printf, write, read | `ShellOutput`; that a printf holds up the loop, in `Supervisor` |
| Shell output | `MeshRoofShell::printf`, `tx_write` | a pointer, a length, the client's window | write all of a buffer | `ShellOutput` |
| Network settings | `MeshRoofShell::net`, setters, `applyNetIf` | fields of `_main_body`, the interface | set, save, apply | `NetConfig` |
| ping | `MeshRoofShell::ping` | a session of esp_ping and its task | start, read, stop, delete | `PingSession` |
| Mesh commands | `gotTextMessage`, `handleUnknown`, `handle...` | none | dispatch | buzz, in `Outputs`; dispatch is in HomeChat |
| Start | `app_main`, start of `meshtastic_task`, `EspWifi::getInstance` | globals, tasks, the flash | open, construct, load, create | `Firmware` |

How they interact:

* The two shells (USB console task, TCP console task) call into `MeshRoof` and
  `EspWifi` directly. Each runs one command at a time; two can run at once.
* `meshtastic_task` calls `MeshRoof::reset`, and the mesh commands run in it when
  it handles a frame.
* `binder_task` hands descriptors to `tcp_console_task` through a queue and
  reads its variable `tcp_fd` to decide whether it is busy.
* The Wi-Fi driver reports through the default event loop, whose task runs the
  handlers of `EspWifi`.
* The configuration is shared by everything; only the shells and the boot
  sequence write it.

What makes each of them hard, and what makes it correct:

* **Network console.** A check of `tcp_fd` and a later use of the queue; `exit`
  closes the descriptor under its own session, so its number can be reused
  while three variables still hold it. Correct: no descriptor leaks, no two
  tasks use one, a session belongs to one client, nobody is cut off without a
  word, every request is answered.
* **Wi-Fi station.** The flag `_started` is written by callers and by delayed
  events; the status fields are copies. Correct: with nothing in flight the flag
  mirrors the driver and the status the link, the last command wins, the
  station never gives up.
* **Saved configuration.** Two keys, no transaction, no lock, power may fail.
  Correct: what was saved is durable and readable, and a boot brings back what
  was in use.
* **Supervision.** Two checks in a row with a shell's reset between them; a
  printf that spins; timers that restart at several places. Correct: the line
  is released, resets are apart, a stuck device is reset, the radio is kept
  busy.
* **Network settings.** Fields set one by one, read one by one by whoever applies
  them, saved in between, and a command may fail after its first field. Correct:
  the interface follows what was set, and a restart brings the same.
* **Credentials.** Fields without a terminator, read by a getter that is called
  twice. Correct: the station gets the text that was set, to the character.
* **ping.** A task of its own prints on the shell's connection and is ended with a
  fixed delay; the shell polls a character that may be an old one. Correct: the
  session is over when the shell prompts, and only the client ends it.
* **Output.** Loops that wait for room, one character or one `write()` at a time,
  for a host or a client that may go. Correct: texts arrive whole and in order,
  and a printf returns.
* **Start.** A delay is all that orders the console after the load of the
  configuration and the making of the station's object. Correct: every start
  ends with all tasks running, and nobody uses what is not there.
* **Outputs.** A flag and two pins set one after the other, a pin with four
  users, a count incremented by two cores. Correct: flag and pins agree, the
  buzzer falls silent, the count goes up with every reset or
  batch of overlapping ones.

PROJECT.json lists every hazard at its line with the properties that cover it, and
a note where the code itself does the harm and a property can only bound it.

## 2. Plan

Done, in this order: `TcpConsole`, `EspWifi`, `NvmStore`, `Supervisor`,
`Outputs`, each with an MC module, its runs, and a module of proofs; then
`ConsoleService` with `ConsoleRefinement` and its proof, `PingSession` and
`NetConfig` with their proofs; `Credentials`, `ShellOutput` and `Firmware`, and
last their proofs. With these every invariant that a run checks is also a
theorem.

How the modules go together: `ConsoleRefinement` maps `TcpConsole` to
`ConsoleService`. The others overlap where one module takes a step of another as
one action: `Supervisor` and `PingSession` print in one step what `ShellOutput` prints
call by call (`PrintEnds` says when such a step ends);
`NetConfig` and `Firmware` save and load in one step what `NvmStore` does
statement by statement; `NvmStore` assumes of the boot what `ReadyWhenUsed` of
`Firmware` says.

## 3. Modules and their relation to the code

Every component has `X.tla` (the specification, with its properties and, next
to the definitions they change, the mutants), `MCX.tla` (values for TLC, and a symmetry
set where the run uses one), one `.cfg` per run and `XProofs.tla`.
`MCConsoleRefinement` is that of `TcpConsole`. `ConsoleProofs`, `ShellProofs` and
`StationProofs` hold the proofs of two modules each; the names that `PingSession`
and `Firmware` would share with the other of the two begin with `Ping` and `Boot`
(`PingInit`, `BootNext`, ...). A `pc` value (in these two, `doing` and `caller`)
names the next statement of a task; an action is what the task does up to the
next point at which another can run. A guard is the code's condition, and what a statement leaves alone is in
UNCHANGED. Variables marked *history* do not exist in the code and no action
reads them in a guard that the code does not have; they record what the
properties talk about (who has been told, what a restart may bring back, when
two calls overlapped).

### TcpConsole

`bpc`/`client_sock` is `binder_task` and its local variable, `cpc`/`tcp_fd`
`tcp_console_task` and the global, `queue` the FreeRTOS queue, `sock` the socket
table of lwIP, `backlog` its queue for `accept()`, `peer` the remote ends.
`BinderListens` ... `BinderClose` and `ConsoleReceive` ... `ConsoleClear` are the
statements of the two tasks. `ConsoleExit` is the `exit` command; the other
commands are `ConsoleCommand`. `ConsoleReadFails` is the case in which `rx_read`
returns -1; the end of the peer's stream (`fin`) is not: `read()` then returns
0, which is also what `rx_read` returns at a time-out, so such a client keeps
the console until its connection is reset. The assumption on the library is that
`SimpleShell::process()` returns a negative value only when `rx_read` did.

`exited` records the descriptors closed by `exit` as long as a variable holds
their number. `Exclusive`, `OneSpeaker` and `ToldBeforeClose` exempt these and
only these; `NoLeak` exempts nothing. `ToldBeforeClose` is a consequence of
`ImplementsService` and has no run of its own; it is proved.

### ConsoleService and ConsoleRefinement

`ConsoleService` says what clients may rely on without tasks and descriptors: a
client asks, is accepted, and is parked or refused, told and dismissed; one is
served at a time, and one at most is parked; refusals happen only while the
console is busy, and a session ends only with its client. `exit` breaks this for
clients accepted while its descriptor is still in use: these are the victims,
and `Haunt`, `Banish` and `Occupy` are all that may go wrong, until a `Release`
ends it. `ConsoleRefinement` computes a client's status from the socket table
and the two program counters, and `ImplementsService` is the abstract
specification under that mapping.

### EspWifi

`started` is `_started`, `ap` the association `_sta_connected`, `ip` the address
fields; both start as `"junk"` because the constructor leaves them
uninitialised. `on`, `link` and `netif` are the driver's own state, `events` the
default event loop. A caller (a shell, or the start at boot) runs `start()` in
the steps `start`, `start_driver`, `start_flag` and `stop()` likewise;
`WifiApply` is `stop()` followed by `start()`. The got... handlers are actions,
one event at a time. What is assumed of the driver: it posts an event for every
change of its state, in order, a disconnect while it is only connecting may be
silent, and `esp_wifi_connect()` does nothing when it is off or busy.

`suspect` is set while the flag may be wrong for one of the two reasons the code
does not guard against (overlapping calls, a failing `esp_wifi_start()`), and
cleared when a handler has put it right; `hurried` is set when the last command
was given while START or STOP events of an earlier one were unhandled.

### NvmStore

`ram` is `_main_body` with the three lists, reduced to the contents of the body
and the number of entries; `nvs` the two keys as a reader sees them and `flash`
as the last commit left them. An image is what was encoded (`config`) and the
length of its buffer (`size`), which differ when the lists change in between.
`Loads` is the sequence of checks of `loadNvm`. `SaveSize`, `SaveEncode`,
`SaveMeta`, `SaveBlob` and `SaveCommit` are `saveNvm`, and `SaveFails` its early
exits. `Edit` is a command that changes something and saves, `EditHalf` a `net`
command whose later address is malformed: what it set stays in RAM. `Restart`
may happen at any state and keeps or loses either uncommitted key. Assumed of
the NVS library: each key is written atomically. Assumed of the boot: no shell
command runs before `loadNvm` is through (the consoles wait a second, or are
created later; see `ReadyWhenUsed` of `Firmware`).

### Supervisor

`pc[Main]` walks through the loop of `meshtastic_task`; a shell's task is in
`reset()` or idle. `released` is the level of OUTRESET_PIN. `rx` and `reset` are
the two ages the loop compares, `want` and `beat` its two timers, `now` the time
since it read the clock. Time passes in ticks: at once when the loop spins,
handles a frame or pulses the line, otherwise at most once per turn. `stalled`
is a USB host that is attached and does not read, `Say` a `usb_printf` that
returns only when it does. `StartupWatchdog` is what `misc/sdkconfig` says of
the task watchdog, `WatchdogExpires` what the IDF's handler then does, and
`ConfigureWatchdog` the call of `esp_task_wdt_init()`, which is refused because
the watchdog is running. Only a frame makes the client connected, and only
`sendDisconnect()` makes it disconnected. Assumed: `serial_init()` succeeded, and
the half second of a `reset()` sees at most one tick.

### Outputs

Each statement of `amplify()`, `buzz()` and `toggleBuzzer()` is a step, and
`_resetCount++` two. Pins are levels: low is on for the amplifier and the
antenna switch, high for the buzzer. `tangled` says that calls of `amplify()`
with different arguments overlapped (and no call has begun alone since). `base`
is the count before the increments that overlap now, or last did, and `since` how
many of them have begun: increments do get lost, and what `CountAdvances` says is
how many may be.

### NetConfig

`body` are the fields, `stored` what the last save wrote, `netif` and `dhcp` the
interface. A task's `todo` is what is left of its command: the setters one by
one, the save, and the calls of `applyNetIf()`, of which `check` and each `read`
take one field. `SetMalformed` and `SaveFails` give the rest of a command up.
`"netmask"` stands for netmask and gateway, `"dns"` for three servers. `dirty`
says that something was set since the last `applyNetIf()` began, `raced` that it
was set during one (the next that runs alone clears it), `unsaved` that a failed
command left what it had not saved. Assumed of the interface:
`esp_netif_set_ip_info()` refuses while the DHCP client runs, as its
documentation says; the lease itself is not modelled.

### Credentials

`mem` is `_main_body` byte by byte around the two fields. A setter is its
`memset()` and its `memcpy()`, the getter reads up to the first NUL wherever that
is, and `start()` calls it twice, for the text and for the length, in either
order. What lies behind a string in the heap is `Junk`. Only one task is in
`start()` at a time; that two can be is in `EspWifi`.

### PingSession

`doing` is the shell in `ping()`, with its local `c`, which a read that times out
leaves as it was (and which is what the stack held before the first), `session`
the task of esp_ping. A tick is a second: `age` of the session's turn, `grace` of
the shell's wait between stop and deletion. `deaf` is a client that does not
read, for which every print waits. The end of the peer's stream is a read of
nothing, as at a time-out. Modelled as found: after IAC IP the answer is printed
while the session still runs, and after IAC and anything else the ping stops.

### ShellOutput

`printf()` of a shell on either port. On USB each test of the connection and each
write of one character in `usb_vprintf()` is an action, with the return before a
new line; `OthersPrint` is what `meshtastic_task` and the other shell print
meanwhile. To the client the loop is over `write()`, which takes any part that
fits the window or fails when the connection is reset. `sent` is what was taken
of the last text, with the index it came from. The text that is formatted ends
with a NUL at `Limit`; the loops run to the length `vsnprintf()` returned, so
behind it come characters of the stack or the heap. The task list that the
`system` command prints can be as long as that. After each `write()` `s` advances
by what is left, as in the code: `skewed` says that this was not what was written,
and `WholeOnTcp` that the text is spoiled exactly then.
lwIP takes all of a blocking `write()` today, so that this does not show; the
loop is there for when it does not.

### Firmware

`boot` walks through `app_main()` and the start of `meshtastic_task`. `getInstance()`
is a test, the constructor with its registration of handlers, and the assignment, in
three tasks. Ticks count from the creation of `console_task`, which waits `Delay`
of them (a second); `late` says that this was over before the station was
started. A client comes only by the station. `Restart` and `NvsFails` throw away
all but the flash.

## 4. Runs

| Run | Question | Distinct states |
|---|---|---|
| `TcpConsole` | `NoLeak`, `Exclusive`, `OneSpeaker`, and `ImplementsService`: the tasks implement the service | 83 900 |
| `TcpConsoleLive` | `BacklogDrains`, `AbortFreesConsole` | 402 000 |
| `EspWifi` | `StartedMirrorsDriver`, `LastCommandWins`, `StatusMirrorsLink`, `NeverGivesUp` | 138 000 |
| `NvmStore` | `DurableAtRest`, `NeverDiscarded`, `BootRestores` | 550 000 |
| `Supervisor` | `LineReleased`, `ResetsApart`, `StuckIsReset`, `KeepsTalking` | 154 000 |
| `Outputs` | `PinsAtRest` (`AmplifierAgrees`, `SilentAtRest`), `CountAdvances` | 2 230 000 |
| `NetConfig` | `AppliesWhatIsSet`, `SurvivesRestart` | 404 000 |
| `Credentials` | `StationGetsWhatWasSet` | 878 000 |
| `PingSession` | `QuietAtPrompt`, `EndsForAReason`, `Interruptible` | 136 500 |
| `ShellOutput` | `TextArrives` (`WholeOnUsb`, `WholeOnTcp`, `InOrder`), `PrintEnds` | 157 000 |
| `Firmware` | `ReadyWhenUsed`, `OneStation`, `BootEnds` | 3 400 |
| `Watchdog` | a disagreement, see below | |

Every module has one type invariant; the others are named above and stated in
words beside their definitions. No run disables the check for deadlock: the
tasks never stop.

**The disagreement.** `meshroof.cxx:191` says of the watchdog
`.trigger_panic = true, // Restart on timeout`. The watchdog is already running
then, without panic (`misc/sdkconfig:988`, `:989`), `esp_task_wdt_init()` (194)
refuses, and the code prints the error and goes on. The run `Watchdog` shows the
loop spinning in `usb_printf` until the watchdog expires, and the board running
on.

**Bounds, and why they suffice.**

* `TcpConsole`: three clients are one served, one waiting in the queue and one
  being refused; three descriptors let each have one. The liveness run has two
  descriptors, so that `accept()` also fails. `Backlog` is the 1 of `listen()`.
* `EspWifi`: two callers overlap in every way; four events are those of two
  commands none of which has been handled.
* `NvmStore`: two shells, two contents of the body, and lists of at most one
  entry, with which the image is at the limit of `loadNvm`: an edit keeps, grows
  or shrinks the image. What exceeds the limit is exempt from `NeverDiscarded`,
  and the theorems cover it.
* `Supervisor`: the times keep the order of the real ones (reset gap below
  silence, both at least the timers), `Limit` is one above the largest, and a clock
  that has passed everything it is compared with need not go on. One waiting
  frame suffices: the loop handles any number in turn. A shell and the loop are
  two tasks in `reset()`; the theorems hold for any number.
* `Outputs`: two shells and `meshtastic_task` overlap three increments, or more when
  one goes on while another waits; a count of four values wraps and still tells
  three increments from none.
* `NetConfig`: a shell and the boot are two tasks in `applyNetIf()`, one of which
  also edits; one address besides 0.0.0.0 tells set from unset. The theorems hold
  for any number of shells and addresses.
* `Credentials`: fields of two characters, so that a text is shorter than its
  field, as long, or too long; one letter tells text from NUL and junk. The
  bytes behind the fields are one letter and a NUL.
* `PingSession`: a turn of two seconds (the time-out and the interval of the
  session) and three of grace are the code's; two characters are one Telnet
  command.
* `ShellOutput`: a USB buffer for two characters is full in the middle of every
  line; the texts fit the formatting buffer or exceed it by one (the NUL) and by
  two (what lies behind), and are written over a window of four in one, two or
  more parts, halves among them. Others print at most three characters
  (`MaxOthers`) during one `printf()`, enough to fill the buffer more than once.
* `Firmware`: two restarts, so that a start that was cut off follows another; the
  start takes fewer or more ticks than the three of the delay.

**Fairness, and why the code justifies it.**

* `TcpConsole`: `binder_task` and `tcp_console_task` keep running: every call
  they make returns, `rx_read` after half a second, and a ping ends when its read
  fails. Nothing is assumed of clients, and nobody need type `exit`.
* `EspWifi`: the event loop and the callers keep running, and an attempt to
  associate ends one way or the other.
* `Supervisor`: the loop has the highest priority on its core, a task in
  `reset()` goes on when its delay is over, and time passes. Two assumptions are
  about the surroundings and not about the code: a host that has attached reads
  its port again long enough for a line of text (the code spins until then), and
  the device pauses now and then between frames (the loop over waiting frames
  has no bound). Without the first the loop stops, which is what the watchdog
  was to catch.

* `PingSession`: the shell and esp_ping run when they can and time passes; the
  client owes nothing, which is why `Interruptible` lets a deaf client wait.
* `ShellOutput`: the shell goes on, a host that is attached again and again reads
  again and again, and a client that stays reads. The host need not stay: if it
  goes, the loops notice. That others print only so much during one `printf()`
  is part of the promise: who finds the buffer full each time it looks goes on
  for ever.
* `Firmware`: the main task runs; restarts and failures of the flash are bounded.

**Limits of what the properties say.** Where the code does not guard against a
race, the properties name the race as an exemption and hold again after it:
overlapping Wi-Fi commands, overlapping saves, `amplify on` against `amplify off`,
as many overlapping increments as the count has values, descriptors closed by `exit`, a field set while another
task applies (`raced`) or starts the station (`changed`, `mixed`), a start slower
than the console's delay (`late`), a print held up by the client while the shell
waits (`hampered`), a host that was gone for a while (`cut`), from whose text
characters are missing. What the code gets wrong without a race is said and not
exempted: a partial write other than a half spoils the rest of a text on the
network (`WholeOnTcp`), and a text longer than the formatting buffer ends with
the NUL and as many characters from behind it as it is too long (`Delivered`).
Promises the code does not
make and that are therefore not stated: a client that closes its end without a
reset frees the console; a device that is silent and disconnected is reset
again; a device is not reset after a stall during which it talked.

## 5. Proofs

TLAPS checks every theorem for all values of the constants that satisfy the
named assumptions (`SentinelAssumption`, `BacklogAssumption`, `EventsAssumption`,
`TimesAssumption` and so on: sentinels differ from values, the times have their
order, widths are positive).

| Module | Theorems |
|---|---|
| `ConsoleProofs` | `TcpConsole`: `TypeCorrect`, `NeverLeaks`, `OneOwner`, `SessionsDoNotMix`, `NobodyCutOffUntold`; `ConsoleRefinement`: `Refinement` (`Spec => ImplementsService`) |
| `EspWifiProofs` | `TypeCorrect`, `FlagIsRight`, `StatusIsRight`, `LastCommandIsObeyed` |
| `NvmStoreProofs` | `TypeCorrect`, `SavedIsDurable`, `ReadableAtBoot`, `BootIsFaithful` |
| `SupervisorProofs` | `TypeCorrect`, `LineIsReleased`, `LoopKeepsApart` |
| `OutputsProofs` | `TypeCorrect`, `PinsAreRight`, `CountIsHonest` |
| `NetConfigProofs` | `TypeCorrect`, `AppliesAlways`, `SurvivesAlways` |
| `ShellProofs` | `ShellOutput`: `TypeCorrect`, `UsbTextsArrive`, `TextsArrive`; `PingSession`: `PingTypeCorrect`, `GraceSuffices`, `OnlyTheClientEnds` |
| `StationProofs` | `Firmware`: `BootTypeCorrect`, `ReadyAlways`, `StationIsOne`; `Credentials`: `TypeCorrect`, `StationIsAsSet` |

The two modules of `ShellProofs` have no variable and no constant in common, nor
have those of `StationProofs`: a theorem is about the specification it names, and
holds whatever the other module does.

Each follows one pattern: `InitHolds` (the initial states satisfy the inductive
invariant), `StepPreserves` or `NextHolds` (every action keeps it), `Invariance`
(it always holds), and a theorem per property (for `PingSession` and `Firmware`
with the prefix); the longer ones have a lemma per
action in between. The properties alone are not
inductive; what was added:

* `TcpConsole`: which program counters imply a descriptor (`HasDescriptor`), that
  a connection is in the backlog or behind one descriptor (`Connections`), what
  a session's descriptor stands for until the end (`Session`), that a descriptor
  about to be closed has been refused (`Refused`).
* `ConsoleRefinement`: under the invariant of `TcpConsole` each action is shown to
  be a named step of the service, or to change nothing it can see; `WhoIsWhere`
  ties a client's status to the task that holds its descriptor.
* `PingSession`: since the stop, the turn esp_ping is in has lasted at least as
  long as the shell has waited (`Waited`); with `Cycle < Grace` the session is
  then done before it is deleted.
* `EspWifi`: the last START or STOP in the queue tells what the driver is
  (`PowerTold`), likewise the link (`LinkTold`); between the driver call and the
  flag the driver is ahead (`Halfway`). That the properties talk about an empty
  queue is not enough: the argument is about the last event of any queue, with
  lemmas on appending (`Posted`) and handling (`Handled`). For the last command
  (`Obeyed`): where its caller is tells what can be in the queue (`Underway`);
  when it is through, either the driver is as wanted, or the command met a wrong
  flag and was ignored, and then no event is left that would excuse it
  (`Through`).
* `NetConfig`: what can be left of a command is one of the tails of the commands
  (`Shapes`); unless a field was set meanwhile, every task in `applyNetIf()` has
  read what the fields still hold (`Views`), so the interface follows the fields
  or some task still has to see to it (`SetUp`); what is not saved was left by a
  failed command or is about to be saved (`Pending`).
* `NvmStore`: what an undisturbed save has done when it is at a statement
  (`Alone`), when the two keys fit (`Readable`), and that every copy of a
  configuration is a candidate (`Known`).
* `Supervisor`: a connected client has heard from the device since the last
  disconnect (`Recent`), so its silence bounds the age of the last reset; what
  the loop found out holds until a shell's reset (`Silent`).
* `Outputs`: the calls of `amplify()` under way agree with the flag
  (`AmplifiersAgree`); the count, and what an increment under way has seen of it,
  are no further from where the count last rested than the increments begun since
  can have brought it (`CountsBounded`), so that whoever writes last, writes more
  than nothing and not too much.
* `Credentials`: a field that no two commands wrote at once holds the last text and
  then NUL to its end, or nothing at all between the `memset()` and the `memcpy()`
  of one command (`Fields`); nobody writes over the bytes behind the fields
  (`Behind`), one of which ends the getter. So what the getter returns begins with
  the text, and goes on only when the text fills its field, where `start()` cuts it;
  and what `start()` has read so far is still what the getter would return
  (`Start`).
* `ShellOutput`: on USB, while the host stays, what was taken is exactly what a
  terminal is to get for the characters before the index, with the return of the
  one at it once that is out (`Progress`): a full buffer repeats a test, never a
  character. What the host missed leaves gaps, and nothing taken lies at or behind
  the index except that return (`Order`). Over the network, what was taken and what
  is left add up to the text; until a part other than a half is taken the pointer is one
  behind what was taken, and from then on it is elsewhere or has already been read
  from where it should not (`Written`).
* `Firmware`: what each phase has behind it (`Made`, `Created`, `Configured`). Unless
  the start is late, the console's wait ends after it (`Waited`), so nobody but the
  main task asks for the station before (`Quiet`), and the object it makes is the
  only one (`FirstObject`). In a late start there can be more, but no more than
  callers: nobody constructs once the pointer is set (`Counted`).

`Expanded` and the getters of `Credentials` are defined over sequences of any length.
What the proofs need of them is shown by the least counterexample: a set of
numbers with a member has a least one (`Least`, from the library's theorem about
well-founded relations), so if flattening the first `n` pieces were not what it
should be for some `n`, there would be a first such `n`, and the piece before it
refutes that (`FlatStep`, `FlatType`, `FlatPrefix`). `WholeOnUsb` counts characters by
the cardinality of the set of their places, about which the library has
theorems.

Only model-checked: the liveness properties `BacklogDrains`, `AbortFreesConsole`,
`NeverGivesUp`, `StuckIsReset`, `KeepsTalking`, `Interruptible`, `PrintEnds` and
`BootEnds`. They rest on fairness and so on `ENABLED`, which the prover does not
treat. Beyond the constants nothing is assumed.

## 6. Not modelled

* The libraries: their behaviour is in the actions marked *external*, as weak as
  the code allows.
* The set-up of the UART and the USB driver (`serial_init()`), and reading from
  them: the modules begin with working ports.
* HomeChat's printf callback (`meshroof.cxx:311`), the dispatch of mesh commands,
  the queue of Morse texts and the lists copied by `applyNvmToHomeChat()`: when and
  from where they are called is decided in libraries outside the repository.
* Formatting, logging and what the commands print; the LED; the temperature
  sensor.
* The layout of the saved records and the contents of the fields (`NvmStore` tells
  bodies apart and counts entries). The consequences of an image that another
  shell changed while it was being encoded are modelled as an image that does
  not fit, not as the overrun of the buffer.
* The scheduler: any interleaving of tasks is allowed, which includes all that
  priorities and cores permit.
