------------------------------ MODULE Firmware ------------------------------
(***************************************************************************)
(* The start of the board (src/main/meshroof.cxx): app_main() opens the    *)
(* flash, makes the objects and creates the tasks, and goes on as          *)
(* meshtastic_task, which loads the configuration and starts the station.  *)
(* What these tasks share is global, and EspWifi::getInstance() makes the  *)
(* station's object when it is first asked for.                            *)
(*                                                                         *)
(* Only one thing keeps the shell on USB from a board that is half         *)
(* started: console_task waits before it reads.                            *)
(***************************************************************************)
EXTENDS Naturals, FiniteSets

CONSTANTS
    Delay,       \* ticks console_task waits for
    MaxRestarts  \* bound: power losses and failures of the flash

ASSUME BoundsAssumption == Delay \in Nat \ {0} /\ MaxRestarts \in Nat

Tasks == {"main", "led", "morse", "console", "tcp_console", "binder"}
Callers == {"main", "console", "tcp_console"}  \* of getInstance()

None == 0

VARIABLES
    boot,       \* what app_main() and then meshtastic_task is at
    flash,      \* the NVS partition: "good", or "full" (no free pages, or new)
    saved,      \* it holds a configuration
    created,    \* the global objects made
    tasks,      \* the tasks created
    config,     \* "zero", or "set" once loaded or saved
    age,        \* ticks since console_task was created, up to Delay
    late,       \* history: Delay was over before the start of the station was
    caller,     \* what the callers of getInstance() are at
    mine,       \* the object each of them works with
    g_wifi,     \* the object of the global pointer
    made,       \* how many objects there have been
    handlers,   \* the objects whose handlers the event loop calls
    online,     \* the station's driver is started
    early,      \* history: a command read or changed a configuration not loaded
    restarts

globals == <<created, tasks, config, online>>
wifi == <<caller, mine, g_wifi, made, handlers>>
time == <<age, late>>
bootVars == <<boot, flash, saved, globals, wifi, time, early, restarts>>

BootSteps == {"nvs", "erase", "meshroof", "shell", "shell2", "queue", "tasks",
              "load", "save", "station", "start", "consoles", "loop"}

\* The station has been started, and its object is there.
Started == boot \in {"consoles", "loop"}

BootTypeOK ==
    /\ boot \in BootSteps
    /\ flash \in {"good", "full"} /\ saved \in BOOLEAN
    /\ created \subseteq {"meshroof", "shell", "shell2", "queue"}
    /\ tasks \subseteq Tasks
    /\ config \in {"zero", "set"}
    /\ age \in 0..Delay /\ late \in BOOLEAN
    /\ caller \in [Callers -> {"idle", "test", "construct", "assign", "use"}]
    /\ made \in 0..Cardinality(Callers)
    /\ g_wifi \in 0..made /\ handlers \subseteq 1..made
    /\ mine \in [Callers -> 0..made]
    /\ online \in BOOLEAN /\ early \in BOOLEAN
    /\ restarts \in 0..MaxRestarts

\* All that is in RAM after a reset.
Cold(b, c, t, cfg, a, l, p, m, g, n, h, o, e) ==
    /\ b = "nvs" /\ c = {} /\ t = {"main"} /\ cfg = "zero"
    /\ a = 0 /\ l = FALSE
    /\ p = [x \in Callers |-> "idle"] /\ m = [x \in Callers |-> None]
    /\ g = None /\ n = 0 /\ h = {} /\ o = FALSE /\ e = FALSE

BootInit ==
    /\ Cold(boot, created, tasks, config, age, late, caller, mine, g_wifi, made,
            handlers, online, early)
    /\ flash \in {"good", "full"} /\ saved \in BOOLEAN
    /\ restarts = 0

-----------------------------------------------------------------------------
(* The surroundings (external).                                            *)

Reboots ==
    /\ restarts < MaxRestarts /\ restarts' = restarts + 1
    /\ Cold(boot', created', tasks', config', age', late', caller', mine',
            g_wifi', made', handlers', online', early')

\* Power fails, or a new firmware finds the flash of an older one.
Restart == Reboots /\ flash' \in {flash, "full"} /\ UNCHANGED saved

Tick ==
    /\ "console" \in tasks /\ age < Delay
    /\ age' = age + 1
    /\ late' = (late \/ (age' = Delay /\ ~Started))
    /\ UNCHANGED <<boot, flash, saved, globals, wifi, early, restarts>>

-----------------------------------------------------------------------------
(* app_main                                                                *)

At(from, to) == boot = from /\ boot' = to

\* Mutant: every error of nvs_flash_init() aborts, and the board begins anew.
NvsInit_NoErase ==
    /\ IF flash = "good" THEN At("nvs", "meshroof") ELSE At("nvs", "nvs")
    /\ UNCHANGED <<flash, saved, globals, wifi, time, early, restarts>>

NvsInit ==
    /\ IF flash = "good" THEN At("nvs", "meshroof") ELSE At("nvs", "erase")
    /\ UNCHANGED <<flash, saved, globals, wifi, time, early, restarts>>

\* nvs_flash_erase() takes the configuration with it.
NvsErase ==
    /\ At("erase", "nvs")
    /\ flash' = "good" /\ saved' = FALSE
    /\ UNCHANGED <<globals, wifi, time, early, restarts>>

\* ESP_ERROR_CHECK() of any other error: abort(), and the panic reboots.
NvsFails == boot \in {"nvs", "erase"} /\ Reboots /\ UNCHANGED <<flash, saved>>

Make(object, to) ==
    /\ At(object, to)
    /\ created' = created \cup {object}
    /\ UNCHANGED <<flash, saved, tasks, config, online, wifi, time, early, restarts>>

CreateTasks ==
    /\ At("tasks", "load")
    /\ tasks' = tasks \cup {"led", "morse", "console"}
    /\ UNCHANGED <<flash, saved, created, config, online, wifi, time, early, restarts>>

AppMain ==
    \/ NvsInit \/ NvsErase
    \/ Make("meshroof", "shell") \/ Make("shell", "shell2")
    \/ Make("shell2", "queue") \/ Make("queue", "tasks")
    \/ CreateTasks

-----------------------------------------------------------------------------
(* meshtastic_task up to its loop.                                         *)

\* Mutant: where nothing can be loaded nothing is set.
LoadNvm_Only ==
    /\ At("load", "station")
    /\ config' = IF saved THEN "set" ELSE config
    /\ UNCHANGED <<flash, saved, created, tasks, online, wifi, time, early, restarts>>

\* What is saved may be refused (NvmStore says when).
LoadNvm ==
    /\ \/ saved /\ At("load", "station") /\ config' = "set"
       \/ At("load", "save") /\ UNCHANGED config
    /\ UNCHANGED <<flash, saved, created, tasks, online, wifi, time, early, restarts>>

\* saveNvm() may fail: the board goes on with the defaults it holds.
SaveNvm ==
    /\ At("save", "station")
    /\ config' = "set" /\ saved' \in BOOLEAN
    /\ UNCHANGED <<flash, created, tasks, online, wifi, time, early, restarts>>

Ask(c) == caller[c] = "idle" /\ caller' = [caller EXCEPT ![c] = "test"]

StartStation ==
    /\ At("station", "start") /\ Ask("main")
    /\ UNCHANGED <<flash, saved, globals, mine, g_wifi, made, handlers, time, early, restarts>>

StationStarts ==
    /\ At("start", "consoles") /\ caller["main"] = "use"
    /\ online' = TRUE
    /\ caller' = [caller EXCEPT !["main"] = "idle"]
    /\ mine' = [mine EXCEPT !["main"] = None]
    /\ UNCHANGED <<flash, saved, created, tasks, config, g_wifi, made, handlers, time, early, restarts>>

\* tcp_console_task and binder_task; then the loop.
CreateConsoles ==
    /\ At("consoles", "loop")
    /\ tasks' = tasks \cup {"tcp_console", "binder"}
    /\ UNCHANGED <<flash, saved, created, config, online, wifi, time, early, restarts>>

Meshtastic ==
    LoadNvm \/ SaveNvm \/ StartStation \/ StationStarts \/ CreateConsoles

-----------------------------------------------------------------------------
(* The users of the station: a command of a shell, a message of the mesh.  *)

\* Mutant: console_task does not wait.
MayRun_AtOnce(c) ==
    \/ c = "main" /\ boot = "loop"
    \/ c = "console" /\ "console" \in tasks
    \/ c = "tcp_console" /\ "tcp_console" \in tasks /\ online

\* The console waits; a client comes by the station; messages come in the loop.
MayRun(c) ==
    \/ c = "main" /\ boot = "loop"
    \/ c = "console" /\ "console" \in tasks /\ age = Delay
    \/ c = "tcp_console" /\ "tcp_console" \in tasks /\ online

\* A command, which may also read, change and save the configuration.
Command(c) ==
    /\ MayRun(c) /\ Ask(c)
    /\ early' = (early \/ config = "zero")
    /\ saved' \in {saved, TRUE}
    /\ UNCHANGED <<boot, flash, globals, mine, g_wifi, made, handlers, time, restarts>>

GetTest(c) ==
    /\ caller[c] = "test"
    /\ IF g_wifi = None
       THEN caller' = [caller EXCEPT ![c] = "construct"] /\ UNCHANGED mine
       ELSE caller' = [caller EXCEPT ![c] = "use"] /\ mine' = [mine EXCEPT ![c] = g_wifi]
    /\ UNCHANGED <<boot, flash, saved, globals, g_wifi, made, handlers, time, early, restarts>>

\* EspWifi::EspWifi(), which registers its handlers.
Construct(c) ==
    /\ caller[c] = "construct"
    /\ caller' = [caller EXCEPT ![c] = "assign"]
    /\ made' = made + 1 /\ handlers' = handlers \cup {made'}
    /\ mine' = [mine EXCEPT ![c] = made']
    /\ UNCHANGED <<boot, flash, saved, globals, g_wifi, time, early, restarts>>

\* Mutant: the object is returned and not kept.
Assign_Missing(c) ==
    /\ caller[c] = "assign"
    /\ caller' = [caller EXCEPT ![c] = "use"]
    /\ UNCHANGED <<boot, flash, saved, globals, mine, g_wifi, made, handlers, time, early, restarts>>

\* Its destructor leaves the handlers of the object that was there before.
Assign(c) ==
    /\ caller[c] = "assign"
    /\ g_wifi' = mine[c]
    /\ caller' = [caller EXCEPT ![c] = "use"]
    /\ UNCHANGED <<boot, flash, saved, globals, mine, made, handlers, time, early, restarts>>

Done(c) ==
    /\ caller[c] = "use" /\ ~(c = "main" /\ boot = "start")
    /\ caller' = [caller EXCEPT ![c] = "idle"] /\ mine' = [mine EXCEPT ![c] = None]
    /\ UNCHANGED <<boot, flash, saved, globals, g_wifi, made, handlers, time, early, restarts>>

GetInstance(c) == GetTest(c) \/ Construct(c) \/ Assign(c)

BootNext ==
    \/ Restart \/ NvsFails \/ Tick \/ AppMain \/ Meshtastic
    \/ \E c \in Callers : Command(c) \/ GetInstance(c) \/ Done(c)

BootSpec == BootInit /\ [][BootNext]_bootVars

\* The main task goes on with what it is at.
BootFairSpec ==
    /\ BootSpec
    /\ WF_bootVars(AppMain \/ Meshtastic)
    /\ WF_bootVars(GetInstance("main"))

-----------------------------------------------------------------------------
(* Properties                                                              *)

\* What each task uses from its first statement on.
Needs(t) ==
    CASE t = "led" -> {"meshroof"}
      [] t = "morse" -> {"meshroof"}
      [] t = "console" -> {"meshroof", "shell"}
      [] t = "tcp_console" -> {"meshroof", "shell2", "queue"}
      [] t = "binder" -> {"queue"}
      [] OTHER -> {}

\* No task runs before what it uses has been made, and no command meets a
\* configuration that has not been loaded, as long as the board is through
\* with its start when the console has waited.
ReadyWhenUsed ==
    /\ \A t \in tasks : Needs(t) \subseteq created
    /\ ~late => ~early

\* The driver's events go to the one object everyone works with: the test and
\* the assignment in getInstance() are no atomic step, and nothing but the
\* console's delay keeps two tasks from making an object each, of which one is
\* destroyed with its handlers still registered.
OneStation ==
    ~late => \A n \in handlers : \/ g_wifi = n
                                 \/ \E c \in Callers : caller[c] = "assign" /\ mine[c] = n

\* A start that is not cut off ends in the loop with all tasks running, also
\* on a flash that is full or of another version.
BootEnds == <>[](boot = "loop" /\ tasks = Tasks)

=============================================================================
