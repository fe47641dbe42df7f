---------------------------- MODULE StationProofs ----------------------------
(***************************************************************************)
(* How the station comes to be and what it is started with: Firmware, for  *)
(* any delay of the console and any number of restarts, and Credentials,   *)
(* for any sizes of the fields, any number of shells and any texts.  The   *)
(* two have no variable in common.                                         *)
(*                                                                         *)
(* The start of the board: until it is over nobody but the main task asks  *)
(* for the station (Quiet), because the console waits (Waited) and the     *)
(* other console comes last (Created); so the object the main task makes   *)
(* is the only one (FirstObject).  That the count of objects stays within  *)
(* its type even in a late start is an argument of its own (Counted).      *)
(*                                                                         *)
(* What was set: a field that no two commands wrote at once holds the last *)
(* text and then '\0' to its end (Fields), and behind the fields there is  *)
(* a '\0' that nobody writes over (Behind).  So the getter stops, and what *)
(* it returns begins with the text; it goes on only where the text is as   *)
(* long as the field, which is where start() cuts it.                      *)
(***************************************************************************)
EXTENDS Firmware, Credentials, SequenceTheorems, FiniteSetTheorems,
        WellFoundedInduction, TLAPS

-----------------------------------------------------------------------------
(* Firmware                                                                *)

\* The phases of the start.
Opening == {"nvs", "erase"}
Making == {"meshroof", "shell", "shell2", "queue", "tasks"}

\* What has been made is what the phase has behind it.
Made ==
    /\ boot \notin Opening \cup {"meshroof"} => "meshroof" \in created
    /\ boot \notin Opening \cup {"meshroof", "shell"} => "shell" \in created
    /\ boot \notin Opening \cup {"meshroof", "shell", "shell2"} =>
          "shell2" \in created
    /\ boot \notin Opening \cup {"meshroof", "shell", "shell2", "queue"} =>
          "queue" \in created

\* So are the tasks.
Created ==
    /\ boot \in Opening \cup Making => tasks = {"main"}
    /\ boot # "loop" => tasks \cap {"tcp_console", "binder"} = {}

\* A configuration is there once loading is over.
Configured == boot \in {"station", "start"} \/ Started => config = "set"

\* The console's wait ends after the start, or the start was late.
Waited == age = Delay /\ ~late => Started

\* Until the start is over nobody but the main task asks for the station.
Quiet ==
    ~late =>
        /\ boot = "start" => \A c \in Callers \ {"main"} : caller[c] = "idle"
        /\ boot # "start" /\ ~Started => \A c \in Callers : caller[c] = "idle"

\* The first object, made by the main task in its own time.
FirstObject ==
    ~late =>
        /\ Started => /\ g_wifi = 1 /\ handlers = {1}
                      /\ \A c \in Callers : caller[c] \in {"idle", "test", "use"}
        /\ boot = "start" => caller["main"] # "idle"
        /\ boot = "start" /\ caller["main"] = "assign" =>
              handlers = {1} /\ made = 1 /\ mine["main"] = 1
        /\ boot = "start" /\ caller["main"] = "use" => g_wifi = 1 /\ handlers = {1}
        /\ ~Started /\ ~(boot = "start" /\ caller["main"] \in {"assign", "use"}) =>
              handlers = {} /\ made = 0 /\ g_wifi = None

\* Nobody constructs once the pointer is set, so nobody constructs twice.
Is(c, at) == IF caller[c] = at THEN 1 ELSE 0
How(at) == Is("main", at) + Is("console", at) + Is("tcp_console", at)

Counted ==
    /\ made + How("construct") <= 3
    /\ g_wifi = None => made = How("assign")
    /\ \A c \in Callers : caller[c] = "assign" => mine[c] # None

Types ==
    /\ boot \in BootSteps
    /\ flash \in {"good", "full"} /\ saved \in BOOLEAN
    /\ created \subseteq {"meshroof", "shell", "shell2", "queue"}
    /\ tasks \subseteq Tasks
    /\ config \in {"zero", "set"}
    /\ age \in 0..Delay /\ late \in BOOLEAN
    /\ caller \in [Callers -> {"idle", "test", "construct", "assign", "use"}]
    /\ made \in Nat /\ g_wifi \in 0..made /\ handlers \subseteq 1..made
    /\ mine \in [Callers -> 0..made]
    /\ online \in BOOLEAN /\ early \in BOOLEAN
    /\ restarts \in 0..MaxRestarts

Boot == Made /\ Created /\ Configured /\ Waited /\ (~late => ~early)
BootInv == Types /\ Boot /\ Quiet /\ FirstObject /\ Counted
-----------------------------------------------------------------------------
(* The invariant holds after every reset, and each step keeps it.          *)

\* All that is in RAM after a reset satisfies it.
LEMMA BootInitHolds == BootInit => BootInv
<1> SUFFICES ASSUME BootInit PROVE BootInv
  OBVIOUS
<1>1. Types
  <2>1. caller \in [Callers -> {"idle", "test", "construct", "assign", "use"}]
    BY DEF BootInit, Cold
  <2>2. /\ made = 0 /\ g_wifi = 0 /\ handlers = {}
        /\ mine = [x \in Callers |-> 0]
    BY DEF BootInit, Cold, None
  <2>3. made \in Nat /\ g_wifi \in 0..made /\ handlers \subseteq 1..made
    BY <2>2
  <2>4. mine \in [Callers -> 0..made]
    BY <2>2
  <2>5. age \in 0..Delay /\ restarts \in 0..MaxRestarts
    BY BoundsAssumption DEF BootInit, Cold
  <2> QED
    BY <2>1, <2>3, <2>4, <2>5 DEF BootInit, Cold, Types, BootSteps, Tasks
<1>2. Boot
  BY BoundsAssumption
  DEF BootInit, Cold, Boot, Made, Created, Configured, Waited, Started, Opening, Making
<1>3. Quiet /\ FirstObject
  BY DEF BootInit, Cold, Quiet, FirstObject, Started
<1>4. Counted
  BY DEF BootInit, Cold, Counted, How, Is, Callers
<1> QED
  BY <1>1, <1>2, <1>3, <1>4 DEF BootInv

LEMMA RebootingKeeps == BootInv /\ (Restart \/ NvsFails) => BootInv'
<1> SUFFICES ASSUME BootInv, Restart \/ NvsFails PROVE BootInv'
  OBVIOUS
<1>1. Reboots /\ flash' \in {flash, "full"} /\ saved' = saved
  BY DEF Restart, NvsFails
<1>2. Types'
  <2>1. caller' \in [Callers -> {"idle", "test", "construct", "assign", "use"}]
    BY <1>1 DEF Reboots, Cold
  <2>2. /\ made' = 0 /\ g_wifi' = 0 /\ handlers' = {}
        /\ mine' = [x \in Callers |-> 0]
    BY <1>1 DEF Reboots, Cold, None
  <2>3. made' \in Nat /\ g_wifi' \in 0..made' /\ handlers' \subseteq 1..made'
    BY <2>2
  <2>4. mine' \in [Callers -> 0..made']
    BY <2>2
  <2>5. age' \in 0..Delay /\ restarts' \in 0..MaxRestarts
    BY <1>1, BoundsAssumption DEF Reboots, Cold, BootInv, Types
  <2>6. flash' \in {"good", "full"} /\ saved' \in BOOLEAN
    BY <1>1 DEF BootInv, Types
  <2> QED
    BY <1>1, <2>1, <2>3, <2>4, <2>5, <2>6
    DEF Reboots, Cold, Types, BootSteps, Tasks
<1>3. Boot'
  BY <1>1, BoundsAssumption
  DEF Reboots, Cold, Boot, Made, Created, Configured, Waited, Started, Opening,
      Making
<1>4. Quiet' /\ FirstObject'
  BY <1>1 DEF Reboots, Cold, Quiet, FirstObject, Started
<1>5. Counted'
  BY <1>1 DEF Reboots, Cold, Counted, How, Is, Callers
<1> QED
  BY <1>2, <1>3, <1>4, <1>5 DEF BootInv

\* The delay ends during the start only if the start is late.
LEMMA TickKeeps == BootInv /\ Tick => BootInv'
<1> SUFFICES ASSUME BootInv, Tick PROVE BootInv'
  OBVIOUS
<1>1. UNCHANGED <<boot, flash, saved, globals, wifi, early, restarts>>
  BY DEF Tick
<1>2. Types'
  <2>1. age' \in 0..Delay
    BY BoundsAssumption DEF BootInv, Types, Tick
  <2>2. late' \in BOOLEAN
    BY DEF BootInv, Types, Tick
  <2>3. UNCHANGED <<created, tasks, config, online, caller, mine, g_wifi, made, handlers>>
    BY <1>1 DEF globals, wifi
  <2> QED
    BY <1>1, <2>1, <2>2, <2>3 DEF BootInv, Types
<1>3. late' \/ ~late
  BY DEF Tick
<1>4. Boot'
  <2>1. UNCHANGED <<created, tasks, config>>
    BY <1>1 DEF globals
  <2>2. Made' /\ Created' /\ Configured'
    BY <1>1, <2>1 DEF BootInv, Boot, Made, Created, Configured, Started
  <2>3. Waited'
    BY <1>1 DEF Waited, Started, Tick
  <2>4. ~late' => ~early'
    BY <1>1, <1>3 DEF BootInv, Boot
  <2> QED
    BY <2>2, <2>3, <2>4 DEF Boot
<1>5. Quiet' /\ FirstObject'
  BY <1>1, <1>3 DEF BootInv, Quiet, FirstObject, Started, wifi
<1>6. Counted'
  BY <1>1 DEF BootInv, Counted, How, Is, wifi
<1> QED
  BY <1>2, <1>4, <1>5, <1>6 DEF BootInv

\* What app_main() does before it makes the tasks, and they.
LEMMA AppMainKeeps == BootInv /\ AppMain => BootInv'
<1> SUFFICES ASSUME BootInv, AppMain PROVE BootInv'
  OBVIOUS
<1>1. UNCHANGED <<config, online, wifi, time, early, restarts>>
  BY DEF AppMain, NvsInit, NvsErase, Make, CreateTasks, globals
<1>2. boot # "start" /\ ~Started /\ boot' # "start" /\ ~Started'
  BY DEF AppMain, NvsInit, NvsErase, Make, CreateTasks, At, Started
<1>3. Types'
  BY <1>1
  DEF BootInv, Types, AppMain, NvsInit, NvsErase, Make, CreateTasks, At, BootSteps,
      Tasks, wifi, time, globals
<1>4. Boot'
  <2>1. Made'
    BY DEF BootInv, Boot, Made, Opening, AppMain, NvsInit, NvsErase, Make,
           CreateTasks, At, globals
  <2>2. Created'
    BY DEF BootInv, Boot, Created, Opening, Making, AppMain, NvsInit, NvsErase,
           Make, CreateTasks, At, globals
  <2>3. Configured'
    BY <1>2
    DEF Configured, Started, AppMain, NvsInit, NvsErase, Make, CreateTasks, At
  <2>4. Waited' /\ (~late' => ~early')
    BY <1>1, <1>2 DEF BootInv, Boot, Waited, time
  <2> QED
    BY <2>1, <2>2, <2>3, <2>4 DEF Boot
<1>5. Quiet' /\ FirstObject'
  BY <1>1, <1>2 DEF BootInv, Quiet, FirstObject, wifi, time
<1>6. Counted'
  BY <1>1 DEF BootInv, Counted, How, Is, wifi
<1> QED
  BY <1>3, <1>4, <1>5, <1>6 DEF BootInv

\* Loading, saving and making the second console leave the station alone.
LEMMA LoadingKeeps == BootInv /\ (LoadNvm \/ SaveNvm \/ CreateConsoles) => BootInv'
<1> SUFFICES ASSUME BootInv, LoadNvm \/ SaveNvm \/ CreateConsoles PROVE BootInv'
  OBVIOUS
<1>1. UNCHANGED <<flash, created, online, wifi, time, early, restarts>>
  BY DEF LoadNvm, SaveNvm, CreateConsoles
<1>2. boot # "start" /\ boot' # "start" /\ Started' = Started
  BY DEF LoadNvm, SaveNvm, CreateConsoles, At, Started
<1>3. Types'
  BY <1>1
  DEF BootInv, Types, LoadNvm, SaveNvm, CreateConsoles, At, BootSteps, Tasks, wifi,
      time
<1>4. Boot'
  <2>1. Made'
    BY <1>1
    DEF BootInv, Boot, Made, Opening, LoadNvm, SaveNvm, CreateConsoles, At
  <2>2. Created'
    BY DEF BootInv, Boot, Created, Opening, Making, LoadNvm, SaveNvm,
           CreateConsoles, At
  <2>3. Configured'
    BY DEF BootInv, Boot, Configured, Started, LoadNvm, SaveNvm, CreateConsoles, At
  <2>4. Waited' /\ (~late' => ~early')
    BY <1>1, <1>2 DEF BootInv, Boot, Waited, time
  <2> QED
    BY <2>1, <2>2, <2>3, <2>4 DEF Boot
<1>5. Quiet' /\ FirstObject'
  BY <1>1, <1>2 DEF BootInv, Quiet, FirstObject, wifi, time
<1>6. Counted'
  BY <1>1 DEF BootInv, Counted, How, Is, wifi
<1> QED
  BY <1>3, <1>4, <1>5, <1>6 DEF BootInv

\* The start of the station, from the first call to the driver.
LEMMA StationKeeps == BootInv /\ (StartStation \/ StationStarts) => BootInv'
<1> SUFFICES ASSUME BootInv, StartStation \/ StationStarts PROVE BootInv'
  OBVIOUS
<1>1. /\ UNCHANGED <<flash, saved, created, tasks, config, g_wifi, made,
                     handlers, time, early, restarts>>
      /\ \/ boot = "station" /\ boot' = "start"
         \/ boot = "start" /\ boot' = "consoles"
  BY DEF StartStation, StationStarts, At, globals
<1>2. Types'
  <2>1. caller' \in [Callers -> {"idle", "test", "construct", "assign", "use"}]
    BY DEF BootInv, Types, StartStation, StationStarts, Ask
  <2>2. mine' \in [Callers -> 0..made']
    BY <1>1 DEF BootInv, Types, StartStation, StationStarts, None
  <2>3. boot' \in BootSteps /\ online' \in BOOLEAN
    BY <1>1 DEF BootInv, Types, StartStation, StationStarts, globals, BootSteps
  <2> QED
    BY <1>1, <2>1, <2>2, <2>3 DEF BootInv, Types, time
<1>3. Boot'
  BY <1>1
  DEF BootInv, Boot, Made, Created, Configured, Waited, Started, Opening, Making,
      time
<1>4. CASE StartStation
  <2>1. caller["main"] = "idle" /\ caller' = [caller EXCEPT !["main"] = "test"] /\ mine' = mine
    BY <1>4 DEF StartStation, Ask
  <2>2. "main" \in Callers /\ boot = "station" /\ boot' = "start"
    BY <1>4 DEF StartStation, At, Callers
  <2>3. caller'["main"] = "test" /\ \A c \in Callers \ {"main"} : caller'[c] = caller[c]
    BY <2>1, <2>2 DEF BootInv, Types
  <2>4. Quiet' /\ FirstObject'
    BY <1>1, <2>2, <2>3 DEF BootInv, Quiet, FirstObject, Started, time
  <2>5. Counted'
    BY <1>1, <2>1, <2>2, <2>3
    DEF BootInv, Types, Counted, How, Is, Callers
  <2> QED
    BY <1>2, <1>3, <2>4, <2>5 DEF BootInv
<1>5. CASE StationStarts
  <2>1. /\ caller["main"] = "use" /\ caller' = [caller EXCEPT !["main"] = "idle"]
        /\ mine' = [mine EXCEPT !["main"] = None]
    BY <1>5 DEF StationStarts
  <2>2. "main" \in Callers /\ boot = "start" /\ boot' = "consoles"
    BY <1>5 DEF StationStarts, At, Callers
  <2>3. /\ caller'["main"] = "idle"
        /\ \A c \in Callers \ {"main"} : caller'[c] = caller[c] /\ mine'[c] = mine[c]
    BY <2>1, <2>2 DEF BootInv, Types
  <2>4. Quiet' /\ FirstObject'
    BY <1>1, <2>1, <2>2, <2>3 DEF BootInv, Quiet, FirstObject, Started, time
  <2>5. Counted'
    BY <1>1, <2>1, <2>2, <2>3
    DEF BootInv, Types, Counted, How, Is, Callers
  <2> QED
    BY <1>2, <1>3, <2>4, <2>5 DEF BootInv
<1> QED
  BY <1>4, <1>5

\* Who may run a command: nobody before the start is over, unless it is late.
LEMMA UseKeeps ==
    ASSUME BootInv, NEW c \in Callers, Command(c) PROVE BootInv'
<1>1. /\ UNCHANGED <<boot, flash, globals, mine, g_wifi, made, handlers, time,
                     restarts>>
      /\ caller[c] = "idle" /\ caller' = [caller EXCEPT ![c] = "test"]
      /\ early' = (early \/ config = "zero") /\ saved' \in {saved, TRUE}
  BY DEF Command, Ask
<1>2. caller'[c] = "test" /\ \A d \in Callers \ {c} : caller'[d] = caller[d]
  BY <1>1 DEF BootInv, Types
<1>3. ~late => Started
  BY DEF Command, MayRun, BootInv, Boot, Created, Waited, Started
<1>4. Types'
  BY <1>1 DEF BootInv, Types, globals, time
<1>5. Boot'
  <2>1. ~late' => ~early'
    BY <1>1, <1>3 DEF BootInv, Boot, Configured, time
  <2> QED
    BY <1>1, <2>1
    DEF BootInv, Boot, Made, Created, Configured, Waited, Started, globals, time
<1>6. Quiet' /\ FirstObject'
  BY <1>1, <1>2, <1>3 DEF BootInv, Quiet, FirstObject, Started, time
<1>7. Counted'
  BY <1>1, <1>2 DEF BootInv, Counted, How, Is, Callers
<1> QED
  BY <1>4, <1>5, <1>6, <1>7 DEF BootInv

\* The steps of getInstance(), and the end of a command.
LEMMA InstanceKeeps ==
    ASSUME BootInv, NEW c \in Callers, GetInstance(c) \/ Done(c) PROVE BootInv'
<1>1. /\ UNCHANGED <<boot, flash, saved, globals, time, early, restarts>>
  BY DEF GetInstance, GetTest, Construct, Assign, Done
<1>2. Boot'
  BY <1>1
  DEF BootInv, Boot, Made, Created, Configured, Waited, Started, globals, time
<1>3. CASE GetTest(c)
  <2>1. UNCHANGED <<g_wifi, made, handlers>> /\ caller[c] = "test"
    BY <1>3 DEF GetTest
  <2>2. CASE g_wifi = None
    <3>1. caller' = [caller EXCEPT ![c] = "construct"] /\ mine' = mine
      BY <1>3, <2>2 DEF GetTest
    <3>2. caller'[c] = "construct" /\ \A d \in Callers \ {c} : caller'[d] = caller[d]
      BY <3>1 DEF BootInv, Types
    <3>3. Types'
      BY <1>1, <2>1, <3>1 DEF BootInv, Types, globals, time
    <3>4. Quiet' /\ FirstObject'
      BY <1>1, <2>1, <2>2, <3>2
      DEF BootInv, Quiet, FirstObject, Started, None, time, Callers
    <3>5. Counted'
      <4>1. How("construct")' = How("construct") + 1 /\ How("assign")' = How("assign")
        BY <2>1, <3>2 DEF How, Is, Callers
      <4>2. How("construct") + How("assign") <= 2
        BY <2>1 DEF How, Is, Callers
      <4>3. How("construct") \in Nat /\ How("assign") \in Nat
        BY DEF How, Is
      <4> QED
        BY <2>1, <2>2, <3>1, <3>2, <4>1, <4>2, <4>3 DEF BootInv, Counted, Types
    <3> QED
      BY <1>2, <3>3, <3>4, <3>5 DEF BootInv
  <2>3. CASE g_wifi # None
    <3>1. caller' = [caller EXCEPT ![c] = "use"] /\ mine' = [mine EXCEPT ![c] = g_wifi]
      BY <1>3, <2>3 DEF GetTest
    <3>2. /\ caller'[c] = "use"
          /\ \A d \in Callers \ {c} : caller'[d] = caller[d] /\ mine'[d] = mine[d]
      BY <3>1 DEF BootInv, Types
    <3>3. Types'
      BY <1>1, <2>1, <3>1 DEF BootInv, Types, globals, time
    <3>4. Quiet' /\ FirstObject'
      BY <1>1, <2>1, <2>3, <3>2
      DEF BootInv, Quiet, FirstObject, Started, None, time, Callers
    <3>5. Counted'
      BY <2>1, <2>3, <3>2 DEF BootInv, Counted, How, Is, Callers
    <3> QED
      BY <1>2, <3>3, <3>4, <3>5 DEF BootInv
  <2> QED
    BY <2>2, <2>3
<1>4. CASE Construct(c)
  <2>1. /\ caller[c] = "construct" /\ caller' = [caller EXCEPT ![c] = "assign"]
        /\ made' = made + 1 /\ handlers' = handlers \cup {made + 1}
        /\ mine' = [mine EXCEPT ![c] = made + 1] /\ g_wifi' = g_wifi
    BY <1>4 DEF Construct
  <2>2. /\ caller'[c] = "assign" /\ mine'[c] = made + 1
        /\ \A d \in Callers \ {c} : caller'[d] = caller[d] /\ mine'[d] = mine[d]
    BY <2>1 DEF BootInv, Types
  <2>3. Types'
    <3>1. made \in Nat /\ made + 1 \in Nat /\ 0..made \subseteq 0..(made + 1)
      BY DEF BootInv, Types
    <3>2. mine' \in [Callers -> 0..made']
      BY <2>1, <3>1 DEF BootInv, Types
    <3>3. g_wifi' \in 0..made' /\ handlers' \subseteq 1..made'
      BY <2>1, <3>1 DEF BootInv, Types
    <3>4. caller' \in [Callers -> {"idle", "test", "construct", "assign", "use"}]
      BY <2>1 DEF BootInv, Types
    <3> QED
      BY <1>1, <2>1, <3>1, <3>2, <3>3, <3>4 DEF BootInv, Types, globals, time
  <2>4. ~late => boot = "start" /\ c = "main"
    BY <2>1 DEF BootInv, Quiet, FirstObject, Started
  <2>5. Quiet' /\ FirstObject'
    BY <1>1, <2>1, <2>2, <2>4
    DEF BootInv, Quiet, FirstObject, Started, None, time, Callers
  <2>6. Counted'
    <3>1. /\ How("construct")' = How("construct") - 1
          /\ How("assign")' = How("assign") + 1
      BY <2>1, <2>2 DEF How, Is, Callers
    <3>2. How("construct") \in Nat /\ How("assign") \in Nat
      BY DEF How, Is
    <3>3. \A d \in Callers : caller'[d] = "assign" => mine'[d] # None
      BY <2>2 DEF BootInv, Types, Counted, None
    <3> QED
      BY <2>1, <3>1, <3>2, <3>3 DEF BootInv, Counted, Types
  <2> QED
    BY <1>2, <2>3, <2>5, <2>6 DEF BootInv
<1>5. CASE Assign(c)
  <2>1. /\ caller[c] = "assign" /\ caller' = [caller EXCEPT ![c] = "use"]
        /\ g_wifi' = mine[c] /\ UNCHANGED <<mine, made, handlers>>
    BY <1>5 DEF Assign
  <2>2. caller'[c] = "use" /\ \A d \in Callers \ {c} : caller'[d] = caller[d]
    BY <2>1 DEF BootInv, Types
  <2>3. Types'
    BY <1>1, <2>1 DEF BootInv, Types, globals, time
  <2>4. ~late => boot = "start" /\ c = "main"
    BY <2>1 DEF BootInv, Quiet, FirstObject, Started
  <2>5. Quiet' /\ FirstObject'
    BY <1>1, <2>1, <2>2, <2>4
    DEF BootInv, Quiet, FirstObject, Started, None, time, Callers
  <2>6. Counted'
    BY <2>1, <2>2 DEF BootInv, Counted, How, Is, Callers
  <2> QED
    BY <1>2, <2>3, <2>5, <2>6 DEF BootInv
<1>6. CASE Done(c)
  <2>1. /\ caller[c] = "use" /\ ~(c = "main" /\ boot = "start")
        /\ caller' = [caller EXCEPT ![c] = "idle"]
        /\ mine' = [mine EXCEPT ![c] = None] /\ UNCHANGED <<g_wifi, made, handlers>>
    BY <1>6 DEF Done
  <2>2. /\ caller'[c] = "idle"
        /\ \A d \in Callers \ {c} : caller'[d] = caller[d] /\ mine'[d] = mine[d]
    BY <2>1 DEF BootInv, Types
  <2>3. Types'
    BY <1>1, <2>1 DEF BootInv, Types, None, globals, time
  <2>4. Quiet' /\ FirstObject'
    BY <1>1, <2>1, <2>2
    DEF BootInv, Quiet, FirstObject, Started, time, Callers
  <2>5. Counted'
    BY <2>1, <2>2 DEF BootInv, Counted, How, Is, Callers
  <2> QED
    BY <1>2, <2>3, <2>4, <2>5 DEF BootInv
<1> QED
  BY <1>3, <1>4, <1>5, <1>6 DEF GetInstance

LEMMA BootInvariance == BootSpec => []BootInv
<1>1. BootInv /\ UNCHANGED bootVars => BootInv'
  BY DEF bootVars, globals, wifi, time, BootInv, Types, Boot, Made, Created,
         Configured, Waited, Started, Quiet, FirstObject, Counted, How, Is
<1>2. BootInv /\ BootNext => BootInv'
  BY RebootingKeeps, TickKeeps, AppMainKeeps, LoadingKeeps, StationKeeps,
     UseKeeps, InstanceKeeps DEF BootNext, Meshtastic
<1> QED
  BY <1>1, <1>2, BootInitHolds, PTL DEF BootSpec
-----------------------------------------------------------------------------
(* The theorems                                                            *)

\* There are never more objects than callers of getInstance(), however they
\* race, and the rest of the state keeps its types.
THEOREM BootTypeCorrect == BootSpec => []BootTypeOK
<1>1. Cardinality(Callers) = 3
  <2>1. Cardinality({"main"}) = 1 /\ IsFiniteSet({"main"})
    BY FS_Singleton
  <2>2. Cardinality({"main"} \cup {"console"}) = 2
        /\ IsFiniteSet({"main"} \cup {"console"})
    BY <2>1, FS_AddElement
  <2>3. Cardinality(({"main"} \cup {"console"}) \cup {"tcp_console"}) = 3
    BY <2>2, FS_AddElement
  <2>4. Callers = ({"main"} \cup {"console"}) \cup {"tcp_console"}
    BY DEF Callers
  <2> QED
    BY <2>3, <2>4
<1>2. BootInv => made \in 0..3
  <2>1. How("construct") \in Nat
    BY DEF How, Is
  <2> QED
    BY <2>1 DEF BootInv, Types, Counted
<1>3. BootInv => BootTypeOK
  BY <1>1, <1>2 DEF BootInv, Types, BootTypeOK
<1> QED
  BY <1>3, BootInvariance, PTL

\* No task runs before what it uses has been made, and no command meets a
\* configuration that has not been loaded unless the start was late.
THEOREM ReadyAlways == BootSpec => []ReadyWhenUsed
<1>1. BootInv => ReadyWhenUsed
  <2> SUFFICES ASSUME BootInv, NEW t \in tasks PROVE Needs(t) \subseteq created
    BY DEF ReadyWhenUsed, BootInv, Boot
  <2>1. boot \in Opening \cup Making => Needs(t) = {}
    BY DEF BootInv, Boot, Created, Needs
  <2>2. boot \notin Opening \cup Making =>
           {"meshroof", "shell", "shell2", "queue"} \subseteq created
    BY DEF BootInv, Boot, Made, Opening, Making
  <2>3. Needs(t) \subseteq {"meshroof", "shell", "shell2", "queue"}
    BY DEF Needs
  <2> QED
    BY <2>1, <2>2, <2>3
<1> QED
  BY <1>1, BootInvariance, PTL

\* Unless the start is late, the one object whose handlers are registered is
\* the one everybody works with.
THEOREM StationIsOne == BootSpec => []OneStation
<1>1. BootInv => OneStation
  BY DEF BootInv, Quiet, FirstObject, OneStation, Callers
<1> QED
  BY <1>1, BootInvariance, PTL
-----------------------------------------------------------------------------
(* Credentials                                                             *)

Chars == Letters \cup {Nul}
Total == SsidSize + PasswdSize + Len(Rest)

\* No text in a command or a field is longer than its field.
Fits ==
    /\ \A t \in Shells : pc[t] # "idle" => Len(arg[t][2]) <= Size(arg[t][1])
    /\ \A f \in Names : Len(wanted[f]) <= Size(f)

Behind == \A k \in 1..Len(Rest) : mem[SsidSize + PasswdSize + k] = Rest[k]

\* The field f holds the text w, filled up with '\0'.
Holds(f, w) ==
    \A k \in 1..Size(f) :
        mem[Offset(f) + k] = IF k <= Len(w) THEN w[k] ELSE Nul

\* A field is empty while its one command is between memset() and memcpy().
Fields ==
    \A f \in Names \ mixed :
        /\ \A t, u \in InSet(f) : t = u
        /\ InSet(f) = {} => Holds(f, wanted[f])
        /\ InSet(f) # {} => Holds(f, <<>>)

\* While no field is written, what start() has read and copied still stands.
Start ==
    /\ step = "idle" => got = {}
    /\ ~changed =>
        /\ \A f \in Names : InSet(f) = {}
        /\ "str" \in got => str = Getter(step)
        /\ "len" \in got => len = Len(Getter(step))
        /\ \A f \in Names \ mixed :
              step = "idle" \/ (f = "ssid" /\ step = "passwd")
                  => station[f] = wanted[f]

IInv ==
    /\ TypeOK /\ station = [x \in Names |-> station[x]]
    /\ Fits /\ Behind /\ Fields /\ Start
-----------------------------------------------------------------------------
(* What the getters return.                                                *)

\* Every set of natural numbers with a member has a least one, and Min is it.
LEMMA Least ==
    ASSUME NEW T, T \subseteq Nat, T # {}
    PROVE  Min(T) \in T /\ \A n \in T : Min(T) <= n
<1> DEFINE Less == {p \in Nat \X Nat : p[1] < p[2]}
<1>1. IsWellFoundedOn(Less, Nat)
  BY NatLessThanWellFounded DEF OpToRel
<1>2. PICK m \in T : \A n \in T : <<n, m>> \notin Less
  <2> HIDE DEF Less
  <2> QED
    BY <1>1, WFMin
<1>3. \A n \in T : m <= n
  <2> SUFFICES ASSUME NEW n \in T PROVE m <= n
    OBVIOUS
  <2>1. n \in Nat /\ m \in Nat /\ <<n, m>> \in Nat \X Nat
    OBVIOUS
  <2>2. <<n, m>>[1] = n /\ <<n, m>>[2] = m
    OBVIOUS
  <2>3. ~(n < m)
    BY <1>2, <2>1, <2>2
  <2> QED
    BY <2>1, <2>3
<1> QED
  BY <1>3 DEF Min

\* The first of the places where a character stands, as SelectInSeq() finds it.
LEMMA FirstPlace ==
    ASSUME NEW S, NEW s \in Seq(S), NEW ch, NEW n \in 1..Len(s),
           s[n] = ch, \A k \in 1..(n - 1) : s[k] # ch
    PROVE  /\ {k \in 1..Len(s) : s[k] = ch} # {}
           /\ Min({k \in 1..Len(s) : s[k] = ch}) = n
<1> DEFINE I == {k \in 1..Len(s) : s[k] = ch}
<1>1. n \in I /\ \A k \in I : n <= k
  BY LenProperties
<1>2. Min(I) \in I /\ \A k \in I : Min(I) <= k
  <2>1. I \subseteq Nat /\ I # {}
    BY <1>1
  <2> HIDE DEF I
  <2> QED
    BY <2>1, Least
<1>3. Min(I) = n
  BY <1>1, <1>2
<1> QED
  BY <1>1, <1>3

\* The end of a sequence, and its beginning.
LEMMA LastPart ==
    ASSUME NEW S, NEW s \in Seq(S), NEW m \in Nat, m <= Len(s)
    PROVE  /\ SubSeq(s, m + 1, Len(s)) \in Seq(S)
           /\ Len(SubSeq(s, m + 1, Len(s))) = Len(s) - m
           /\ \A k \in 1..(Len(s) - m) : SubSeq(s, m + 1, Len(s))[k] = s[m + k]
<1> DEFINE a == m + 1
           b == Len(s)
<1>1. a \in Int /\ b \in Int /\ a = m + 1 /\ b = Len(s)
  BY LenProperties
<1>2. \A k \in a..b : s[k] \in S
  BY LenProperties
<1> HIDE DEF a, b
<1>3. /\ SubSeq(s, a, b) \in Seq(S)
      /\ Len(SubSeq(s, a, b)) = IF a <= b THEN b - a + 1 ELSE 0
      /\ \A k \in 1..(b - a + 1) : SubSeq(s, a, b)[k] = s[a + k - 1]
  BY <1>1, <1>2, SubSeqProperties
<1>4. \A k \in 1..(b - m) : k \in 1..(b - a + 1) /\ a + k - 1 = m + k
  BY <1>1
<1> QED
  BY <1>1, <1>3, <1>4

LEMMA FirstPart ==
    ASSUME NEW S, NEW s, NEW n \in Nat, \A k \in 1..n : s[k] \in S
    PROVE  /\ SubSeq(s, 1, n) \in Seq(S)
           /\ Len(SubSeq(s, 1, n)) = n
           /\ \A k \in 1..n : SubSeq(s, 1, n)[k] = s[k]
<1> DEFINE a == 1
<1>1. a \in Int /\ n \in Int /\ a = 1
  OBVIOUS
<1>2. \A k \in a..n : s[k] \in S
  OBVIOUS
<1> HIDE DEF a
<1>3. /\ SubSeq(s, a, n) \in Seq(S)
      /\ Len(SubSeq(s, a, n)) = IF a <= n THEN n - a + 1 ELSE 0
      /\ \A k \in 1..(n - a + 1) : SubSeq(s, a, n)[k] = s[a + k - 1]
  BY <1>1, <1>2, SubSeqProperties
<1> QED
  BY <1>1, <1>3

\* A getter returns what stands before the first '\0'.
LEMMA GetterIs ==
    ASSUME mem \in [1..Total -> Chars], NEW f \in Names, NEW n \in Nat,
           Offset(f) + n + 1 <= Total, mem[Offset(f) + n + 1] = Nul,
           \A k \in 1..n : mem[Offset(f) + k] # Nul
    PROVE  /\ Getter(f) \in Seq(Letters) /\ Len(Getter(f)) = n
           /\ \A k \in 1..n : Getter(f)[k] = mem[Offset(f) + k]
<1> DEFINE from == SubSeq(mem, Offset(f) + 1, Len(mem))
<1>1. Total \in Nat /\ Offset(f) \in Nat
  BY SizesAssumption, RestAssumption, LenProperties DEF Total, Offset
<1>2. mem \in Seq(Chars) /\ Len(mem) = Total
  BY <1>1
<1>3. /\ from \in Seq(Chars) /\ Len(from) = Total - Offset(f)
      /\ \A k \in 1..(Total - Offset(f)) : from[k] = mem[Offset(f) + k]
  <2>1. Offset(f) <= Len(mem)
    BY <1>1, <1>2
  <2> QED
    BY <1>1, <1>2, <2>1, LastPart
<1> HIDE DEF from
<1>4. /\ {k \in 1..Len(from) : from[k] = Nul} # {}
      /\ Min({k \in 1..Len(from) : from[k] = Nul}) = n + 1
  <2>1. n + 1 \in 1..Len(from) /\ from[n + 1] = Nul
    BY <1>1, <1>3
  <2>2. \A k \in 1..((n + 1) - 1) : from[k] # Nul
    BY <1>1, <1>3
  <2> QED
    BY <1>3, <2>1, <2>2, FirstPlace
<1>5. Getter(f) = SubSeq(from, 1, n)
  <2>1. Getter(f) = SubSeq(from, 1, (n + 1) - 1)
    BY <1>4 DEF Getter, SelectInSeq, from
  <2> QED
    BY <2>1
<1>6. \A k \in 1..n : from[k] \in Letters /\ from[k] = mem[Offset(f) + k]
  BY <1>1, <1>3 DEF Chars
<1>7. /\ SubSeq(from, 1, n) \in Seq(Letters)
      /\ Len(SubSeq(from, 1, n)) = n
      /\ \A k \in 1..n : SubSeq(from, 1, n)[k] = from[k]
  BY <1>6, FirstPart
<1> QED
  BY <1>5, <1>6, <1>7

\* There is one, behind the fields at the latest.
LEMMA GetterStops ==
    ASSUME mem \in [1..Total -> Chars], Behind, NEW f \in Names
    PROVE  \E n \in Nat : /\ Offset(f) + n + 1 <= Total
                          /\ mem[Offset(f) + n + 1] = Nul
                          /\ \A k \in 1..n : mem[Offset(f) + k] # Nul
<1> DEFINE T == {n \in Nat : /\ Offset(f) + n + 1 <= Total
                             /\ mem[Offset(f) + n + 1] = Nul}
<1>1. Len(Rest) \in Nat /\ Offset(f) \in Nat /\ Offset(f) <= SsidSize + PasswdSize
  BY SizesAssumption, RestAssumption, LenProperties DEF Offset
<1>2. PICK k \in 1..Len(Rest) : Rest[k] = Nul
  BY RestAssumption DEF Contains
<1>3. mem[SsidSize + PasswdSize + k] = Nul
  BY <1>2 DEF Behind
<1>4. (SsidSize + PasswdSize + k) - Offset(f) - 1 \in T
  <2> DEFINE m == (SsidSize + PasswdSize + k) - Offset(f) - 1
  <2>1. m \in Nat /\ Offset(f) + m + 1 = SsidSize + PasswdSize + k
    BY <1>1, SizesAssumption
  <2>2. Offset(f) + m + 1 <= Total
    BY <1>1, <2>1, SizesAssumption DEF Total
  <2> HIDE DEF m
  <2>3. m \in T
    BY <1>3, <2>1, <2>2
  <2> QED
    BY <2>3 DEF m
<1>5. Min(T) \in T /\ \A n \in T : Min(T) <= n
  <2>1. T \subseteq Nat /\ T # {}
    BY <1>4
  <2> HIDE DEF T
  <2> QED
    BY <2>1, Least
<1>6. \A j \in 1..Min(T) : mem[Offset(f) + j] # Nul
  <2> SUFFICES ASSUME NEW j \in 1..Min(T), mem[Offset(f) + j] = Nul PROVE FALSE
    OBVIOUS
  <2>1. Min(T) \in Nat /\ Offset(f) + Min(T) + 1 <= Total
    BY <1>5
  <2>2. j - 1 \in Nat /\ Offset(f) + (j - 1) + 1 = Offset(f) + j
        /\ Offset(f) + j <= Total /\ ~(Min(T) <= j - 1)
    BY <1>1, <2>1, SizesAssumption DEF Total
  <2>3. j - 1 \in T
    BY <2>2
  <2> QED
    BY <1>5, <2>2, <2>3
<1> QED
  BY <1>5, <1>6

\* So a getter always returns a text.
LEMMA GetterType ==
    ASSUME mem \in [1..Total -> Chars], Behind, NEW f \in Names
    PROVE  Getter(f) \in Seq(Letters)
BY GetterStops, GetterIs

\* What start() copies of a field is the text it holds.
LEMMA CopiedIsHeld ==
    ASSUME mem \in [1..Total -> Chars], Behind, NEW f \in Names,
           NEW w \in Seq(Letters), Len(w) <= Size(f), Holds(f, w),
           str = Getter(f), len = Len(Getter(f))
    PROVE  Copied(f) = w
<1>1. PICK n \in Nat : /\ Offset(f) + n + 1 <= Total
                       /\ mem[Offset(f) + n + 1] = Nul
                       /\ \A k \in 1..n : mem[Offset(f) + k] # Nul
  BY GetterStops
<1>2. /\ Getter(f) \in Seq(Letters) /\ Len(Getter(f)) = n
      /\ \A k \in 1..n : Getter(f)[k] = mem[Offset(f) + k]
  BY <1>1, GetterIs
<1>3. Size(f) \in Nat /\ Offset(f) \in Nat /\ Len(w) \in Nat
  BY SizesAssumption, LenProperties DEF Size, Offset
<1>4. \A k \in 1..Len(w) : mem[Offset(f) + k] = w[k] /\ w[k] # Nul
  <2>1. \A k \in 1..Len(w) : k \in 1..Size(f) /\ k <= Len(w)
    BY <1>3
  <2>2. \A k \in 1..Len(w) : w[k] \in Letters
    BY ElementOfSeq
  <2> QED
    BY <2>1, <2>2, LettersAssumption DEF Holds
<1>5. Len(w) <= n
  <2> SUFFICES ASSUME n < Len(w) PROVE FALSE
    BY <1>3
  <2>1. n + 1 \in 1..Len(w) /\ Offset(f) + (n + 1) = Offset(f) + n + 1
    BY <1>3
  <2> QED
    BY <1>1, <1>4, <2>1
<1>6. Len(w) < Size(f) => n = Len(w)
  <2> SUFFICES ASSUME Len(w) < Size(f), Len(w) < n PROVE FALSE
    BY <1>3, <1>5
  <2>1. Len(w) + 1 \in 1..Size(f) /\ Len(w) + 1 \in 1..n
    BY <1>3
  <2>2. mem[Offset(f) + (Len(w) + 1)] = Nul
    BY <1>3, <2>1 DEF Holds
  <2> QED
    BY <1>1, <2>1, <2>2
<1>7. (IF n < Size(f) THEN n ELSE Size(f)) = Len(w)
  BY <1>3, <1>5, <1>6
<1>8. Copied(f) = Bytes(Len(w))
  BY <1>2, <1>7 DEF Copied
<1>9. Bytes(Len(w)) = [k \in 1..Len(w) |-> w[k]]
  <2>1. \A k \in 1..Len(w) : k <= Len(str) /\ str[k] = w[k]
    BY <1>2, <1>3, <1>4, <1>5
  <2> QED
    BY <2>1 DEF Bytes
<1>10. w = [k \in 1..Len(w) |-> w[k]]
  BY LenProperties
<1> QED
  BY <1>8, <1>9, <1>10
-----------------------------------------------------------------------------
(* The invariant holds at first, and each step keeps it.                   *)

LEMMA TextsAreTexts ==
    /\ <<>> \in Texts
    /\ \A w \in Texts : w \in Seq(Letters) /\ Len(w) \in Nat
<1> DEFINE n == 1 + IF SsidSize > PasswdSize THEN SsidSize ELSE PasswdSize
<1>1. n \in Nat
  BY SizesAssumption
<1> HIDE DEF n
<1>2. Texts = UNION {[1..m -> Letters] : m \in 0..n}
  BY DEF Texts, BoundedSeq, SeqOf, n
<1>3. <<>> \in Texts
  <2>1. <<>> \in [1..0 -> Letters] /\ 0 \in 0..n
    BY <1>1
  <2> QED
    BY <1>2, <2>1
<1>4. ASSUME NEW w \in Texts PROVE w \in Seq(Letters)
  <2>1. PICK m \in 0..n : w \in [1..m -> Letters]
    BY <1>2
  <2> QED
    BY <1>1, <2>1
<1> QED
  BY <1>3, <1>4, LenProperties

LEMMA FitsIn ==
    ASSUME NEW f \in Names, NEW n \in 0..Size(f),
           NEW b \in [1..n -> Letters \cup {Nul, Junk}]
    PROVE  b \in Fitting(f)
BY DEF Fitting, BoundedSeq, SeqOf

LEMMA EmptyFits == \A f \in Names : <<>> \in Fitting(f)
<1> SUFFICES ASSUME NEW f \in Names PROVE <<>> \in Fitting(f)
  OBVIOUS
<1>1. 0 \in 0..Size(f)
  BY SizesAssumption DEF Size
<1>2. <<>> \in [1..0 -> Letters \cup {Nul, Junk}]
  OBVIOUS
<1> QED
  BY <1>1, <1>2, FitsIn

\* What a getter returns depends on the memory only.
LEMMA GetterOfMem ==
    ASSUME mem' = mem PROVE \A f \in Names : Getter(f)' = Getter(f)
BY DEF Getter, SelectInSeq, Offset

\* What a command writes to one field is neither in the other nor behind them.
LEMMA Regions ==
    ASSUME NEW f \in Names, NEW n \in Nat, n <= Size(f)
    PROVE  /\ \A g \in Names : \A k \in 1..Size(g) :
                 /\ Offset(g) + k \in 1..Total
                 /\ Within(Offset(g) + k, f, n) <=> g = f /\ k <= n
           /\ \A k \in 1..Len(Rest) :
                 /\ SsidSize + PasswdSize + k \in 1..Total
                 /\ ~Within(SsidSize + PasswdSize + k, f, n)
<1>1. Len(Rest) \in Nat
  BY RestAssumption, LenProperties
<1>2. CASE f = "ssid"
  BY <1>1, <1>2, SizesAssumption DEF Names, Size, Offset, Within, Total
<1>3. CASE f = "passwd"
  BY <1>1, <1>3, SizesAssumption DEF Names, Size, Offset, Within, Total
<1> QED
  BY <1>2, <1>3 DEF Names

\* The type of the memory in the words of the lemmas above.
LEMMA MemType == TypeOK => mem \in [1..Total -> Chars]
BY DEF TypeOK, Total, Chars

\* What a shell has in hand.
LEMMA ArgType ==
    ASSUME TypeOK, NEW t \in Shells
    PROVE  arg[t][1] \in Names /\ arg[t][2] \in Texts
BY DEF TypeOK

LEMMA InitHolds == Init => IInv
<1> SUFFICES ASSUME Init PROVE IInv
  OBVIOUS
<1> DEFINE zeros == [k \in 1..(SsidSize + PasswdSize) |-> Nul]
<1>1. zeros \in Seq(Chars) /\ Rest \in Seq(Chars) /\ Len(Rest) \in Nat
      /\ Len(zeros) = SsidSize + PasswdSize
  BY SizesAssumption, RestAssumption, LenProperties DEF Chars
<1>2. mem = zeros \o Rest
  BY DEF Init
<1>3. \A k \in 1..(SsidSize + PasswdSize) : zeros[k] = Nul
  OBVIOUS
<1> HIDE DEF zeros
<1>4. /\ mem \in Seq(Chars) /\ Len(mem) = Len(zeros) + Len(Rest)
      /\ \A k \in 1..(Len(zeros) + Len(Rest)) :
            mem[k] = IF k <= Len(zeros) THEN zeros[k] ELSE Rest[k - Len(zeros)]
  BY <1>1, <1>2, ConcatProperties
<1>5. mem \in [1..Total -> Chars]
  BY <1>1, <1>4, LenProperties DEF Total
<1>6. \A f \in Names : Holds(f, <<>>)
  BY <1>1, <1>3, <1>4, SizesAssumption DEF Holds, Names, Offset, Size
<1>7. Behind
  BY <1>1, <1>4, SizesAssumption DEF Behind
<1>8. \A f \in Names : InSet(f) = {} /\ wanted[f] = <<>> /\ station[f] = <<>>
  BY DEF Init, InSet
<1>9. TypeOK /\ station = [x \in Names |-> station[x]]
  <2>1. pc \in [Shells -> {"idle", "memset", "memcpy"}]
    BY DEF Init
  <2>2. arg \in [Shells -> Names \X Texts] /\ wanted \in [Names -> Texts]
    BY TextsAreTexts DEF Init, Names
  <2>3. \A f \in Names : station[f] \in Fitting(f)
    BY <1>8, EmptyFits
  <2>4. "ssid" \in Names /\ "passwd" \in Names
    BY DEF Names
  <2>5. station = [x \in Names |-> station[x]]
    BY DEF Init
  <2>6. /\ step \in Names \cup {"idle"} /\ str \in Seq(Letters) /\ len \in Nat
        /\ got \subseteq {"str", "len"} /\ mixed \subseteq Names
        /\ changed \in BOOLEAN
    <3>1. str = <<>> /\ len = 0 /\ step = "idle" /\ got = {} /\ mixed = {}
          /\ changed = FALSE
      BY DEF Init
    <3>2. <<>> \in Seq(Letters)
      BY TextsAreTexts
    <3> QED
      BY <3>1, <3>2
  <2> QED
    BY <1>5, <2>1, <2>2, <2>3, <2>4, <2>5, <2>6 DEF TypeOK, Total, Chars
<1>10. Fits
  BY <1>8, SizesAssumption DEF Init, Fits, Size
<1>11. Fields /\ Start
  BY <1>6, <1>8 DEF Init, Fields, Start
<1> QED
  BY <1>7, <1>9, <1>10, <1>11 DEF IInv

\* A command touches nothing before memset().
LEMMA SetCommandKeeps ==
    ASSUME IInv, NEW t \in Shells, SetCommand(t) PROVE IInv'
<1>1. PICK f \in Names, text \in Texts :
          Accepts(f, text) /\ arg' = [arg EXCEPT ![t] = <<f, text>>]
  BY DEF SetCommand
<1>2. /\ UNCHANGED <<mem, step, str, len, got, station, wanted, mixed, changed>>
      /\ pc[t] = "idle" /\ pc' = [pc EXCEPT ![t] = "memset"]
  BY DEF SetCommand
<1>3. pc'[t] = "memset" /\ arg'[t] = <<f, text>>
      /\ \A u \in Shells \ {t} : pc'[u] = pc[u] /\ arg'[u] = arg[u]
  BY <1>1, <1>2 DEF IInv, TypeOK
<1>4. \A g \in Names : InSet(g)' = InSet(g)
  BY <1>2, <1>3 DEF InSet
<1>5. TypeOK' /\ (station = [x \in Names |-> station[x]])'
  <2>1. arg' \in [Shells -> Names \X Texts]
    BY <1>1 DEF IInv, TypeOK
  <2>2. pc' \in [Shells -> {"idle", "memset", "memcpy"}]
    BY <1>2 DEF IInv, TypeOK
  <2> QED
    BY <1>2, <2>1, <2>2 DEF IInv, TypeOK
<1>6. Fits'
  BY <1>1, <1>2, <1>3 DEF IInv, Fits, Accepts
<1>7. Behind' /\ Fields'
  BY <1>2, <1>4 DEF IInv, Behind, Fields, Holds
<1>8. Start'
  BY <1>2, <1>4, GetterOfMem DEF IInv, Start, TypeOK
<1> QED
  BY <1>5, <1>6, <1>7, <1>8 DEF IInv

\* memset() empties one field, and the field of the others stays.
LEMMA MemsetKeeps ==
    ASSUME IInv, NEW t \in Shells, Memset(t) PROVE IInv'
<1>1. PICK f \in Names : arg[t][1] = f
  BY ArgType DEF IInv
<1>2. /\ UNCHANGED <<arg, step, str, len, got, station, wanted>>
      /\ pc[t] = "memset" /\ pc' = [pc EXCEPT ![t] = "memcpy"]
      /\ mem' = [i \in DOMAIN mem |-> IF Within(i, f, Size(f)) THEN Nul ELSE mem[i]]
      /\ mixed' = IF InSet(f) = {} THEN mixed \ {f} ELSE mixed \cup {f}
      /\ changed' = TRUE
  BY <1>1 DEF Memset
<1>3. pc'[t] = "memcpy" /\ \A u \in Shells \ {t} : pc'[u] = pc[u]
  BY <1>2 DEF IInv, TypeOK
<1>4. /\ InSet(f)' = InSet(f) \cup {t}
      /\ \A g \in Names \ {f} : InSet(g)' = InSet(g)
  BY <1>1, <1>2, <1>3 DEF InSet
<1>5. Size(f) \in Nat
  BY SizesAssumption DEF Size
<1>6. mem \in [1..Total -> Chars]
  BY MemType DEF IInv
<1>7. \A g \in Names \ {f} : \A k \in 1..Size(g) :
          mem'[Offset(g) + k] = mem[Offset(g) + k]
  BY <1>1, <1>2, <1>5, <1>6, Regions
<1>8. \A k \in 1..Size(f) : mem'[Offset(f) + k] = Nul
  BY <1>1, <1>2, <1>5, <1>6, Regions
<1>9. Behind'
  BY <1>1, <1>2, <1>5, <1>6, Regions DEF IInv, Behind
<1>10. TypeOK' /\ (station = [x \in Names |-> station[x]])'
  <2>1. mem' \in [1..Total -> Chars]
    BY <1>2, <1>6 DEF Chars
  <2>2. mixed' \subseteq Names
    BY <1>1, <1>2 DEF IInv, TypeOK
  <2>3. pc' \in [Shells -> {"idle", "memset", "memcpy"}]
    BY <1>2 DEF IInv, TypeOK
  <2> QED
    BY <1>2, <2>1, <2>2, <2>3 DEF IInv, TypeOK, Total, Chars
<1>11. Fits'
  BY <1>2, <1>3 DEF IInv, Fits
<1>12. Fields'
  <2> SUFFICES ASSUME NEW g \in Names, g \notin mixed'
               PROVE  (/\ \A p, u \in InSet(g) : p = u
                       /\ InSet(g) = {} => Holds(g, wanted[g])
                       /\ InSet(g) # {} => Holds(g, <<>>))'
    BY DEF Fields
  <2>1. CASE g = f
    <3>1. InSet(g)' = {t}
      BY <1>1, <1>2, <1>3, <2>1 DEF InSet
    <3>2. Holds(g, <<>>)'
      BY <1>8, <2>1 DEF Holds
    <3> QED
      BY <3>1, <3>2
  <2>2. CASE g # f
    <3>1. g \notin mixed /\ InSet(g)' = InSet(g)
      BY <1>2, <1>4, <2>2
    <3>2. Holds(g, wanted[g])' <=> Holds(g, wanted[g])
      BY <1>2, <1>7, <2>2 DEF Holds
    <3>3. Holds(g, <<>>)' <=> Holds(g, <<>>)
      BY <1>7, <2>2 DEF Holds
    <3> QED
      BY <3>1, <3>2, <3>3 DEF IInv, Fields
  <2> QED
    BY <2>1, <2>2
<1>13. Start'
  BY <1>2 DEF IInv, Start
<1> QED
  BY <1>9, <1>10, <1>11, <1>12, <1>13 DEF IInv

\* memcpy() puts the text into its field, and the field of the others stays.
LEMMA MemcpyKeeps ==
    ASSUME IInv, NEW t \in Shells, Memcpy(t) PROVE IInv'
<1>1. PICK f \in Names, text \in Texts : arg[t][1] = f /\ arg[t][2] = text
  BY ArgType DEF IInv
<1>2. /\ UNCHANGED <<step, str, len, got, station>>
      /\ pc[t] = "memcpy" /\ pc' = [pc EXCEPT ![t] = "idle"]
      /\ arg' = [arg EXCEPT ![t] = <<"ssid", <<>>>>]
      /\ mem' = [i \in DOMAIN mem |->
                   IF Within(i, f, Len(text)) THEN text[i - Offset(f)] ELSE mem[i]]
      /\ wanted' = [wanted EXCEPT ![f] = text]
      /\ mixed' = IF InSet(f) = {t} THEN mixed ELSE mixed \cup {f}
      /\ changed' = TRUE
  BY <1>1 DEF Memcpy
<1>3. Len(text) <= Size(f)
  BY <1>1, <1>2 DEF IInv, Fits
<1>4. /\ pc'[t] = "idle"
      /\ \A u \in Shells \ {t} : pc'[u] = pc[u] /\ arg'[u] = arg[u]
  BY <1>2 DEF IInv, TypeOK
<1>5. /\ t \in InSet(f) /\ InSet(f)' = InSet(f) \ {t}
      /\ \A g \in Names \ {f} : InSet(g)' = InSet(g)
  BY <1>1, <1>2, <1>4 DEF InSet
<1>6. /\ wanted'[f] = text /\ \A g \in Names \ {f} : wanted'[g] = wanted[g]
  BY <1>1, <1>2 DEF IInv, TypeOK
<1>7. text \in Seq(Letters) /\ Len(text) \in Nat /\ Size(f) \in Nat
      /\ Offset(f) \in Nat
  BY <1>1, TextsAreTexts, SizesAssumption DEF Size, Offset
<1>8. mem \in [1..Total -> Chars]
  BY MemType DEF IInv
<1>9. \A g \in Names \ {f} : \A k \in 1..Size(g) :
          mem'[Offset(g) + k] = mem[Offset(g) + k]
  BY <1>1, <1>2, <1>3, <1>7, <1>8, Regions
<1>10. \A k \in 1..Size(f) :
          mem'[Offset(f) + k] = IF k <= Len(text) THEN text[k]
                                ELSE mem[Offset(f) + k]
  <2> SUFFICES ASSUME NEW k \in 1..Size(f)
               PROVE  mem'[Offset(f) + k] = IF k <= Len(text) THEN text[k]
                                            ELSE mem[Offset(f) + k]
    OBVIOUS
  <2>1. Offset(f) + k \in 1..Total
        /\ (Within(Offset(f) + k, f, Len(text)) <=> k <= Len(text))
    BY <1>1, <1>3, <1>7, Regions
  <2>2. (Offset(f) + k) - Offset(f) = k
    BY <1>7
  <2> QED
    BY <1>2, <1>8, <2>1, <2>2
<1>11. Behind'
  BY <1>1, <1>2, <1>3, <1>7, <1>8, Regions DEF IInv, Behind
<1>12. TypeOK' /\ (station = [x \in Names |-> station[x]])'
  <2>1. mem' \in [1..Total -> Chars]
    <3> SUFFICES ASSUME NEW i \in 1..Total, Within(i, f, Len(text))
                 PROVE  text[i - Offset(f)] \in Chars
      BY <1>2, <1>8
    <3>1. i - Offset(f) \in 1..Len(text)
      BY <1>7 DEF Within
    <3> QED
      BY <1>7, <3>1, ElementOfSeq DEF Chars
  <2>2. mixed' \subseteq Names
    BY <1>1, <1>2 DEF IInv, TypeOK
  <2>3. pc' \in [Shells -> {"idle", "memset", "memcpy"}]
    BY <1>2 DEF IInv, TypeOK
  <2>4. arg' \in [Shells -> Names \X Texts]
    BY <1>2, TextsAreTexts DEF IInv, TypeOK, Names
  <2>5. wanted' \in [Names -> Texts]
    BY <1>1, <1>2 DEF IInv, TypeOK
  <2> QED
    BY <1>2, <2>1, <2>2, <2>3, <2>4, <2>5 DEF IInv, TypeOK, Total, Chars
<1>13. Fits'
  BY <1>3, <1>4, <1>6 DEF IInv, Fits
<1>14. Fields'
  <2> SUFFICES ASSUME NEW g \in Names, g \notin mixed'
               PROVE  (/\ \A p, u \in InSet(g) : p = u
                       /\ InSet(g) = {} => Holds(g, wanted[g])
                       /\ InSet(g) # {} => Holds(g, <<>>))'
    BY DEF Fields
  <2>1. CASE g = f
    <3>1. InSet(f) = {t} /\ f \notin mixed
      BY <1>2, <2>1
    <3>2. Holds(f, <<>>)
      BY <1>1, <3>1 DEF IInv, Fields
    <3>3. \A k \in 1..Size(f) : mem[Offset(f) + k] = Nul
      BY <3>2 DEF Holds
    <3>4. Holds(g, wanted[g])'
      BY <1>6, <1>10, <2>1, <3>3 DEF Holds
    <3>5. InSet(g)' = {}
      BY <1>1, <1>2, <1>4, <2>1, <3>1 DEF InSet
    <3> QED
      BY <3>4, <3>5
  <2>2. CASE g # f
    <3>1. g \notin mixed /\ InSet(g)' = InSet(g)
      BY <1>2, <1>5, <2>2
    <3>2. Holds(g, wanted[g])' <=> Holds(g, wanted[g])
      BY <1>6, <1>9, <2>2 DEF Holds
    <3>3. Holds(g, <<>>)' <=> Holds(g, <<>>)
      BY <1>9, <2>2 DEF Holds
    <3> QED
      BY <3>1, <3>2, <3>3 DEF IInv, Fields
  <2> QED
    BY <2>1, <2>2
<1>15. Start'
  BY <1>2 DEF IInv, Start
<1> QED
  BY <1>11, <1>12, <1>13, <1>14, <1>15 DEF IInv

\* start() reads and copies; it leaves the fields and the commands alone.
LEMMA StartKeeps ==
    ASSUME IInv, StartBegins \/ StartReads \/ StartCopies PROVE IInv'
<1>1. UNCHANGED <<mem, pc, arg, wanted, mixed>>
  BY DEF StartBegins, StartReads, StartCopies
<1>2. \A f \in Names : InSet(f)' = InSet(f) /\ Getter(f)' = Getter(f)
  BY <1>1, GetterOfMem DEF InSet
<1>3. Fits' /\ Behind' /\ Fields'
  BY <1>1, <1>2 DEF IInv, Fits, Behind, Fields, Holds
<1>4. "ssid" \in Names /\ "passwd" \in Names
  BY DEF Names
<1>5. \A f \in Names : Getter(f) \in Seq(Letters)
  BY GetterType, MemType DEF IInv
<1>6. CASE StartBegins
  <2>1. /\ step' = "ssid" /\ got' = got /\ got = {}
        /\ station' = [f \in Names |-> <<>>]
        /\ changed' = \E f \in Names : InSet(f) # {}
        /\ UNCHANGED <<str, len>>
    BY <1>6 DEF StartBegins, IInv, Start
  <2>2. <<>> \in Fitting("ssid") /\ <<>> \in Fitting("passwd")
    BY <1>4, EmptyFits
  <2>3. TypeOK' /\ (station = [x \in Names |-> station[x]])'
    BY <1>1, <1>4, <2>1, <2>2 DEF IInv, TypeOK
  <2>4. Start'
    BY <1>2, <2>1 DEF Start
  <2> QED
    BY <1>3, <2>3, <2>4 DEF IInv
<1>7. CASE StartReads
  <2>1. PICK call \in {"str", "len"} \ got :
            /\ got' = got \cup {call}
            /\ str' = IF call = "str" THEN Getter(step) ELSE str
            /\ len' = IF call = "len" THEN Len(Getter(step)) ELSE len
    BY <1>7 DEF StartReads
  <2>2. step # "idle" /\ step \in Names /\ UNCHANGED <<step, station, changed>>
    BY <1>7 DEF StartReads, IInv, TypeOK
  <2>3. Getter(step) \in Seq(Letters) /\ Len(Getter(step)) \in Nat
    BY <1>5, <2>2, LenProperties
  <2>4. TypeOK' /\ (station = [x \in Names |-> station[x]])'
    BY <1>1, <2>1, <2>2, <2>3 DEF IInv, TypeOK
  <2>5. Start'
    BY <1>1, <1>2, <2>1, <2>2 DEF IInv, Start
  <2> QED
    BY <1>3, <2>4, <2>5 DEF IInv
<1>8. CASE StartCopies
  <2>1. /\ got = {"str", "len"} /\ got' = {} /\ str' = <<>> /\ len' = 0
        /\ station' = [station EXCEPT ![step] = Copied(step)]
        /\ step' = IF step = "ssid" THEN "passwd" ELSE "idle"
        /\ changed' = changed
    BY <1>8 DEF StartCopies
  <2>2. step \in Names
    BY <2>1 DEF IInv, Start, TypeOK
  <2>3. /\ station'[step] = Copied(step) /\ station' = [x \in Names |-> station'[x]]
        /\ \A f \in Names \ {step} : station'[f] = station[f]
    BY <2>1, <2>2 DEF IInv
  <2>4. Copied(step) \in Fitting(step)
    <3> DEFINE n == IF len < Size(step) THEN len ELSE Size(step)
    <3>1. n \in 0..Size(step)
      BY SizesAssumption DEF Size, IInv, TypeOK
    <3>2. Copied(step) = Bytes(n)
      BY DEF Copied
    <3> HIDE DEF n
    <3>3. \A i \in 1..n : i <= Len(str) => str[i] \in Letters
      <4>1. str \in Seq(Letters) /\ Len(str) \in Nat
        BY LenProperties DEF IInv, TypeOK
      <4> QED
        BY <3>1, <4>1, ElementOfSeq
    <3>4. Bytes(n) \in [1..n -> Letters \cup {Nul, Junk}]
      BY <3>3 DEF Bytes
    <3> QED
      BY <3>1, <3>2, <3>4 DEF Fitting, BoundedSeq, SeqOf
  <2>5. TypeOK' /\ (station = [x \in Names |-> station[x]])'
    <3>1. station'["ssid"] \in Fitting("ssid")
          /\ station'["passwd"] \in Fitting("passwd")
      BY <1>4, <2>2, <2>3, <2>4 DEF IInv, TypeOK
    <3>2. str' \in Seq(Letters) /\ len' \in Nat /\ got' \subseteq {"str", "len"}
          /\ step' \in Names \cup {"idle"}
      BY <1>4, <2>1
    <3> QED
      BY <1>1, <2>1, <2>3, <3>1, <3>2 DEF IInv, TypeOK
  <2>6. ASSUME ~changed, step \notin mixed PROVE Copied(step) = wanted[step]
    <3>1. /\ InSet(step) = {} /\ str = Getter(step)
          /\ len = Len(Getter(step))
      BY <2>1, <2>2, <2>6 DEF IInv, Start
    <3>2. Holds(step, wanted[step])
      BY <2>2, <2>6, <3>1 DEF IInv, Fields
    <3>3. wanted[step] \in Seq(Letters) /\ Len(wanted[step]) <= Size(step)
      BY <2>2, TextsAreTexts DEF IInv, TypeOK, Fits
    <3>4. mem \in [1..Total -> Chars] /\ Behind
      BY MemType DEF IInv
    <3> QED
      BY <2>2, <3>1, <3>2, <3>3, <3>4, CopiedIsHeld
  <2>7. Start'
    <3> SUFFICES ASSUME ~changed
                 PROVE  /\ \A f \in Names : InSet(f)' = {}
                        /\ \A f \in Names \ mixed :
                              step' = "idle" \/ (f = "ssid" /\ step' = "passwd")
                                => station'[f] = wanted[f]
      BY <1>1, <2>1 DEF Start
    <3>1. \A f \in Names : InSet(f)' = {}
      BY <1>2 DEF IInv, Start
    <3>2. ASSUME NEW f \in Names \ mixed,
                 step' = "idle" \/ (f = "ssid" /\ step' = "passwd")
          PROVE  station'[f] = wanted[f]
      <4>1. CASE f = step
        BY <2>3, <2>6, <4>1
      <4>2. CASE f # step
        <5>1. f = "ssid" /\ step = "passwd"
          BY <2>1, <2>2, <3>2, <4>2 DEF Names
        <5>2. station[f] = wanted[f]
          BY <5>1 DEF IInv, Start
        <5> QED
          BY <2>3, <4>2, <5>2
      <4> QED
        BY <4>1, <4>2
    <3> QED
      BY <3>1, <3>2
  <2> QED
    BY <1>3, <2>5, <2>7 DEF IInv
<1> QED
  BY <1>6, <1>7, <1>8

LEMMA Invariance == Spec => []IInv
<1>1. IInv /\ UNCHANGED vars => IInv'
  <2> SUFFICES ASSUME IInv, UNCHANGED vars PROVE IInv'
    OBVIOUS
  <2>1. UNCHANGED <<mem, pc, arg, step, str, len, got, station, wanted, mixed, changed>>
    BY DEF vars
  <2>2. \A f \in Names : InSet(f)' = InSet(f) /\ Getter(f)' = Getter(f)
    BY <2>1, GetterOfMem DEF InSet
  <2>3. TypeOK' /\ (station = [x \in Names |-> station[x]])' /\ Fits' /\ Behind'
    BY <2>1 DEF IInv, TypeOK, Fits, Behind
  <2>4. Fields'
    BY <2>1, <2>2 DEF IInv, Fields, Holds
  <2>5. Start'
    BY <2>1, <2>2 DEF IInv, Start, TypeOK
  <2> QED
    BY <2>3, <2>4, <2>5 DEF IInv
<1>2. IInv /\ Next => IInv'
  BY SetCommandKeeps, MemsetKeeps, MemcpyKeeps, StartKeeps DEF Next
<1> QED
  BY <1>1, <1>2, InitHolds, PTL DEF Spec
-----------------------------------------------------------------------------
(* The theorems                                                            *)

\* What is in the fields, in the hands of start() and in the station are texts
\* of the right kind and length: no write leaves its field and the getters
\* always stop.
THEOREM TypeCorrect == Spec => []TypeOK
<1>1. IInv => TypeOK
  BY DEF IInv
<1> QED
  BY <1>1, Invariance, PTL

\* Outside of races the station is started with what was set last, whatever
\* the sizes of the fields and the lengths of the texts.
THEOREM StationIsAsSet == Spec => []StationGetsWhatWasSet
<1>1. IInv => StationGetsWhatWasSet
  <2> SUFFICES ASSUME IInv, step = "idle", ~changed, mixed = {}
               PROVE  station = wanted
    BY DEF StationGetsWhatWasSet
  <2>1. \A f \in Names : station[f] = wanted[f]
    BY DEF IInv, Start
  <2>2. wanted = [f \in Names |-> wanted[f]]
    BY DEF IInv, TypeOK
  <2>3. station = [x \in Names |-> station[x]]
    BY DEF IInv
  <2> QED
    BY <2>1, <2>2, <2>3
<1> QED
  BY <1>1, Invariance, PTL
=============================================================================
