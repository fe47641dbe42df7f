------------------------------ MODULE NvmStore ------------------------------
(***************************************************************************)
(* The saved configuration: MeshRoof::loadNvm and saveNvm                  *)
(* (src/main/MeshRoof.cxx:627-858), the boot sequence that loads it or     *)
(* replaces it (src/main/meshroof.cxx:204), and the shell commands that    *)
(* edit the configuration in RAM and save it.                              *)
(*                                                                         *)
(* The image is stored under two NVS keys, one after the other: "nvm_meta" *)
(* holds the size of the image, "meshroof" the image.  Nothing serialises  *)
(* the two shells, nothing makes the pair atomic, and the board may lose   *)
(* power or be restarted at any point.                                     *)
(***************************************************************************)
EXTENDS Naturals

CONSTANTS
    Shells,       \* tasks that edit and save
    Boot,         \* meshtastic_task, which saves the defaults at boot
    Bodies,       \* contents of struct nvm_main_body
    FactoryBody,  \* the zeroed body of the constructor
    MaxEntries,   \* bound: entries of the three lists together
    LoadLimit,    \* entries of the largest image loadNvm accepts
    None          \* a key that was never written

ASSUME BootAssumption == Boot \notin Shells
ASSUME FactoryAssumption == FactoryBody \in Bodies
ASSUME EntriesAssumption == MaxEntries \in Nat /\ LoadLimit \in Nat
ASSUME NoneAssumption == None \notin Nat

Savers == Shells \cup {Boot}
Configs == [body : Bodies, n : 0..MaxEntries]
Factory == [body |-> FactoryBody, n |-> 0]

\* An image: what was encoded, and the length of the buffer it is in, counted
\* in entries.  The two differ if the lists change between the statements.
Images == [config : Configs, size : 0..MaxEntries]
Blank == [config |-> Factory, size |-> 0]
NoImage == [config |-> Factory, size |-> None]
Stored == [meta : 0..MaxEntries \cup {None}, image : Images \cup {NoImage}]

VARIABLES
    phase,      \* of meshtastic_task: off, load, defaults or run
    ram,        \* _main_body, whose counts are those of the three lists
    nvs,        \* the two keys as nvs_get_blob would return them
    flash,      \* the two keys as the last commit left them
    pc,         \* next statement of saveNvm
    image,      \* the buffer of a saver
    candidates, \* history: configurations a restart may bring back
    alone,      \* history: the saver that nobody interfered with
    unsaved,    \* history: a command failed or was interfered with, and no
                \* save has succeeded alone since
    exposed     \* history: a save of another size, or that overlapped another
                \* one, has begun to write, and none has succeeded alone since

savers == <<pc, image>>
history == <<candidates, alone, unsaved, exposed>>
vars == <<phase, ram, nvs, flash, pc, image, candidates, alone, unsaved,
          exposed>>

SaveSteps == {"size", "encode", "meta", "blob", "commit"}

TypeOK ==
    /\ phase \in {"off", "load", "defaults", "run"}
    /\ ram \in Configs
    /\ nvs \in Stored
    /\ flash \in Stored
    /\ pc \in [Savers -> {"idle"} \cup SaveSteps]
    /\ image \in [Savers -> Images]
    /\ candidates \subseteq Configs
    /\ alone \subseteq Savers
    /\ unsaved \in BOOLEAN
    /\ exposed \in BOOLEAN

Init ==
    /\ phase = "off"
    /\ ram = Factory
    /\ nvs = [meta |-> None, image |-> NoImage]
    /\ flash = nvs
    /\ pc = [s \in Savers |-> "idle"]
    /\ image = [s \in Savers |-> Blank]
    /\ candidates = {Factory}
    /\ alone = {}
    /\ unsaved = FALSE
    /\ exposed = FALSE

Idle == \A s \in Savers : pc[s] = "idle"

-----------------------------------------------------------------------------
(* Power                                                                   *)

PowerOn ==
    /\ phase = "off"
    /\ phase' = "load"
    /\ UNCHANGED <<ram, nvs, flash, savers, history>>

\* Every task is gone, and RAM with it.  A write that was not committed may
\* or may not have reached the flash, each key on its own (external).
Restart ==
    /\ phase # "off"
    /\ phase' = "off"
    /\ ram' = Factory
    /\ nvs' \in [meta : {nvs.meta, flash.meta}, image : {nvs.image, flash.image}]
    /\ flash' = nvs'
    /\ pc' = [s \in Savers |-> "idle"]
    /\ image' = [s \in Savers |-> Blank]
    /\ alone' = {}
    /\ unsaved' = (unsaved \/ ~Idle)
    /\ UNCHANGED <<candidates, exposed>>

-----------------------------------------------------------------------------
(* loadNvm and the boot sequence                                           *)

\* The image fits the buffer of nvm_meta.size bytes, its own counts do not
\* exceed FLASH_TARGET_SIZE, and the footer is where they say.
Loads(store) ==
    /\ store.meta # None
    /\ store.image # NoImage
    /\ store.image.size <= store.meta
    /\ store.image.config.n <= LoadLimit
    /\ store.image.config.n <= store.image.size

\* Mutant: the lists of the stored image are not taken over.
LoadNvm_BodyOnly ==
    /\ phase = "load"
    /\ Loads(nvs)
    /\ phase' = "run"
    /\ ram' = [nvs.image.config EXCEPT !.n = 0]
    /\ candidates' = {ram'}
    /\ unsaved' = FALSE
    /\ exposed' = FALSE
    /\ UNCHANGED <<nvs, flash, savers, alone>>

LoadNvm ==
    /\ phase = "load"
    /\ Loads(nvs)
    /\ phase' = "run"
    /\ ram' = nvs.image.config
    /\ candidates' = {ram'}
    /\ unsaved' = FALSE
    /\ exposed' = FALSE
    /\ UNCHANGED <<nvs, flash, savers, alone>>

\* saveNvm() begins in task s: _main_body takes the counts of the lists, which
\* the ram of this model holds once.
BeginSave(s) ==
    /\ pc' = [pc EXCEPT ![s] = "size"]
    /\ alone' = IF Idle THEN {s} ELSE {}
    /\ unsaved' = (unsaved \/ ~Idle)

\* Nothing usable is stored, or loadNvm fails for want of memory: the RAM
\* still holds the defaults, and they are saved.
LoadNvmFails ==
    /\ phase = "load"
    /\ phase' = "defaults"
    /\ BeginSave(Boot)
    /\ candidates' = candidates \cup {Factory}
    /\ UNCHANGED <<ram, nvs, flash, image, exposed>>

\* The result of that save is ignored.
BootDone ==
    /\ phase = "defaults"
    /\ pc[Boot] = "idle"
    /\ phase' = "run"
    /\ UNCHANGED <<ram, nvs, flash, savers, history>>

-----------------------------------------------------------------------------
(* saveNvm                                                                 *)

\* A shell command sets a field, or adds or removes a list entry, and saves.
Edit(s) ==
    /\ phase = "run"
    /\ pc[s] = "idle"
    /\ ram' \in Configs \ {ram}
    /\ ram'.n \in {ram.n - 1, ram.n, ram.n + 1}
    /\ BeginSave(s)
    /\ candidates' = candidates \cup {ram'}
    /\ UNCHANGED <<phase, nvs, flash, image, exposed>>

\* "net ip ... netmask ... gateway ..." with a malformed netmask or gateway:
\* the fields set before it stay in RAM, and nothing is saved.
EditHalf(s) ==
    /\ phase = "run"
    /\ pc[s] = "idle"
    /\ ram' \in {[ram EXCEPT !.body = body] : body \in Bodies \ {ram.body}}
    /\ candidates' = candidates \cup {ram'}
    /\ alone' = {}
    /\ unsaved' = TRUE
    /\ UNCHANGED <<phase, nvs, flash, savers, exposed>>

\* Mutant: the size counts one entry too many.
SaveSize_OffByOne(s) ==
    /\ pc[s] = "size"
    /\ pc' = [pc EXCEPT ![s] = "encode"]
    /\ image' = [image EXCEPT ![s].size = ram.n + 1]
    /\ UNCHANGED <<phase, ram, nvs, flash, history>>

\* The size is computed from the lists, and the buffer allocated ...
SaveSize(s) ==
    /\ pc[s] = "size"
    /\ pc' = [pc EXCEPT ![s] = "encode"]
    /\ image' = [image EXCEPT ![s].size = ram.n]
    /\ UNCHANGED <<phase, ram, nvs, flash, history>>

\* ... and filled from the lists; then nvs_open().
SaveEncode(s) ==
    /\ pc[s] = "encode"
    /\ pc' = [pc EXCEPT ![s] = "meta"]
    /\ image' = [image EXCEPT ![s].config = ram]
    /\ UNCHANGED <<phase, ram, nvs, flash, history>>

\* Mutant: the meta key is written only once.
SaveMeta_Once(s) ==
    /\ pc[s] = "meta"
    /\ pc' = [pc EXCEPT ![s] = "blob"]
    /\ nvs' = [nvs EXCEPT !.meta = IF @ = None THEN image[s].size ELSE @]
    /\ exposed' = (exposed \/ image[s].size # nvs.meta \/ s \notin alone)
    /\ UNCHANGED <<phase, ram, flash, image, candidates, alone, unsaved>>

SaveMeta(s) ==
    /\ pc[s] = "meta"
    /\ pc' = [pc EXCEPT ![s] = "blob"]
    /\ nvs' = [nvs EXCEPT !.meta = image[s].size]
    /\ exposed' = (exposed \/ image[s].size # nvs.meta \/ s \notin alone)
    /\ UNCHANGED <<phase, ram, flash, image, candidates, alone, unsaved>>

SaveBlob(s) ==
    /\ pc[s] = "blob"
    /\ pc' = [pc EXCEPT ![s] = "commit"]
    /\ nvs' = [nvs EXCEPT !.image = image[s]]
    /\ exposed' = (exposed \/ s \notin alone)
    /\ UNCHANGED <<phase, ram, flash, image, candidates, alone, unsaved>>

\* The buffer is freed, and its contents forgotten.
Return(s) ==
    /\ pc' = [pc EXCEPT ![s] = "idle"]
    /\ image' = [image EXCEPT ![s] = Blank]

\* Mutant: nvs_commit() is missing.
SaveCommit_Missing(s) ==
    /\ pc[s] = "commit"
    /\ Return(s)
    /\ IF s \in alone
         THEN /\ candidates' = {image[s].config}
              /\ unsaved' = FALSE
              /\ exposed' = FALSE
         ELSE UNCHANGED <<candidates, unsaved, exposed>>
    /\ UNCHANGED <<phase, ram, nvs, flash, alone>>

\* saveNvm() returns true, and the shell prints "ok".
SaveCommit(s) ==
    /\ pc[s] = "commit"
    /\ Return(s)
    /\ flash' = nvs
    /\ IF s \in alone
         THEN /\ candidates' = {image[s].config}
              /\ unsaved' = FALSE
              /\ exposed' = FALSE
         ELSE UNCHANGED <<candidates, unsaved, exposed>>
    /\ UNCHANGED <<phase, ram, nvs, alone>>

\* malloc or a call of the NVS library fails: saveNvm() gives up there, and
\* what the earlier calls wrote stays.
SaveFails(s) ==
    /\ pc[s] \in {"size", "meta", "blob", "commit"}
    /\ Return(s)
    /\ unsaved' = TRUE
    /\ UNCHANGED <<phase, ram, nvs, flash, candidates, alone, exposed>>

SaveNvm(s) ==
    \/ SaveSize(s) \/ SaveEncode(s) \/ SaveMeta(s)
    \/ SaveBlob(s) \/ SaveCommit(s) \/ SaveFails(s)

Next ==
    \/ PowerOn \/ Restart
    \/ LoadNvm \/ LoadNvmFails \/ BootDone
    \/ \E s \in Shells : Edit(s) \/ EditHalf(s)
    \/ \E s \in Savers : SaveNvm(s)

Spec == Init /\ [][Next]_vars

-----------------------------------------------------------------------------
(* What must hold                                                          *)

\* Between commands the flash holds the configuration in use, and the next
\* boot can read it, unless the image grew beyond what loadNvm accepts
\* (saveNvm has no such limit).  A command that failed half-way, or a save that
\* another shell interfered with, voids this until a save succeeds alone.
DurableAtRest ==
    phase = "run" /\ Idle /\ ~unsaved =>
        /\ flash = nvs
        /\ flash.image.config = ram
        /\ Loads(flash) \/ ram.n > LoadLimit

\* Whatever was interrupted, a boot brings back a configuration that was in
\* use since the last undisturbed save: no mixture and nothing older.
BootRestores ==
    [][phase = "load" /\ phase' = "run" => ram' \in candidates]_vars

\* A stored configuration becomes unreadable, and is then overwritten with the
\* defaults, in three cases only: it is too big, a save that changed its size
\* did not finish, or two saves overlapped.
NeverDiscarded ==
    phase = "load" /\ nvs.image # NoImage /\ ~exposed =>
        Loads(nvs) \/ nvs.image.config.n > LoadLimit
=============================================================================
