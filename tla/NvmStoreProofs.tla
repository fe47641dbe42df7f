--------------------------- MODULE NvmStoreProofs ---------------------------
(***************************************************************************)
(* Proofs about NvmStore for any number of shells, any configurations and  *)
(* any limits.                                                             *)
(*                                                                         *)
(* The history variables say when the properties may be relied on; the     *)
(* invariant says what the code has established meanwhile.  Phases ties    *)
(* the boot sequence to the savers, Alone follows an undisturbed save      *)
(* statement by statement, Durable and Readable are the two properties     *)
(* extended to the states inside a save, and Known follows every copy of   *)
(* the configuration back to the candidates.                               *)
(***************************************************************************)
EXTENDS NvmStore, TLAPS

\* Shells save only while the system runs, meshtastic_task only the defaults,
\* and the two views of the flash agree until somebody writes.
Phases ==
    /\ phase # "run" => ram = Factory /\ \A s \in Shells : pc[s] = "idle"
    /\ phase # "defaults" => pc[Boot] = "idle"
    /\ phase \in {"off", "load"} => nvs = flash

\* What an undisturbed save has done when it is about to execute pc[s].
Alone ==
    \A s \in alone : pc[s] # "idle" =>
        /\ \A t \in Savers \ {s} : pc[t] = "idle"
        /\ pc[s] # "size" => image[s].size = ram.n
        /\ pc[s] \notin {"size", "encode"} => image[s].config = ram
        /\ pc[s] \in {"blob", "commit"} => nvs.meta = image[s].size
        /\ pc[s] = "commit" => nvs.image = image[s]

\* A disturbed save is on record, and between saves the flash is up to date.
Durable ==
    ~unsaved =>
        /\ \A s \in Savers : pc[s] # "idle" => s \in alone
        /\ phase \in {"defaults", "run"} /\ Idle =>
             /\ flash = nvs
             /\ flash.image.config = ram
             /\ Loads(flash) \/ ram.n > LoadLimit

\* An image that loadNvm would refuse for another reason than its length.
Fits(meta, img) ==
    \/ img = NoImage
    \/ meta # None /\ img.size <= meta /\ img.config.n <= img.size
    \/ img.config.n > LoadLimit

\* Unless an exposed save is on record, the images of both views fit.
Readable ==
    ~exposed =>
        /\ nvs.meta = flash.meta
        /\ Fits(nvs.meta, nvs.image)
        /\ Fits(flash.meta, flash.image)

\* Every configuration that may reach the RAM or the flash is a candidate.
Known ==
    /\ phase \in {"defaults", "run"} => ram \in candidates
    /\ nvs.image.config \in candidates
    /\ flash.image.config \in candidates
    /\ \A s \in Savers :
         pc[s] \in {"meta", "blob", "commit"} => image[s].config \in candidates

IInv ==
    /\ TypeOK
    /\ Phases
    /\ Alone
    /\ Durable
    /\ Readable
    /\ Known

-----------------------------------------------------------------------------
\* A blank flash and an idle system satisfy it.
LEMMA InitHolds == Init => IInv
<1> SUFFICES ASSUME Init PROVE IInv
  OBVIOUS
<1> USE BootAssumption, FactoryAssumption, EntriesAssumption DEF Init
<1>1. TypeOK
  <2>1. Factory \in Configs /\ Blank \in Images
    BY DEF Factory, Configs, Images, Blank
  <2>2. nvs \in Stored
    BY DEF Stored
  <2> QED
    BY <2>1, <2>2 DEF TypeOK
<1>2. Phases /\ Alone /\ Durable
  BY DEF Phases, Alone, Durable, Savers
<1>3. Readable /\ Known
  BY DEF Readable, Fits, Known, NoImage
<1> QED
  BY <1>1, <1>2, <1>3 DEF IInv

\* Every step of the boot sequence and of a saver preserves IInv.
LEMMA StepPreserves == IInv /\ [Next]_vars => IInv'
<1> SUFFICES ASSUME IInv, [Next]_vars PROVE IInv'
  OBVIOUS
<1> USE BootAssumption, FactoryAssumption, EntriesAssumption, NoneAssumption
    DEF IInv, TypeOK, savers, history
<1>1. CASE PowerOn
  <2>1. TypeOK'
    BY <1>1
    DEF PowerOn, Configs, Factory, Images, Blank, NoImage, Stored, Savers,
        SaveSteps
  <2>2. Phases'
    BY <1>1 DEF PowerOn, Phases, Savers
  <2>3. Alone'
    BY <1>1 DEF PowerOn, Phases, Alone, Savers, Idle
  <2>4. Durable'
    BY <1>1 DEF PowerOn, Phases, Alone, Durable, Idle, Savers
  <2>5. Readable'
    BY <1>1 DEF PowerOn, Phases, Alone, Readable, Fits
  <2>6. Known'
    BY <1>1 DEF PowerOn, Phases, Alone, Known, Savers
  <2> QED
    BY <2>1, <2>2, <2>3, <2>4, <2>5, <2>6
<1>2. CASE Restart
  <2>1. TypeOK'
    BY <1>2
    DEF Restart, Configs, Factory, Images, Blank, NoImage, Stored, Savers,
        SaveSteps
  <2>2. Phases'
    BY <1>2 DEF Restart, Phases, Savers
  <2>3. Alone'
    BY <1>2 DEF Restart, Phases, Alone, Savers, Idle
  <2>4. Durable'
    BY <1>2 DEF Restart, Phases, Alone, Durable, Idle, Savers
  <2>5. Readable'
    BY <1>2 DEF Restart, Phases, Alone, Readable, Fits
  <2>6. Known'
    BY <1>2 DEF Restart, Phases, Alone, Known, Savers
  <2> QED
    BY <2>1, <2>2, <2>3, <2>4, <2>5, <2>6
<1>3. CASE LoadNvm
  <2>1. TypeOK'
    BY <1>3 DEF LoadNvm, Loads, Configs, Images, NoImage, Stored
  <2>2. Phases'
    BY <1>3 DEF LoadNvm, Phases, Savers
  <2>3. Alone'
    BY <1>3 DEF LoadNvm, Phases, Alone, Savers, Idle
  <2>4. Durable'
    BY <1>3 DEF LoadNvm, Phases, Alone, Durable, Idle, Savers
  <2>5. Readable'
    BY <1>3
    DEF LoadNvm, Phases, Readable, Fits, Loads, Configs, Images, NoImage,
        Stored
  <2>6. Known'
    BY <1>3 DEF LoadNvm, Phases, Alone, Known, Savers
  <2> QED
    BY <2>1, <2>2, <2>3, <2>4, <2>5, <2>6
<1>4. CASE LoadNvmFails
  <2>1. TypeOK'
    BY <1>4
    DEF LoadNvmFails, BeginSave, Configs, Factory, Images, Blank, NoImage,
        Stored, Savers, SaveSteps
  <2>2. Phases'
    BY <1>4 DEF LoadNvmFails, BeginSave, Phases, Savers
  <2>3. Alone'
    BY <1>4 DEF LoadNvmFails, BeginSave, Phases, Alone, Savers, Idle
  <2>4. Durable'
    BY <1>4 DEF LoadNvmFails, BeginSave, Phases, Alone, Durable, Idle, Savers
  <2>5. Readable'
    BY <1>4 DEF LoadNvmFails, BeginSave, Phases, Alone, Readable, Fits
  <2>6. Known'
    BY <1>4 DEF LoadNvmFails, BeginSave, Phases, Alone, Known, Savers
  <2> QED
    BY <2>1, <2>2, <2>3, <2>4, <2>5, <2>6
<1>5. CASE BootDone
  <2>1. TypeOK'
    BY <1>5
    DEF BootDone, Configs, Factory, Images, Blank, NoImage, Stored, Savers,
        SaveSteps
  <2>2. Phases'
    BY <1>5 DEF BootDone, Phases, Savers
  <2>3. Alone'
    BY <1>5 DEF BootDone, Phases, Alone, Savers, Idle
  <2>4. Durable'
    BY <1>5 DEF BootDone, Phases, Alone, Durable, Idle, Savers
  <2>5. Readable'
    BY <1>5 DEF BootDone, Phases, Alone, Readable, Fits
  <2>6. Known'
    BY <1>5 DEF BootDone, Phases, Alone, Known, Savers
  <2> QED
    BY <2>1, <2>2, <2>3, <2>4, <2>5, <2>6
<1>6. ASSUME NEW s \in Shells, Edit(s) PROVE IInv'
  <2>1. TypeOK'
    BY <1>6
    DEF Edit, BeginSave, Configs, Factory, Images, Blank, NoImage, Stored,
        Savers, SaveSteps
  <2>2. Phases'
    BY <1>6 DEF Edit, BeginSave, Phases, Savers
  <2>3. Alone'
    BY <1>6 DEF Edit, BeginSave, Phases, Alone, Savers, Idle
  <2>4. Durable'
    BY <1>6 DEF Edit, BeginSave, Phases, Alone, Durable, Idle, Savers
  <2>5. Readable'
    BY <1>6 DEF Edit, BeginSave, Phases, Alone, Readable, Fits
  <2>6. Known'
    BY <1>6 DEF Edit, BeginSave, Phases, Alone, Known, Savers
  <2> QED
    BY <2>1, <2>2, <2>3, <2>4, <2>5, <2>6
<1>7. ASSUME NEW s \in Shells, EditHalf(s) PROVE IInv'
  <2>1. TypeOK'
    BY <1>7 DEF EditHalf, Configs
  <2>2. Phases'
    BY <1>7 DEF EditHalf, Phases
  <2>3. Alone' /\ Durable'
    BY <1>7 DEF EditHalf, Alone, Durable
  <2>4. Readable'
    BY <1>7 DEF EditHalf, Readable, Fits
  <2>5. Known'
    BY <1>7 DEF EditHalf, Known
  <2> QED
    BY <2>1, <2>2, <2>3, <2>4, <2>5
<1>8. ASSUME NEW s \in Savers, SaveSize(s) PROVE IInv'
  <2>1. TypeOK'
    BY <1>8
    DEF SaveSize, Configs, Factory, Images, Blank, NoImage, Stored, Savers,
        SaveSteps
  <2>2. Phases'
    BY <1>8 DEF SaveSize, Phases, Savers
  <2>3. Alone'
    BY <1>8 DEF SaveSize, Phases, Alone, Savers, Idle
  <2>4. Durable'
    BY <1>8 DEF SaveSize, Phases, Alone, Durable, Idle, Savers
  <2>5. Readable'
    BY <1>8 DEF SaveSize, Phases, Alone, Readable, Fits
  <2>6. Known'
    BY <1>8 DEF SaveSize, Phases, Alone, Known, Savers
  <2> QED
    BY <2>1, <2>2, <2>3, <2>4, <2>5, <2>6
<1>9. ASSUME NEW s \in Savers, SaveEncode(s) PROVE IInv'
  <2>1. TypeOK'
    BY <1>9
    DEF SaveEncode, Configs, Factory, Images, Blank, NoImage, Stored, Savers,
        SaveSteps
  <2>2. Phases'
    BY <1>9 DEF SaveEncode, Phases, Savers
  <2>3. Alone'
    BY <1>9 DEF SaveEncode, Phases, Alone, Savers, Idle
  <2>4. Durable'
    BY <1>9 DEF SaveEncode, Phases, Alone, Durable, Idle, Savers
  <2>5. Readable'
    BY <1>9 DEF SaveEncode, Phases, Alone, Readable, Fits
  <2>6. Known'
    BY <1>9 DEF SaveEncode, Phases, Alone, Known, Savers
  <2> QED
    BY <2>1, <2>2, <2>3, <2>4, <2>5, <2>6
<1>10. ASSUME NEW s \in Savers, SaveMeta(s) PROVE IInv'
  <2>1. TypeOK'
    BY <1>10
    DEF SaveMeta, Configs, Factory, Images, Blank, NoImage, Stored, Savers,
        SaveSteps
  <2>2. Phases'
    BY <1>10 DEF SaveMeta, Phases, Savers
  <2>3. Alone'
    BY <1>10 DEF SaveMeta, Phases, Alone, Savers, Idle
  <2>4. Durable'
    BY <1>10 DEF SaveMeta, Phases, Alone, Durable, Idle, Savers
  <2>5. Readable'
    BY <1>10
    DEF SaveMeta, Alone, Readable, Fits, Configs, Images, NoImage, Stored,
        Savers
  <2>6. Known'
    BY <1>10 DEF SaveMeta, Phases, Alone, Known, Savers
  <2> QED
    BY <2>1, <2>2, <2>3, <2>4, <2>5, <2>6
<1>11. ASSUME NEW s \in Savers, SaveBlob(s) PROVE IInv'
  <2>1. TypeOK'
    BY <1>11
    DEF SaveBlob, Configs, Factory, Images, Blank, NoImage, Stored, Savers,
        SaveSteps
  <2>2. Phases'
    BY <1>11 DEF SaveBlob, Phases, Savers
  <2>3. Alone'
    BY <1>11 DEF SaveBlob, Phases, Alone, Savers, Idle
  <2>4. Durable'
    BY <1>11 DEF SaveBlob, Phases, Alone, Durable, Idle, Savers
  <2>5. Readable'
    <3> SUFFICES ASSUME ~exposed' PROVE Readable'
      BY DEF Readable
    <3>1. s \in alone /\ ~exposed /\ pc[s] = "blob" /\ nvs'.meta = nvs.meta
          /\ nvs'.image = image[s] /\ flash' = flash
      BY <1>11 DEF SaveBlob, Stored
    <3>2. nvs.meta = image[s].size /\ image[s].config.n = image[s].size
          /\ image[s].size \in Nat
      BY <3>1 DEF Alone, Images, Configs
    <3> QED
      BY <3>1, <3>2, NoneAssumption DEF Readable, Fits
  <2>6. Known'
    BY <1>11 DEF SaveBlob, Phases, Alone, Known, Savers
  <2> QED
    BY <2>1, <2>2, <2>3, <2>4, <2>5, <2>6
<1>12. ASSUME NEW s \in Savers, SaveCommit(s) PROVE IInv'
  <2>1. TypeOK'
    <3>1. Blank \in Images /\ image[s].config \in Configs
      BY DEF Blank, Images, Configs, Factory
    <3> QED
      BY <1>12, <3>1 DEF SaveCommit, Return
  <2>2. Phases'
    BY <1>12 DEF SaveCommit, Return, Phases, Savers
  <2>3. Alone'
    BY <1>12 DEF SaveCommit, Return, Phases, Alone, Savers, Idle
  <2>4. Durable'
    BY <1>12
    DEF SaveCommit, Return, Phases, Alone, Durable, Idle, Loads, Configs,
        Images, NoImage, Stored, Savers
  <2>5. Readable'
    BY <1>12
    DEF SaveCommit, Return, Alone, Readable, Fits, Configs, Images, NoImage,
        Stored, Savers
  <2>6. Known'
    BY <1>12 DEF SaveCommit, Return, Phases, Alone, Known, Savers
  <2> QED
    BY <2>1, <2>2, <2>3, <2>4, <2>5, <2>6
<1>13. ASSUME NEW s \in Savers, SaveFails(s) PROVE IInv'
  <2>1. TypeOK'
    BY <1>13
    DEF SaveFails, Return, Configs, Factory, Images, Blank, NoImage, Stored,
        Savers, SaveSteps
  <2>2. Phases'
    BY <1>13 DEF SaveFails, Return, Phases, Savers
  <2>3. Alone'
    BY <1>13 DEF SaveFails, Return, Phases, Alone, Savers, Idle
  <2>4. Durable'
    BY <1>13 DEF SaveFails, Return, Phases, Alone, Durable, Idle, Savers
  <2>5. Readable'
    BY <1>13 DEF SaveFails, Return, Phases, Alone, Readable, Fits
  <2>6. Known'
    BY <1>13 DEF SaveFails, Return, Phases, Alone, Known, Savers
  <2> QED
    BY <2>1, <2>2, <2>3, <2>4, <2>5, <2>6
<1>14. CASE UNCHANGED vars
  BY <1>14 DEF vars, Phases, Alone, Durable, Readable, Known, Idle
<1> QED
  BY <1>1, <1>2, <1>3, <1>4, <1>5, <1>6, <1>7, <1>8, <1>9, <1>10,
     <1>11, <1>12, <1>13, <1>14
  DEF Next, SaveNvm

\* The inductive invariant holds of every behaviour of the savers.
THEOREM Invariance == Spec => []IInv
BY InitHolds, StepPreserves, PTL DEF Spec

\* The variables of the boot sequence, the two stored keys and the savers keep
\* their types.
THEOREM TypeCorrect == Spec => []TypeOK
<1>1. IInv => TypeOK
  BY DEF IInv
<1> QED
  BY <1>1, Invariance, PTL

\* Between commands the flash holds the configuration in use.
THEOREM SavedIsDurable == Spec => []DurableAtRest
<1>1. IInv => DurableAtRest
  BY DEF IInv, Durable, DurableAtRest
<1> QED
  BY <1>1, Invariance, PTL

\* A stored image that fits is never refused at boot, unless an interrupted
\* save changed its size or two saves overlapped.
THEOREM ReadableAtBoot == Spec => []NeverDiscarded
<1>1. IInv => NeverDiscarded
  <2> SUFFICES ASSUME IInv, nvs.image # NoImage, ~exposed,
                      ~(nvs.image.config.n > LoadLimit)
               PROVE  Loads(nvs)
    BY DEF NeverDiscarded
  <2>1. /\ nvs.meta # None
        /\ nvs.image.size <= nvs.meta
        /\ nvs.image.config.n <= nvs.image.size
    BY DEF IInv, Readable, Fits
  <2>2. nvs.image.config.n <= LoadLimit
    BY EntriesAssumption DEF IInv, TypeOK, Stored, Images, Configs
  <2> QED
    BY <2>1, <2>2 DEF Loads
<1> QED
  BY <1>1, Invariance, PTL

\* A boot brings back a configuration in use since the last undisturbed save.
THEOREM BootIsFaithful == Spec => BootRestores
<1>1. ASSUME IInv, [Next]_vars, phase = "load", phase' = "run"
      PROVE  ram' \in candidates
  <2> USE DEF IInv, Known
  <2>1. CASE LoadNvm
    BY <1>1, <2>1 DEF LoadNvm
  <2>2. CASE PowerOn \/ Restart \/ LoadNvmFails \/ BootDone \/ UNCHANGED vars
    BY <1>1, <2>2 DEF PowerOn, Restart, LoadNvmFails, BootDone, vars
  <2>3. ASSUME NEW s \in Shells, Edit(s) \/ EditHalf(s) PROVE FALSE
    BY <1>1, <2>3 DEF Edit, EditHalf
  <2>4. ASSUME NEW s \in Savers, SaveNvm(s) PROVE FALSE
    BY <1>1, <2>4
    DEF SaveNvm, SaveSize, SaveEncode, SaveMeta, SaveBlob, SaveCommit,
        SaveFails
  <2> QED
    BY <1>1, <2>1, <2>2, <2>3, <2>4 DEF Next
<1>2. IInv /\ [Next]_vars
        => [phase = "load" /\ phase' = "run" => ram' \in candidates]_vars
  BY <1>1
<1> QED
  BY <1>2, Invariance, PTL DEF Spec, BootRestores
=============================================================================
