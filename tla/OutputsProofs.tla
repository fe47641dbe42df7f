--------------------------- MODULE OutputsProofs ---------------------------
(***************************************************************************)
(* Theorems about Outputs.  Calls that overlap and agree write the same    *)
(* levels, so the flag, a caller's argument and the pins it has passed     *)
(* agree all along.  An increment under way has seen a count that is less  *)
(* far from where it last rested than there were increments since, so that *)
(* writing it plus one advances the count, and not too far.                *)
(***************************************************************************)
EXTENDS Outputs, TLAPS

\* What a call of amplify() that is under way has done so far.
Amplifies(u) ==
    /\ on[u] = amplifying
    /\ pc[u] = "switch_pin" => amplify_pin = ~amplifying

AmplifiersAgree ==
    ~tangled => \A u \in Tasks : pc[u] \in AmplifySteps => Amplifies(u)

\* The count, and what the increments under way have seen of it, are at most as
\* far as those that have begun can have brought it.
CountsBounded ==
    since < CountWidth =>
        /\ Advance(reset_count) <= since
        /\ \A t \in Tasks : pc[t] = "count" => Advance(seen[t]) + 1 <= since

Amplifier == AmplifiersAgree /\ AmplifierAgrees
Counter == CountsBounded /\ CountAdvances
Inv == TypeOK /\ Amplifier /\ SilentAtRest /\ Counter

-----------------------------------------------------------------------------

\* The count stays within its width.
LEMMA CountWraps ==
    ASSUME NEW n \in 0..(CountWidth - 1)
    PROVE  /\ (n + 1) % CountWidth \in 0..(CountWidth - 1)
           /\ (n + 1) % CountWidth = IF n + 1 = CountWidth THEN 0 ELSE n + 1
  BY WidthAssumption

\* How far it has come is less than its width,
LEMMA AdvanceType ==
    ASSUME base \in 0..(CountWidth - 1), NEW n \in 0..(CountWidth - 1)
    PROVE  Advance(n) \in 0..(CountWidth - 1)
  BY WidthAssumption DEF Advance

\* and an increment brings it one further, where that is still less.
LEMMA AdvanceSteps ==
    ASSUME base \in 0..(CountWidth - 1), NEW n \in 0..(CountWidth - 1),
           Advance(n) + 1 < CountWidth
    PROVE  Advance((n + 1) % CountWidth) = Advance(n) + 1
  <1>1. CASE n + 1 = CountWidth
    <2>1. (n + 1) % CountWidth = 0
      BY <1>1, CountWraps
    <2>2. Advance(0) = Advance(n) + 1
      BY <1>1, WidthAssumption DEF Advance
    <2> QED BY <2>1, <2>2
  <1>2. CASE n + 1 # CountWidth
    <2>1. (n + 1) % CountWidth = n + 1
      BY <1>2, CountWraps
    <2>2. Advance(n + 1) = Advance(n) + 1
      BY <1>2, WidthAssumption DEF Advance
    <2> QED BY <2>1, <2>2
  <1> QED BY <1>1, <1>2

\* Init establishes the invariant.
LEMMA InitHolds == Init => Inv
  <1> SUFFICES ASSUME Init PROVE Inv
    OBVIOUS
  <1>1. TypeOK
    <2>1. 0 \in 0..(CountWidth - 1) /\ 1 \in 0..(CountWidth - 1)
      BY WidthAssumption
    <2>2. /\ amplifying \in BOOLEAN /\ amplify_pin \in BOOLEAN
          /\ switch_pin \in BOOLEAN /\ buzzer_pin \in BOOLEAN
          /\ tangled \in BOOLEAN
      BY DEF Init
    <2>3. /\ pc \in [Tasks -> {"idle", "sound", "count"} \cup AmplifySteps]
          /\ on \in [Tasks -> BOOLEAN]
          /\ seen \in [Tasks -> 0..(CountWidth - 1)]
      BY <2>1 DEF Init
    <2>4. base \in 0..(CountWidth - 1) /\ since \in 1..CountWidth
      BY <2>1, WidthAssumption DEF Init
    <2> QED BY <2>1, <2>2, <2>3, <2>4 DEF Init, TypeOK
  <1>2. Amplifier
    BY DEF Init, Amplifier, AmplifiersAgree, AmplifierAgrees, AmplifySteps
  <1>3. SilentAtRest
    BY DEF Init, SilentAtRest
  <1>4. Counter
    BY WidthAssumption DEF Init, Counter, CountsBounded, CountAdvances, Advance
  <1> QED BY <1>1, <1>2, <1>3, <1>4 DEF Inv

\* Amplify: nobody else is in amplify(), or everybody wants the same.
LEMMA AmplifyHolds ==
    ASSUME Inv, NEW t \in Shells, NEW level \in BOOLEAN, Amplify(t, level)
    PROVE  Inv'
  <1> USE DEF Inv, Amplify, Tasks, Users
  <1>1. TypeOK'
    BY DEF TypeOK, AmplifySteps, counter
  <1>2. Amplifier'
    <2>1. AmplifiersAgree'
      <3> SUFFICES ASSUME ~tangled', NEW u \in Tasks, pc'[u] \in AmplifySteps
                   PROVE  Amplifies(u)'
        BY DEF AmplifiersAgree
      <3>1. CASE u = t
        BY <3>1 DEF TypeOK, Amplifies
      <3>2. CASE u # t
        <4>1. pc'[u] = pc[u] /\ on'[u] = on[u] /\ u \in In(AmplifySteps)
          BY <3>2 DEF TypeOK, In
        <4>2. on[u] = level /\ ~tangled
          BY <4>1
        <4>3. on[u] = amplifying /\ (pc[u] = "switch_pin" => amplify_pin = ~amplifying)
          BY <4>1, <4>2 DEF Amplifier, AmplifiersAgree, Amplifies, In
        <4> QED BY <4>1, <4>2, <4>3 DEF Amplifies
      <3> QED BY <3>1, <3>2
    <2>2. t \in In(AmplifySteps)'
      BY DEF In, AmplifySteps, TypeOK
    <2> QED BY <2>1, <2>2 DEF Amplifier, AmplifierAgrees
  <1>3. SilentAtRest'
    BY DEF SilentAtRest, In, TypeOK
  <1>4. Counter'
    BY DEF Counter, CountsBounded, CountAdvances, Advance, In, TypeOK, counter
  <1> QED BY <1>1, <1>2, <1>3, <1>4

\* AmplifyPin: the pin follows the caller's argument.
LEMMA AmplifyPinHolds ==
    ASSUME Inv, NEW t \in Shells, AmplifyPin(t)
    PROVE  Inv'
  <1> USE DEF Inv, AmplifyPin, Tasks, Users
  <1>1. TypeOK'
    BY DEF TypeOK, AmplifySteps, counter
  <1>2. Amplifier'
    <2>1. AmplifiersAgree'
      <3> SUFFICES ASSUME ~tangled, NEW u \in Tasks, pc'[u] \in AmplifySteps
                   PROVE  Amplifies(u)'
        BY DEF AmplifiersAgree
      <3>1. pc[u] \in AmplifySteps
        BY DEF TypeOK, AmplifySteps
      <3>2. on[u] = amplifying /\ on[t] = amplifying
        BY <3>1 DEF Amplifier, AmplifiersAgree, Amplifies, AmplifySteps
      <3> QED BY <3>2 DEF Amplifies
    <2>2. t \in In(AmplifySteps)'
      BY DEF In, AmplifySteps, TypeOK
    <2> QED BY <2>1, <2>2 DEF Amplifier, AmplifierAgrees
  <1>3. SilentAtRest'
    BY DEF SilentAtRest, In, TypeOK
  <1>4. Counter'
    BY DEF Counter, CountsBounded, CountAdvances, Advance, In, TypeOK, counter
  <1> QED BY <1>1, <1>2, <1>3, <1>4

\* SwitchPin: both pins have followed, also when others are on their way.
LEMMA SwitchPinHolds ==
    ASSUME Inv, NEW t \in Shells, SwitchPin(t)
    PROVE  Inv'
  <1> USE DEF Inv, SwitchPin, Tasks, Users
  <1>1. TypeOK'
    BY DEF TypeOK, counter
  <1>2. Amplifier'
    <2>1. AmplifiersAgree'
      <3> SUFFICES ASSUME ~tangled, NEW u \in Tasks, pc'[u] \in AmplifySteps
                   PROVE  Amplifies(u)'
        BY DEF AmplifiersAgree
      <3>1. pc'[u] = pc[u]
        BY DEF TypeOK, AmplifySteps
      <3> QED BY <3>1 DEF Amplifier, AmplifiersAgree, Amplifies
    <2>2. ASSUME ~tangled PROVE amplify_pin = ~amplifying /\ on[t] = amplifying
      BY <2>2 DEF Amplifier, AmplifiersAgree, Amplifies, AmplifySteps
    <2> QED BY <2>1, <2>2 DEF Amplifier, AmplifierAgrees
  <1>3. SilentAtRest'
    BY DEF SilentAtRest, In, TypeOK
  <1>4. Counter'
    BY DEF Counter, CountsBounded, CountAdvances, Advance, In, TypeOK, counter
  <1> QED BY <1>1, <1>2, <1>3, <1>4

\* The buzzer: the pin is high only while somebody sounds it.
LEMMA SoundHolds ==
    ASSUME Inv, NEW t \in Tasks, SoundStarts(t) \/ SoundStops(t)
    PROVE  Inv'
  <1> USE DEF Inv, SoundStarts, SoundStops, amplifier
  <1>1. TypeOK'
    BY DEF TypeOK, counter
  <1>2. Amplifier'
    <2>1. \A u \in Tasks : pc'[u] \in AmplifySteps <=> pc[u] \in AmplifySteps
      BY DEF TypeOK, AmplifySteps
    <2>2. \A u \in Tasks : pc'[u] = "switch_pin" => pc[u] = "switch_pin"
      BY DEF TypeOK
    <2>3. In(AmplifySteps)' = In(AmplifySteps)
      BY <2>1 DEF In
    <2>4. AmplifiersAgree'
      BY <2>1, <2>2 DEF Amplifier, AmplifiersAgree, Amplifies
    <2> QED BY <2>3, <2>4 DEF Amplifier, AmplifierAgrees
  <1>3. SilentAtRest'
    BY DEF SilentAtRest, In, TypeOK
  <1>4. Counter'
    <2>1. \A u \in Tasks : pc'[u] = "count" <=> pc[u] = "count"
      BY DEF TypeOK
    <2> QED BY <2>1 DEF Counter, CountsBounded, CountAdvances, Advance, In, counter
  <1> QED BY <1>1, <1>2, <1>3, <1>4

\* Count: an increment that begins at rest begins the count of them anew.
LEMMA CountHolds ==
    ASSUME Inv, NEW t \in Users, Count(t)
    PROVE  Inv'
  <1> USE DEF Inv, Count, Tasks, amplifier
  <1>1. TypeOK'
    <2>1. base' \in 0..(CountWidth - 1) /\ since' \in 1..CountWidth
      BY WidthAssumption DEF TypeOK
    <2> QED BY <2>1 DEF TypeOK
  <1>2. Amplifier'
    <2>1. \A u \in Tasks : pc'[u] \in AmplifySteps <=> pc[u] \in AmplifySteps
      BY DEF TypeOK, AmplifySteps
    <2>2. \A u \in Tasks : pc'[u] = "switch_pin" => pc[u] = "switch_pin"
      BY DEF TypeOK
    <2>3. In(AmplifySteps)' = In(AmplifySteps)
      BY <2>1 DEF In
    <2>4. AmplifiersAgree'
      BY <2>1, <2>2 DEF Amplifier, AmplifiersAgree, Amplifies
    <2> QED BY <2>3, <2>4 DEF Amplifier, AmplifierAgrees
  <1>3. SilentAtRest'
    BY DEF SilentAtRest, In, TypeOK
  <1>4. Counter'
    <2>1. t \in In({"count"})'
      BY DEF In, TypeOK
    <2>2. CASE In({"count"}) = {}
      <3>1. base' = reset_count /\ since' = 1 /\ reset_count' = reset_count
        BY <2>2
      <3>2. Advance(reset_count)' = 0
        BY <3>1 DEF Advance, TypeOK
      <3>3. \A u \in Tasks : pc'[u] = "count" => u = t /\ seen'[u] = reset_count'
        BY <2>2 DEF In, TypeOK
      <3>4. \A u \in Tasks : pc'[u] = "count" => Advance(seen[u])' = 0
        BY <3>2, <3>3 DEF Advance
      <3> QED BY <2>1, <3>1, <3>2, <3>4 DEF Counter, CountsBounded, CountAdvances
    <2>3. CASE In({"count"}) # {}
      <3>1. base' = base /\ reset_count' = reset_count
        BY <2>3
      <3> SUFFICES ASSUME since' < CountWidth PROVE CountsBounded'
        BY <2>1 DEF Counter, CountsBounded, CountAdvances
      <3>2. since \in Nat /\ since < CountWidth /\ since' = since + 1
        BY <2>3, WidthAssumption DEF TypeOK
      <3>3. /\ Advance(reset_count) <= since
            /\ \A u \in Tasks : pc[u] = "count" => Advance(seen[u]) + 1 <= since
        BY <3>2 DEF Counter, CountsBounded
      <3>4. /\ Advance(reset_count) \in 0..(CountWidth - 1)
            /\ \A u \in Tasks : Advance(seen[u]) \in 0..(CountWidth - 1)
        BY AdvanceType DEF TypeOK
      <3>5. /\ Advance(reset_count)' = Advance(reset_count)
            /\ \A u \in Tasks : Advance(seen[u])' =
                  IF u = t THEN Advance(reset_count) ELSE Advance(seen[u])
        BY <3>1 DEF Advance, TypeOK
      <3> QED BY <3>2, <3>3, <3>4, <3>5 DEF CountsBounded, TypeOK
    <2> QED BY <2>2, <2>3
  <1> QED BY <1>1, <1>2, <1>3, <1>4

\* Counted: it writes a count further than it has seen.
LEMMA CountedHolds ==
    ASSUME Inv, NEW t \in Users, Counted(t)
    PROVE  Inv'
  <1> USE DEF Inv, Counted, Tasks, amplifier
  <1>1. TypeOK'
    <2>1. (seen[t] + 1) % CountWidth \in 0..(CountWidth - 1)
      BY CountWraps DEF TypeOK
    <2> QED BY <2>1 DEF TypeOK
  <1>2. Amplifier'
    <2>1. \A u \in Tasks : pc'[u] \in AmplifySteps <=> pc[u] \in AmplifySteps
      BY DEF TypeOK, AmplifySteps
    <2>2. \A u \in Tasks : pc'[u] = "switch_pin" => pc[u] = "switch_pin"
      BY DEF TypeOK
    <2>3. In(AmplifySteps)' = In(AmplifySteps)
      BY <2>1 DEF In
    <2>4. AmplifiersAgree'
      BY <2>1, <2>2 DEF Amplifier, AmplifiersAgree, Amplifies
    <2> QED BY <2>3, <2>4 DEF Amplifier, AmplifierAgrees
  <1>3. SilentAtRest'
    BY DEF SilentAtRest, In, TypeOK
  <1>4. Counter'
    <2> SUFFICES ASSUME since < CountWidth PROVE Counter'
      BY DEF Counter, CountsBounded, CountAdvances
    <2>1. /\ since \in Nat /\ since' = since /\ base' = base /\ CountWidth \in Nat
          /\ seen[t] \in 0..(CountWidth - 1) /\ base \in 0..(CountWidth - 1)
      BY WidthAssumption DEF TypeOK
    <2>2. Advance(seen[t]) + 1 <= since /\ Advance(seen[t]) \in 0..(CountWidth - 1)
      BY <2>1, AdvanceType DEF Counter, CountsBounded
    <2>3. Advance((seen[t] + 1) % CountWidth) = Advance(seen[t]) + 1
      BY <2>1, <2>2, AdvanceSteps
    <2>4. Advance(reset_count)' = Advance(seen[t]) + 1
      BY <2>1, <2>3 DEF Advance
    <2>5. \A u \in Tasks : pc'[u] = "count" => Advance(seen[u])' + 1 <= since
      <3>1. \A u \in Tasks : pc'[u] = "count" => pc[u] = "count"
        BY DEF TypeOK
      <3>2. \A u \in Tasks : Advance(seen[u])' = Advance(seen[u])
        BY <2>1 DEF Advance
      <3> QED BY <3>1, <3>2 DEF Counter, CountsBounded
    <2>6. Advance(reset_count)' \in 1..since
      BY <2>1, <2>2, <2>4
    <2> QED BY <2>1, <2>5, <2>6 DEF Counter, CountsBounded, CountAdvances
  <1> QED BY <1>1, <1>2, <1>3, <1>4

\* Every step keeps the invariant.
LEMMA NextHolds == Inv /\ [Next]_vars => Inv'
  <1> SUFFICES ASSUME Inv, [Next]_vars PROVE Inv'
    OBVIOUS
  <1>1. ASSUME NEW t \in Shells, NEW level \in BOOLEAN, Amplify(t, level)
        PROVE  Inv'
    BY <1>1, AmplifyHolds
  <1>2. ASSUME NEW t \in Shells, AmplifyPin(t) PROVE Inv'
    BY <1>2, AmplifyPinHolds
  <1>3. ASSUME NEW t \in Shells, SwitchPin(t) PROVE Inv'
    BY <1>3, SwitchPinHolds
  <1>4. ASSUME NEW t \in Users, Buzz(t) \/ BuzzEnds(t) PROVE Inv'
    BY <1>4, SoundHolds DEF Buzz, BuzzEnds, Tasks
  <1>5. CASE ToggleBuzzer
    BY <1>5, SoundHolds DEF ToggleBuzzer, Tasks
  <1>6. ASSUME NEW t \in Users, Count(t) PROVE Inv'
    BY <1>6, CountHolds
  <1>7. ASSUME NEW t \in Users, Counted(t) PROVE Inv'
    BY <1>7, CountedHolds
  <1>8. CASE UNCHANGED vars
    BY <1>8 DEF vars, Inv, TypeOK, Amplifier, AmplifiersAgree, Amplifies,
                AmplifierAgrees, SilentAtRest, Counter, CountsBounded,
                CountAdvances, Advance, In
  <1> QED BY <1>1, <1>2, <1>3, <1>4, <1>5, <1>6, <1>7, <1>8 DEF Next

-----------------------------------------------------------------------------

\* The inductive invariant holds in every reachable state.
THEOREM Invariance == Spec => []Inv
  <1>1. Init => Inv
    BY InitHolds
  <1>2. Inv /\ [Next]_vars => Inv'
    BY NextHolds
  <1> QED BY <1>1, <1>2, PTL DEF Spec

\* Every variable keeps its type; the count wraps within its width.
THEOREM TypeCorrect == Spec => []TypeOK
  <1>1. Inv => TypeOK
    BY DEF Inv
  <1> QED BY <1>1, Invariance, PTL

\* MeshRoof::amplify, buzz and toggleBuzzer: flag, amplifier and antenna switch
\* agree at rest, for any number of shells, unless calls that ask for different
\* things overlapped; and no interleaving leaves the buzzer on.
THEOREM PinsAreRight == Spec => []PinsAtRest
  <1>1. Inv => PinsAtRest
    BY DEF Inv, Amplifier, PinsAtRest
  <1> QED BY <1>1, Invariance, PTL

\* MeshRoof::reset: however many increments overlap, for any number of shells
\* and any width of the count, it has advanced when they are done, by no more
\* than their number, as long as these are fewer than the count has values.
THEOREM CountIsHonest == Spec => []CountAdvances
  <1>1. Inv => CountAdvances
    BY DEF Inv, Counter
  <1> QED BY <1>1, Invariance, PTL
=============================================================================
