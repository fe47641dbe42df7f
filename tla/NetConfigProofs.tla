-------------------------- MODULE NetConfigProofs --------------------------
(***************************************************************************)
(* For any number of shells and any addresses: the interface follows what  *)
(* was set, and a restart brings the same.                                 *)
(*                                                                         *)
(* The argument: as long as no field was set in the middle of an apply,    *)
(* every task in applyNetIf() has read what the fields still hold (Views), *)
(* so what the tasks in it have left to do makes the interface follow the  *)
(* fields, whichever of them is the last (SetUp).                          *)
(***************************************************************************)
EXTENDS NetConfig, TLAPS

\* What can be left of a command.
Edits ==
    {<<Set("ip", a), Set("netmask", m), Do("save"), Do("check")>> :
        a \in Addresses, m \in Addresses}
    \cup {<<Set(f, a), Do("save"), Do("check")>> : f \in Fields, a \in Addresses}
    \cup {<<Set(f, a), Do("save")>> : f \in Fields, a \in Addresses}

Remainders ==
    {<<Do("save"), Do("check")>>, <<Do("save")>>, <<Do("check")>>, <<>>,
     <<Do("dhcp")>>,
     <<Do("stop"), Read("ip"), Read("netmask"), Read("dns"), Do("ip"), Do("dns")>>,
     <<Read("ip"), Read("netmask"), Read("dns"), Do("ip"), Do("dns")>>,
     <<Read("netmask"), Read("dns"), Do("ip"), Do("dns")>>,
     <<Read("dns"), Do("ip"), Do("dns")>>,
     <<Do("ip"), Do("dns")>>,
     <<Do("dns")>>}

Shapes == Edits \cup Remainders

\* The statement a task is at; the reads are told apart by their field.
Stage(s) ==
    IF s = <<>> THEN "idle"
    ELSE IF Head(s).step # "read" THEN Head(s).step
    ELSE IF Head(s).field = "ip" THEN "read_ip"
    ELSE IF Head(s).field = "netmask" THEN "read_netmask" ELSE "read_dns"

S(t) == Stage(todo[t])

AfterStop == {"read_ip", "read_netmask", "read_dns", "ip", "dns"}
Static == {"stop"} \cup AfterStop

Types ==
    /\ body \in Settings /\ stored \in Settings /\ netif \in Settings
    /\ dhcp \in BOOLEAN
    /\ local \in [Tasks -> Settings]
    /\ dirty \in BOOLEAN /\ raced \in BOOLEAN /\ unsaved \in BOOLEAN

Shaped == todo \in [Tasks -> Shapes]

\* What t in applyNetIf() has read is what the fields hold.
View(t) ==
    /\ S(t) = "dhcp" => body["ip"] = Zero
    /\ S(t) \in Static => body["ip"] # Zero
    /\ S(t) \in AfterStop => ~dhcp
    /\ S(t) \in {"read_netmask", "read_dns", "ip"} =>
          local[t]["ip"] = body["ip"]
    /\ S(t) \in {"read_dns", "ip"} => local[t]["netmask"] = body["netmask"]
    /\ S(t) \in {"ip", "dns"} => local[t]["dns"] = body["dns"]

Views == ~raced => \A t \in Tasks : View(t)

\* The interface follows the fields, or somebody still has to see to it.
SetUp ==
    ~dirty /\ ~raced =>
        /\ body["ip"] = Zero => dhcp \/ \E t \in Tasks : S(t) = "dhcp"
        /\ body["ip"] # Zero =>
              /\ ~dhcp \/ \E t \in Tasks : S(t) = "stop"
              /\ \/ netif["ip"] = body["ip"] /\ netif["netmask"] = body["netmask"]
                 \/ \E t \in Tasks : S(t) \in Static \ {"dns"}
              /\ \/ body["dns"] # Zero => netif["dns"] = body["dns"]
                 \/ \E t \in Tasks : S(t) \in Static

\* What is not saved was left behind, or is about to be saved.
Pending ==
    body # stored => unsaved \/ \E t \in Tasks : S(t) \in {"set", "save"}

IInv == Types /\ Shaped /\ Views /\ SetUp /\ Pending
-----------------------------------------------------------------------------
(* Remainders of commands                                                  *)

\* A statement of either kind has its fields.
LEMMA StatementFields ==
    /\ \A f \in Fields, a \in Addresses :
          /\ Set(f, a) \in Statements
          /\ Set(f, a).step = "set" /\ Set(f, a).field = f /\ Set(f, a).value = a
    /\ \A n \in {"save", "check", "dhcp", "stop", "ip", "dns"} :
          Do(n) \in Statements /\ Do(n).step = n
    /\ \A f \in Fields :
          Read(f) \in Statements /\ Read(f).step = "read" /\ Read(f).field = f
  <1>1. Zero \in Addresses
    BY AddressAssumption
  <1> QED
    BY <1>1 DEF Set, Do, Read, Statements, Fields

\* Short sequences have their heads.
LEMMA One ==
    ASSUME NEW a, NEW s, s = <<a>>
    PROVE  s # <<>> /\ Head(s) = a
  OBVIOUS

LEMMA Two ==
    ASSUME NEW a, NEW b, NEW s, s = <<a, b>>
    PROVE  s # <<>> /\ Head(s) = a
  OBVIOUS

LEMMA Three ==
    ASSUME NEW a, NEW b, NEW c, NEW s, s = <<a, b, c>>
    PROVE  s # <<>> /\ Head(s) = a
  OBVIOUS

\* An edit is followed by another, or by the save.
LEMMA EditMoves ==
    ASSUME NEW s \in Edits
    PROVE  /\ s # <<>> /\ s \in Seq(Statements)
           /\ Head(s).step = "set" /\ Head(s).field \in Fields
           /\ Head(s).value \in Addresses
           /\ Tail(s) \in Shapes
           /\ Stage(Tail(s)) \in {"set", "save"}
  <1>1. CASE \E a \in Addresses, m \in Addresses :
               s = <<Set("ip", a), Set("netmask", m), Do("save"), Do("check")>>
    <2>1. PICK a \in Addresses, m \in Addresses :
                 s = <<Set("ip", a), Set("netmask", m), Do("save"), Do("check")>>
      BY <1>1
    <2>2. Head(s) = Set("ip", a)
      BY <2>1
    <2>3. Tail(s) = <<Set("netmask", m), Do("save"), Do("check")>>
      BY <2>1
    <2>4. Head(Tail(s)) = Set("netmask", m) /\ Tail(s) # <<>>
      BY <2>3, Three
    <2>5. s \in Seq(Statements) /\ s # <<>>
      BY <2>1, StatementFields DEF Fields
    <2>6. Tail(s) \in Edits
      BY <2>3 DEF Edits, Fields
    <2> QED
      BY <2>2, <2>4, <2>5, <2>6, StatementFields DEF Stage, Fields, Shapes
  <1>2. CASE \E f \in Fields, a \in Addresses :
               s = <<Set(f, a), Do("save"), Do("check")>>
    <2>1. PICK f \in Fields, a \in Addresses :
                 s = <<Set(f, a), Do("save"), Do("check")>>
      BY <1>2
    <2>2. Head(s) = Set(f, a)
      BY <2>1
    <2>3. Tail(s) = <<Do("save"), Do("check")>>
      BY <2>1
    <2>4. Head(Tail(s)) = Do("save") /\ Tail(s) # <<>>
      BY <2>3, Two
    <2>5. s \in Seq(Statements) /\ s # <<>>
      BY <2>1, StatementFields
    <2> QED
      BY <2>2, <2>3, <2>4, <2>5, StatementFields DEF Stage, Shapes, Remainders
  <1>3. CASE \E f \in Fields, a \in Addresses : s = <<Set(f, a), Do("save")>>
    <2>1. PICK f \in Fields, a \in Addresses : s = <<Set(f, a), Do("save")>>
      BY <1>3
    <2>2. Head(s) = Set(f, a)
      BY <2>1
    <2>3. Tail(s) = <<Do("save")>>
      BY <2>1
    <2>4. Head(Tail(s)) = Do("save") /\ Tail(s) # <<>>
      BY <2>3, One
    <2>5. s \in Seq(Statements) /\ s # <<>>
      BY <2>1, StatementFields
    <2> QED
      BY <2>2, <2>3, <2>4, <2>5, StatementFields DEF Stage, Shapes, Remainders
  <1> QED
    BY <1>1, <1>2, <1>3 DEF Edits

\* What follows each statement of the other remainders.
LEMMA RemainderMoves ==
    ASSUME NEW s \in Remainders
    PROVE  /\ s \in Seq(Statements)
           /\ s # <<>> => Tail(s) \in Remainders
           /\ Stage(s) \in {"idle", "save", "check", "dhcp"} \cup Static
           /\ Stage(s) = "idle" => s = <<>>
           /\ Stage(s) = "save" => Stage(Tail(s)) \in {"check", "idle"}
           /\ Stage(s) \in {"check", "dhcp", "dns"} => Stage(Tail(s)) = "idle"
           /\ Stage(s) = "stop" => Stage(Tail(s)) = "read_ip"
           /\ Stage(s) = "read_ip" => Stage(Tail(s)) = "read_netmask"
           /\ Stage(s) = "read_netmask" => Stage(Tail(s)) = "read_dns"
           /\ Stage(s) = "read_dns" => Stage(Tail(s)) = "ip"
           /\ Stage(s) = "ip" => Stage(Tail(s)) = "dns"
  <1>1. CASE s = <<Do("save"), Do("check")>>
    <2>1. s # <<>> /\ Head(s) = Do("save") /\ Tail(s) = <<Do("check")>>
      BY <1>1
    <2>2. s \in Seq(Statements)
      BY <1>1, StatementFields DEF Fields
    <2>3. Stage(s) = "save"
      BY <2>1, StatementFields DEF Stage, Fields
    <2>4. ASSUME NEW r, r = <<Do("check")>> PROVE Stage(r) = "check"
      <3>1. r # <<>> /\ Head(r) = Do("check")
        BY <2>4
      <3> QED
        BY <3>1, StatementFields DEF Stage, Fields
    <2>5. Stage(Tail(s)) = "check"
      BY <2>1, <2>4
    <2>6. Tail(s) \in Remainders
      BY <2>1 DEF Remainders
    <2> QED
      BY <2>2, <2>3, <2>5, <2>6 DEF Static, AfterStop
  <1>2. CASE s = <<Do("save")>>
    <2>1. s # <<>> /\ Head(s) = Do("save") /\ Tail(s) = <<>>
      BY <1>2
    <2>2. s \in Seq(Statements)
      BY <1>2, StatementFields DEF Fields
    <2>3. Stage(s) = "save"
      BY <2>1, StatementFields DEF Stage, Fields
    <2>5. Stage(Tail(s)) = "idle"
      BY <2>1 DEF Stage
    <2>6. Tail(s) \in Remainders
      BY <2>1 DEF Remainders
    <2> QED
      BY <2>2, <2>3, <2>5, <2>6 DEF Static, AfterStop
  <1>3. CASE s = <<Do("check")>>
    <2>1. s # <<>> /\ Head(s) = Do("check") /\ Tail(s) = <<>>
      BY <1>3
    <2>2. s \in Seq(Statements)
      BY <1>3, StatementFields DEF Fields
    <2>3. Stage(s) = "check"
      BY <2>1, StatementFields DEF Stage, Fields
    <2>5. Stage(Tail(s)) = "idle"
      BY <2>1 DEF Stage
    <2>6. Tail(s) \in Remainders
      BY <2>1 DEF Remainders
    <2> QED
      BY <2>2, <2>3, <2>5, <2>6 DEF Static, AfterStop
  <1>4. CASE s = <<Do("dhcp")>>
    <2>1. s # <<>> /\ Head(s) = Do("dhcp") /\ Tail(s) = <<>>
      BY <1>4
    <2>2. s \in Seq(Statements)
      BY <1>4, StatementFields DEF Fields
    <2>3. Stage(s) = "dhcp"
      BY <2>1, StatementFields DEF Stage, Fields
    <2>5. Stage(Tail(s)) = "idle"
      BY <2>1 DEF Stage
    <2>6. Tail(s) \in Remainders
      BY <2>1 DEF Remainders
    <2> QED
      BY <2>2, <2>3, <2>5, <2>6 DEF Static, AfterStop
  <1>5. CASE s = <<Do("stop"), Read("ip"), Read("netmask"), Read("dns"), Do("ip"), Do("dns")>>
    <2>1. s # <<>> /\ Head(s) = Do("stop") /\ Tail(s) = <<Read("ip"), Read("netmask"), Read("dns"), Do("ip"), Do("dns")>>
      BY <1>5
    <2>2. s \in Seq(Statements)
      BY <1>5, StatementFields DEF Fields
    <2>3. Stage(s) = "stop"
      BY <2>1, StatementFields DEF Stage, Fields
    <2>4. ASSUME NEW r, r = <<Read("ip"), Read("netmask"), Read("dns"), Do("ip"), Do("dns")>> PROVE Stage(r) = "read_ip"
      <3>1. r # <<>> /\ Head(r) = Read("ip")
        BY <2>4
      <3> QED
        BY <3>1, StatementFields DEF Stage, Fields
    <2>5. Stage(Tail(s)) = "read_ip"
      BY <2>1, <2>4
    <2>6. Tail(s) \in Remainders
      BY <2>1 DEF Remainders
    <2> QED
      BY <2>2, <2>3, <2>5, <2>6 DEF Static, AfterStop
  <1>6. CASE s = <<Read("ip"), Read("netmask"), Read("dns"), Do("ip"), Do("dns")>>
    <2>1. s # <<>> /\ Head(s) = Read("ip") /\ Tail(s) = <<Read("netmask"), Read("dns"), Do("ip"), Do("dns")>>
      BY <1>6
    <2>2. s \in Seq(Statements)
      BY <1>6, StatementFields DEF Fields
    <2>3. Stage(s) = "read_ip"
      BY <2>1, StatementFields DEF Stage, Fields
    <2>4. ASSUME NEW r, r = <<Read("netmask"), Read("dns"), Do("ip"), Do("dns")>> PROVE Stage(r) = "read_netmask"
      <3>1. r # <<>> /\ Head(r) = Read("netmask")
        BY <2>4
      <3> QED
        BY <3>1, StatementFields DEF Stage, Fields
    <2>5. Stage(Tail(s)) = "read_netmask"
      BY <2>1, <2>4
    <2>6. Tail(s) \in Remainders
      BY <2>1 DEF Remainders
    <2> QED
      BY <2>2, <2>3, <2>5, <2>6 DEF Static, AfterStop
  <1>7. CASE s = <<Read("netmask"), Read("dns"), Do("ip"), Do("dns")>>
    <2>1. s # <<>> /\ Head(s) = Read("netmask") /\ Tail(s) = <<Read("dns"), Do("ip"), Do("dns")>>
      BY <1>7
    <2>2. s \in Seq(Statements)
      BY <1>7, StatementFields DEF Fields
    <2>3. Stage(s) = "read_netmask"
      BY <2>1, StatementFields DEF Stage, Fields
    <2>4. ASSUME NEW r, r = <<Read("dns"), Do("ip"), Do("dns")>> PROVE Stage(r) = "read_dns"
      <3>1. r # <<>> /\ Head(r) = Read("dns")
        BY <2>4
      <3> QED
        BY <3>1, StatementFields DEF Stage, Fields
    <2>5. Stage(Tail(s)) = "read_dns"
      BY <2>1, <2>4
    <2>6. Tail(s) \in Remainders
      BY <2>1 DEF Remainders
    <2> QED
      BY <2>2, <2>3, <2>5, <2>6 DEF Static, AfterStop
  <1>8. CASE s = <<Read("dns"), Do("ip"), Do("dns")>>
    <2>1. s # <<>> /\ Head(s) = Read("dns") /\ Tail(s) = <<Do("ip"), Do("dns")>>
      BY <1>8
    <2>2. s \in Seq(Statements)
      BY <1>8, StatementFields DEF Fields
    <2>3. Stage(s) = "read_dns"
      BY <2>1, StatementFields DEF Stage, Fields
    <2>4. ASSUME NEW r, r = <<Do("ip"), Do("dns")>> PROVE Stage(r) = "ip"
      <3>1. r # <<>> /\ Head(r) = Do("ip")
        BY <2>4
      <3> QED
        BY <3>1, StatementFields DEF Stage, Fields
    <2>5. Stage(Tail(s)) = "ip"
      BY <2>1, <2>4
    <2>6. Tail(s) \in Remainders
      BY <2>1 DEF Remainders
    <2> QED
      BY <2>2, <2>3, <2>5, <2>6 DEF Static, AfterStop
  <1>9. CASE s = <<Do("ip"), Do("dns")>>
    <2>1. s # <<>> /\ Head(s) = Do("ip") /\ Tail(s) = <<Do("dns")>>
      BY <1>9
    <2>2. s \in Seq(Statements)
      BY <1>9, StatementFields DEF Fields
    <2>3. Stage(s) = "ip"
      BY <2>1, StatementFields DEF Stage, Fields
    <2>4. ASSUME NEW r, r = <<Do("dns")>> PROVE Stage(r) = "dns"
      <3>1. r # <<>> /\ Head(r) = Do("dns")
        BY <2>4
      <3> QED
        BY <3>1, StatementFields DEF Stage, Fields
    <2>5. Stage(Tail(s)) = "dns"
      BY <2>1, <2>4
    <2>6. Tail(s) \in Remainders
      BY <2>1 DEF Remainders
    <2> QED
      BY <2>2, <2>3, <2>5, <2>6 DEF Static, AfterStop
  <1>10. CASE s = <<Do("dns")>>
    <2>1. s # <<>> /\ Head(s) = Do("dns") /\ Tail(s) = <<>>
      BY <1>10
    <2>2. s \in Seq(Statements)
      BY <1>10, StatementFields DEF Fields
    <2>3. Stage(s) = "dns"
      BY <2>1, StatementFields DEF Stage, Fields
    <2>5. Stage(Tail(s)) = "idle"
      BY <2>1 DEF Stage
    <2>6. Tail(s) \in Remainders
      BY <2>1 DEF Remainders
    <2> QED
      BY <2>2, <2>3, <2>5, <2>6 DEF Static, AfterStop
  <1>11. CASE s = <<>>
    BY <1>11 DEF Stage
  <1> QED
    BY <1>1, <1>2, <1>3, <1>4, <1>5, <1>6, <1>7, <1>8, <1>9, <1>10, <1>11 DEF Remainders

\* y follows x.
After(x, y) ==
    /\ x = "set" => y \in {"set", "save"}
    /\ x = "save" => y \in {"check", "idle"}
    /\ x \in {"check", "dhcp", "dns"} => y = "idle"
    /\ x = "stop" => y = "read_ip"
    /\ x = "read_ip" => y = "read_netmask"
    /\ x = "read_netmask" => y = "read_dns"
    /\ x = "read_dns" => y = "ip"
    /\ x = "ip" => y = "dns"

\* What is left of a command is such a remainder again.
LEMMA Moves ==
    ASSUME NEW s \in Shapes
    PROVE  /\ s \in Seq(Statements)
           /\ Stage(s) \in {"idle", "set", "save", "check", "dhcp"} \cup Static
           /\ Stage(s) = "idle" <=> s = <<>>
           /\ s # <<>> => Tail(s) \in Shapes /\ After(Stage(s), Stage(Tail(s)))
           /\ Stage(s) = "set" =>
                 Head(s).field \in Fields /\ Head(s).value \in Addresses
  <1>1. CASE s \in Edits
    <2>1. Stage(s) = "set"
      BY <1>1, EditMoves DEF Stage
    <2> QED
      BY <1>1, <2>1, EditMoves DEF After
  <1>2. CASE s \in Remainders
    <2>1. Stage(s) # "set"
      BY <1>2, RemainderMoves DEF Static, AfterStop
    <2>2. s = <<>> => Stage(s) = "idle"
      BY DEF Stage
    <2>3. s # <<>> => Tail(s) \in Shapes
      BY <1>2, RemainderMoves DEF Shapes
    <2>4. After(Stage(s), Stage(Tail(s)))
      BY <1>2, <2>1, RemainderMoves DEF After
    <2> QED
      BY <1>2, <2>1, <2>2, <2>3, <2>4, RemainderMoves
  <1> QED
    BY <1>1, <1>2 DEF Shapes

\* Where a task is, in the words of the specification.
LEMMA Where ==
    ASSUME NEW t \in Tasks, Shaped
    PROVE  /\ todo[t] \in Shapes
           /\ \A n \in {"set", "save", "check", "dhcp", "stop", "ip", "dns"} :
                 At(t, n) <=> S(t) = n
           /\ At(t, "read") <=> S(t) \in {"read_ip", "read_netmask", "read_dns"}
           /\ S(t) = "read_ip" => Head(todo[t]).field = "ip"
           /\ S(t) = "read_netmask" => Head(todo[t]).field = "netmask"
           /\ S(t) = "read_dns" => Head(todo[t]).field = "dns"
           /\ Applying(t) <=> S(t) \in {"dhcp"} \cup Static
           /\ todo[t] = <<>> <=> S(t) = "idle"
  <1>1. todo[t] \in Shapes
    BY DEF Shaped
  <1>2. todo[t] \in Seq(Statements) /\ (todo[t] = <<>> <=> S(t) = "idle")
    BY <1>1, Moves DEF S
  <1>3. todo[t] # <<>> =>
           /\ Head(todo[t]) \in Statements
           /\ Head(todo[t]).field \in Fields
           /\ Head(todo[t]).step \in
                 {"set", "save", "check", "dhcp", "stop", "read", "ip", "dns"}
    <2>1. todo[t] # <<>> => Head(todo[t]) \in Statements
      BY <1>2
    <2> QED
      BY <2>1 DEF Statements
  <1>4. /\ \A n \in {"set", "save", "check", "dhcp", "stop", "ip", "dns"} :
              At(t, n) <=> S(t) = n
        /\ At(t, "read") <=> S(t) \in {"read_ip", "read_netmask", "read_dns"}
    BY <1>3 DEF At, S, Stage
  <1>5. /\ S(t) = "read_ip" => Head(todo[t]).field = "ip"
        /\ S(t) = "read_netmask" => Head(todo[t]).field = "netmask"
        /\ S(t) = "read_dns" => Head(todo[t]).field = "dns"
    BY <1>3 DEF S, Stage, Fields
  <1>6. Applying(t) <=> S(t) \in {"dhcp"} \cup Static
    BY <1>4 DEF Applying, Static, AfterStop
  <1> QED
    BY <1>1, <1>2, <1>4, <1>5, <1>6

\* A task goes on, and the others stay where they are.
LEMMA Going ==
    ASSUME NEW t \in Tasks, Shaped, S(t) # "idle", Goes(t)
    PROVE  /\ Shaped'
           /\ After(S(t), S(t)')
           /\ \A u \in Tasks \ {t} : S(u)' = S(u)
  <1>1. todo[t] \in Shapes /\ todo[t] # <<>>
    BY Where
  <1>2. Tail(todo[t]) \in Shapes /\ After(Stage(todo[t]), Stage(Tail(todo[t])))
    BY <1>1, Moves
  <1>3. todo' = [todo EXCEPT ![t] = Tail(todo[t])]
    BY DEF Goes
  <1>4. todo'[t] = Tail(todo[t]) /\ \A u \in Tasks \ {t} : todo'[u] = todo[u]
    BY <1>3 DEF Shaped
  <1>5. Shaped'
    BY <1>2, <1>3 DEF Shaped
  <1> QED
    BY <1>2, <1>4, <1>5 DEF S

\* A task gets something else to do, or nothing.
LEMMA Turning ==
    ASSUME NEW t \in Tasks, Shaped, NEW s \in Shapes,
           todo' = [todo EXCEPT ![t] = s]
    PROVE  /\ Shaped'
           /\ S(t)' = Stage(s)
           /\ \A u \in Tasks \ {t} : S(u)' = S(u)
  <1>1. todo'[t] = s /\ \A u \in Tasks \ {t} : todo'[u] = todo[u]
    BY DEF Shaped
  <1>2. Shaped'
    BY DEF Shaped
  <1> QED
    BY <1>1, <1>2 DEF S

\* A command that is given up, that turns to the interface, or that begins.
LEMMA Beginnings ==
    /\ <<>> \in Shapes /\ Stage(<<>>) = "idle"
    /\ <<Do("check")>> \in Shapes /\ Stage(<<Do("check")>>) = "check"
    /\ <<Do("dhcp")>> \in Shapes /\ Stage(<<Do("dhcp")>>) = "dhcp"
    /\ StaticIp \in Shapes
    /\ Stage(StaticIp) = "stop"
  <1>1. <<>> \in Shapes /\ Stage(<<>>) = "idle"
    BY DEF Shapes, Remainders, Stage
  <1>2. <<Do("check")>> \in Shapes /\ Stage(<<Do("check")>>) = "check"
    <2>1. <<Do("check")>> \in Shapes
      BY DEF Shapes, Remainders
    <2>2. ASSUME NEW r, r = <<Do("check")>> PROVE Stage(r) = "check"
      <3>1. r # <<>> /\ Head(r) = Do("check")
        BY <2>2
      <3> QED
        BY <3>1, StatementFields DEF Stage
    <2> QED
      BY <2>1, <2>2
  <1>3. <<Do("dhcp")>> \in Shapes /\ Stage(<<Do("dhcp")>>) = "dhcp"
    <2>1. <<Do("dhcp")>> \in Shapes
      BY DEF Shapes, Remainders
    <2>2. ASSUME NEW r, r = <<Do("dhcp")>> PROVE Stage(r) = "dhcp"
      <3>1. r # <<>> /\ Head(r) = Do("dhcp")
        BY <2>2
      <3> QED
        BY <3>1, StatementFields DEF Stage
    <2> QED
      BY <2>1, <2>2
  <1>4. ASSUME NEW r, r = StaticIp
        PROVE  r \in Shapes /\ Stage(r) = "stop"
    <2>1. r \in Shapes
      BY <1>4 DEF StaticIp, Shapes, Remainders
    <2>2. r # <<>> /\ Head(r) = Do("stop")
      BY <1>4 DEF StaticIp
    <2> QED
      BY <2>1, <2>2, StatementFields DEF Stage
  <1> QED
    BY <1>1, <1>2, <1>3, <1>4

\* The commands begin with an edit or a check.
LEMMA CommandShapes ==
    ASSUME NEW cmd \in Commands
    PROVE  cmd \in Shapes /\ Stage(cmd) \in {"set", "check"}
  <1>1. Zero \in Addresses /\ \A f \in Fields : Choices(f) \subseteq Addresses
    BY AddressAssumption DEF Choices
  <1>2. cmd \in Edits \/ cmd = <<Do("check")>>
    <2>1. CASE \E a \in Addresses, m \in Addresses :
                 cmd = <<Set("ip", a), Set("netmask", m), Do("save"), Do("check")>>
      BY <2>1 DEF Edits
    <2>2. CASE cmd = <<Set("ip", Zero), Do("save"), Do("check")>>
      BY <1>1, <2>2 DEF Edits, Fields
    <2>3. CASE \E f \in Fields : \E a \in Choices(f) :
                 cmd = <<Set(f, a), Do("save")>>
      <3>1. PICK f \in Fields, a \in Addresses : cmd = <<Set(f, a), Do("save")>>
        BY <1>1, <2>3
      <3> QED
        BY <3>1 DEF Edits
    <2>4. CASE cmd = <<Do("check")>>
      BY <2>4
    <2> QED
      BY <2>1, <2>2, <2>3, <2>4 DEF Commands
  <1>3. cmd \in Edits => Stage(cmd) = "set"
    BY EditMoves DEF Stage
  <1> QED
    BY <1>2, <1>3, Beginnings DEF Shapes
-----------------------------------------------------------------------------
(* The invariant                                                           *)

LEMMA InitHolds == Init => IInv
  <1> SUFFICES ASSUME Init PROVE IInv
    OBVIOUS
  <1>1. NoAddresses \in Settings
    BY AddressAssumption DEF NoAddresses, Settings
  <1>2. Types
    BY <1>1 DEF Init, Types
  <1>3. Shaped
    BY Beginnings DEF Init, Shaped
  <1>4. \A t \in Tasks : S(t) \in {"idle", "check"}
    BY Beginnings DEF Init, S
  <1>5. Views
    BY <1>4 DEF Views, View, Static, AfterStop
  <1> QED
    BY <1>2, <1>3, <1>5 DEF IInv, Init, SetUp, Pending

\* A command begins.
LEMMA CommandKeeps ==
    ASSUME IInv, NEW t \in Tasks, Command(t) PROVE IInv'
  <1>1. S(t) = "idle"
    BY Where DEF Command, IInv
  <1>2. PICK cmd \in Commands : todo' = [todo EXCEPT ![t] = cmd]
    BY DEF Command
  <1>3. /\ Shaped' /\ S(t)' \in {"set", "check"}
        /\ \A u \in Tasks \ {t} : S(u)' = S(u)
    BY <1>2, CommandShapes, Turning DEF IInv
  <1>4. Types'
    BY DEF IInv, Types, Command
  <1>5. Views'
    BY <1>3 DEF IInv, Views, View, Static, AfterStop, Command
  <1>6. SetUp'
    BY <1>1, <1>3 DEF IInv, SetUp, Static, AfterStop, Command
  <1>7. Pending'
    BY <1>1, <1>3 DEF IInv, Pending, Command
  <1> QED
    BY <1>3, <1>4, <1>5, <1>6, <1>7 DEF IInv

\* A field is set: from now on nobody who was applying counts.
LEMMA SetFieldKeeps ==
    ASSUME IInv, NEW t \in Tasks, SetField(t) PROVE IInv'
  <1>1. S(t) = "set"
    BY Where DEF SetField, IInv
  <1>2. /\ Shaped' /\ S(t)' \in {"set", "save"}
        /\ \A u \in Tasks \ {t} : S(u)' = S(u)
    BY <1>1, Going DEF IInv, SetField, After
  <1>3. Head(todo[t]).field \in Fields /\ Head(todo[t]).value \in Addresses
    BY <1>1, Where, Moves DEF IInv, S
  <1>4. Types'
    BY <1>3 DEF IInv, Types, SetField, Settings
  <1>5. Views'
    <2> SUFFICES ASSUME ~raced', NEW u \in Tasks PROVE View(u)'
      BY DEF Views
    <2>1. ~Applying(u)
      BY DEF SetField
    <2>2. S(u)' \notin {"dhcp"} \cup Static
      BY <1>2, <2>1, Where DEF IInv, Static, AfterStop
    <2> QED
      BY <2>2 DEF View, Static, AfterStop
  <1>6. SetUp'
    BY DEF SetUp, SetField
  <1>7. Pending'
    BY <1>2 DEF Pending
  <1> QED
    BY <1>2, <1>4, <1>5, <1>6, <1>7 DEF IInv

\* A command is given up, which leaves behind what it has not saved.
LEMMA GivingUpKeeps ==
    ASSUME IInv, NEW t \in Tasks, SetMalformed(t) \/ SaveFails(t) PROVE IInv'
  <1>1. S(t) \in {"set", "save"}
    BY Where DEF SetMalformed, SaveFails, IInv
  <1>2. /\ Shaped' /\ S(t)' = "idle"
        /\ \A u \in Tasks \ {t} : S(u)' = S(u)
    BY Beginnings, Turning DEF IInv, SetMalformed, SaveFails, GivesUp
  <1>3. /\ UNCHANGED <<body, stored, netif, dhcp, local, dirty, raced>>
        /\ unsaved' = (unsaved \/ body # stored)
    BY DEF SetMalformed, SaveFails
  <1>4. Types'
    BY <1>3 DEF IInv, Types
  <1>5. Views'
    BY <1>2, <1>3 DEF IInv, Views, View, Static, AfterStop
  <1>6. SetUp'
    BY <1>1, <1>2, <1>3 DEF IInv, SetUp, Static, AfterStop
  <1>7. Pending'
    BY <1>3 DEF Pending
  <1> QED
    BY <1>2, <1>4, <1>5, <1>6, <1>7 DEF IInv

LEMMA SaveKeeps ==
    ASSUME IInv, NEW t \in Tasks, Save(t) PROVE IInv'
  <1>1. S(t) = "save"
    BY Where DEF Save, IInv
  <1>2. /\ Shaped' /\ S(t)' \in {"check", "idle"}
        /\ \A u \in Tasks \ {t} : S(u)' = S(u)
    BY <1>1, Going DEF IInv, Save, After
  <1>3. Types'
    BY DEF IInv, Types, Save
  <1>4. Views'
    BY <1>2 DEF IInv, Views, View, Static, AfterStop, Save
  <1>5. SetUp'
    BY <1>1, <1>2 DEF IInv, SetUp, Static, AfterStop, Save
  <1>6. Pending'
    BY DEF Pending, Save
  <1> QED
    BY <1>2, <1>3, <1>4, <1>5, <1>6 DEF IInv

\* An apply begins: what was set before counts again if nobody else applies.
LEMMA CheckIpKeeps ==
    ASSUME IInv, NEW t \in Tasks, CheckIp(t) PROVE IInv'
  <1>1. S(t) = "check"
    BY Where DEF CheckIp, IInv
  <1>2. /\ Shaped'
        /\ S(t)' = IF body["ip"] = Zero THEN "dhcp" ELSE "stop"
        /\ \A u \in Tasks \ {t} : S(u)' = S(u)
    <2>1. CASE body["ip"] = Zero
      BY <2>1, Beginnings, Turning DEF IInv, CheckIp
    <2>2. CASE body["ip"] # Zero
      BY <2>2, Beginnings, Turning DEF IInv, CheckIp
    <2> QED
      BY <2>1, <2>2
  <1>3. Types'
    BY DEF IInv, Types, CheckIp
  <1>4. Views'
    <2> SUFFICES ASSUME ~raced', NEW u \in Tasks PROVE View(u)'
      BY DEF Views
    <2>1. CASE u = t
      BY <1>2, <2>1 DEF View, CheckIp, Static, AfterStop
    <2>2. CASE u # t /\ ~raced
      BY <1>2, <2>2 DEF IInv, Views, View, CheckIp
    <2>3. CASE u # t /\ raced
      <3>1. ~Applying(u)
        BY <2>3 DEF CheckIp
      <3>2. S(u)' \notin {"dhcp"} \cup Static
        BY <1>2, <2>3, <3>1, Where DEF IInv
      <3> QED
        BY <3>2 DEF View, Static, AfterStop
    <2> QED
      BY <2>1, <2>2, <2>3
  <1>5. SetUp'
    BY <1>2 DEF SetUp, Static, CheckIp
  <1>6. Pending'
    BY <1>1, <1>2 DEF IInv, Pending, CheckIp
  <1> QED
    BY <1>2, <1>3, <1>4, <1>5, <1>6 DEF IInv

LEMMA DhcpStartKeeps ==
    ASSUME IInv, NEW t \in Tasks, DhcpStart(t) PROVE IInv'
  <1>1. S(t) = "dhcp"
    BY Where DEF DhcpStart, IInv
  <1>2. Shaped' /\ S(t)' = "idle" /\ \A u \in Tasks \ {t} : S(u)' = S(u)
    BY <1>1, Going DEF IInv, DhcpStart, After
  <1>3. ~raced => body["ip"] = Zero
    BY <1>1 DEF IInv, Views, View
  <1>4. Types'
    BY AddressAssumption DEF IInv, Types, DhcpStart, Settings, Fields
  <1>5. Views'
    BY <1>2, <1>3 DEF IInv, Views, View, Static, AfterStop, DhcpStart
  <1>6. SetUp'
    BY <1>3 DEF SetUp, DhcpStart
  <1>7. Pending'
    BY <1>1, <1>2 DEF IInv, Pending, DhcpStart
  <1> QED
    BY <1>2, <1>4, <1>5, <1>6, <1>7 DEF IInv

LEMMA DhcpStopKeeps ==
    ASSUME IInv, NEW t \in Tasks, DhcpStop(t) PROVE IInv'
  <1>1. S(t) = "stop"
    BY Where DEF DhcpStop, IInv
  <1>2. Shaped' /\ S(t)' = "read_ip" /\ \A u \in Tasks \ {t} : S(u)' = S(u)
    BY <1>1, Going DEF IInv, DhcpStop, After
  <1>3. ~raced => body["ip"] # Zero
    BY <1>1 DEF IInv, Views, View, Static
  <1>4. Types'
    BY DEF IInv, Types, DhcpStop
  <1>5. Views'
    BY <1>2, <1>3 DEF IInv, Views, View, Static, AfterStop, DhcpStop
  <1>6. SetUp'
    BY <1>2, <1>3 DEF SetUp, Static, AfterStop, DhcpStop
  <1>7. Pending'
    BY <1>1, <1>2 DEF IInv, Pending, DhcpStop
  <1> QED
    BY <1>2, <1>4, <1>5, <1>6, <1>7 DEF IInv

LEMMA ReadFieldKeeps ==
    ASSUME IInv, NEW t \in Tasks, ReadField(t) PROVE IInv'
  <1>1. S(t) \in {"read_ip", "read_netmask", "read_dns"}
    BY Where DEF ReadField, IInv
  <1>2. /\ Shaped' /\ After(S(t), S(t)')
        /\ \A u \in Tasks \ {t} : S(u)' = S(u)
    BY <1>1, Going DEF IInv, ReadField
  <1> DEFINE f == Head(todo[t]).field
  <1>3. /\ S(t) = "read_ip" => f = "ip"
        /\ S(t) = "read_netmask" => f = "netmask"
        /\ S(t) = "read_dns" => f = "dns"
    BY Where DEF IInv
  <1>4. f \in Fields
    BY <1>1, <1>3 DEF Fields
  <1>5. /\ local'[t][f] = body[f]
        /\ \A g \in Fields \ {f} : local'[t][g] = local[t][g]
        /\ \A u \in Tasks \ {t} : local'[u] = local[u]
        /\ local' \in [Tasks -> Settings]
    BY <1>4 DEF IInv, Types, ReadField, Settings
  <1> HIDE DEF f
  <1>6. Types'
    BY <1>5 DEF IInv, Types, ReadField
  <1>7. Views'
    <2> SUFFICES ASSUME ~raced', NEW u \in Tasks PROVE View(u)'
      BY DEF Views
    <2>1. View(u) /\ UNCHANGED <<body, dhcp>>
      BY DEF IInv, Views, ReadField
    <2>2. CASE u # t
      BY <1>2, <1>5, <2>1, <2>2 DEF View
    <2>3. CASE u = t
      BY <1>1, <1>2, <1>3, <1>5, <2>1, <2>3
      DEF View, After, Fields, Static, AfterStop
    <2> QED
      BY <2>2, <2>3
  <1>8. SetUp'
    <2>1. S(t)' \in Static \ {"stop", "dns"}
      BY <1>1, <1>2 DEF After, Static, AfterStop
    <2>2. \A u \in Tasks \ {t} : S(u)' = S(u)
      BY <1>2
    <2> QED
      BY <1>1, <2>1, <2>2 DEF IInv, SetUp, ReadField
  <1>9. Pending'
    BY <1>1, <1>2 DEF IInv, Pending, ReadField
  <1> QED
    BY <1>2, <1>6, <1>7, <1>8, <1>9 DEF IInv

LEMMA SetIpInfoKeeps ==
    ASSUME IInv, NEW t \in Tasks, SetIpInfo(t) PROVE IInv'
  <1>1. S(t) = "ip"
    BY Where DEF SetIpInfo, IInv
  <1>2. Shaped' /\ S(t)' = "dns" /\ \A u \in Tasks \ {t} : S(u)' = S(u)
    BY <1>1, Going DEF IInv, SetIpInfo, After
  <1>3. local[t] \in Settings
    BY DEF IInv, Types
  <1>4. Types'
    BY <1>3 DEF IInv, Types, SetIpInfo, Settings, Fields
  <1>5. Views'
    <2> SUFFICES ASSUME ~raced', NEW u \in Tasks PROVE View(u)'
      BY DEF Views
    <2>1. View(u) /\ UNCHANGED <<body, dhcp, local>>
      BY DEF IInv, Views, SetIpInfo
    <2>2. CASE u # t
      BY <1>2, <2>1, <2>2 DEF View
    <2>3. CASE u = t
      BY <1>1, <1>2, <2>1, <2>3 DEF View, Static, AfterStop
    <2> QED
      BY <2>2, <2>3
  <1>6. SetUp'
    <2> SUFFICES ASSUME ~dirty', ~raced' PROVE SetUp'
      BY DEF SetUp
    <2>1. /\ body["ip"] # Zero /\ ~dhcp /\ UNCHANGED <<body, dhcp>>
          /\ local[t]["ip"] = body["ip"] /\ local[t]["netmask"] = body["netmask"]
      BY <1>1 DEF IInv, Views, View, Static, AfterStop, SetIpInfo
    <2>2. netif' = [netif EXCEPT !["ip"] = body["ip"],
                                 !["netmask"] = body["netmask"]]
      BY <2>1 DEF SetIpInfo
    <2>3. netif'["ip"] = body["ip"] /\ netif'["netmask"] = body["netmask"]
      BY <2>2 DEF IInv, Types, Settings, Fields
    <2> QED
      BY <1>2, <2>1, <2>3 DEF SetUp, Static, AfterStop
  <1>7. Pending'
    BY <1>1, <1>2 DEF IInv, Pending, SetIpInfo
  <1> QED
    BY <1>2, <1>4, <1>5, <1>6, <1>7 DEF IInv

LEMMA SetDnsInfoKeeps ==
    ASSUME IInv, NEW t \in Tasks, SetDnsInfo(t) PROVE IInv'
  <1>1. S(t) = "dns"
    BY Where DEF SetDnsInfo, IInv
  <1>2. Shaped' /\ S(t)' = "idle" /\ \A u \in Tasks \ {t} : S(u)' = S(u)
    BY <1>1, Going DEF IInv, SetDnsInfo, After
  <1>3. local[t] \in Settings /\ NoAddresses \in Settings
    BY AddressAssumption DEF IInv, Types, NoAddresses, Settings
  <1>4. Types'
    BY <1>3 DEF IInv, Types, SetDnsInfo, Settings, Fields
  <1>5. Views'
    <2> SUFFICES ASSUME ~raced', NEW u \in Tasks PROVE View(u)'
      BY DEF Views
    <2>1. View(u) /\ UNCHANGED <<body, dhcp>>
      BY DEF IInv, Views, SetDnsInfo
    <2>2. CASE u # t
      <3>1. local'[u] = local[u]
        BY <2>2 DEF IInv, Types, SetDnsInfo
      <3> QED
        BY <1>2, <2>1, <2>2, <3>1 DEF View
    <2>3. CASE u = t
      BY <1>2, <2>3 DEF View, Static, AfterStop
    <2> QED
      BY <2>2, <2>3
  <1>6. SetUp'
    <2> SUFFICES ASSUME ~dirty', ~raced' PROVE SetUp'
      BY DEF SetUp
    <2>1. /\ body["ip"] # Zero /\ ~dhcp /\ UNCHANGED <<body, dhcp>>
          /\ local[t]["dns"] = body["dns"]
      BY <1>1 DEF IInv, Views, View, Static, AfterStop, SetDnsInfo
    <2>2. /\ netif'["ip"] = netif["ip"] /\ netif'["netmask"] = netif["netmask"]
          /\ body["dns"] # Zero => netif'["dns"] = body["dns"]
      BY <2>1 DEF SetDnsInfo, IInv, Types, Settings, Fields
    <2>3. ~dirty /\ ~raced /\ SetUp
      BY DEF SetDnsInfo, IInv
    <2> QED
      BY <1>1, <1>2, <2>1, <2>2, <2>3 DEF SetUp, Static, AfterStop
  <1>7. Pending'
    BY <1>1, <1>2 DEF IInv, Pending, SetDnsInfo
  <1> QED
    BY <1>2, <1>4, <1>5, <1>6, <1>7 DEF IInv

LEMMA RestartKeeps == IInv /\ Restart => IInv'
  <1> SUFFICES ASSUME IInv, Restart PROVE IInv'
    OBVIOUS
  <1>1. NoAddresses \in Settings
    BY AddressAssumption DEF NoAddresses, Settings
  <1>2. Types'
    BY <1>1 DEF IInv, Types, Restart
  <1>3. Shaped'
    BY Beginnings DEF Restart, Shaped
  <1>4. \A t \in Tasks : S(t)' \in {"idle", "check"}
    BY Beginnings DEF Restart, S
  <1>5. Views'
    BY <1>4 DEF Views, View, Static, AfterStop
  <1> QED
    BY <1>2, <1>3, <1>5 DEF IInv, Restart, SetUp, Pending

LEMMA Invariance == Spec => []IInv
  <1>1. ASSUME IInv, [Next]_vars PROVE IInv'
    <2>1. CASE UNCHANGED vars
      BY <1>1, <2>1
      DEF vars, IInv, Types, Shaped, Views, View, SetUp, Pending, S
    <2>2. ASSUME NEW t \in Tasks,
                 \/ Command(t) \/ SetField(t) \/ SetMalformed(t)
                 \/ Save(t) \/ SaveFails(t) \/ ApplyNetIf(t)
          PROVE  IInv'
      BY <1>1, <2>2, CommandKeeps, SetFieldKeeps, GivingUpKeeps, SaveKeeps,
         CheckIpKeeps, DhcpStartKeeps, DhcpStopKeeps, ReadFieldKeeps,
         SetIpInfoKeeps, SetDnsInfoKeeps DEF ApplyNetIf
    <2> QED
      BY <1>1, <2>1, <2>2, RestartKeeps DEF Next
  <1> QED
    BY <1>1, InitHolds, PTL DEF Spec

\* With nobody left to see to it, the interface follows the fields.
LEMMA SettledFollows == IInv => AppliesWhatIsSet
  <1> SUFFICES ASSUME IInv, Settled PROVE Follows(body)
    BY DEF AppliesWhatIsSet
  <1>1. \A t \in Tasks : S(t) \notin {"dhcp"} \cup Static
    BY Where DEF IInv, Settled
  <1> QED
    BY <1>1 DEF IInv, SetUp, Settled, Follows, Static
-----------------------------------------------------------------------------
(* The theorems                                                            *)

\* The fields, the interface and the commands keep their types: whatever is
\* set, by whoever, is an address of a field that exists.
THEOREM TypeCorrect == Spec => []TypeOK
  <1>1. IInv => TypeOK
    BY Moves DEF IInv, Types, Shaped, TypeOK
  <1> QED
    BY <1>1, Invariance, PTL

\* However many tasks edit and apply: unless a field was set in the middle of
\* an apply, the interface follows the settings once everybody is through.
THEOREM AppliesAlways == Spec => []AppliesWhatIsSet
  BY SettledFollows, Invariance, PTL

\* And a restart at rest would bring the same interface, unless a command
\* failed half-way.
THEOREM SurvivesAlways == Spec => []SurvivesRestart
  <1>1. IInv => SurvivesRestart
    <2> SUFFICES ASSUME IInv, Settled, ~unsaved, \A t \in Tasks : todo[t] = <<>>
                 PROVE  Follows(stored)
      BY DEF SurvivesRestart
    <2>1. \A t \in Tasks : S(t) = "idle"
      BY Where DEF IInv
    <2>2. body = stored
      BY <2>1 DEF IInv, Pending
    <2> QED
      BY SettledFollows, <2>2 DEF AppliesWhatIsSet
  <1> QED
    BY <1>1, Invariance, PTL
=============================================================================
