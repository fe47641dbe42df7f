----------------------------- MODULE NetConfig -----------------------------
(***************************************************************************)
(* The network settings: the net commands of the shells                    *)
(* (src/main/MeshRoofShell.cxx) edit the fields of _main_body with the     *)
(* setters of MeshRoof.cxx, save them, and EspWifi::applyNetIf() hands     *)
(* them to the network interface.  Nothing keeps two shells, or a shell    *)
(* and the start at boot, from doing so at the same time.                  *)
(*                                                                         *)
(* "netmask" stands for the netmask and the gateway, "dns" for the three   *)
(* DNS servers.  saveNvm() is one step here; NvmStore has its details.     *)
(***************************************************************************)
EXTENDS Naturals, Sequences

CONSTANTS
    Shells,     \* tasks that run commands
    Boot,       \* meshtastic_task, which starts the station at boot
    Addresses,  \* IPv4 addresses
    Servers,    \* those of them given to the DNS servers
    Zero        \* 0.0.0.0

ASSUME TasksAssumption == Boot \notin Shells
ASSUME AddressAssumption == Servers \subseteq Addresses /\ Zero \in Servers

VARIABLES
    body,    \* the fields of _main_body
    stored,  \* the fields as saveNvm() wrote them last
    netif,   \* the addresses of the interface
    dhcp,    \* its DHCP client runs
    todo,    \* what is left of each task's command
    local,   \* the ip_info and dns_info of each task in applyNetIf(),
             \* NoAddresses once they are dead
    dirty,   \* history: a field was set since applyNetIf() was called last
    raced,   \* history: a field was set while another task was applying
    unsaved  \* history: a command failed after it had set a field

vars == <<body, stored, netif, dhcp, todo, local, dirty, raced, unsaved>>

Tasks == Shells \cup {Boot}
Fields == {"ip", "netmask", "dns"}
Choices(f) == IF f = "dns" THEN Servers ELSE Addresses
Settings == [Fields -> Addresses]

\* The statements of the commands and of applyNetIf().
Set(f, a) == [step |-> "set", field |-> f, value |-> a]
Do(name) == [step |-> name, field |-> "ip", value |-> Zero]
Read(f) == [step |-> "read", field |-> f, value |-> Zero]
Statements ==
    [step : {"set", "save", "check", "dhcp", "stop", "read", "ip", "dns"},
     field : Fields, value : Addresses]

TypeOK ==
    /\ body \in Settings
    /\ stored \in Settings
    /\ netif \in Settings
    /\ dhcp \in BOOLEAN
    /\ todo \in [Tasks -> Seq(Statements)]
    /\ local \in [Tasks -> Settings]
    /\ dirty \in BOOLEAN
    /\ raced \in BOOLEAN
    /\ unsaved \in BOOLEAN

\* net ip A netmask M gateway G; net ip dhcp; net ip A, net netmask M and
\* so on, which only edit and save; net apply.
Commands ==
    {<<Set("ip", a), Set("netmask", m), Do("save"), Do("check")>> :
        a, m \in Addresses}
    \cup {<<Set("ip", Zero), Do("save"), Do("check")>>}
    \cup {<<Do("check")>>}
    \cup UNION {{<<Set(f, a), Do("save")>> : a \in Choices(f)} : f \in Fields}

NoAddresses == [f \in Fields |-> Zero]

\* The first boot: nothing is configured, and the driver's interface comes
\* with its DHCP client.
Init ==
    /\ body = NoAddresses
    /\ stored = NoAddresses
    /\ netif = NoAddresses
    /\ dhcp = TRUE
    /\ todo = [t \in Tasks |-> IF t = Boot THEN <<Do("check")>> ELSE <<>>]
    /\ local = [t \in Tasks |-> NoAddresses]
    /\ dirty = TRUE
    /\ raced = FALSE
    /\ unsaved = FALSE

At(t, name) == todo[t] # <<>> /\ Head(todo[t]).step = name

Applying(t) ==
    At(t, "dhcp") \/ At(t, "stop") \/ At(t, "read") \/ At(t, "ip") \/ At(t, "dns")

Goes(t) == todo' = [todo EXCEPT ![t] = Tail(@)]
GivesUp(t) == todo' = [todo EXCEPT ![t] = <<>>]

-----------------------------------------------------------------------------
(* The commands                                                            *)

Command(t) ==
    /\ t # Boot /\ todo[t] = <<>>
    /\ \E cmd \in Commands : todo' = [todo EXCEPT ![t] = cmd]
    /\ UNCHANGED <<body, stored, netif, dhcp, local, dirty, raced, unsaved>>

SetField(t) ==
    /\ At(t, "set")
    /\ body' = [body EXCEPT ![Head(todo[t]).field] = Head(todo[t]).value]
    /\ dirty' = TRUE
    /\ raced' = (raced \/ \E u \in Tasks : Applying(u))
    /\ Goes(t)
    /\ UNCHANGED <<stored, netif, dhcp, local, unsaved>>

\* Mutant: a malformed address is stored as INADDR_NONE.
SetMalformed_StoresNone(t) ==
    /\ At(t, "set")
    /\ body' = [body EXCEPT ![Head(todo[t]).field] = "none"]
    /\ GivesUp(t)
    /\ UNCHANGED <<stored, netif, dhcp, local, dirty, raced, unsaved>>

\* inet_aton() refuses the text: the rest of the command is not run, and
\* what it has already set stays.
SetMalformed(t) ==
    /\ At(t, "set")
    /\ GivesUp(t)
    /\ unsaved' = (unsaved \/ body # stored)
    /\ UNCHANGED <<body, stored, netif, dhcp, local, dirty, raced>>

Save(t) ==
    /\ At(t, "save")
    /\ stored' = body
    /\ unsaved' = FALSE
    /\ Goes(t)
    /\ UNCHANGED <<body, netif, dhcp, local, dirty, raced>>

\* Mutant: the result of saveNvm() is not looked at.
SaveFails_Ignored(t) ==
    /\ At(t, "save")
    /\ Goes(t)
    /\ UNCHANGED <<body, stored, netif, dhcp, local, dirty, raced, unsaved>>

SaveFails(t) ==
    /\ At(t, "save")
    /\ GivesUp(t)
    /\ unsaved' = (unsaved \/ body # stored)
    /\ UNCHANGED <<body, stored, netif, dhcp, local, dirty, raced>>

-----------------------------------------------------------------------------
(* applyNetIf()                                                            *)

\* What applyNetIf() does with an address.
StaticIp ==
    <<Do("stop"), Read("ip"), Read("netmask"), Read("dns"), Do("ip"), Do("dns")>>

\* getIp() != 0
CheckIp(t) ==
    /\ At(t, "check")
    /\ todo' = [todo EXCEPT ![t] = IF body["ip"] = Zero THEN <<Do("dhcp")>>
                                                         ELSE StaticIp]
    /\ dirty' = FALSE
    /\ raced' = (raced /\ \E u \in Tasks \ {t} : Applying(u))
    /\ UNCHANGED <<body, stored, netif, dhcp, local, unsaved>>

\* esp_netif_dhcpc_start() forgets the address; the lease is not modelled.
DhcpStart(t) ==
    /\ At(t, "dhcp")
    /\ dhcp' = TRUE
    /\ netif' = IF dhcp THEN netif
                ELSE [netif EXCEPT !["ip"] = Zero, !["netmask"] = Zero]
    /\ Goes(t)
    /\ UNCHANGED <<body, stored, local, dirty, raced, unsaved>>

\* Mutant: the DHCP client is left running.
DhcpStop_Forgotten(t) ==
    /\ At(t, "stop")
    /\ Goes(t)
    /\ UNCHANGED <<body, stored, netif, dhcp, local, dirty, raced, unsaved>>

DhcpStop(t) ==
    /\ At(t, "stop")
    /\ dhcp' = FALSE
    /\ Goes(t)
    /\ UNCHANGED <<body, stored, netif, local, dirty, raced, unsaved>>

\* getIp() once more, getNetmask(), ..., getDns3()
ReadField(t) ==
    /\ At(t, "read")
    /\ local' = [local EXCEPT ![t][Head(todo[t]).field] =
                   body[Head(todo[t]).field]]
    /\ Goes(t)
    /\ UNCHANGED <<body, stored, netif, dhcp, dirty, raced, unsaved>>

\* esp_netif_set_ip_info() refuses while the DHCP client runs, which is logged.
SetIpInfo(t) ==
    /\ At(t, "ip")
    /\ netif' = IF dhcp THEN netif
                ELSE [netif EXCEPT !["ip"] = local[t]["ip"],
                                   !["netmask"] = local[t]["netmask"]]
    /\ Goes(t)
    /\ UNCHANGED <<body, stored, dhcp, local, dirty, raced, unsaved>>

\* esp_netif_set_dns_info() refuses 0.0.0.0, which is logged.
SetDnsInfo(t) ==
    /\ At(t, "dns")
    /\ netif' = IF local[t]["dns"] = Zero THEN netif
                ELSE [netif EXCEPT !["dns"] = local[t]["dns"]]
    /\ local' = [local EXCEPT ![t] = NoAddresses]
    /\ Goes(t)
    /\ UNCHANGED <<body, stored, dhcp, dirty, raced, unsaved>>

ApplyNetIf(t) ==
    \/ CheckIp(t) \/ DhcpStart(t) \/ DhcpStop(t)
    \/ ReadField(t) \/ SetIpInfo(t) \/ SetDnsInfo(t)

\* A restart at any moment: loadNvm() and the start of the station.
Restart ==
    /\ body' = stored
    /\ netif' = NoAddresses /\ dhcp' = TRUE
    /\ todo' = [t \in Tasks |-> IF t = Boot THEN <<Do("check")>> ELSE <<>>]
    /\ local' = [t \in Tasks |-> NoAddresses]
    /\ dirty' = TRUE /\ raced' = FALSE /\ unsaved' = FALSE
    /\ UNCHANGED stored

Next ==
    \/ \E t \in Tasks :
         \/ Command(t) \/ SetField(t) \/ SetMalformed(t)
         \/ Save(t) \/ SaveFails(t) \/ ApplyNetIf(t)
    \/ Restart

Spec == Init /\ [][Next]_vars

-----------------------------------------------------------------------------
(* What must hold                                                          *)

\* The interface is set up as these settings say.
Follows(settings) ==
    IF settings["ip"] = Zero THEN dhcp
    ELSE /\ ~dhcp
         /\ netif["ip"] = settings["ip"]
         /\ netif["netmask"] = settings["netmask"]
         /\ settings["dns"] # Zero => netif["dns"] = settings["dns"]

Settled == ~dirty /\ ~raced /\ \A t \in Tasks : ~Applying(t)

\* Once everything set has been applied, the interface follows the settings,
\* however many tasks were editing or applying and in whatever order.  The one
\* way out is a field set while another task was applying; the next
\* undisturbed applyNetIf() makes up for it.
AppliesWhatIsSet == Settled => Follows(body)

\* What is in use then would also be in use after a restart, unless a command
\* failed half-way and left in RAM what it had not saved.
SurvivesRestart ==
    Settled /\ ~unsaved /\ (\A t \in Tasks : todo[t] = <<>>) => Follows(stored)
=============================================================================
