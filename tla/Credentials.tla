---------------------------- MODULE Credentials ----------------------------
(***************************************************************************)
(* The name and the password of the Wi-Fi network on their way from the    *)
(* shells (wifi ssid, wifi passwd) through the fields of _main_body        *)
(* (src/main/MeshRoof.cxx) to the station (EspWifi::start()).              *)
(*                                                                         *)
(* A text as long as its field is stored without a terminator: the getter  *)
(* then runs on into the next field, and start() relies on cutting what it *)
(* gets at the size of the driver's field, which is the same.              *)
(***************************************************************************)
EXTENDS Naturals, SequencesExt

CONSTANTS
    Shells,      \* tasks that run commands
    Letters,     \* characters of a name or a password
    Nul,         \* '\0'
    Junk,        \* what lies behind a string in the heap
    SsidSize,    \* sizeof(wifi_ssid), and of the driver's ssid
    PasswdSize,  \* sizeof(wifi_passwd), and of the driver's password
    Rest         \* the bytes of _main_body behind the two fields

ASSUME SizesAssumption == SsidSize \in Nat \ {0} /\ PasswdSize \in Nat \ {0}
ASSUME LettersAssumption == Nul \notin Letters /\ Junk \notin Letters \cup {Nul}
\* The counts at the end of _main_body are never four bytes other than 0.
ASSUME RestAssumption == Rest \in Seq(Letters \cup {Nul}) /\ Contains(Rest, Nul)

VARIABLES
    mem,      \* _main_body, from its first byte
    pc,       \* what each shell is doing
    arg,      \* the field and the text of its command
    step,     \* what start() is copying, or "idle"
    str, len, \* the string one call of the getter returned, and the length
              \* of what the other one returned
    got,      \* which of the two it has called
    station,  \* the configuration of the station
    wanted,   \* history: the text of the last command for each field
    mixed,    \* history: fields two commands wrote at once
    changed   \* history: a field was written since start() began

vars == <<mem, pc, arg, step, str, len, got, station, wanted, mixed,
          changed>>

Names == {"ssid", "passwd"}
Size(f) == IF f = "ssid" THEN SsidSize ELSE PasswdSize
Offset(f) == IF f = "ssid" THEN 0 ELSE SsidSize

\* What a shell can type, up to one character too long for either field.
Texts == BoundedSeq(Letters, 1 + IF SsidSize > PasswdSize THEN SsidSize ELSE PasswdSize)
Fitting(f) == BoundedSeq(Letters \cup {Nul, Junk}, Size(f))

TypeOK ==
    /\ mem \in [1..(SsidSize + PasswdSize + Len(Rest)) -> Letters \cup {Nul}]
    /\ pc \in [Shells -> {"idle", "memset", "memcpy"}]
    /\ arg \in [Shells -> Names \X Texts]
    /\ step \in Names \cup {"idle"}
    /\ station["ssid"] \in Fitting("ssid") /\ station["passwd"] \in Fitting("passwd")
    /\ str \in Seq(Letters) /\ len \in Nat /\ got \subseteq {"str", "len"}
    /\ wanted \in [Names -> Texts]
    /\ mixed \subseteq Names
    /\ changed \in BOOLEAN

Init ==
    /\ mem = [i \in 1..(SsidSize + PasswdSize) |-> Nul] \o Rest
    /\ pc = [t \in Shells |-> "idle"]
    /\ arg = [t \in Shells |-> <<"ssid", <<>>>>]
    /\ step = "idle" /\ str = <<>> /\ len = 0 /\ got = {}
    /\ station = [f \in Names |-> <<>>]
    /\ wanted = [f \in Names |-> <<>>]
    /\ mixed = {}
    /\ changed = FALSE

-----------------------------------------------------------------------------
(* wifi ssid and wifi passwd                                               *)

\* Mutant: one character too many is accepted.
Accepts_OffByOne(f, text) == Len(text) <= Size(f) + 1

\* The setters refuse what is longer than the field.
Accepts(f, text) == Len(text) <= Size(f)

SetCommand(t) ==
    /\ pc[t] = "idle"
    /\ \E f \in Names, text \in Texts :
         /\ Accepts(f, text)
         /\ arg' = [arg EXCEPT ![t] = <<f, text>>]
    /\ pc' = [pc EXCEPT ![t] = "memset"]
    /\ UNCHANGED <<mem, step, str, len, got, station, wanted, mixed,
                   changed>>

Within(i, f, n) == i > Offset(f) /\ i <= Offset(f) + n

\* Between memset() and memcpy() of that field.
InSet(f) == {t \in Shells : pc[t] = "memcpy" /\ arg[t][1] = f}

Memset(t) ==
    LET f == arg[t][1] IN
    /\ pc[t] = "memset"
    /\ mem' = [i \in DOMAIN mem |-> IF Within(i, f, Size(f)) THEN Nul ELSE mem[i]]
    /\ mixed' = IF InSet(f) = {} THEN mixed \ {f} ELSE mixed \cup {f}
    /\ changed' = TRUE
    /\ pc' = [pc EXCEPT ![t] = "memcpy"]
    /\ UNCHANGED <<arg, step, str, len, got, station, wanted>>

Memcpy(t) ==
    LET f == arg[t][1]
        text == arg[t][2] IN
    /\ pc[t] = "memcpy"
    /\ mem' = [i \in DOMAIN mem |->
                 IF Within(i, f, Len(text)) THEN text[i - Offset(f)] ELSE mem[i]]
    /\ wanted' = [wanted EXCEPT ![f] = text]
    /\ mixed' = IF InSet(f) = {t} THEN mixed ELSE mixed \cup {f}
    /\ changed' = TRUE
    /\ pc' = [pc EXCEPT ![t] = "idle"]
    /\ arg' = [arg EXCEPT ![t] = <<"ssid", <<>>>>]
    /\ UNCHANGED <<step, str, len, got, station>>

-----------------------------------------------------------------------------
(* EspWifi::start(), once at a time                                        *)

\* getWifiSsid(), getWifiPasswd(): all up to the first '\0'.
Getter(f) ==
    LET from == SubSeq(mem, Offset(f) + 1, Len(mem)) IN
    SubSeq(from, 1, SelectInSeq(from, LAMBDA ch : ch = Nul) - 1)

StartBegins ==
    /\ step = "idle"
    /\ step' = "ssid"
    /\ station' = [f \in Names |-> <<>>]
    /\ changed' = \E f \in Names : InSet(f) # {}
    /\ UNCHANGED <<mem, pc, arg, str, len, got, wanted, mixed>>

\* The two calls of the getter among the arguments of memcpy(), whose order
\* is the compiler's choice.
StartReads ==
    /\ step # "idle"
    /\ \E call \in {"str", "len"} \ got :
         /\ got' = got \cup {call}
         /\ str' = IF call = "str" THEN Getter(step) ELSE str
         /\ len' = IF call = "len" THEN Len(Getter(step)) ELSE len
    /\ UNCHANGED <<mem, pc, arg, step, station, wanted, mixed, changed>>

\* n bytes from where the string str begins.
Bytes(n) == [i \in 1..n |-> IF i <= Len(str) THEN str[i]
                            ELSE IF i = Len(str) + 1 THEN Nul ELSE Junk]

\* Mutant: the length of the driver's field is not minded.
Copied_Whole(f) == Bytes(len)

Copied(f) == Bytes(IF len < Size(f) THEN len ELSE Size(f))

StartCopies ==
    /\ got = {"str", "len"}
    /\ station' = [station EXCEPT ![step] = Copied(step)]
    /\ step' = IF step = "ssid" THEN "passwd" ELSE "idle"
    /\ str' = <<>> /\ len' = 0 /\ got' = {}
    /\ UNCHANGED <<mem, pc, arg, wanted, mixed, changed>>

Next ==
    \/ \E t \in Shells : SetCommand(t) \/ Memset(t) \/ Memcpy(t)
    \/ StartBegins \/ StartReads \/ StartCopies

Spec == Init /\ [][Next]_vars

-----------------------------------------------------------------------------
(* What must hold                                                          *)

\* The station is started with the name and the password that were set last,
\* to the last character and without one of the fields behind, whatever their
\* lengths; unless a field was written while start() ran or by two shells at
\* once.
StationGetsWhatWasSet ==
    step = "idle" /\ ~changed /\ mixed = {} => station = wanted
=============================================================================
