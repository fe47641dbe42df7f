---------------------------- MODULE ShellOutput ----------------------------
(***************************************************************************)
(* MeshRoofShell::printf() and tx_write() (src/main/MeshRoofShell.cxx):    *)
(* a shell prints on the USB port, with the loops of usb_vprintf() in      *)
(* src/main/serial.c, or to the client of the network console, with a loop *)
(* over write().                                                           *)
(*                                                                         *)
(* A text is a sequence of "x" (any visible character) and "nl".  Between  *)
(* any two calls another task may print on USB, the host may read, detach  *)
(* or attach, and the client may read or abort its connection.             *)
(***************************************************************************)
EXTENDS Integers, Sequences, SequencesExt

CONSTANTS
    Texts,     \* what is printed
    Limit,     \* all that vsnprintf() formats into the 512 bytes of either
    FifoSize,  \* the USB driver's tx_buffer_size
    Window,    \* what the client's connection holds until the client reads
    MaxOthers  \* bound: characters others print on USB during one printf()

ASSUME TextsAssumption == Texts \subseteq Seq({"x", "nl"}) /\ <<>> \in Texts
ASSUME SizesAssumption ==
    /\ Limit \in Nat /\ FifoSize \in Nat \ {0} /\ Window \in Nat \ {0}
    /\ MaxOthers \in Nat

VARIABLES
    attached,  \* usb_serial_jtag_is_connected()
    fifo,      \* characters the driver has taken and the host has not
    others,    \* how many of them others printed during this printf()
    peer,      \* the client: "here", or "reset"
    unread,    \* characters in its window
    ctx,       \* the shell's: "usb" or "tcp"
    pc,        \* where its printf() is
    pbuf,      \* the buffer, and what lies behind, as far as it is to be read
    i,         \* the index of usb_vprintf(), or where s points; from 1
    len, ret,  \* of the loop over write()
    text,      \* history: what was to be printed
    sent,      \* history: what was taken of it, and from where in the buffer
    cut,       \* history: there was no host, no client, or no memory
    skewed     \* history: a write() took some, and not half, of what was left

host == <<attached, fifo, others>>
client == <<peer, unread>>
call == <<ctx, pbuf, text>>
vars == <<host, client, call, pc, i, len, ret, sent, cut, skewed>>

Characters == {"x", "nl", "cr", "nul", "junk"}

TypeOK ==
    /\ attached \in BOOLEAN /\ fifo \in 0..FifoSize
    /\ others \in 0..MaxOthers
    /\ peer \in {"here", "reset"} /\ unread \in 0..Window
    /\ ctx \in {"usb", "tcp"}
    /\ pc \in {"idle", "check_cr", "cr", "check", "char", "write", "echo"}
    /\ pbuf \in Seq(Characters)
    /\ i \in Nat \ {0}
    /\ ctx = "usb" => i <= Len(pbuf) + 1
    /\ text \in Texts
    /\ len \in 0..Len(text) /\ ret \in -1..Len(text)
    /\ sent \in Seq([at : Nat, char : Characters])
    /\ cut \in BOOLEAN /\ skewed \in BOOLEAN

Init ==
    /\ attached \in BOOLEAN /\ fifo = 0 /\ others = 0
    /\ peer = "here" /\ unread = 0
    /\ ctx = "usb" /\ pc = "idle" /\ pbuf = <<>> /\ i = 1
    /\ len = 0 /\ ret = 0
    /\ text = <<>> /\ sent = <<>> /\ cut = FALSE /\ skewed = FALSE

-----------------------------------------------------------------------------
(* The surroundings (external).                                            *)

HostPlugs ==
    /\ attached' = ~attached
    /\ UNCHANGED <<fifo, others, client, call, pc, i, len, ret, sent, cut, skewed>>

HostReads ==
    /\ attached /\ fifo > 0
    /\ fifo' = fifo - 1
    /\ UNCHANGED <<attached, others, client, call, pc, i, len, ret, sent, cut, skewed>>

\* Mutant: the buffer holds one more.
HasRoom_OffByOne == fifo <= FifoSize

\* usb_serial_jtag_write_bytes() of one character does not wait.
HasRoom == fifo < FifoSize

\* meshtastic_task, or the other shell, finds room first.
OthersPrint ==
    /\ others < MaxOthers /\ others' = others + 1
    /\ HasRoom /\ fifo' = fifo + 1
    /\ UNCHANGED <<attached, client, call, pc, i, len, ret, sent, cut, skewed>>

ClientReads ==
    /\ unread' \in 0..unread - 1
    /\ UNCHANGED <<host, peer, call, pc, i, len, ret, sent, cut, skewed>>

\* The client is gone, or a new one is served.
ClientChanges ==
    /\ pc = "idle" \/ peer = "here"
    /\ peer' = IF peer = "here" THEN "reset" ELSE "here"
    /\ unread' = 0
    /\ UNCHANGED <<host, call, pc, i, len, ret, sent, cut, skewed>>

-----------------------------------------------------------------------------
(* printf                                                                  *)

\* vsnprintf() ends what it has formatted with a NUL and returns the length
\* of the whole text; behind the NUL is whatever the memory held.
Formatted(s, rest) ==
    [k \in 1..Len(s) |-> IF k <= Limit THEN s[k]
                         ELSE IF k = Limit + 1 THEN "nul" ELSE rest]

\* Where usb_vprintf() is with index n: a new line needs a return first.
Turn(buf, n) ==
    /\ i' = n
    /\ pc' = IF n > Len(buf) THEN "idle"
             ELSE IF buf[n] = "nl" THEN "check_cr" ELSE "check"

Begin(c, s, rest) ==
    /\ pc = "idle"
    /\ ctx' = c /\ text' = s /\ pbuf' = Formatted(s, rest)
    /\ ret' = 0 /\ sent' = <<>> /\ skewed' = FALSE
    /\ others' = 0
    /\ UNCHANGED <<attached, fifo, client>>

PrintUsb ==
    /\ \E s \in Texts, rest \in {"junk", "nl"} :
          /\ Begin("usb", s, rest)
          /\ Turn(IF attached THEN Formatted(s, rest) ELSE <<>>, 1)
    /\ cut' = ~attached /\ len' = 0

\* malloc() may fail.
PrintTcp ==
    /\ \E s \in Texts :
          /\ Begin("tcp", s, "junk")
          /\ \/ len' = Len(s) /\ cut' = FALSE
             \/ len' = 0 /\ cut' = TRUE
    /\ i' = 1
    /\ pc' = IF len' > 0 THEN "write" ELSE "idle"

Step(from, to) == pc = from /\ pc' = to

-----------------------------------------------------------------------------
(* The loops of usb_vprintf().  Without a host each of them is left.       *)

Put(ch) ==
    /\ HasRoom /\ fifo' = fifo + 1
    /\ sent' = Append(sent, [at |-> i, char |-> ch])

CheckReturn ==
    /\ IF attached THEN Step("check_cr", "cr") ELSE Step("check_cr", "check")
    /\ cut' = (cut \/ ~attached)
    /\ UNCHANGED <<host, client, call, i, len, ret, sent, skewed>>

WriteReturn ==
    /\ \/ Step("cr", "check") /\ Put("cr")
       \/ ~HasRoom /\ Step("cr", "check_cr") /\ UNCHANGED <<fifo, sent>>
    /\ UNCHANGED <<attached, others, client, call, i, len, ret, cut, skewed>>

\* Mutant: a port found detached does not end the loop.
CheckChar_Forever ==
    /\ Step("check", "char")
    /\ cut' = (cut \/ ~attached)
    /\ UNCHANGED <<host, client, call, i, len, ret, sent, skewed>>

CheckChar ==
    /\ pc = "check"
    /\ IF attached THEN Step("check", "char") /\ UNCHANGED i
                   ELSE Turn(pbuf, i + 1)
    /\ cut' = (cut \/ ~attached)
    /\ UNCHANGED <<host, client, call, len, ret, sent, skewed>>

\* Mutant: a full buffer begins the turn again, with the return.
WriteChar_Again ==
    /\ pc = "char"
    /\ \/ Put(pbuf[i]) /\ Turn(pbuf, i + 1)
       \/ ~HasRoom /\ Turn(pbuf, i) /\ UNCHANGED <<fifo, sent>>
    /\ UNCHANGED <<attached, others, client, call, len, ret, cut, skewed>>

WriteChar ==
    /\ pc = "char"
    /\ \/ Put(pbuf[i]) /\ Turn(pbuf, i + 1)
       \/ ~HasRoom /\ Step("char", "check") /\ UNCHANGED <<fifo, sent, i>>
    /\ UNCHANGED <<attached, others, client, call, len, ret, cut, skewed>>

-----------------------------------------------------------------------------
(* The loop over write(), which takes all or a part of what it is given.   *)

Byte(k) == IF k <= Len(pbuf) THEN pbuf[k] ELSE "junk"

Takes(n) ==
    /\ pc = "write" /\ peer = "here" /\ unread + n <= Window
    /\ unread' = unread + n
    /\ sent' = sent \o [k \in 1..n |-> [at |-> i + k - 1, char |-> Byte(i + k - 1)]]
    /\ ret' = n
    /\ skewed' = (skewed \/ (n < len /\ 2 * n # len))
    /\ UNCHANGED <<host, peer, call, cut>>

\* s is advanced by what is left, and not by what was written.
Write ==
    \E n \in 1..len :
        /\ Takes(n)
        /\ len' = len - n
        /\ i' = i + len'
        /\ pc' = IF len' > 0 THEN "write" ELSE "idle"

WriteFails ==
    /\ Step("write", "idle") /\ peer = "reset"
    /\ ret' = -1 /\ cut' = TRUE
    /\ UNCHANGED <<host, client, call, i, len, sent, skewed>>

-----------------------------------------------------------------------------
(* tx_write(), with which the library echoes: one attempt.                 *)

TxWriteUsb ==
    /\ attached /\ Step("idle", "echo")
    /\ UNCHANGED <<host, client, call, i, len, ret, sent, cut, skewed>>

TxTaken ==
    /\ Step("echo", "idle")
    /\ fifo' = IF HasRoom THEN fifo + 1 ELSE fifo
    /\ UNCHANGED <<attached, others, client, call, i, len, ret, sent, cut, skewed>>

TxWriteTcp ==
    /\ pc = "idle" /\ peer = "here" /\ unread < Window
    /\ unread' = unread + 1
    /\ UNCHANGED <<host, peer, call, pc, i, len, ret, sent, cut, skewed>>

UsbLoop == CheckReturn \/ WriteReturn \/ CheckChar \/ WriteChar \/ TxTaken
TcpLoop == Write \/ WriteFails

Next ==
    \/ HostPlugs \/ HostReads \/ OthersPrint \/ ClientReads \/ ClientChanges
    \/ PrintUsb \/ PrintTcp \/ TxWriteUsb \/ TxWriteTcp
    \/ UsbLoop \/ TcpLoop

Spec == Init /\ [][Next]_vars

\* The shell goes on.  A host that is attached again and again reads again and
\* again, and a client that stays reads.
FairSpec ==
    /\ Spec
    /\ WF_vars(UsbLoop) /\ WF_vars(TcpLoop)
    /\ SF_vars(HostReads) /\ WF_vars(ClientReads)

-----------------------------------------------------------------------------
(* Properties                                                              *)

\* What a terminal is to get for a text.
Expanded(s) ==
    IF ctx = "tcp" THEN s
    ELSE FlattenSeq([k \in 1..Len(s) |-> IF s[k] = "nl" THEN <<"cr", "nl">>
                                         ELSE <<s[k]>>])

Sent == [k \in 1..Len(sent) |-> sent[k].char]

Count(seq) == Cardinality({k \in 1..Len(seq) : seq[k] # "cr"})

\* The text, or of one that does not fit the buffer what was formatted of it,
\* the NUL behind that, and what the memory held.
Delivered ==
    IF Len(text) <= Limit
    THEN Sent = Expanded(text)
    ELSE IsPrefix(Append(Expanded(SubSeq(text, 1, Limit)), "nul"), Sent)

\* A host that stays gets the text of a printf(), with a return before each new
\* line, however often the buffer was full and whoever printed meanwhile.  Of a
\* text too long it gets as many characters as the text has, those too many from
\* behind the formatted ones.
WholeOnUsb ==
    ctx = "usb" /\ pc = "idle" /\ ~cut => Count(Sent) = Len(text) /\ Delivered

\* Every character was taken from its place.
InPlace == \A k \in 1..Len(sent) : sent[k].at = k

\* A client that stays gets as many characters as the text has.  They are the
\* text's exactly when every write() took all or just half of what was left:
\* after any other the pointer is wrong.
WholeOnTcp ==
    ctx = "tcp" /\ pc = "idle" /\ ~cut =>
        /\ Count(Sent) = Len(text)
        /\ InPlace <=> ~skewed
        /\ InPlace => Delivered

\* No character was taken twice or before an earlier one; a return comes before
\* its new line, or alone.
InSequence ==
    \A j, k \in 1..Len(sent) : j < k =>
        \/ sent[j].at < sent[k].at
        \/ /\ sent[j].at = sent[k].at
           /\ sent[j].char = "cr" /\ sent[k].char = "nl"

\* A host that comes and goes misses characters, and never gets one twice or
\* out of its place.  Up to its going a client has gotten its characters from
\* their places, but for the pointer.
InOrder == IF ctx = "usb" THEN InSequence ELSE ~skewed => InPlace

\* A text arrives on USB, and on the network as far as its loop allows.
TextArrives == WholeOnUsb /\ WholeOnTcp /\ InOrder

\* Every printf returns: a host or a client that reads makes room, and one
\* that has gone is noticed, wherever in a text this happens.
PrintEnds == pc # "idle" ~> pc = "idle"

=============================================================================
