--------------------------- MODULE EspWifiProofs ---------------------------
(***************************************************************************)
(* Proofs about EspWifi for any number of callers and any queue length.    *)
(*                                                                         *)
(* The argument has two halves.  The driver posts an event for every       *)
(* change, so the last event of a kind still in the queue says what the    *)
(* driver is (PowerTold, LinkTold); and when none is left, the flag        *)
(* (FlagSettled) or the status says it.  OneCaller and Halfway cover the   *)
(* instants between a driver call and the assignment that follows it.      *)
(***************************************************************************)
EXTENDS EspWifi, TLAPS

Has(s, kinds) == \E i \in 1..Len(s) : s[i] \in kinds

\* The last event of these kinds in s, if there is one, is "yes" exactly when
\* b holds.
LastSays(s, kinds, yes, b) ==
    \A i \in 1..Len(s) :
        /\ s[i] \in kinds
        /\ \A j \in 1..Len(s) : j > i => s[j] \notin kinds
        => (s[i] = yes <=> b)

\* The last START or STOP in the queue is the driver's present state.
PowerTold == LastSays(events, PowerEvents, "STA_START", on)

\* The last CONNECTED or DISCONNECTED in the queue is the link's.
LinkTold == LastSays(events, LinkEvents, "STA_CONNECTED", link = "up")

\* Unless calls overlapped, one call is running at most.
OneCaller ==
    ~suspect => \A t, u \in Callers :
        pc[t] # "idle" /\ pc[u] # "idle" => t = u

\* Between the driver call and the flag, the driver is ahead of the flag.
Halfway ==
    ~suspect => \A t \in Callers :
        /\ pc[t] = "start_flag" => on
        /\ pc[t] = "stop_flag" => ~on

\* Everywhere else, with no START or STOP in the queue, the two agree.
FlagSettled ==
    /\ ~suspect
    /\ ~Has(events, PowerEvents)
    /\ \A t \in Callers : pc[t] \notin {"start_flag", "stop_flag"}
    => started = on

\* With no report in the queue, the status shown is the link's, or junk.
LinkSettled ==
    ~Has(events, LinkEvents) => ap = "junk" \/ (ap = "set") = (link = "up")

\* The interface is up only with an association shown, and so is the address.
AddressSettled ==
    /\ netif => ap = "set"
    /\ ip = "set" /\ ap # "set" => late

\* A driver that is off has no association.
OffIsDown == ~on => link = "down"

PowerInv == PowerTold /\ OneCaller /\ Halfway /\ FlagSettled
LinkInv == LinkTold /\ LinkSettled /\ AddressSettled /\ OffIsDown
IInv == TypeOK /\ PowerInv /\ LinkInv

-----------------------------------------------------------------------------
(* Two facts about any queue                                               *)

\* Posting: a new event of these kinds is the last one.
LEMMA Posted ==
    ASSUME NEW s \in Seq(Events), NEW e \in Events, NEW kinds, NEW yes,
           NEW b \in BOOLEAN
    PROVE  /\ Append(s, e) \in Seq(Events)
           /\ Len(Append(s, e)) = Len(s) + 1
           /\ Has(Append(s, e), kinds) <=> Has(s, kinds) \/ e \in kinds
           /\ e \in kinds /\ (b <=> e = yes)
                => LastSays(Append(s, e), kinds, yes, b)
           /\ e \notin kinds /\ LastSays(s, kinds, yes, b)
                => LastSays(Append(s, e), kinds, yes, b)
BY DEF Has, LastSays

\* Handling: the head is the last one exactly when the tail has none.
LEMMA Handled ==
    ASSUME NEW s \in Seq(Events), s # <<>>, NEW kinds, NEW yes,
           NEW b \in BOOLEAN, LastSays(s, kinds, yes, b)
    PROVE  /\ Tail(s) \in Seq(Events)
           /\ Len(Tail(s)) = Len(s) - 1
           /\ LastSays(Tail(s), kinds, yes, b)
           /\ Has(s, kinds) <=> Has(Tail(s), kinds) \/ Head(s) \in kinds
           /\ Head(s) \in kinds /\ ~Has(Tail(s), kinds) => (Head(s) = yes
                <=> b)
           /\ Has(Tail(s), kinds) <=> \E i \in 2..Len(s) : s[i] \in kinds
<1> DEFINE t == Tail(s)
<1>1. /\ t \in Seq(Events) /\ Len(s) \in Nat \ {0} /\ Len(t) = Len(s) - 1
      /\ \A i \in 1..Len(t) : t[i] = s[i + 1]
      /\ Head(s) = s[1]
  OBVIOUS
<1>2. \A i \in 2..Len(s) : i - 1 \in 1..Len(t) /\ s[i] = t[i - 1]
  <2> SUFFICES ASSUME NEW i \in 2..Len(s)
               PROVE  i - 1 \in 1..Len(t) /\ s[i] = t[i - 1]
    OBVIOUS
  <2>1. i - 1 \in 1..Len(t) /\ (i - 1) + 1 = i
    BY <1>1
  <2> QED
    BY <1>1, <2>1
<1> HIDE DEF t
<1>3. Has(t, kinds) <=> \E i \in 2..Len(s) : s[i] \in kinds
  BY <1>1, <1>2 DEF Has
<1>4. Has(s, kinds) <=> Has(t, kinds) \/ Head(s) \in kinds
  BY <1>1, <1>3 DEF Has
<1>5. Head(s) \in kinds /\ ~Has(t, kinds) => (Head(s) = yes <=> b)
  <2> SUFFICES ASSUME Head(s) \in kinds, ~Has(t, kinds)
               PROVE  Head(s) = yes <=> b
    OBVIOUS
  <2>1. \A j \in 1..Len(s) : j > 1 => s[j] \notin kinds
    BY <1>1, <1>3
  <2> QED
    BY <1>1, <2>1 DEF LastSays
<1>6. LastSays(t, kinds, yes, b)
  <2> SUFFICES ASSUME NEW i \in 1..Len(t), t[i] \in kinds,
                      \A j \in 1..Len(t) : j > i => t[j] \notin kinds
               PROVE  t[i] = yes <=> b
    BY DEF LastSays
  <2>1. i + 1 \in 1..Len(s) /\ s[i + 1] = t[i]
    BY <1>1
  <2>2. \A j \in 1..Len(s) : j > i + 1 => s[j] \notin kinds
    BY <1>1, <1>2
  <2> QED
    BY <2>1, <2>2 DEF LastSays
<1> QED
  BY <1>1, <1>3, <1>4, <1>5, <1>6 DEF t

\* The two kinds of events have nothing in common.
LEMMA Kinds ==
    /\ Events = PowerEvents \cup LinkEvents \cup {"GOT_IP"}
    /\ PowerEvents \cap LinkEvents = {}
    /\ "GOT_IP" \notin PowerEvents \cup LinkEvents
    /\ {"STA_START", "STA_STOP"} \subseteq PowerEvents
    /\ {"STA_CONNECTED", "STA_DISCONNECTED"} \subseteq LinkEvents
BY DEF Events, PowerEvents, LinkEvents

\* What the handler that takes the head of the queue can rely on.
LEMMA Handling ==
    ASSUME IInv, events # <<>>
    PROVE  /\ Tail(events) \in Seq(Events)
           /\ Len(Tail(events)) = Len(events) - 1
           /\ LastSays(Tail(events), PowerEvents, "STA_START", on)
           /\ LastSays(Tail(events), LinkEvents, "STA_CONNECTED", link = "up")
           /\ \A kinds \in {PowerEvents, LinkEvents} :
                Has(events, kinds) <=>
                    Has(Tail(events), kinds) \/ Head(events) \in kinds
           /\ Has(Tail(events), PowerEvents) <=>
                \E i \in 2..Len(events) : events[i] \in PowerEvents
           /\ Head(events) \in PowerEvents /\ ~Has(Tail(events), PowerEvents)
                => (Head(events) = "STA_START" <=> on)
           /\ Head(events) \in LinkEvents /\ ~Has(Tail(events), LinkEvents)
                => (Head(events) = "STA_CONNECTED" <=> link = "up")
<1>1. /\ events \in Seq(Events) /\ on \in BOOLEAN /\ (link = "up") \in BOOLEAN
      /\ LastSays(events, PowerEvents, "STA_START", on)
      /\ LastSays(events, LinkEvents, "STA_CONNECTED", link = "up")
  BY DEF IInv, TypeOK, PowerInv, PowerTold, LinkInv, LinkTold
<1>2. /\ Tail(events) \in Seq(Events)
      /\ Len(Tail(events)) = Len(events) - 1
      /\ LastSays(Tail(events), PowerEvents, "STA_START", on)
      /\ Has(events, PowerEvents) <=>
           Has(Tail(events), PowerEvents) \/ Head(events) \in PowerEvents
      /\ Has(Tail(events), PowerEvents) <=>
           \E i \in 2..Len(events) : events[i] \in PowerEvents
      /\ Head(events) \in PowerEvents /\ ~Has(Tail(events), PowerEvents)
           => (Head(events) = "STA_START" <=> on)
  BY <1>1, Handled
<1>3. /\ LastSays(Tail(events), LinkEvents, "STA_CONNECTED", link = "up")
      /\ Has(events, LinkEvents) <=>
           Has(Tail(events), LinkEvents) \/ Head(events) \in LinkEvents
      /\ Head(events) \in LinkEvents /\ ~Has(Tail(events), LinkEvents)
           => (Head(events) = "STA_CONNECTED" <=> link = "up")
  BY <1>1, Handled
<1> QED
  BY <1>2, <1>3

\* Disconnecting adds one event, or none if the station was not associated.
LEMMA Farewells ==
    ASSUME TypeOK, NEW s \in Seq(Events), NEW bye \in Farewell
    PROVE  \/ s \o bye = s /\ link # "up"
           \/ s \o bye = Append(s, "STA_DISCONNECTED")
<1>1. bye = <<>> => s \o bye = s
  OBVIOUS
<1>2. bye = <<"STA_DISCONNECTED">> => s \o bye = Append(s, "STA_DISCONNECTED")
  OBVIOUS
<1>3. bye = <<"STA_DISCONNECTED">> \/ (bye = <<>> /\ link # "up")
  BY DEF TypeOK, Farewell
<1> QED
  BY <1>1, <1>2, <1>3

\* It leaves the queue with the news that the link is down.
LEMMA Leaving ==
    ASSUME NEW s \in Seq(Events), NEW q,
           (q = s /\ link # "up") \/ q = Append(s, "STA_DISCONNECTED"),
           NEW b \in BOOLEAN,
           LastSays(s, PowerEvents, "STA_START", b),
           LastSays(s, LinkEvents, "STA_CONNECTED", link = "up")
    PROVE  /\ q \in Seq(Events)
           /\ Len(q) <= Len(s) + 1
           /\ LastSays(q, PowerEvents, "STA_START", b)
           /\ Has(q, PowerEvents) <=> Has(s, PowerEvents)
           /\ LastSays(q, LinkEvents, "STA_CONNECTED", FALSE)
           /\ ~Has(q, LinkEvents) => ~Has(s, LinkEvents) /\ link # "up"
<1> DEFINE e == "STA_DISCONNECTED"
<1>1. CASE q = s /\ link # "up"
  <2>1. q \in Seq(Events) /\ Len(q) <= Len(s) + 1
    BY <1>1
  <2>2. LastSays(q, PowerEvents, "STA_START", b)
    BY <1>1
  <2>3. LastSays(q, LinkEvents, "STA_CONNECTED", FALSE)
    BY <1>1
  <2>4. Has(q, PowerEvents) <=> Has(s, PowerEvents)
    BY <1>1
  <2>5. ~Has(q, LinkEvents) => ~Has(s, LinkEvents) /\ link # "up"
    BY <1>1
  <2> QED
    BY <2>1, <2>2, <2>3, <2>4, <2>5
<1>2. CASE q = Append(s, e)
  <2>1. e \in Events /\ e \notin PowerEvents /\ e \in LinkEvents
    BY Kinds
  <2>2. /\ Append(s, e) \in Seq(Events)
        /\ Len(Append(s, e)) = Len(s) + 1 /\ Len(s) \in Nat
        /\ LastSays(Append(s, e), PowerEvents, "STA_START", b)
        /\ Has(Append(s, e), PowerEvents) <=> Has(s, PowerEvents)
    BY <2>1, Posted
  <2>3. /\ Has(Append(s, e), LinkEvents)
        /\ LastSays(Append(s, e), LinkEvents, "STA_CONNECTED", FALSE)
    BY <2>1, Posted
  <2>4. /\ q \in Seq(Events)
        /\ Len(q) <= Len(s) + 1
    BY <1>2, <2>2
  <2>5. /\ LastSays(q, PowerEvents, "STA_START", b)
        /\ Has(q, PowerEvents) <=> Has(s, PowerEvents)
    BY <1>2, <2>2
  <2>6. /\ Has(q, LinkEvents)
        /\ LastSays(q, LinkEvents, "STA_CONNECTED", FALSE)
    BY <1>2, <2>3
  <2> QED
    BY <2>4, <2>5, <2>6
<1> QED
  BY <1>1, <1>2

-----------------------------------------------------------------------------
\* A new station, which nobody has started, satisfies it.
LEMMA InitHolds == Init => IInv
<1> SUFFICES ASSUME Init PROVE IInv
  OBVIOUS
<1>1. events = <<>> /\ events \in Seq(Events) /\ Len(events) = 0
  BY DEF Init
<1>2. TypeOK
  <2>1. pc \in [Callers -> {"idle"} \cup StartSteps \cup StopSteps]
    BY DEF Init
  <2>2. events \in Seq(Events) /\ Len(events) <= MaxEvents
    BY <1>1, EventsAssumption
  <2>3. ap \in Shown /\ ip \in Shown /\ link = "down" /\ applying = {}
    BY DEF Init, Shown
  <2>4. /\ started = FALSE /\ on = FALSE /\ netif = FALSE /\ wanted = FALSE
        /\ hurried = FALSE /\ suspect = FALSE /\ late = FALSE
    BY DEF Init
  <2> QED
    BY <2>1, <2>2, <2>3, <2>4 DEF TypeOK
<1>3. PowerInv
  <2>1. PowerTold
    BY <1>1 DEF PowerTold, LastSays
  <2> QED
    BY <2>1 DEF Init, PowerInv, OneCaller, Halfway, FlagSettled
<1>4. LinkInv
  BY <1>1 DEF Init, LinkInv, LinkTold, LinkSettled, AddressSettled, OffIsDown, LastSays
<1> QED
  BY <1>2, <1>3, <1>4 DEF IInv

\* Every step of a caller, of a handler and of the driver preserves IInv.
LEMMA StepPreserves == IInv /\ [Next]_vars => IInv'
<1> SUFFICES ASSUME IInv, [Next]_vars PROVE IInv'
  OBVIOUS
<1> USE EventsAssumption
    DEF IInv, PowerInv, LinkInv, status, calls, driver, history
\* These steps leave the queue alone.
<1> USE DEF TypeOK, PowerTold, OneCaller, Halfway, FlagSettled, LinkTold,
            LinkSettled, AddressSettled, OffIsDown, StartSteps, StopSteps
<1>1. ASSUME NEW t \in Callers, WifiStart(t) PROVE IInv'
  BY <1>1 DEF WifiStart, Command, Idle
<1>2. ASSUME NEW t \in Callers, WifiStop(t) PROVE IInv'
  BY <1>2 DEF WifiStop, Command, Idle
<1>3. ASSUME NEW t \in Callers, WifiApply(t) PROVE IInv'
  BY <1>3 DEF WifiApply, Command, Idle
<1>4. ASSUME NEW t \in Callers, StartCheck(t) PROVE IInv'
  BY <1>4 DEF StartCheck
<1>5. ASSUME NEW t \in Callers, StartDriverFails(t) PROVE IInv'
  BY <1>5 DEF StartDriverFails
<1>6. ASSUME NEW t \in Callers, StartFlag(t) PROVE IInv'
  BY <1>6 DEF StartFlag
<1>7. ASSUME NEW t \in Callers, StopCheck(t) PROVE IInv'
  BY <1>7 DEF StopCheck, AfterStop
<1>8. ASSUME NEW t \in Callers, StopFlag(t) PROVE IInv'
  BY <1>8 DEF StopFlag, AfterStop
<1>9. CASE UNCHANGED vars
  BY <1>9 DEF vars
<1> HIDE DEF TypeOK, PowerTold, OneCaller, Halfway, FlagSettled, LinkTold,
             LinkSettled, AddressSettled, OffIsDown, StartSteps, StopSteps
\* These post an event, or take one.
<1>10. ASSUME NEW t \in Callers, StartDriver(t) PROVE IInv'
  <2>1. TypeOK'
    BY <1>10, Kinds DEF StartDriver, TypeOK, Room, StartSteps
  <2>2. CASE on
    BY <1>10, <2>1, <2>2
    DEF StartDriver, TypeOK, PowerTold, OneCaller, Halfway, FlagSettled,
        LinkTold, LinkSettled, AddressSettled, OffIsDown
  <2>3. CASE ~on
    <3>1. events \in Seq(Events) /\ "STA_START" \in Events
          /\ "STA_START" \in PowerEvents /\ "STA_START" \notin LinkEvents
      BY Kinds DEF TypeOK
    <3>2. /\ Has(Append(events, "STA_START"), PowerEvents)
          /\ LastSays(Append(events, "STA_START"), PowerEvents,
                      "STA_START", TRUE)
      BY <3>1, Posted
    <3>3. /\ Has(Append(events, "STA_START"), LinkEvents)
               <=> Has(events, LinkEvents)
          /\ LastSays(events, LinkEvents, "STA_CONNECTED", link = "up")
               => LastSays(Append(events, "STA_START"), LinkEvents,
                           "STA_CONNECTED", link = "up")
      <4>1. (link = "up") \in BOOLEAN
        OBVIOUS
      <4> QED
        BY <3>1, <4>1, Posted
    <3> QED
      BY <1>10, <2>1, <2>3, <3>2, <3>3
      DEF StartDriver, TypeOK, PowerTold, OneCaller, Halfway, FlagSettled,
          LinkTold, LinkSettled, AddressSettled, OffIsDown
  <2> QED
    BY <2>2, <2>3
<1>11. ASSUME NEW t \in Callers, StopDriver(t) PROVE IInv'
  <2>1. CASE ~on
    BY <1>11, <2>1
    DEF StopDriver, TypeOK, PowerTold, OneCaller, Halfway, FlagSettled,
        LinkTold, LinkSettled, AddressSettled, OffIsDown, StopSteps
  <2>2. CASE on
    <3>1. PICK bye \in Farewell : events' = Append(events \o bye, "STA_STOP")
      BY <1>11, <2>2 DEF StopDriver
    <3> DEFINE s == events \o bye
    <3>2. /\ events \in Seq(Events) /\ Len(events) \in Nat /\ on \in BOOLEAN
          /\ LastSays(events, PowerEvents, "STA_START", on)
          /\ LastSays(events, LinkEvents, "STA_CONNECTED", link = "up")
      BY DEF TypeOK, PowerTold, LinkTold
    <3>3. /\ \/ s = events /\ link # "up"
             \/ s = Append(events, "STA_DISCONNECTED")
          /\ events' = Append(s, "STA_STOP")
      BY <3>1, <3>2, Farewells
    <3> HIDE DEF s
    <3>4. /\ s \in Seq(Events)
          /\ Len(s) <= Len(events) + 1
          /\ LastSays(s, LinkEvents, "STA_CONNECTED", FALSE)
          /\ ~Has(s, LinkEvents) => ~Has(events, LinkEvents) /\ link # "up"
      BY <3>2, <3>3, Leaving
    <3>5. "STA_STOP" \in Events /\ "STA_STOP" \in PowerEvents
          /\ "STA_STOP" \notin LinkEvents /\ "STA_STOP" # "STA_START"
      BY Kinds
    <3>6. /\ events' \in Seq(Events) /\ Len(events') = Len(s) + 1
          /\ Has(events', PowerEvents)
          /\ LastSays(events', PowerEvents, "STA_START", FALSE)
      BY <3>4, <3>3, <3>5, Posted
    <3>7. /\ Has(events', LinkEvents) <=> Has(s, LinkEvents)
          /\ LastSays(events', LinkEvents, "STA_CONNECTED", FALSE)
      BY <3>4, <3>3, <3>5, Posted
    <3>8. TypeOK'
      <4>1. Len(events) + 2 <= MaxEvents /\ Len(s) \in Nat
        BY <1>11, <2>2, <3>4 DEF StopDriver, Room
      <4>2. Len(events') <= MaxEvents
        BY <3>2, <3>4, <3>6, <4>1
      <4> QED
        BY <1>11, <3>6, <4>2 DEF StopDriver, TypeOK, StopSteps
    <3>9. PowerInv'
      BY <1>11, <3>6
      DEF StopDriver, TypeOK, PowerTold, OneCaller, Halfway, FlagSettled
    <3>10. LinkInv'
      <4>1. (link' = "up") = FALSE
        BY <1>11 DEF StopDriver
      <4> QED
        BY <1>11, <3>4, <3>7, <4>1
        DEF StopDriver, TypeOK, LinkTold, LinkSettled, AddressSettled, OffIsDown
    <3> QED
      BY <3>8, <3>9, <3>10
  <2> QED
    BY <2>1, <2>2
<1>12. CASE GotStaStart
  <2>1. events # <<>>
    BY <1>12 DEF GotStaStart, Handles
  <2>2. TypeOK'
    <3>1. events' \in Seq(Events) /\ Len(events') <= MaxEvents
      BY <1>12, <2>1, Handling DEF GotStaStart, TypeOK
    <3>2. link' \in {"down", "connecting", "up"}
      BY <1>12 DEF GotStaStart, DriverConnects, TypeOK
    <3> QED
      BY <1>12, <3>1, <3>2 DEF GotStaStart, Corrects, TypeOK, Shown
  <2>3. PowerInv'
    BY <1>12, <2>1, Handling, Kinds
    DEF GotStaStart, Handles, Corrects, Idle, DriverConnects, TypeOK,
        PowerTold, OneCaller, Halfway, FlagSettled
  <2>4. LinkInv'
    BY <1>12, <2>1, Handling, Kinds
    DEF GotStaStart, Handles, Corrects, Idle, DriverConnects, TypeOK, LinkTold,
        LinkSettled, AddressSettled, OffIsDown
  <2> QED
    BY <2>2, <2>3, <2>4
<1>13. CASE GotStaDisconnected
  <2>1. events # <<>>
    BY <1>13 DEF GotStaDisconnected, Handles
  <2>2. TypeOK'
    <3>1. events' \in Seq(Events) /\ Len(events') <= MaxEvents
      BY <1>13, <2>1, Handling DEF GotStaDisconnected, TypeOK
    <3>2. link' \in {"down", "connecting", "up"}
      BY <1>13 DEF GotStaDisconnected, DriverConnects, TypeOK
    <3> QED
      BY <1>13, <3>1, <3>2 DEF GotStaDisconnected, TypeOK, Shown
  <2>3. PowerInv'
    BY <1>13, <2>1, Handling, Kinds
    DEF GotStaDisconnected, Handles, DriverConnects, TypeOK, PowerTold,
        OneCaller, Halfway, FlagSettled
  <2>4. LinkInv'
    BY <1>13, <2>1, Handling, Kinds
    DEF GotStaDisconnected, Handles, DriverConnects, TypeOK, LinkTold,
        LinkSettled, AddressSettled, OffIsDown
  <2> QED
    BY <2>2, <2>3, <2>4
<1>14. CASE GotStaConnected
  <2>1. events # <<>>
    BY <1>14 DEF GotStaConnected, Handles
  <2>2. TypeOK'
    <3>1. events' \in Seq(Events) /\ Len(events') <= MaxEvents
      BY <1>14, <2>1, Handling DEF GotStaConnected, TypeOK
    <3>2. link' \in {"down", "connecting", "up"}
      BY <1>14 DEF GotStaConnected, TypeOK
    <3> QED
      BY <1>14, <3>1, <3>2 DEF GotStaConnected, TypeOK, Shown
  <2>3. PowerInv'
    BY <1>14, <2>1, Handling, Kinds
    DEF GotStaConnected, Handles, TypeOK, PowerTold, OneCaller, Halfway,
        FlagSettled
  <2>4. LinkInv'
    BY <1>14, <2>1, Handling, Kinds
    DEF GotStaConnected, Handles, TypeOK, LinkTold, LinkSettled, AddressSettled, OffIsDown
  <2> QED
    BY <2>2, <2>3, <2>4
<1>15. CASE GotStaGotIp
  <2>1. events # <<>>
    BY <1>15 DEF GotStaGotIp, Handles
  <2>2. TypeOK'
    <3>1. events' \in Seq(Events) /\ Len(events') <= MaxEvents
      BY <1>15, <2>1, Handling DEF GotStaGotIp, TypeOK
    <3>2. link' \in {"down", "connecting", "up"}
      BY <1>15 DEF GotStaGotIp, TypeOK
    <3> QED
      BY <1>15, <3>1, <3>2 DEF GotStaGotIp, TypeOK, Shown
  <2>3. PowerInv'
    BY <1>15, <2>1, Handling, Kinds
    DEF GotStaGotIp, Handles, TypeOK, PowerTold, OneCaller, Halfway,
        FlagSettled
  <2>4. LinkInv'
    BY <1>15, <2>1, Handling, Kinds
    DEF GotStaGotIp, Handles, TypeOK, LinkTold, LinkSettled, AddressSettled, OffIsDown
  <2> QED
    BY <2>2, <2>3, <2>4
<1>16. CASE GotStaStop
  <2>1. events # <<>>
    BY <1>16 DEF GotStaStop, Handles
  <2> DEFINE s == Tail(events)
  <2>2. PICK bye \in Farewell : events' = s \o bye
    BY <1>16 DEF GotStaStop
  <2>3. s \in Seq(Events) /\ Len(s) = Len(events) - 1
    BY <2>1, Handling
  <2>4. /\ s \o bye \in Seq(Events)
        /\ Len(s \o bye) <= Len(s) + 1
        /\ LastSays(s \o bye, PowerEvents, "STA_START", on)
        /\ Has(s \o bye, PowerEvents) <=> Has(s, PowerEvents)
        /\ LastSays(s \o bye, LinkEvents, "STA_CONNECTED", FALSE)
        /\ ~Has(s \o bye, LinkEvents) => ~Has(s, LinkEvents) /\ link # "up"
    <3>1. LastSays(s, PowerEvents, "STA_START", on)
          /\ LastSays(s, LinkEvents, "STA_CONNECTED", link = "up")
          /\ on \in BOOLEAN
      BY <2>1, Handling DEF TypeOK
    <3>2. \/ s \o bye = s /\ link # "up"
          \/ s \o bye = Append(s, "STA_DISCONNECTED")
      BY <2>3, Farewells
    <3> QED
      BY <2>3, <3>1, <3>2, Leaving
  <2>5. TypeOK'
    <3>1. events' \in Seq(Events) /\ Len(events') <= MaxEvents
      BY <2>2, <2>3, <2>4 DEF TypeOK
    <3> QED
      BY <1>16, <3>1 DEF GotStaStop, Corrects, TypeOK
  <2>6. PowerInv'
    BY <1>16, <2>1, <2>2, <2>4, Handling, Kinds
    DEF GotStaStop, Handles, Corrects, Idle, TypeOK, PowerTold, OneCaller,
        Halfway, FlagSettled
  <2>7. LinkInv'
    <3>1. (link' = "up") = FALSE
      BY <1>16 DEF GotStaStop
    <3> QED
      BY <1>16, <2>1, <2>2, <2>4, <3>1, Handling, Kinds
      DEF GotStaStop, Handles, TypeOK, LinkTold, LinkSettled, AddressSettled, OffIsDown
  <2> QED
    BY <2>5, <2>6, <2>7
<1>17. CASE LinkUp
  <2>1. events \in Seq(Events) /\ on \in BOOLEAN /\ (link = "up") \in BOOLEAN
        /\ "STA_CONNECTED" \in Events /\ "STA_CONNECTED" \notin PowerEvents
        /\ "STA_CONNECTED" \in LinkEvents
        /\ LastSays(events, PowerEvents, "STA_START", on)
        /\ LastSays(events, LinkEvents, "STA_CONNECTED", link = "up")
    BY Kinds DEF TypeOK, PowerTold, LinkTold
  <2>2. /\ Append(events, "STA_CONNECTED") \in Seq(Events)
        /\ Len(Append(events, "STA_CONNECTED")) = Len(events) + 1
        /\ Has(Append(events, "STA_CONNECTED"), PowerEvents)
             <=> Has(events, PowerEvents)
        /\ LastSays(Append(events, "STA_CONNECTED"), PowerEvents,
                    "STA_START", on)
    BY <2>1, Posted
  <2>3. /\ Has(Append(events, "STA_CONNECTED"), LinkEvents)
        /\ LastSays(Append(events, "STA_CONNECTED"), LinkEvents,
                    "STA_CONNECTED", TRUE)
    BY <2>1, Posted
  <2>4. (link' = "up") = TRUE
    BY <1>17 DEF LinkUp
  <2>5. TypeOK'
    BY <1>17, <2>2 DEF LinkUp, Room, TypeOK
  <2>6. PowerInv'
    BY <1>17, <2>2
    DEF LinkUp, TypeOK, PowerTold, OneCaller, Halfway, FlagSettled
  <2>7. LinkInv'
    BY <1>17, <2>3, <2>4 DEF LinkUp, TypeOK, LinkTold, LinkSettled, AddressSettled, OffIsDown
  <2> QED
    BY <2>5, <2>6, <2>7
<1>18. CASE LinkDown
  <2>1. events \in Seq(Events) /\ on \in BOOLEAN /\ (link = "up") \in BOOLEAN
        /\ "STA_DISCONNECTED" \in Events
        /\ "STA_DISCONNECTED" \notin PowerEvents
        /\ "STA_DISCONNECTED" \in LinkEvents
        /\ LastSays(events, PowerEvents, "STA_START", on)
        /\ LastSays(events, LinkEvents, "STA_CONNECTED", link = "up")
    BY Kinds DEF TypeOK, PowerTold, LinkTold
  <2>2. /\ Append(events, "STA_DISCONNECTED") \in Seq(Events)
        /\ Len(Append(events, "STA_DISCONNECTED")) = Len(events) + 1
        /\ Has(Append(events, "STA_DISCONNECTED"), PowerEvents)
             <=> Has(events, PowerEvents)
        /\ LastSays(Append(events, "STA_DISCONNECTED"), PowerEvents,
                    "STA_START", on)
    BY <2>1, Posted
  <2>3. /\ Has(Append(events, "STA_DISCONNECTED"), LinkEvents)
        /\ LastSays(Append(events, "STA_DISCONNECTED"), LinkEvents,
                    "STA_CONNECTED", FALSE)
    BY <2>1, Posted
  <2>4. (link' = "up") = FALSE
    BY <1>18 DEF LinkDown
  <2>5. TypeOK'
    BY <1>18, <2>2 DEF LinkDown, Room, TypeOK
  <2>6. PowerInv'
    BY <1>18, <2>2
    DEF LinkDown, TypeOK, PowerTold, OneCaller, Halfway, FlagSettled
  <2>7. LinkInv'
    BY <1>18, <2>3, <2>4 DEF LinkDown, TypeOK, LinkTold, LinkSettled, AddressSettled, OffIsDown
  <2> QED
    BY <2>5, <2>6, <2>7
<1>19. CASE Lease
  <2>1. events \in Seq(Events) /\ on \in BOOLEAN /\ (link = "up") \in BOOLEAN
        /\ "GOT_IP" \in Events /\ "GOT_IP" \notin PowerEvents
        /\ "GOT_IP" \notin LinkEvents
        /\ LastSays(events, PowerEvents, "STA_START", on)
        /\ LastSays(events, LinkEvents, "STA_CONNECTED", link = "up")
    BY Kinds DEF TypeOK, PowerTold, LinkTold
  <2>2. /\ Append(events, "GOT_IP") \in Seq(Events)
        /\ Len(Append(events, "GOT_IP")) = Len(events) + 1
        /\ Has(Append(events, "GOT_IP"), PowerEvents)
             <=> Has(events, PowerEvents)
        /\ LastSays(Append(events, "GOT_IP"), PowerEvents, "STA_START", on)
    BY <2>1, Posted
  <2>3. /\ Has(Append(events, "GOT_IP"), LinkEvents)
             <=> Has(events, LinkEvents)
        /\ LastSays(Append(events, "GOT_IP"), LinkEvents, "STA_CONNECTED",
                    link = "up")
    BY <2>1, Posted
  <2>4. (link' = "up") = (link = "up")
    BY <1>19 DEF Lease
  <2>5. TypeOK'
    BY <1>19, <2>2 DEF Lease, Room, TypeOK
  <2>6. PowerInv'
    BY <1>19, <2>2
    DEF Lease, TypeOK, PowerTold, OneCaller, Halfway, FlagSettled
  <2>7. LinkInv'
    BY <1>19, <2>3, <2>4 DEF Lease, TypeOK, LinkTold, LinkSettled, AddressSettled, OffIsDown
  <2> QED
    BY <2>5, <2>6, <2>7
<1> QED
  BY <1>1, <1>2, <1>3, <1>4, <1>5, <1>6, <1>7, <1>8, <1>9, <1>10,
     <1>11, <1>12, <1>13, <1>14, <1>15, <1>16, <1>17, <1>18, <1>19
  DEF Next, Caller, EspEventHandler

\* The inductive invariant holds of every behaviour of the callers, the driver and the handlers.
THEOREM Invariance == Spec => []IInv
BY InitHolds, StepPreserves, PTL DEF Spec

\* The flag, the status, the queue and the callers keep their types
\* (EspWifi.hxx, EspWifi.cxx:27-143).
THEOREM TypeCorrect == Spec => []TypeOK
<1>1. IInv => TypeOK
  BY DEF IInv
<1> QED
  BY <1>1, Invariance, PTL

\* Whatever the delay between the driver and its handlers, _started mirrors
\* the driver once the queue holds no START and no STOP.
THEOREM FlagIsRight == Spec => []StartedMirrorsDriver
<1>1. IInv => StartedMirrorsDriver
  BY DEF IInv, PowerInv, FlagSettled, StartedMirrorsDriver, Settled, Idle,
         Pending, Has
<1> QED
  BY <1>1, Invariance, PTL

\* The association shown is the real one once the queue holds no report, and no
\* address is shown without one but by a report that came late.
THEOREM StatusIsRight == Spec => []StatusMirrorsLink
<1>1. IInv => StatusMirrorsLink
  BY DEF IInv, LinkInv, LinkSettled, AddressSettled, StatusMirrorsLink, Pending, Has
<1> QED
  BY <1>1, Invariance, PTL

-----------------------------------------------------------------------------
(* The last command                                                        *)
(*                                                                         *)
(* A command given with nothing in flight, and undisturbed since: where    *)
(* its caller is tells what can be in the queue.  Once the caller is       *)
(* through, the driver is as wanted, or the command was ignored; then the  *)
(* flag was wrong before, and no START or STOP is left to excuse that.     *)

\* Only the last command runs.
Alone == \A t, u \in Callers : pc[t] # "idle" /\ pc[u] # "idle" => t = u

\* What it wants, and what it has posted so far.
Underway ==
    \A t \in Callers :
        /\ pc[t] \in StartSteps => wanted
        /\ pc[t] \in StopSteps => (wanted <=> t \in applying)
        /\ pc[t] \in {"stop", "stop_driver"} => ~Has(events, PowerEvents)
        /\ pc[t] = "stop_flag" => ~on /\ ~Has(events, {"STA_START"})
        /\ pc[t] = "start" =>
              ~Has(events, {"STA_START"})
              /\ (Has(events, PowerEvents) => ~started)
        /\ pc[t] = "start_flag" => on

Through == Idle /\ on # wanted => suspect /\ ~Has(events, PowerEvents)

\* Only a running stop() is the first half of an apply.
Applies == \A t \in Callers : t \in applying => pc[t] \in StopSteps

Obeyed == Applies /\ (~hurried => Alone /\ Underway /\ Through)

\* A report about the link is no news about the driver.
LEMMA NoPowerNews ==
    ASSUME TypeOK, NEW s \in Seq(Events), NEW kinds,
           kinds \cap (LinkEvents \cup {"GOT_IP"}) = {}
    PROVE  /\ \A e \in LinkEvents \cup {"GOT_IP"} :
                 Has(Append(s, e), kinds) => Has(s, kinds)
           /\ \A bye \in Farewell : Has(s \o bye, kinds) => Has(s, kinds)
           /\ s # <<>> => (Has(Tail(s), kinds) => Has(s, kinds))
<1>1. \A e \in LinkEvents \cup {"GOT_IP"} :
         Has(Append(s, e), kinds) => Has(s, kinds)
  BY DEF Has
<1>2. ASSUME NEW bye \in Farewell PROVE Has(s \o bye, kinds) => Has(s, kinds)
  <2>1. s \o bye = s \/ s \o bye = Append(s, "STA_DISCONNECTED")
    BY Farewells
  <2> QED
    BY <1>1, <2>1 DEF LinkEvents
<1>3. ASSUME s # <<>> PROVE Has(Tail(s), kinds) => Has(s, kinds)
  <2>1. /\ Len(s) \in Nat /\ Len(Tail(s)) = Len(s) - 1
        /\ \A i \in 1..Len(Tail(s)) : Tail(s)[i] = s[i + 1]
    BY <1>3
  <2>2. \A i \in 1..Len(Tail(s)) : i + 1 \in 1..Len(s)
    BY <2>1
  <2> QED
    BY <2>1, <2>2 DEF Has
<1> QED
  BY <1>1, <1>2, <1>3

\* Every handler takes an event, and none posts a START or a STOP.
LEMMA HandlersPostNoPower ==
    ASSUME TypeOK, EspEventHandler
    PROVE  /\ events # <<>>
           /\ \A kinds \in {PowerEvents, {"STA_START"}} :
                 Has(events', kinds) => Has(events, kinds)
<1>1. events \in Seq(Events) /\ events # <<>>
  BY DEF TypeOK, EspEventHandler, GotStaStart, GotStaStop, GotStaDisconnected,
         GotStaConnected, GotStaGotIp, Handles
<1>2. Tail(events) \in Seq(Events)
  BY <1>1
<1>3. events' = Tail(events) \/ \E bye \in Farewell : events' = Tail(events) \o bye
  BY DEF EspEventHandler, GotStaStart, GotStaStop, GotStaDisconnected,
         GotStaConnected, GotStaGotIp
<1>4. ASSUME NEW kinds \in {PowerEvents, {"STA_START"}}
      PROVE  Has(events', kinds) => Has(events, kinds)
  <2>1. kinds \cap (LinkEvents \cup {"GOT_IP"}) = {}
    BY DEF PowerEvents, LinkEvents
  <2>2. Has(Tail(events), kinds) => Has(events, kinds)
    BY <1>1, <2>1, NoPowerNews
  <2>3. \A bye \in Farewell :
           Has(Tail(events) \o bye, kinds) => Has(Tail(events), kinds)
    BY <1>2, <2>1, NoPowerNews
  <2> QED
    BY <1>3, <2>2, <2>3
<1> QED
  BY <1>1, <1>4

\* The driver's own reports are about the link.
LEMMA DriverPostsNoPower ==
    ASSUME TypeOK, LinkUp \/ LinkDown \/ Lease
    PROVE  \A kinds \in {PowerEvents, {"STA_START"}} :
              Has(events', kinds) => Has(events, kinds)
<1> SUFFICES ASSUME NEW kinds \in {PowerEvents, {"STA_START"}}
             PROVE  Has(events', kinds) => Has(events, kinds)
  OBVIOUS
<1>1. events \in Seq(Events) /\ kinds \cap (LinkEvents \cup {"GOT_IP"}) = {}
  BY DEF TypeOK, PowerEvents, LinkEvents
<1>2. \E e \in LinkEvents \cup {"GOT_IP"} : events' = Append(events, e)
  BY DEF LinkUp, LinkDown, Lease, LinkEvents
<1> QED
  BY <1>1, <1>2, NoPowerNews

LEMMA ObeyedAtFirst == Init => Obeyed
BY DEF Init, Obeyed, Applies, Alone, Underway, Through, Has, StartSteps, StopSteps

\* A new command: it counts if nothing is in flight.
LEMMA CommandObeyed ==
    ASSUME IInv, Obeyed, NEW t \in Callers,
           WifiStart(t) \/ WifiStop(t) \/ WifiApply(t)
    PROVE  Obeyed'
<1>1. PICK first \in {"start", "stop"}, apply \in BOOLEAN :
         Command(t, first, apply) /\ (apply => first = "stop")
  BY DEF WifiStart, WifiStop, WifiApply
<1>2. /\ pc' = [pc EXCEPT ![t] = first] /\ pc[t] = "idle"
      /\ applying' = IF apply THEN applying \cup {t} ELSE applying
      /\ wanted' = (apply \/ first = "start")
      /\ hurried' = (Pending(PowerEvents) \/ ~Idle)
      /\ UNCHANGED <<started, events, on>>
  BY <1>1 DEF Command, driver
<1>3. pc \in [Callers -> {"idle"} \cup StartSteps \cup StopSteps]
  BY DEF IInv, TypeOK
<1>4. t \notin applying
  BY <1>2 DEF Obeyed, Applies, StopSteps
<1>5. Applies'
  BY <1>1, <1>2, <1>3 DEF Obeyed, Applies, StopSteps
<1>6. ASSUME ~hurried' PROVE Alone' /\ Underway' /\ Through'
  <2>1. ~Has(events, PowerEvents) /\ \A u \in Callers : pc[u] = "idle"
    BY <1>2, <1>6 DEF Pending, Has, Idle
  <2>2. ~Has(events', PowerEvents) /\ ~Has(events', {"STA_START"})
    BY <1>2, <2>1 DEF Has, PowerEvents
  <2>3. pc'[t] = first /\ \A u \in Callers \ {t} : pc'[u] = "idle"
    BY <1>2, <1>3, <2>1
  <2>4. Alone'
    BY <2>3 DEF Alone
  <2>5. Underway'
    BY <1>1, <1>2, <1>4, <2>2, <2>3 DEF Underway, StartSteps, StopSteps
  <2>6. Through'
    BY <1>1, <2>3 DEF Through, Idle
  <2> QED
    BY <2>4, <2>5, <2>6
<1> QED
  BY <1>5, <1>6 DEF Obeyed

\* The statements of start().
LEMMA StartObeyed ==
    ASSUME IInv, Obeyed, NEW t \in Callers,
           StartCheck(t) \/ StartDriver(t) \/ StartDriverFails(t) \/ StartFlag(t)
    PROVE  Obeyed'
<1>1. pc \in [Callers -> {"idle"} \cup StartSteps \cup StopSteps]
  BY DEF IInv, TypeOK
<1>2. PICK s \in {"idle", "start_driver", "start_flag"} :
         pc' = [pc EXCEPT ![t] = s]
  BY DEF StartCheck, StartDriver, StartDriverFails, StartFlag
<1>3. pc'[t] = s /\ \A u \in Callers \ {t} : pc'[u] = pc[u]
  BY <1>1, <1>2
<1>4. pc[t] \in StartSteps /\ UNCHANGED <<applying, wanted>>
  BY DEF StartCheck, StartDriver, StartDriverFails, StartFlag, StartSteps, history
<1>5. Applies'
  BY <1>3, <1>4 DEF Obeyed, Applies, StartSteps, StopSteps
<1>6. ASSUME ~hurried' PROVE Alone' /\ Underway' /\ Through'
  <2>1. ~StartDriverFails(t) /\ ~hurried /\ UNCHANGED suspect
    BY <1>6 DEF StartCheck, StartDriver, StartDriverFails, StartFlag, history
  <2>2. Alone /\ Underway /\ Through
    BY <2>1 DEF Obeyed
  <2>3. \A u \in Callers \ {t} : pc[u] = "idle" /\ pc'[u] = "idle"
    BY <1>3, <1>4, <2>2 DEF Alone, StartSteps
  <2>4. Alone'
    BY <2>3 DEF Alone
  <2>5. wanted
    BY <1>4, <2>2 DEF Underway
  <2>6. CASE StartCheck(t)
    <3>1. UNCHANGED <<started, events, on, suspect>> /\ pc[t] = "start"
      BY <2>6 DEF StartCheck, driver, history
    <3>2. s = IF started THEN "idle" ELSE "start_driver"
      BY <1>1, <1>3, <2>6 DEF StartCheck
    <3>3. Underway'
      BY <1>3, <1>4, <2>3, <2>5, <3>2 DEF Underway, StartSteps, StopSteps
    <3>4. Through'
      <4> SUFFICES ASSUME started, ~on
                   PROVE  suspect /\ ~Has(events, PowerEvents)
        BY <1>3, <1>4, <2>5, <3>1, <3>2 DEF Through, Idle, IInv, TypeOK, Has
      <4>1. ~Has(events, PowerEvents)
        BY <2>2, <3>1 DEF Underway
      <4>2. \A u \in Callers : pc[u] \notin {"start_flag", "stop_flag"}
        BY <2>3, <3>1
      <4> QED
        BY <4>1, <4>2 DEF IInv, PowerInv, FlagSettled
    <3> QED
      BY <2>4, <3>3, <3>4
  <2>7. CASE StartDriver(t)
    <3>1. s = "start_flag" /\ on'
      BY <1>1, <1>3, <2>7 DEF StartDriver
    <3>2. Underway'
      BY <1>3, <1>4, <2>3, <2>5, <3>1 DEF Underway, StartSteps, StopSteps
    <3> QED
      BY <1>3, <2>4, <3>1, <3>2 DEF Through, Idle
  <2>8. CASE StartFlag(t)
    <3>1. s = "idle" /\ on' = on /\ on
      BY <1>1, <1>3, <2>2, <2>8 DEF StartFlag, driver, Underway
    <3>2. Underway'
      BY <1>3, <2>3, <3>1 DEF Underway, StartSteps, StopSteps
    <3> QED
      BY <1>4, <2>4, <2>5, <3>1, <3>2 DEF Through, IInv, TypeOK
  <2> QED
    BY <2>1, <2>6, <2>7, <2>8
<1> QED
  BY <1>5, <1>6 DEF Obeyed

\* The statements of stop().
LEMMA StopObeyed ==
    ASSUME IInv, Obeyed, NEW t \in Callers,
           StopCheck(t) \/ StopDriver(t) \/ StopFlag(t)
    PROVE  Obeyed'
<1>1. pc \in [Callers -> {"idle"} \cup StartSteps \cup StopSteps]
  BY DEF IInv, TypeOK
<1>2. PICK s \in {"idle", "start", "stop_driver", "stop_flag"} :
         pc' = [pc EXCEPT ![t] = s]
  BY DEF StopCheck, StopDriver, StopFlag, AfterStop
<1>3. pc'[t] = s /\ \A u \in Callers \ {t} : pc'[u] = pc[u]
  BY <1>1, <1>2
<1>4. /\ pc[t] \in StopSteps /\ UNCHANGED <<wanted, hurried, suspect>>
      /\ \A u \in Callers \ {t} : u \in applying' <=> u \in applying
  BY DEF StopCheck, StopDriver, StopFlag, AfterStop, StopSteps, history
<1>5. Applies'
  <2>1. t \in applying' => s \in StopSteps
    BY <1>1, <1>3 DEF StopCheck, StopDriver, StopFlag, AfterStop, StopSteps
  <2> QED
    BY <1>3, <1>4, <2>1 DEF Obeyed, Applies
<1>6. ASSUME ~hurried' PROVE Alone' /\ Underway' /\ Through'
  <2>1. Alone /\ Underway /\ Through
    BY <1>4, <1>6 DEF Obeyed
  <2>2. \A u \in Callers \ {t} : pc[u] = "idle" /\ pc'[u] = "idle"
    BY <1>3, <1>4, <2>1 DEF Alone, StopSteps
  <2>3. Alone'
    BY <2>2 DEF Alone
  <2>4. wanted' = wanted /\ (wanted <=> t \in applying)
    BY <1>4, <2>1 DEF Underway
  <2>5. CASE StopCheck(t)
    <3>1. /\ UNCHANGED <<started, events, on, suspect>> /\ pc[t] = "stop"
          /\ ~Has(events, PowerEvents)
      BY <2>1, <2>5 DEF StopCheck, driver, history, Underway
    <3>2. ~Has(events', PowerEvents) /\ ~Has(events', {"STA_START"})
      BY <3>1 DEF Has, PowerEvents
    <3>3. /\ started => s = "stop_driver" /\ applying' = applying
          /\ ~started => s = IF t \in applying THEN "start" ELSE "idle"
      BY <1>1, <1>3, <2>5 DEF StopCheck, AfterStop
    <3>4. Underway'
      BY <1>3, <2>2, <2>4, <3>1, <3>2, <3>3 DEF Underway, StartSteps, StopSteps
    <3>5. Through'
      <4>1. \A u \in Callers : pc[u] \notin {"start_flag", "stop_flag"}
        BY <2>2, <3>1
      <4>2. ~suspect => started = on
        BY <3>1, <4>1 DEF IInv, PowerInv, FlagSettled
      <4>3. pc'[t] = "idle" => ~started /\ ~wanted
        BY <1>3, <2>4, <3>3
      <4> QED
        BY <2>4, <3>1, <3>2, <4>2, <4>3 DEF Through, Idle, IInv, TypeOK
    <3> QED
      BY <2>3, <3>4, <3>5
  <2>6. CASE StopDriver(t)
    <3>1. /\ s = "stop_flag" /\ ~on' /\ applying' = applying
          /\ pc[t] = "stop_driver" /\ ~Has(events, PowerEvents)
      BY <1>1, <1>3, <2>1, <2>6 DEF StopDriver, Underway
    <3>2. ~Has(events, {"STA_START"}) /\ events \in Seq(Events)
      BY <3>1 DEF Has, PowerEvents, IInv, TypeOK
    <3>3. ~Has(events', {"STA_START"})
      <4>1. CASE ~on
        BY <2>6, <3>2, <4>1 DEF StopDriver, Has
      <4>2. CASE on
        <5>1. PICK bye \in Farewell :
                 events' = Append(events \o bye, "STA_STOP")
          BY <2>6, <4>2 DEF StopDriver
        <5> DEFINE q == events \o bye
        <5>2. q = events \/ q = Append(events, "STA_DISCONNECTED")
          BY <3>2, Farewells DEF IInv
        <5>3. ~Has(q, {"STA_START"})
          <6>1. {"STA_START"} \cap (LinkEvents \cup {"GOT_IP"}) = {}
            BY DEF LinkEvents
          <6>2. Has(events \o bye, {"STA_START"}) => Has(events, {"STA_START"})
            BY <3>2, <6>1, NoPowerNews DEF IInv
          <6>3. ~Has(events, {"STA_START"})
            BY <3>2
          <6> QED
            BY <6>2, <6>3
        <5> HIDE DEF q
        <5>4. q \in Seq(Events)
          <6>1. "STA_DISCONNECTED" \in Events
            BY Kinds
          <6> QED
            BY <3>2, <5>2, <6>1
        <5>5. ~Has(Append(q, "STA_STOP"), {"STA_START"})
          BY <5>3, <5>4 DEF Has
        <5> QED
          BY <5>1, <5>5 DEF q
      <4> QED
        BY <4>1, <4>2 DEF IInv, TypeOK
    <3>4. Underway'
      BY <1>3, <2>2, <2>4, <3>1, <3>3 DEF Underway, StartSteps, StopSteps
    <3> QED
      BY <1>3, <2>3, <3>1, <3>4 DEF Through, Idle
  <2>7. CASE StopFlag(t)
    <3>1. /\ s = (IF t \in applying THEN "start" ELSE "idle")
          /\ ~started' /\ on' = on /\ events' = events
          /\ ~on /\ ~Has(events, {"STA_START"})
      BY <1>1, <1>3, <2>1, <2>7 DEF StopFlag, AfterStop, driver, Underway
    <3>2. ~Has(events', {"STA_START"})
      BY <3>1 DEF Has
    <3>3. Underway'
      BY <1>3, <2>2, <2>4, <3>1, <3>2 DEF Underway, StartSteps, StopSteps
    <3>4. Through'
      BY <1>3, <2>4, <3>1 DEF Through, Idle, IInv, TypeOK
    <3> QED
      BY <2>3, <3>3, <3>4
  <2> QED
    BY <2>5, <2>6, <2>7
<1> QED
  BY <1>5, <1>6 DEF Obeyed

\* A handler finds no START while stop() runs, and its STOP only repeats what
\* stop() has done.
LEMMA HandlerObeyed ==
    ASSUME IInv, Obeyed, EspEventHandler PROVE Obeyed'
<1>1. /\ events # <<>> /\ events \in Seq(Events)
      /\ Has(events', PowerEvents) => Has(events, PowerEvents)
      /\ Has(events', {"STA_START"}) => Has(events, {"STA_START"})
  BY HandlersPostNoPower DEF IInv, TypeOK
<1>2. UNCHANGED <<pc, applying, on, wanted, hurried>>
  BY DEF EspEventHandler, GotStaStart, GotStaStop, GotStaDisconnected,
         GotStaConnected, GotStaGotIp, Corrects, calls, driver, history
<1>3. Head(events) = events[1] /\ 1 \in 1..Len(events)
  BY <1>1
<1>4. started' = started \/ ~started' \/ Has(events, {"STA_START"})
  BY <1>3 DEF EspEventHandler, GotStaStart, GotStaStop, GotStaDisconnected,
              GotStaConnected, GotStaGotIp, Handles, Has
<1>5. suspect' = suspect \/ Has(events, PowerEvents)
  BY <1>3 DEF EspEventHandler, GotStaStart, GotStaStop, GotStaDisconnected,
              GotStaConnected, GotStaGotIp, Handles, Has, PowerEvents, history
<1>6. Applies'
  BY <1>2 DEF Obeyed, Applies
<1>7. ASSUME ~hurried' PROVE Alone' /\ Underway' /\ Through'
  <2>1. Alone /\ Underway /\ Through
    BY <1>2, <1>7 DEF Obeyed
  <2>2. Alone'
    BY <1>2, <2>1 DEF Alone
  <2>3. Underway'
    BY <1>1, <1>2, <1>4, <2>1 DEF Underway
  <2>4. Through'
    BY <1>1, <1>2, <1>5, <2>1 DEF Through, Idle
  <2> QED
    BY <2>2, <2>3, <2>4
<1> QED
  BY <1>6, <1>7 DEF Obeyed

LEMMA DriverObeyed ==
    ASSUME IInv, Obeyed, LinkUp \/ LinkDown \/ Lease PROVE Obeyed'
<1>1. /\ Has(events', PowerEvents) => Has(events, PowerEvents)
      /\ Has(events', {"STA_START"}) => Has(events, {"STA_START"})
  BY DriverPostsNoPower DEF IInv
<1>2. UNCHANGED <<pc, applying, on, wanted, hurried, started, suspect>>
  BY DEF LinkUp, LinkDown, Lease, calls, driver, history
<1>3. Applies'
  BY <1>2 DEF Obeyed, Applies
<1>4. ASSUME ~hurried' PROVE Alone' /\ Underway' /\ Through'
  <2>1. Alone /\ Underway /\ Through
    BY <1>2, <1>4 DEF Obeyed
  <2> QED
    BY <1>1, <1>2, <2>1 DEF Alone, Underway, Through, Idle
<1> QED
  BY <1>3, <1>4 DEF Obeyed

\* "wifi start", "wifi stop" and "wifi apply", given with nothing in flight, end
\* with the station as asked, however late the handlers run.
THEOREM LastCommandIsObeyed == Spec => []LastCommandWins
<1>1. ASSUME IInv, Obeyed, [Next]_vars PROVE Obeyed'
  <2>1. CASE UNCHANGED vars
    BY <1>1, <2>1
    DEF vars, Obeyed, Applies, Alone, Underway, Through, Idle, Has
  <2> QED
    BY <1>1, <2>1, CommandObeyed, StartObeyed, StopObeyed, HandlerObeyed,
       DriverObeyed DEF Next, Caller
<1>2. IInv /\ Obeyed => LastCommandWins
  BY DEF Obeyed, Through, LastCommandWins, Settled
<1> QED
  BY <1>1, <1>2, ObeyedAtFirst, Invariance, PTL DEF Spec
=============================================================================
