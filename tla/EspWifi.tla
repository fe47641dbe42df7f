------------------------------ MODULE EspWifi ------------------------------
(***************************************************************************)
(* The Wi-Fi station (src/main/EspWifi.cxx) and the "wifi" shell command   *)
(* that drives it (src/main/MeshRoofShell.cxx:199).                        *)
(*                                                                         *)
(* Three kinds of task meet here without a lock: the callers of start()    *)
(* and stop() (meshtastic_task at boot, one shell per console), the event  *)
(* loop, which runs the got... handlers one event at a time, and the Wi-Fi *)
(* driver, which posts the events.  The flag started is written by all but *)
(* the driver; the driver's own state is what the flag is meant to mirror. *)
(***************************************************************************)
EXTENDS Naturals, Sequences

CONSTANTS
    Callers,    \* tasks that may run the wifi command
    MaxEvents   \* bound: events the default event loop holds at a time

\* stop() posts up to two events.
ASSUME EventsAssumption == MaxEvents \in Nat \ {0, 1}

VARIABLES
    started,    \* EspWifi::_started
    ap,         \* _sta_connected, what the wifi command shows
    ip,         \* _ip_info and _dns..._info, what the net command shows
    on,         \* driver: between esp_wifi_start and esp_wifi_stop
    link,       \* driver: the association with the access point
    netif,      \* default handlers: the interface is up
    events,     \* queue of the default event loop
    pc,         \* next statement of a caller
    applying,   \* callers whose stop() is the first half of "wifi apply"
    wanted,     \* history: what the last call asked for
    hurried,    \* history: that call was made while another one, START or
                \* STOP was in flight, or its esp_wifi_start failed
    suspect,    \* history: calls overlapped or esp_wifi_start failed, and no
                \* handler has corrected started since
    late        \* history: the address shown was posted before the link fell

status == <<ap, ip, netif, late>>
calls == <<pc, applying>>
driver == <<on, link>>
history == <<wanted, hurried, suspect>>
vars == <<started, ap, ip, on, link, netif, events, pc, applying, wanted,
          hurried, suspect, late>>

PowerEvents == {"STA_START", "STA_STOP"}
LinkEvents == {"STA_CONNECTED", "STA_DISCONNECTED"}
Events == PowerEvents \cup LinkEvents \cup {"GOT_IP"}
Shown == {"junk", "none", "set"}
StartSteps == {"start", "start_driver", "start_flag"}
StopSteps == {"stop", "stop_driver", "stop_flag"}

TypeOK ==
    /\ started \in BOOLEAN /\ on \in BOOLEAN /\ netif \in BOOLEAN
    /\ ap \in Shown /\ ip \in Shown
    /\ link \in {"down", "connecting", "up"}
    /\ events \in Seq(Events) /\ Len(events) <= MaxEvents
    /\ pc \in [Callers -> {"idle"} \cup StartSteps \cup StopSteps]
    /\ applying \subseteq Callers
    /\ wanted \in BOOLEAN /\ hurried \in BOOLEAN
    /\ suspect \in BOOLEAN /\ late \in BOOLEAN

\* The constructor sets _started and no status field.
Init ==
    /\ started = FALSE
    /\ ap = "junk" /\ ip = "junk"
    /\ on = FALSE /\ link = "down" /\ netif = FALSE
    /\ events = <<>>
    /\ pc = [t \in Callers |-> "idle"]
    /\ applying = {}
    /\ wanted = FALSE /\ hurried = FALSE /\ suspect = FALSE /\ late = FALSE

Pending(kinds) == \E i \in 1..Len(events) : events[i] \in kinds

-----------------------------------------------------------------------------
(* The driver (external)                                                   *)

Room(n) == Len(events) + n <= MaxEvents

\* The station finds the access point, and posts CONNECTED ...
LinkUp ==
    /\ link = "connecting"
    /\ Room(1)
    /\ link' = "up"
    /\ events' = Append(events, "STA_CONNECTED")
    /\ UNCHANGED <<started, on, status, calls, history>>

\* ... or does not, or loses it.
LinkDown ==
    /\ link \in {"connecting", "up"}
    /\ Room(1)
    /\ link' = "down"
    /\ events' = Append(events, "STA_DISCONNECTED")
    /\ UNCHANGED <<started, on, status, calls, history>>

\* A lease (or, with a static address, the interface going up) is announced
\* as long as the interface has not been taken down.
Lease ==
    /\ netif
    /\ Room(1)
    /\ events' = Append(events, "GOT_IP")
    /\ UNCHANGED <<started, driver, status, calls, history>>

\* esp_wifi_connect() does nothing when the driver is off or already busy.
DriverConnects == link' = IF on /\ link = "down" THEN "connecting" ELSE link

\* What esp_wifi_disconnect and esp_wifi_stop post about the link: a station
\* that was only connecting may leave without an event.
Farewell ==
    CASE link = "up" -> {<<"STA_DISCONNECTED">>}
      [] link = "connecting" -> {<<>>, <<"STA_DISCONNECTED">>}
      [] link = "down" -> {<<>>}

-----------------------------------------------------------------------------
(* start(), stop() and the wifi command                                    *)

Idle == \A t \in Callers : pc[t] = "idle"

\* Nothing is in flight: this is where started should mirror the driver.
Settled == Idle /\ ~Pending(PowerEvents)

\* "wifi start", "wifi stop" and "wifi apply", or the start at boot.
Command(t, first, apply) ==
    /\ pc[t] = "idle"
    /\ pc' = [pc EXCEPT ![t] = first]
    /\ applying' = IF apply THEN applying \cup {t} ELSE applying
    /\ wanted' = (apply \/ first = "start")
    /\ hurried' = (Pending(PowerEvents) \/ ~Idle)
    /\ suspect' = (suspect \/ ~Idle)
    /\ UNCHANGED <<started, events, status, driver>>

WifiStart(t) == Command(t, "start", FALSE)
WifiStop(t) == Command(t, "stop", FALSE)
WifiApply(t) == Command(t, "stop", TRUE)

\* stop() returns: to the shell, or to "wifi apply", which calls start().
AfterStop(t) ==
    /\ pc' = [pc EXCEPT ![t] = IF t \in applying THEN "start" ELSE "idle"]
    /\ applying' = applying \ {t}

\* if (_started) return; otherwise the mode, the configuration and the
\* interface are set up, which does not concern the other tasks.
StartCheck(t) ==
    /\ pc[t] = "start"
    /\ pc' = [pc EXCEPT ![t] = IF started THEN "idle" ELSE "start_driver"]
    /\ UNCHANGED <<started, applying, events, status, driver, history>>

\* esp_wifi_start(): posts START when the driver was off.
StartDriver(t) ==
    /\ pc[t] = "start_driver"
    /\ pc' = [pc EXCEPT ![t] = "start_flag"]
    /\ on' = TRUE
    /\ IF on THEN UNCHANGED events
             ELSE Room(1) /\ events' = Append(events, "STA_START")
    /\ UNCHANGED <<started, applying, status, link, history>>

\* esp_wifi_start() fails: logged, and otherwise ignored.
StartDriverFails(t) ==
    /\ pc[t] = "start_driver"
    /\ pc' = [pc EXCEPT ![t] = "start_flag"]
    /\ suspect' = TRUE
    /\ hurried' = TRUE
    /\ UNCHANGED <<started, applying, events, status, driver, wanted>>

\* _started = true
StartFlag(t) ==
    /\ pc[t] = "start_flag"
    /\ pc' = [pc EXCEPT ![t] = "idle"]
    /\ started' = TRUE
    /\ UNCHANGED <<applying, events, status, driver, history>>

\* if (!_started) return
StopCheck(t) ==
    /\ pc[t] = "stop"
    /\ IF started
         THEN pc' = [pc EXCEPT ![t] = "stop_driver"] /\ UNCHANGED applying
         ELSE AfterStop(t)
    /\ UNCHANGED <<started, events, status, driver, history>>

\* Mutant: the station is also disconnected before it is stopped, and the queue
\* gets more reports than it has room for.
StopDriver_Disconnects(t) ==
    /\ pc[t] = "stop_driver"
    /\ pc' = [pc EXCEPT ![t] = "stop_flag"]
    /\ on' = FALSE
    /\ link' = "down"
    /\ IF on
         THEN Room(2) /\ \E bye \in Farewell :
                events' = Append(events \o bye \o bye, "STA_STOP")
         ELSE UNCHANGED events
    /\ UNCHANGED <<started, applying, status, history>>

\* esp_wifi_stop(): ends the association, then posts STOP.
StopDriver(t) ==
    /\ pc[t] = "stop_driver"
    /\ pc' = [pc EXCEPT ![t] = "stop_flag"]
    /\ on' = FALSE
    /\ link' = "down"
    /\ IF on
         THEN Room(2) /\ \E bye \in Farewell :
                events' = Append(events \o bye, "STA_STOP")
         ELSE UNCHANGED events
    /\ UNCHANGED <<started, applying, status, history>>

\* Mutant: the flag is left to the STOP handler.
StopFlag_Forgotten(t) ==
    /\ pc[t] = "stop_flag"
    /\ AfterStop(t)
    /\ UNCHANGED <<started, events, status, driver, history>>

\* _started = false
StopFlag(t) ==
    /\ pc[t] = "stop_flag"
    /\ started' = FALSE
    /\ AfterStop(t)
    /\ UNCHANGED <<events, status, driver, history>>

Caller(t) ==
    \/ StartCheck(t) \/ StartDriver(t) \/ StartDriverFails(t) \/ StartFlag(t)
    \/ StopCheck(t) \/ StopDriver(t) \/ StopFlag(t)

-----------------------------------------------------------------------------
(* The event loop                                                          *)

Handles(event) ==
    /\ events # <<>>
    /\ Head(events) = event

\* Handling the last START or STOP while no call is running corrects started.
Corrects ==
    /\ suspect' = (suspect /\ ~(Idle /\ \A i \in 2..Len(events) :
                                          events[i] \notin PowerEvents))
    /\ UNCHANGED <<wanted, hurried>>

\* Mutant: nobody asks the driver to connect.
GotStaStart_NoConnect ==
    /\ Handles("STA_START")
    /\ started' = TRUE
    /\ events' = Tail(events)
    /\ Corrects
    /\ UNCHANGED <<on, link, status, calls>>

GotStaStart ==
    /\ Handles("STA_START")
    /\ started' = TRUE
    /\ DriverConnects
    /\ events' = Tail(events)
    /\ Corrects
    /\ UNCHANGED <<on, status, calls>>

\* Mutant: the flag is left as a late START event set it.
GotStaStop_KeepsFlag ==
    /\ Handles("STA_STOP")
    /\ link' = "down"
    /\ \E bye \in Farewell : events' = Tail(events) \o bye
    /\ Corrects
    /\ UNCHANGED <<started, on, status, calls>>

\* Calls esp_wifi_disconnect(): the driver may have been started again.
GotStaStop ==
    /\ Handles("STA_STOP")
    /\ started' = FALSE
    /\ link' = "down"
    /\ \E bye \in Farewell : events' = Tail(events) \o bye
    /\ Corrects
    /\ UNCHANGED <<on, status, calls>>

\* Mutant: resetStatus() forgets the association.
GotStaDisconnected_KeepsAp ==
    /\ Handles("STA_DISCONNECTED")
    /\ ip' = "none"
    /\ netif' = FALSE /\ late' = FALSE
    /\ IF started THEN DriverConnects ELSE UNCHANGED link
    /\ events' = Tail(events)
    /\ UNCHANGED <<started, on, ap, calls, history>>

\* resetStatus(), and another attempt unless stop() was called.
GotStaDisconnected ==
    /\ Handles("STA_DISCONNECTED")
    /\ ap' = "none" /\ ip' = "none"
    /\ netif' = FALSE /\ late' = FALSE
    /\ IF started THEN DriverConnects ELSE UNCHANGED link
    /\ events' = Tail(events)
    /\ UNCHANGED <<started, on, calls, history>>

GotStaConnected ==
    /\ Handles("STA_CONNECTED")
    /\ ap' = "set"
    /\ netif' = TRUE
    /\ events' = Tail(events)
    /\ UNCHANGED <<started, ip, late, driver, calls, history>>

GotStaGotIp ==
    /\ Handles("GOT_IP")
    /\ ip' = "set"
    /\ late' = ~netif
    /\ events' = Tail(events)
    /\ UNCHANGED <<started, ap, netif, driver, calls, history>>

EspEventHandler ==
    \/ GotStaStart \/ GotStaStop
    \/ GotStaDisconnected \/ GotStaConnected \/ GotStaGotIp

Next ==
    \/ \E t \in Callers : WifiStart(t) \/ WifiStop(t) \/ WifiApply(t)
    \/ \E t \in Callers : Caller(t)
    \/ EspEventHandler
    \/ LinkUp \/ LinkDown \/ Lease

\* The event loop and the callers keep running, and an attempt to connect
\* ends one way or the other.
Fairness ==
    /\ WF_vars(EspEventHandler)
    /\ \A t \in Callers : WF_vars(Caller(t))
    /\ WF_vars(link = "connecting" /\ (LinkUp \/ LinkDown))

Spec == Init /\ [][Next]_vars
FairSpec == Spec /\ Fairness

-----------------------------------------------------------------------------
(* What must hold                                                          *)

\* However the handlers were delayed, when no call and no START or STOP is in
\* flight the flag mirrors the driver: "wifi start" and "wifi stop" are then
\* never ignored by mistake.  The exceptions are the races the code does not
\* guard against: two calls at once, and a failing esp_wifi_start.
StartedMirrorsDriver ==
    Settled /\ ~suspect => started = on

\* The station ends up as it was last asked to, "wifi apply" included, if the
\* command was not given while the events of an earlier one were in flight.
LastCommandWins ==
    Settled /\ ~suspect /\ ~hurried => on = wanted

\* Once the driver's reports have been handled, the association the shell and
\* the mesh see is the real one.  Before the first report it is whatever the
\* heap held.  An address is shown without an association only if its event was
\* posted while the loss of the link was still in the queue.
StatusMirrorsLink ==
    /\ ~Pending(LinkEvents) => ap = "junk" \/ (ap = "set") = (link = "up")
    /\ ip = "set" /\ ap # "set" => late

\* A started station that is not associated keeps trying.
NeverGivesUp ==
    (on /\ link = "down" /\ ~suspect) ~> (link # "down" \/ ~on \/ suspect)
=============================================================================
