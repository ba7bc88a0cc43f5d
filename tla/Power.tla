-------------------------------- MODULE Power --------------------------------
(***************************************************************************)
(* power_panel.cpp: a switch for each of Moonraker's power devices.  A tap *)
(* turns the switch at once and asks for the device to follow; replies     *)
(* with the devices' state set the switches.  Moonraker handles requests   *)
(* in any order; what arrives is handled in order.                         *)
(***************************************************************************)
EXTENDS Naturals, Sequences

CONSTANTS
  Device,
  MaxTaps,      \* bound: taps on the page
  MaxOther      \* bound: acts of other clients, refusals, lost links

VARIABLES
  device,       \* Moonraker: the devices that are on
  devices,      \* the devices that have a switch
  switch,       \* the switches that are on
  wire, inbox, link,
  known,        \* history: devices whose state was told after it last changed
  taps, other
vars == <<device, devices, switch, wire, inbox, link, known, taps, other>>

Ask(op, S, on) == [op |-> op, of |-> S, on |-> on]

Init ==
  /\ device = {} /\ devices = {} /\ switch = {}
  /\ wire = {Ask("devices", {}, FALSE)} /\ inbox = <<>> /\ link = TRUE
  /\ known = {} /\ taps = 0 /\ other = 0

Shown_OnOnly(m) == switch \cup m.on

\* What a reply makes of the switches: it names devices and those that are on.
Shown(m) == (switch \ m.of) \cup m.on

\* create_devices makes the switches that are missing; handle_device_callback
\* sets those there are; a reply without a result changes nothing.
Take(m) ==
  CASE m.kind = "devices" -> devices' = devices \cup m.of /\ switch' = Shown(m)
    [] m.kind = "state" -> switch' = Shown(m) \cap devices /\ UNCHANGED devices
    [] OTHER -> UNCHANGED <<devices, switch>>

Send(r) == wire' = IF link THEN wire \cup {r} ELSE wire

\* connected() asks for the devices again.
Handle ==
  /\ inbox # <<>> /\ inbox' = Tail(inbox) /\ Take(Head(inbox))
  /\ IF Head(inbox).kind = "connected" THEN Send(Ask("devices", {}, FALSE)) ELSE UNCHANGED wire
  /\ UNCHANGED <<device, link, known, taps, other>>

\* foreground()
Open ==
  /\ taps < MaxTaps /\ taps' = taps + 1
  /\ Send(Ask("status", devices, FALSE))
  /\ UNCHANGED <<device, devices, switch, inbox, link, known, other>>

\* handle_callback: a switch is turned
Toggle(d) ==
  /\ taps < MaxTaps /\ taps' = taps + 1
  /\ d \in devices
  /\ switch' = IF d \in switch THEN switch \ {d} ELSE switch \cup {d}
  /\ Send(Ask("post", {d}, d \in switch'))
  /\ known' = IF link THEN known ELSE known \ {d}
  /\ UNCHANGED <<device, devices, inbox, link, other>>

Tell(k, S, on) == inbox' = Append(inbox, [kind |-> k, of |-> S, on |-> on])

\* Moonraker handles a request, or refuses it (a device locked while printing).
Serve(r) ==
  /\ r \in wire /\ wire' = wire \ {r}
  /\ \/ /\ r.op = "devices" /\ Tell("devices", Device, device)
        /\ known' = Device /\ UNCHANGED <<device, other>>
     \/ /\ r.op = "status" /\ Tell("state", r.of, device \cap r.of)
        /\ known' = known \cup r.of /\ UNCHANGED <<device, other>>
     \/ /\ r.op = "post" /\ device' = (IF r.on THEN device \cup r.of ELSE device \ r.of)
        /\ Tell("state", r.of, device' \cap r.of)
        /\ known' = known \cup r.of /\ UNCHANGED other
     \/ /\ other < MaxOther /\ other' = other + 1 /\ Tell("error", {}, {})
        /\ known' = known \ r.of /\ UNCHANGED device
  /\ UNCHANGED <<devices, switch, link, taps>>

\* Another client turns a device, or the link is lost with what was asked.
Other ==
  /\ other < MaxOther /\ other' = other + 1
  /\ \/ /\ \E d \in Device :
             /\ device' = IF d \in device THEN device \ {d} ELSE device \cup {d}
             /\ known' = known \ {d}
        /\ UNCHANGED <<wire, link>>
     \/ /\ link /\ link' = FALSE /\ wire' = {}
        /\ known' = {} /\ UNCHANGED device
  /\ UNCHANGED <<devices, switch, inbox, taps>>

Relink ==
  /\ ~link /\ link' = TRUE /\ Tell("connected", {}, {})
  /\ UNCHANGED <<device, devices, switch, wire, known, taps, other>>

Next ==
  \/ Handle \/ Open \/ (\E d \in Device : Toggle(d)) \/ (\E r \in wire : Serve(r))
  \/ Other \/ Relink
-----------------------------------------------------------------------------
(* Once nothing is under way, a switch is where its device is, though a     *)
(* reply asked for before the last tap may have turned it back meanwhile    *)
(* (power_panel.cpp:237, 284).                                              *)
SwitchFollows ==
  link /\ wire = {} /\ inbox = <<>> =>
    \A d \in known \cap devices : d \in switch <=> d \in device
=============================================================================
