------------------------------ MODULE Session -------------------------------
(***************************************************************************)
(* The screen's session with Moonraker: KWebSocketClient numbers requests  *)
(* and keeps their callbacks, InitPanel discovers the printer and lifts    *)
(* the "Waiting for printer" overlay, State merges what arrives.           *)
(*                                                                         *)
(* Two threads send: "hv", the WebSocket's event loop, from the handlers   *)
(* of what arrives; "ui", from the taps of the pages (the overlay leaves   *)
(* most of the screen free).  send_jsonrpc takes no lock: it looks id up,  *)
(* inserts the callback and takes id++ in three separate accesses, so the  *)
(* two threads can meet in it.  The container itself is also changed       *)
(* without a lock; only the outcomes of whole accesses are modelled.       *)
(*                                                                         *)
(* Data abstraction.  A reply or update carries the number of the Klippy   *)
(* life whose data it holds.  "info" stands for the discovery requests     *)
(* whose replies only fill a page of their own (the power devices, roots,  *)
(* printer.info, the database items, gcode.help, server.files.list,        *)
(* server.info).  A failed connection attempt calls disconnected() once    *)
(* more and is left out.                                                   *)
(***************************************************************************)
EXTENDS Naturals, Sequences

CONSTANTS
  Overlap,      \* may both threads be inside send_jsonrpc at the same time
  MaxId,        \* bound: requests ever numbered
  MaxTaps,      \* bound: requests the UI makes
  MaxLife,      \* bound: times Klippy becomes ready
  MaxLink       \* bound: times the connection is opened

ASSUME SessionAssumption ==
  /\ Overlap \in BOOLEAN
  /\ MaxId \in Nat /\ MaxTaps \in Nat /\ MaxLife \in Nat \ {0} /\ MaxLink \in Nat

Thread == {"ui", "hv"}
Other(t) == IF t = "ui" THEN "hv" ELSE "ui"

\* gcode_script and the buttons' requests register no callback.
NoCallback == {"gcode"}
UiMethod   == {"refresh", "gcode"}
HvMethod   == {"objects.list", "info", "subscribe"}
Method     == UiMethod \cup HvMethod
None       == "none"

ReqId   == 0 .. MaxId
Life    == 0 .. MaxLife
Request == [id : ReqId, of : Method]

\* What reaches the event loop, in order.
Notice(k) == [kind |-> k, id |-> 0, of |-> None, ok |-> TRUE, life |-> 0]
Reply(r, ok, l) == [kind |-> "reply", id |-> r.id, of |-> r.of, ok |-> ok, life |-> l]
Message == [kind : {"reply", "status", "klippy_ready", "klippy_disconnected",
                    "open", "close"},
            id : ReqId, of : Method \cup {None}, ok : BOOLEAN, life : Life]

VARIABLES
  id, callbacks,      \* KWebSocketClient
  stage, sending,     \* per thread: where it is in send_jsonrpc, with which request
  todo, erasing,      \* hv: requests the running handler still makes; callback it ends
  state,              \* State: life of printer_objs, lives merged into printer_state
  overlay,            \* InitPanel: the overlay is shown
  alive,              \* no exception has left a handler on the event loop
  wire, inbox,        \* requests Moonraker has; messages the event loop has to handle
  link, klippy, life, subscribed,   \* Moonraker and the printer
  taps, opens         \* history: requests by the UI, connections opened

clientVars  == <<id, callbacks, stage, sending>>
hvVars      == <<todo, erasing, state, overlay, alive>>
printerVars == <<link, klippy, life, subscribed, opens>>
vars == <<clientVars, hvVars, wire, inbox, printerVars, taps>>

Init ==
  /\ id = 0 /\ callbacks = [n \in ReqId |-> None]
  /\ stage = [t \in Thread |-> "idle"] /\ sending = [t \in Thread |-> None]
  /\ todo = <<>> /\ erasing = {}
  /\ state = [objs |-> 0, printer |-> {}]
  /\ overlay = TRUE /\ alive = TRUE
  /\ wire = {} /\ inbox = <<>>
  /\ link = "closed" /\ klippy \in {"ready", "down"} /\ life = 1 /\ subscribed = FALSE
  /\ taps = 0 /\ opens = 0
-----------------------------------------------------------------------------
(* send_jsonrpc, by either thread.                                         *)

EnterSend(t, m) ==
  /\ stage[t] = "idle"
  /\ Overlap \/ stage[Other(t)] = "idle"
  /\ stage' = [stage EXCEPT ![t] = IF m \in NoCallback THEN "number" ELSE "find"]
  /\ sending' = [sending EXCEPT ![t] = m]

LeaveSend(t) ==
  /\ stage' = [stage EXCEPT ![t] = "idle"]
  /\ sending' = [sending EXCEPT ![t] = None]

\* callbacks.find(id): the request is dropped when the number is taken
Find(t) ==
  /\ stage[t] = "find"
  /\ IF callbacks[id] = None
     THEN stage' = [stage EXCEPT ![t] = "insert"] /\ UNCHANGED sending
     ELSE LeaveSend(t)
  /\ UNCHANGED <<id, callbacks, wire>>

\* callbacks.insert({id, cb}) keeps an entry that is there already
Insert(t) ==
  /\ stage[t] = "insert"
  /\ callbacks' = IF callbacks[id] = None
                  THEN [callbacks EXCEPT ![id] = sending[t]] ELSE callbacks
  /\ stage' = [stage EXCEPT ![t] = "number"]
  /\ UNCHANGED <<id, sending, wire>>

Number_CountsFirst(t) ==
  /\ stage[t] = "number" /\ id < MaxId
  /\ id' = id + 1
  /\ wire' = IF link = "open" THEN wire \cup {[id |-> id + 1, of |-> sending[t]]} ELSE wire
  /\ LeaveSend(t)
  /\ UNCHANGED callbacks

\* rpc["id"] = id++, and send(); nobody hears of a send on a closed link
Number(t) ==
  /\ stage[t] = "number" /\ id < MaxId
  /\ id' = id + 1
  /\ wire' = IF link = "open" THEN wire \cup {[id |-> id, of |-> sending[t]]} ELSE wire
  /\ LeaveSend(t)
  /\ UNCHANGED callbacks

SendStep(t) ==
  /\ Find(t) \/ Insert(t) \/ Number(t)
  /\ UNCHANGED <<hvVars, inbox, printerVars, taps>>

\* A tap on a page: a request whose reply fills it (the file list, a file's
\* details, the power devices), or a command.
Tap(m) ==
  /\ taps < MaxTaps
  /\ EnterSend("ui", m)
  /\ taps' = taps + 1
  /\ UNCHANGED <<id, callbacks, hvVars, wire, inbox, printerVars>>
-----------------------------------------------------------------------------
(* The event loop: one message at a time, each to the end of its handler.  *)

HvIdle == todo = <<>> /\ stage["hv"] = "idle" /\ erasing = {}

\* The handler's next request.
Continue ==
  /\ stage["hv"] = "idle" /\ todo # <<>>
  /\ EnterSend("hv", Head(todo))
  /\ todo' = Tail(todo)
  /\ UNCHANGED <<id, callbacks, erasing, state, overlay, alive, wire, inbox,
                 printerVars, taps>>

\* callbacks.erase(cb_entry), after a callback that made requests has returned
Erase ==
  /\ stage["hv"] = "idle" /\ todo = <<>> /\ erasing # {}
  /\ callbacks' = [n \in ReqId |-> IF n \in erasing THEN None ELSE callbacks[n]]
  /\ erasing' = {}
  /\ UNCHANGED <<id, stage, sending, todo, state, overlay, alive, wire, inbox,
                 printerVars, taps>>

Connected_KeepsState ==
  /\ todo' = <<"objects.list", "info">>
  /\ UNCHANGED <<callbacks, erasing, state, overlay, alive>>

\* InitPanel::connected, after onopen and notify_klippy_ready
Connected ==
  /\ state' = [objs |-> 0, printer |-> {}]
  /\ todo' = <<"objects.list", "info">>
  /\ UNCHANGED <<callbacks, erasing, overlay, alive>>

\* InitPanel::disconnected, after onclose and notify_klippy_disconnected
Disconnected ==
  /\ overlay' = TRUE
  /\ UNCHANGED <<callbacks, todo, erasing, state, alive>>

\* notify_status_update: State::consume
StatusUpdate(m) ==
  /\ state' = [state EXCEPT !.printer = @ \cup {m.life}]
  /\ UNCHANGED <<callbacks, todo, erasing, overlay, alive>>

\* The reply answers the request the callback was made for; an error reply, or
\* another request's reply, has none of the data the callback looks for.
Fits(m, c) == m.ok /\ m.of = c

\* A command's result is the string "ok": a JSON pointer into it throws.
Throws(m, c) == m.ok /\ m.of = "gcode" /\ c \in {"objects.list", "subscribe", "info"}

\* What the callback of a request does with a reply.
Call(c, m) ==
  /\ state' = IF ~Fits(m, c) THEN state
              ELSE CASE c = "objects.list" -> [state EXCEPT !.objs = m.life]
                     [] c = "subscribe" -> [state EXCEPT !.printer = @ \cup {m.life}]
                     [] OTHER -> state
  /\ todo' = IF c = "objects.list" /\ Fits(m, c) THEN <<"subscribe">> ELSE <<>>
  /\ overlay' = (overlay /\ c # "subscribe")
  /\ alive' = (alive /\ ~Throws(m, c))

\* find, call, erase; a callback that makes requests is erased when they are made
Answered(m) ==
  IF callbacks[m.id] = None
  THEN UNCHANGED <<callbacks, todo, erasing, state, overlay, alive>>
  ELSE /\ Call(callbacks[m.id], m)
       /\ IF todo' = <<>>
          THEN callbacks' = [callbacks EXCEPT ![m.id] = None] /\ UNCHANGED erasing
          ELSE erasing' = {m.id} /\ UNCHANGED callbacks

OnMessage_IgnoresReady(m) ==
  \/ m.kind = "open" /\ Connected
  \/ m.kind = "klippy_ready" /\ UNCHANGED <<callbacks, hvVars>>
  \/ m.kind \in {"close", "klippy_disconnected"} /\ Disconnected
  \/ m.kind = "status" /\ StatusUpdate(m)
  \/ m.kind = "reply" /\ Answered(m)

OnMessage(m) ==
  \/ m.kind \in {"open", "klippy_ready"} /\ Connected
  \/ m.kind \in {"close", "klippy_disconnected"} /\ Disconnected
  \/ m.kind = "status" /\ StatusUpdate(m)
  \/ m.kind = "reply" /\ Answered(m)

Dispatch ==
  /\ HvIdle /\ inbox # <<>>
  /\ OnMessage(Head(inbox))
  /\ inbox' = Tail(inbox)
  /\ UNCHANGED <<id, stage, sending, wire, printerVars, taps>>
-----------------------------------------------------------------------------
(* Moonraker and the printer, from dev/simulator/mock_moonraker.py and     *)
(* from what the handlers above expect.                                    *)

NeedsKlippy == {"objects.list", "subscribe", "gcode"}

Answer(r) ==
  /\ r \in wire
  /\ wire' = wire \ {r}
  /\ LET ok == r.of \in NeedsKlippy => klippy = "ready"
     IN /\ inbox' = Append(inbox, Reply(r, ok, life))
        /\ subscribed' = (subscribed \/ (ok /\ r.of = "subscribe"))
  /\ UNCHANGED <<clientVars, hvVars, link, klippy, life, opens, taps>>

SendStatus ==
  /\ link = "open" /\ klippy = "ready" /\ subscribed
  /\ inbox = <<>>    \* bound: one update at a time
  /\ inbox' = <<[Notice("status") EXCEPT !.life = life]>>
  /\ UNCHANGED <<clientVars, hvVars, wire, printerVars, taps>>

Notify(k) == IF link = "open" THEN Append(inbox, Notice(k)) ELSE inbox

KlippyDown ==
  /\ klippy = "ready" /\ life < MaxLife
  /\ klippy' = "down" /\ subscribed' = FALSE
  /\ inbox' = Notify("klippy_disconnected")
  /\ UNCHANGED <<clientVars, hvVars, wire, link, life, opens, taps>>

KlippyReady ==
  /\ klippy = "down" /\ life < MaxLife
  /\ klippy' = "ready" /\ life' = life + 1
  /\ inbox' = Notify("klippy_ready")
  /\ UNCHANGED <<clientVars, hvVars, wire, link, subscribed, opens, taps>>

\* The event loop connects again once it has handled the loss of the link.
OpenLink ==
  /\ link = "closed" /\ opens < MaxLink /\ HvIdle /\ inbox = <<>>
  /\ link' = "open" /\ opens' = opens + 1
  /\ inbox' = <<Notice("open")>>
  /\ UNCHANGED <<clientVars, hvVars, wire, klippy, life, subscribed, taps>>

\* What Moonraker has not answered is lost; what has arrived is still handled.
CloseLink ==
  /\ link = "open" /\ opens < MaxLink
  /\ link' = "closed" /\ subscribed' = FALSE
  /\ wire' = {}
  /\ inbox' = Append(inbox, Notice("close"))
  /\ UNCHANGED <<clientVars, hvVars, klippy, life, opens, taps>>
-----------------------------------------------------------------------------
Hv == Continue \/ Erase \/ Dispatch \/ SendStep("hv")

Next ==
  /\ alive
  /\ \/ Hv
     \/ SendStep("ui")
     \/ \E m \in UiMethod : Tap(m)
     \/ \E r \in wire : Answer(r)
     \/ SendStatus \/ KlippyDown \/ KlippyReady \/ OpenLink \/ CloseLink

Spec == Init /\ [][Next]_vars

\* Both threads run, Moonraker answers, and the client reconnects.
FairSpec ==
  /\ Spec
  /\ WF_vars(alive /\ Hv) /\ WF_vars(alive /\ SendStep("ui"))
  /\ WF_vars(alive /\ \E r \in wire : Answer(r))
  /\ WF_vars(alive /\ OpenLink)
-----------------------------------------------------------------------------
TypeOK ==
  /\ id \in ReqId
  /\ callbacks \in [ReqId -> Method \cup {None}]
  /\ stage \in [Thread -> {"idle", "find", "insert", "number"}]
  /\ sending \in [Thread -> Method \cup {None}]
  /\ todo \in Seq(HvMethod) /\ erasing \in SUBSET ReqId
  /\ state \in [objs : Life, printer : SUBSET Life]
  /\ overlay \in BOOLEAN /\ alive \in BOOLEAN
  /\ wire \in SUBSET Request /\ inbox \in Seq(Message)
  /\ link \in {"open", "closed"} /\ klippy \in {"ready", "down"}
  /\ life \in Life /\ subscribed \in BOOLEAN
  /\ taps \in 0 .. MaxTaps /\ opens \in 0 .. MaxLink

\* Requests that will still be answered, or have been.
Replies == {i \in 1 .. Len(inbox) : inbox[i].kind = "reply"}

\* A reply is handed to the callback of the request it answers, or to none
\* when that request made do without.
ReplyReachesOwner ==
  /\ \A r \in wire : r.of \notin NoCallback => callbacks[r.id] = r.of
  /\ \A r \in wire : r.of \in NoCallback => callbacks[r.id] = None
  /\ \A i \in Replies : callbacks[inbox[i].id] \in {None, inbox[i].of}

\* Numbers from id on are unused, except by the request that is being made.
NumbersFresh ==
  /\ \A n \in ReqId : n > id => callbacks[n] = None
  /\ callbacks[id] # None => \E t \in Thread : stage[t] = "number"
  /\ \A t \in Thread : stage[t] # "idle" =>
       /\ stage[Other(t)] = "idle"
       /\ sending[t] # None
       /\ sending[t] \in NoCallback => stage[t] = "number" /\ callbacks[id] = None
       /\ sending[t] \notin NoCallback /\ stage[t] = "number" => callbacks[id] = sending[t]

\* A number is in one place only: with Moonraker, on its way back, or done with.
NumbersDistinct ==
  /\ \A r \in wire : r.id < id /\ r.id \notin erasing
  /\ \A r, q \in wire : r.id = q.id => r = q
  /\ \A i \in Replies : inbox[i].id < id /\ \A r \in wire : r.id # inbox[i].id
  /\ \A n \in erasing : n < id

\* The inductive invariant, for sends that do not overlap.
SessionInv == TypeOK /\ NumbersFresh /\ NumbersDistinct /\ ReplyReachesOwner

\* When the connection and the printer are up and nothing is under way any
\* more, the pages are there, with the data of this life of the printer only.
QuietMeansReady ==
  link = "open" /\ klippy = "ready"
    /\ HvIdle /\ stage["ui"] = "idle" /\ inbox = <<>> /\ wire = {}
  => ~overlay /\ state.objs = life /\ state.printer = {life}

\* "InitPanel discovers printer objects and initializes the pages": a printer
\* that stays up is shown in the end.
PagesInitialized ==
  <>[](link = "open" /\ klippy = "ready") => <>[](~overlay /\ state.printer = {life})
=============================================================================
