--------------------------- MODULE SessionProofs ----------------------------
(***************************************************************************)
(* As long as the two threads are not inside send_jsonrpc at the same      *)
(* time, for any number of requests, reconnects and printer restarts:      *)
(*   No reply reaches a callback that waits for another one (SessionInv:   *)
(*   each number is in one place, and its entry is the sender's).          *)
(*   When nothing is under way, the pages are there.  That takes two more  *)
(*   facts: a reply still finds its callback (RepliesExact), and while link *)
(*   and printer are up the message that starts the discovery waits, or one *)
(*   of its requests is under way, or it is done (Discovery).              *)
(***************************************************************************)
EXTENDS Session, TLAPS

\* The constants in the form the steps below use them.
LEMMA ConstantsTyped ==
  /\ MaxId \in Nat /\ MaxTaps \in Nat /\ MaxLife \in Nat \ {0} /\ MaxLink \in Nat
  /\ 0 \in ReqId /\ None \notin Method /\ UiMethod \subseteq Method
  /\ HvMethod \subseteq Method /\ NoCallback \subseteq Method
  BY SessionAssumption DEF ReqId, None, Method, UiMethod, HvMethod, NoCallback

\* The session starts with every number free.
LEMMA InitInv == Init => SessionInv
<1> SUFFICES ASSUME Init PROVE SessionInv
  OBVIOUS
<1>1. /\ 0 \in Life /\ 1 \in Life /\ 0 \in 0 .. MaxTaps /\ 0 \in 0 .. MaxLink
      /\ <<>> \in Seq(HvMethod) /\ <<>> \in Seq(Message)
  BY ConstantsTyped DEF Life
<1>2. TypeOK
  BY <1>1, ConstantsTyped DEF Init, TypeOK
<1>3. NumbersFresh
  BY ConstantsTyped DEF Init, NumbersFresh
<1>4. NumbersDistinct /\ ReplyReachesOwner
  BY DEF Init, NumbersDistinct, ReplyReachesOwner, Replies
<1> QED
  BY <1>2, <1>3, <1>4 DEF SessionInv

\* What has arrived is a message, and its number one of the client's.
LEMMA InboxTyped ==
  ASSUME TypeOK
  PROVE /\ \A i \in 1 .. Len(inbox) : inbox[i] \in Message
        /\ \A i \in Replies : inbox[i].id \in ReqId
<1>1. \A i \in 1 .. Len(inbox) : inbox[i] \in Message
  BY DEF TypeOK
<1>2. \A m \in Message : m.id \in ReqId
  BY DEF Message
<1> QED
  BY <1>1, <1>2 DEF Replies

\* Entering send_jsonrpc takes no number and no entry yet.
LEMMA Enter ==
  ASSUME SessionInv, ~Overlap, NEW t \in Thread, NEW m \in Method, EnterSend(t, m),
         UNCHANGED <<id, callbacks, erasing, wire, inbox>>
  PROVE /\ stage' \in [Thread -> {"idle", "find", "insert", "number"}]
        /\ sending' \in [Thread -> Method \cup {None}]
        /\ NumbersFresh' /\ NumbersDistinct' /\ ReplyReachesOwner'
<1>1. stage' \in [Thread -> {"idle", "find", "insert", "number"}]
      /\ sending' \in [Thread -> Method \cup {None}]
  BY DEF EnterSend, SessionInv, TypeOK
<1>2. stage[t] = "idle" /\ stage[Other(t)] = "idle"
  BY DEF EnterSend
<1>3. callbacks[id] = None
  BY <1>2 DEF SessionInv, NumbersFresh, Thread, Other
<1>4. NumbersFresh'
  BY <1>1, <1>2, <1>3, ConstantsTyped
  DEF EnterSend, SessionInv, TypeOK, NumbersFresh, Thread, Other
<1>5. NumbersDistinct' /\ ReplyReachesOwner'
  BY DEF SessionInv, NumbersDistinct, ReplyReachesOwner, Replies
<1> QED
  BY <1>1, <1>4, <1>5

\* One access of send_jsonrpc.
LEMMA SendInv ==
  ASSUME SessionInv, NEW t \in Thread, SendStep(t)
  PROVE SessionInv'
<1> USE DEF SendStep, hvVars, printerVars
<1>1. id \in Nat /\ id \in ReqId /\ MaxId \in Nat /\ sending[t] \in Method \cup {None}
  BY ConstantsTyped DEF SessionInv, TypeOK, ReqId
<1>2. CASE Find(t)
  <2>1. stage[t] = "find" /\ callbacks[id] = None
    BY <1>2 DEF Find, SessionInv, NumbersFresh, Thread, Other
  <2>2. stage' = [stage EXCEPT ![t] = "insert"]
        /\ UNCHANGED <<id, callbacks, sending, wire, inbox, erasing>>
    BY <1>2, <2>1 DEF Find
  <2>3. TypeOK'
    BY <1>2, <2>2 DEF Find, SessionInv, TypeOK
  <2>4. NumbersFresh'
    BY <2>1, <2>2 DEF SessionInv, TypeOK, NumbersFresh, Thread, Other
  <2>5. NumbersDistinct' /\ ReplyReachesOwner'
    BY <2>2 DEF SessionInv, NumbersDistinct, ReplyReachesOwner, Replies
  <2> QED
    BY <2>3, <2>4, <2>5 DEF SessionInv
<1>3. CASE Insert(t)
  <2>1. /\ stage[t] = "insert" /\ callbacks[id] = None
        /\ sending[t] \in Method \ NoCallback
    BY <1>1, <1>3 DEF Insert, SessionInv, NumbersFresh, Thread, Other
  <2>2. /\ callbacks' = [callbacks EXCEPT ![id] = sending[t]]
        /\ stage' = [stage EXCEPT ![t] = "number"]
        /\ UNCHANGED <<id, sending, wire, inbox, erasing>>
    BY <1>3, <2>1 DEF Insert
  <2>3. TypeOK'
    BY <1>1, <1>3, <2>2 DEF Insert, SessionInv, TypeOK
  <2>4. NumbersFresh'
    BY <1>1, <2>1, <2>2 DEF SessionInv, TypeOK, NumbersFresh, Thread, Other, ReqId
  <2>5. NumbersDistinct'
    BY <2>2 DEF SessionInv, NumbersDistinct, Replies
  <2>6. \A n \in ReqId : n < id => callbacks'[n] = callbacks[n]
    BY <1>1, <2>2 DEF SessionInv, TypeOK
  <2>7. (\A r \in wire : r.id \in ReqId) /\ \A i \in Replies : inbox[i].id \in ReqId
    BY InboxTyped DEF SessionInv, TypeOK, Request
  <2>8. ReplyReachesOwner'
    BY <2>2, <2>6, <2>7 DEF SessionInv, NumbersDistinct, ReplyReachesOwner, Replies
  <2> QED
    BY <2>3, <2>4, <2>5, <2>8 DEF SessionInv
<1>4. CASE Number(t)
  <2> DEFINE q == [id |-> id, of |-> sending[t]]
  <2>1. /\ stage[t] = "number" /\ stage[Other(t)] = "idle" /\ sending[t] \in Method
        /\ sending[t] \in NoCallback => callbacks[id] = None
        /\ sending[t] \notin NoCallback => callbacks[id] = sending[t]
    BY <1>1, <1>4 DEF Number, SessionInv, NumbersFresh, Thread
  <2>2. /\ id < MaxId /\ id' = id + 1 /\ id' \in ReqId
        /\ wire' = wire \/ wire' = wire \cup {q}
        /\ stage' = [stage EXCEPT ![t] = "idle"]
        /\ sending' = [sending EXCEPT ![t] = None]
        /\ UNCHANGED <<callbacks, inbox, erasing>>
    BY <1>1, <1>4 DEF Number, LeaveSend, ReqId
  <2>3. q \in Request
    BY <1>1, <2>1 DEF Request
  <2>4. TypeOK'
    BY <1>4, <2>2, <2>3 DEF Number, SessionInv, TypeOK
  <2>5. \A n \in ReqId : n > id => callbacks[n] = None
    BY DEF SessionInv, NumbersFresh
  <2>6. \A s \in Thread : stage'[s] = "idle"
    BY <2>1, <2>2 DEF SessionInv, TypeOK, Thread, Other
  <2>7. NumbersFresh'
    BY <1>1, <2>2, <2>5, <2>6 DEF NumbersFresh, ReqId
  <2>8. \A r \in wire : r.id < id /\ r.id \in ReqId
    BY DEF SessionInv, NumbersDistinct, TypeOK, Request
  <2>9. \A i \in Replies : inbox[i].id < id /\ inbox[i].id \in ReqId
    BY InboxTyped DEF SessionInv, NumbersDistinct
  <2>10. \A n \in erasing : n < id /\ n \in ReqId
    BY DEF SessionInv, NumbersDistinct, TypeOK
  <2>11. \A r \in wire' : r \in wire \/ r = q
    BY <2>2
  <2>12. NumbersDistinct'
    BY <1>1, <2>2, <2>8, <2>9, <2>10, <2>11
    DEF SessionInv, NumbersDistinct, Replies, ReqId
  <2>13. ReplyReachesOwner'
    BY <2>1, <2>2, <2>11 DEF SessionInv, ReplyReachesOwner, Replies
  <2> QED
    BY <2>4, <2>7, <2>12, <2>13 DEF SessionInv
<1> QED
  BY <1>2, <1>3, <1>4

\* A message that is not a reply joins the inbox, and requests are lost: no number moves.
LEMMA InboxChanges ==
  ASSUME SessionInv, UNCHANGED clientVars, UNCHANGED <<erasing>>,
         wire' \subseteq wire,
         NEW m \in Message, m.kind # "reply", inbox' \in {inbox, Append(inbox, m)}
  PROVE NumbersFresh' /\ NumbersDistinct' /\ ReplyReachesOwner'
<1>1. inbox \in Seq(Message)
  BY DEF SessionInv, TypeOK
<1>2. \A i \in Replies' : i \in Replies /\ inbox'[i] = inbox[i]
  BY <1>1 DEF Replies
<1>3. NumbersFresh'
  BY DEF clientVars, SessionInv, NumbersFresh
<1>4. NumbersDistinct' /\ ReplyReachesOwner'
  BY <1>2 DEF clientVars, SessionInv, NumbersDistinct, ReplyReachesOwner
<1> QED
  BY <1>3, <1>4

\* Moonraker's answer carries the number of the request.
LEMMA AnswerInv ==
  ASSUME SessionInv, NEW r \in wire, Answer(r)
  PROVE SessionInv'
<1> DEFINE ok == r.of \in NeedsKlippy => klippy = "ready"
           m  == Reply(r, ok, life)
<1>1. r \in Request /\ r.id \in ReqId /\ r.of \in Method
  BY DEF SessionInv, TypeOK, Request
<1>2. m \in Message /\ m.kind = "reply" /\ m.id = r.id /\ m.of = r.of
  BY <1>1 DEF SessionInv, TypeOK, Message, Reply
<1>3. /\ wire' = wire \ {r} /\ inbox' = Append(inbox, m)
      /\ UNCHANGED <<clientVars, erasing>>
  BY DEF Answer, hvVars
<1> HIDE DEF m
<1>4. inbox \in Seq(Message) /\ inbox' \in Seq(Message)
  BY <1>2, <1>3 DEF SessionInv, TypeOK
<1>5. TypeOK'
  BY <1>3, <1>4 DEF SessionInv, TypeOK, Answer, clientVars, hvVars
<1>6. NumbersFresh'
  BY <1>3 DEF clientVars, SessionInv, NumbersFresh
<1>7. \A i \in Replies' : (i \in Replies /\ inbox'[i] = inbox[i]) \/ inbox'[i] = m
  BY <1>3, <1>4 DEF Replies
<1>8. NumbersDistinct'
  <2>1. \A q \in wire' : q \in wire /\ q.id # r.id /\ q.id < id /\ q.id \notin erasing
    BY <1>3 DEF SessionInv, NumbersDistinct
  <2>2. \A q, p \in wire' : q.id = p.id => q = p
    BY <2>1 DEF SessionInv, NumbersDistinct
  <2>3. r.id < id
    BY DEF SessionInv, NumbersDistinct
  <2>4. ASSUME NEW i \in Replies'
        PROVE inbox'[i].id < id /\ \A q \in wire' : q.id # inbox'[i].id
    <3>1. CASE i \in Replies /\ inbox'[i] = inbox[i]
      BY <2>1, <3>1 DEF SessionInv, NumbersDistinct
    <3>2. CASE inbox'[i] = m
      BY <1>2, <2>1, <2>3, <3>2
    <3> QED
      BY <1>7, <3>1, <3>2
  <2>5. UNCHANGED <<id, erasing>> /\ \A n \in erasing : n < id
    BY <1>3 DEF clientVars, SessionInv, NumbersDistinct
  <2> QED
    BY <2>1, <2>2, <2>4, <2>5 DEF NumbersDistinct
<1>9. callbacks[r.id] \in {None, r.of}
  BY DEF SessionInv, ReplyReachesOwner
<1>10. ReplyReachesOwner'
  BY <1>2, <1>3, <1>7, <1>9 DEF clientVars, SessionInv, ReplyReachesOwner
<1> QED
  BY <1>5, <1>6, <1>8, <1>10 DEF SessionInv

\* Ending a callback frees a number nobody refers to any more.
LEMMA EraseInv ==
  ASSUME SessionInv, NEW gone \in SUBSET ReqId,
         \A n \in gone : n < id /\ \A r \in wire' : r.id # n,
         callbacks' = [n \in ReqId |-> IF n \in gone THEN None ELSE callbacks[n]],
         UNCHANGED <<id, stage, sending, wire>>
  PROVE /\ callbacks' \in [ReqId -> Method \cup {None}]
        /\ NumbersFresh'
        /\ \A r \in wire : callbacks'[r.id] = callbacks[r.id]
        /\ \A n \in ReqId : callbacks'[n] \in {None, callbacks[n]}
<1>1. callbacks \in [ReqId -> Method \cup {None}] /\ id \in ReqId /\ id \in Nat
  BY ConstantsTyped DEF SessionInv, TypeOK, ReqId
<1>2. id \notin gone
  BY <1>1
<1>3. NumbersFresh'
  BY <1>1, <1>2 DEF SessionInv, NumbersFresh
<1>4. \A r \in wire : r.id \in ReqId
  BY DEF SessionInv, TypeOK, Request
<1> QED
  BY <1>1, <1>3, <1>4

\* One message is handled.
LEMMA DispatchInv ==
  ASSUME SessionInv, Dispatch
  PROVE SessionInv'
<1> DEFINE m == Head(inbox)
<1>1. /\ inbox \in Seq(Message) /\ inbox # <<>> /\ m \in Message
      /\ inbox' = Tail(inbox) /\ inbox' \in Seq(Message) /\ m = inbox[1]
      /\ 1 \in 1 .. Len(inbox) /\ erasing = {} /\ todo = <<>>
  BY DEF Dispatch, SessionInv, TypeOK, HvIdle
<1>2. \A i \in Replies' : i + 1 \in Replies /\ inbox'[i] = inbox[i + 1]
  BY <1>1 DEF Replies
<1>3. UNCHANGED <<id, stage, sending, wire, link, klippy, life, subscribed, opens, taps>>
  BY DEF Dispatch, printerVars
<1>4. m.id \in ReqId /\ m.life \in Life
  BY <1>1 DEF Message
<1>5. /\ state' \in [objs : Life, printer : SUBSET Life]
      /\ todo' \in Seq(HvMethod) /\ overlay' \in BOOLEAN /\ alive' \in BOOLEAN
  <2> USE DEF SessionInv, TypeOK
  <2>1. <<>> \in Seq(HvMethod) /\ <<"objects.list", "info">> \in Seq(HvMethod)
        /\ <<"subscribe">> \in Seq(HvMethod) /\ 0 \in Life
    BY ConstantsTyped DEF HvMethod, Life
  <2>2. CASE Connected
    BY <2>1, <2>2 DEF Connected
  <2>3. CASE Disconnected
    BY <2>3 DEF Disconnected
  <2>4. CASE StatusUpdate(m)
    BY <1>4, <2>4 DEF StatusUpdate
  <2>5. CASE Answered(m)
    <3>1. CASE callbacks[m.id] = None
      BY <2>5, <3>1 DEF Answered
    <3>2. CASE callbacks[m.id] # None
      <4>1. Call(callbacks[m.id], m)
        BY <2>5, <3>2 DEF Answered
      <4> QED
        BY <1>4, <2>1, <4>1 DEF Call
    <3> QED
      BY <3>1, <3>2
  <2> QED
    BY <2>2, <2>3, <2>4, <2>5 DEF Dispatch, OnMessage
<1>6. \/ UNCHANGED <<callbacks, erasing>>
      \/ m.kind = "reply" /\ erasing' = {m.id} /\ UNCHANGED callbacks
      \/ /\ m.kind = "reply" /\ UNCHANGED erasing
         /\ callbacks' = [callbacks EXCEPT ![m.id] = None]
  BY DEF Dispatch, OnMessage, Connected, Disconnected, StatusUpdate, Answered
<1>7. m.kind = "reply" => /\ 1 \in Replies /\ m.id < id
                          /\ \A r \in wire : r.id # m.id
  BY <1>1 DEF Replies, SessionInv, NumbersDistinct
<1>8. /\ callbacks' \in [ReqId -> Method \cup {None}]
      /\ NumbersFresh'
      /\ \A r \in wire : callbacks'[r.id] = callbacks[r.id]
      /\ \A n \in ReqId : callbacks'[n] \in {None, callbacks[n]}
  <2>1. CASE UNCHANGED callbacks
    BY <1>3, <2>1 DEF SessionInv, TypeOK, NumbersFresh
  <2>2. CASE m.kind = "reply" /\ callbacks' = [callbacks EXCEPT ![m.id] = None]
    <3>1. callbacks' = [n \in ReqId |-> IF n \in {m.id} THEN None ELSE callbacks[n]]
      BY <1>4, <2>2 DEF SessionInv, TypeOK
    <3>2. \A n \in {m.id} : n < id /\ \A r \in wire' : r.id # n
      BY <1>3, <1>7, <2>2
    <3>3. {m.id} \in SUBSET ReqId
      BY <1>4
    <3> HIDE DEF m
    <3> QED
      BY <1>3, <3>1, <3>2, <3>3, EraseInv
  <2> QED
    BY <1>6, <2>1, <2>2
<1>9. erasing' \in SUBSET ReqId /\ \A n \in erasing' : n < id /\ \A r \in wire : r.id # n
  BY <1>1, <1>4, <1>6, <1>7
<1>10. TypeOK'
  BY <1>1, <1>3, <1>5, <1>8, <1>9 DEF SessionInv, TypeOK
<1>11. NumbersDistinct'
  BY <1>2, <1>3, <1>9 DEF SessionInv, NumbersDistinct
<1>12. \A i \in Replies : inbox[i].id \in ReqId
  BY InboxTyped DEF SessionInv
<1>13. ReplyReachesOwner'
  BY <1>2, <1>3, <1>8, <1>12 DEF SessionInv, ReplyReachesOwner
<1> QED
  BY <1>8, <1>10, <1>11, <1>13 DEF SessionInv

\* Every step preserves the invariant.
LEMMA NextInv ==
  ASSUME SessionInv, ~Overlap, [Next]_vars
  PROVE SessionInv'
<1>1. CASE UNCHANGED vars
  BY <1>1 DEF vars, clientVars, hvVars, printerVars, SessionInv, TypeOK, NumbersFresh,
              NumbersDistinct, ReplyReachesOwner, Replies
<1>2. CASE Continue
  <2>1. Head(todo) \in Method /\ Tail(todo) \in Seq(HvMethod)
    BY <1>2, ConstantsTyped DEF Continue, SessionInv, TypeOK
  <2>2. /\ EnterSend("hv", Head(todo)) /\ todo' = Tail(todo)
        /\ UNCHANGED <<id, callbacks, erasing, state, overlay, alive, wire, inbox,
                       printerVars, taps>>
    BY <1>2 DEF Continue
  <2>3. /\ stage' \in [Thread -> {"idle", "find", "insert", "number"}]
        /\ sending' \in [Thread -> Method \cup {None}]
        /\ NumbersFresh' /\ NumbersDistinct' /\ ReplyReachesOwner'
    BY <2>1, <2>2, Enter DEF Thread
  <2>4. TypeOK'
    BY <2>1, <2>2, <2>3 DEF SessionInv, TypeOK, printerVars
  <2> QED
    BY <2>3, <2>4 DEF SessionInv
<1>3. CASE Erase
  <2>1. /\ erasing \in SUBSET ReqId /\ erasing' = {}
        /\ callbacks' = [n \in ReqId |-> IF n \in erasing THEN None ELSE callbacks[n]]
        /\ UNCHANGED <<id, stage, sending, todo, state, overlay, alive, wire, inbox,
                       printerVars, taps>>
    BY <1>3 DEF Erase, SessionInv, TypeOK
  <2>2. \A n \in erasing : n < id /\ \A r \in wire' : r.id # n
    BY <2>1 DEF SessionInv, NumbersDistinct
  <2>3. /\ callbacks' \in [ReqId -> Method \cup {None}]
        /\ NumbersFresh'
        /\ \A r \in wire : callbacks'[r.id] = callbacks[r.id]
        /\ \A n \in ReqId : callbacks'[n] \in {None, callbacks[n]}
    BY <2>1, <2>2, EraseInv
  <2>4. TypeOK'
    BY <2>1, <2>3 DEF SessionInv, TypeOK, printerVars
  <2>5. NumbersDistinct'
    BY <2>1 DEF SessionInv, NumbersDistinct, Replies
  <2>6. \A i \in Replies : inbox[i].id \in ReqId
    BY InboxTyped DEF SessionInv
  <2>7. ReplyReachesOwner'
    BY <2>1, <2>3, <2>6 DEF SessionInv, ReplyReachesOwner, Replies
  <2> QED
    BY <2>3, <2>4, <2>5, <2>7 DEF SessionInv
<1>4. CASE Dispatch
  BY <1>4, DispatchInv
<1>5. CASE SendStep("hv") \/ SendStep("ui")
  BY <1>5, SendInv DEF Thread
<1>6. ASSUME NEW m \in UiMethod, Tap(m) PROVE SessionInv'
  <2>1. m \in Method
    BY ConstantsTyped
  <2>2. /\ EnterSend("ui", m) /\ taps' \in 0 .. MaxTaps
        /\ UNCHANGED <<id, callbacks, hvVars, wire, inbox, printerVars>>
    BY <1>6, ConstantsTyped DEF Tap, SessionInv, TypeOK
  <2>3. /\ stage' \in [Thread -> {"idle", "find", "insert", "number"}]
        /\ sending' \in [Thread -> Method \cup {None}]
        /\ NumbersFresh' /\ NumbersDistinct' /\ ReplyReachesOwner'
    BY <2>1, <2>2, Enter DEF Thread, hvVars
  <2>4. TypeOK'
    BY <2>2, <2>3 DEF SessionInv, TypeOK, printerVars, hvVars
  <2> QED
    BY <2>3, <2>4 DEF SessionInv
<1>7. ASSUME NEW r \in wire, Answer(r) PROVE SessionInv'
  BY <1>7, AnswerInv
<1>8. CASE SendStatus \/ KlippyDown \/ KlippyReady \/ OpenLink \/ CloseLink
  <2> DEFINE K == {"klippy_ready", "klippy_disconnected", "open", "close"}
             u == [Notice("status") EXCEPT !.life = life]
  <2>1. life \in Life /\ 0 \in Life /\ inbox \in Seq(Message)
    BY ConstantsTyped DEF SessionInv, TypeOK, Life
  <2>2. \A k \in K : Notice(k) \in Message /\ Notice(k).kind # "reply"
    BY <2>1, ConstantsTyped DEF Notice, Message
  <2>3. u \in Message /\ u.kind # "reply"
    BY <2>1, ConstantsTyped DEF Notice, Message
  <2> HIDE DEF u
  <2>4. PICK m \in Message : m.kind # "reply" /\ inbox' \in {inbox, Append(inbox, m)}
    <3>1. CASE SendStatus
      <4>1. inbox = <<>> /\ inbox' = <<u>>
        BY <3>1 DEF SendStatus, u
      <4>2. inbox' = Append(inbox, u)
        BY <2>3, <4>1
      <4> QED
        BY <2>3, <4>2
    <3>2. CASE KlippyDown
      BY <2>2, <3>2 DEF KlippyDown, Notify
    <3>3. CASE KlippyReady
      BY <2>2, <3>3 DEF KlippyReady, Notify
    <3>4. CASE OpenLink
      <4>1. inbox = <<>> /\ inbox' = <<Notice("open")>>
        BY <3>4 DEF OpenLink
      <4>2. Notice("open") \in Message /\ Notice("open").kind # "reply"
        BY <2>2
      <4>3. inbox' = Append(inbox, Notice("open"))
        BY <4>1, <4>2
      <4> QED
        BY <4>2, <4>3
    <3>5. CASE CloseLink
      BY <2>2, <3>5 DEF CloseLink
    <3> QED
      BY <1>8, <3>1, <3>2, <3>3, <3>4, <3>5
  <2>5. UNCHANGED <<clientVars, hvVars, taps>> /\ wire' \subseteq wire
    BY <1>8 DEF SendStatus, KlippyDown, KlippyReady, OpenLink, CloseLink
  <2>6. inbox' \in Seq(Message)
    BY <2>1, <2>4
  <2>7. /\ link' \in {"open", "closed"} /\ klippy' \in {"ready", "down"}
        /\ life' \in Life /\ subscribed' \in BOOLEAN /\ opens' \in 0 .. MaxLink
    <3>0. /\ link \in {"open", "closed"} /\ klippy \in {"ready", "down"}
          /\ life \in Life /\ subscribed \in BOOLEAN /\ opens \in 0 .. MaxLink
      BY DEF SessionInv, TypeOK
    <3>1. CASE SendStatus
      BY <3>0, <3>1 DEF SendStatus, printerVars
    <3>2. CASE KlippyDown
      BY <3>0, <3>2 DEF KlippyDown
    <3>3. CASE KlippyReady
      BY <3>0, <3>3, ConstantsTyped DEF KlippyReady, Life
    <3>4. CASE OpenLink
      BY <3>0, <3>4, ConstantsTyped DEF OpenLink
    <3>5. CASE CloseLink
      BY <3>0, <3>5 DEF CloseLink
    <3> QED
      BY <1>8, <3>1, <3>2, <3>3, <3>4, <3>5
  <2>8. TypeOK'
    BY <2>5, <2>6, <2>7 DEF SessionInv, TypeOK, clientVars, hvVars
  <2>9. NumbersFresh' /\ NumbersDistinct' /\ ReplyReachesOwner'
    BY <2>4, <2>5, InboxChanges DEF hvVars
  <2> QED
    BY <2>8, <2>9 DEF SessionInv
<1> QED
  BY <1>1, <1>2, <1>3, <1>4, <1>5, <1>6, <1>7, <1>8 DEF Next, Hv

\* The invariant of websocket_client.cpp's numbers and callbacks, whatever the
\* number of requests: each number is used once and its entry is the sender's.
THEOREM SessionInvariant ==
  ASSUME ~Overlap PROVE Spec => []SessionInv
<1>1. SessionInv /\ [Next]_vars => SessionInv'
  BY NextInv
<1> QED
  BY <1>1, InitInv, PTL DEF Spec

\* A reply on the event loop is handed to the callback of the request it
\* answers (onmessage, send_jsonrpc), if sends do not overlap.
THEOREM OwnReplies ==
  ASSUME ~Overlap PROVE Spec => []ReplyReachesOwner
<1>1. SessionInv => ReplyReachesOwner
  BY DEF SessionInv
<1> QED
  BY <1>1, SessionInvariant, PTL
-----------------------------------------------------------------------------
(* While the printer is up and the link is open, its discovery is under way *)
(* or done.                                                                  *)

\* A reply finds the callback of its own request, if that has one, and is the
\* only one that does.
RepliesExact ==
  /\ \A i, j \in Replies : inbox[i].id = inbox[j].id => i = j
  /\ \A i \in Replies : /\ inbox[i].id \notin erasing
                        /\ callbacks[inbox[i].id] =
                             IF inbox[i].of \in NoCallback THEN None ELSE inbox[i].of

\* A message of this life of the printer, after which the page is no worse off.
Fresh(m, l) == m.kind \in {"reply", "status"} /\ m.ok /\ m.life = l
AllFresh(q, l) == \A i \in 1 .. Len(q) : Fresh(q[i], l)

\* The message that starts the last discovery has not been handled.
IsStart(m) == m.kind \in {"open", "klippy_ready"}
StartDue(q, l) ==
  \E i \in 1 .. Len(q) : IsStart(q[i]) /\ \A j \in i + 1 .. Len(q) : Fresh(q[j], l)

AnswerDue(q, m) == \E i \in 1 .. Len(q) : q[i].kind = "reply" /\ q[i].of = m

\* A request of the discovery is to be made, being made, made or answered.
UnderWay(m) ==
  \/ \E i \in 1 .. Len(todo) : todo[i] = m
  \/ stage["hv"] # "idle" /\ sending["hv"] = m
  \/ \E r \in wire : r.of = m
  \/ AnswerDue(inbox, m)

\* It has been handled: nothing of another life is in the state or will come.
Discovering ==
  /\ AllFresh(inbox, life)
  /\ state.printer \subseteq {life}
  /\ \/ UnderWay("objects.list")
     \/ state.objs = life /\ UnderWay("subscribe")
     \/ state.objs = life /\ state.printer = {life} /\ ~overlay

Discovery == link = "open" /\ klippy = "ready" => StartDue(inbox, life) \/ Discovering

\* A message that joins the inbox.
LEMMA InboxGrows ==
  ASSUME NEW q \in Seq(Message), NEW m \in Message, NEW l
  PROVE  /\ IsStart(m) => StartDue(Append(q, m), l)
         /\ Fresh(m, l) /\ StartDue(q, l) => StartDue(Append(q, m), l)
         /\ Fresh(m, l) /\ AllFresh(q, l) => AllFresh(Append(q, m), l)
         /\ \A o : AnswerDue(q, o) => AnswerDue(Append(q, m), o)
         /\ m.kind = "reply" => AnswerDue(Append(q, m), m.of)
<1> DEFINE p == Append(q, m)
<1>1. /\ p \in Seq(Message) /\ Len(q) \in Nat /\ Len(p) = Len(q) + 1 /\ p[Len(q) + 1] = m
      /\ \A i \in 1 .. Len(q) : p[i] = q[i]
  OBVIOUS
<1> HIDE DEF p
<1>2. IsStart(m) => StartDue(p, l)
  BY <1>1 DEF StartDue
<1>3. Fresh(m, l) /\ StartDue(q, l) => StartDue(p, l)
  <2> SUFFICES ASSUME Fresh(m, l), StartDue(q, l) PROVE StartDue(p, l)
    OBVIOUS
  <2>1. PICK i \in 1 .. Len(q) : IsStart(q[i]) /\ \A j \in i + 1 .. Len(q) : Fresh(q[j], l)
    BY DEF StartDue
  <2>2. i \in 1 .. Len(p) /\ IsStart(p[i])
    BY <1>1, <2>1
  <2>3. ASSUME NEW j \in i + 1 .. Len(p) PROVE Fresh(p[j], l)
    <3>1. j \in i + 1 .. Len(q) \/ j = Len(q) + 1
      BY <1>1
    <3>2. CASE j = Len(q) + 1
      BY <1>1, <3>2
    <3>3. CASE j \in i + 1 .. Len(q)
      <4>1. j \in 1 .. Len(q)
        BY <3>3
      <4> QED
        BY <1>1, <2>1, <3>3, <4>1
    <3> QED
      BY <3>1, <3>2, <3>3
  <2> QED
    BY <2>2, <2>3 DEF StartDue
<1>4. Fresh(m, l) /\ AllFresh(q, l) => AllFresh(p, l)
  <2> SUFFICES ASSUME Fresh(m, l), AllFresh(q, l), NEW i \in 1 .. Len(p) PROVE Fresh(p[i], l)
    BY DEF AllFresh
  <2>1. i \in 1 .. Len(q) \/ i = Len(q) + 1
    BY <1>1
  <2> QED
    BY <1>1, <2>1 DEF AllFresh
<1>5. \A o : AnswerDue(q, o) => AnswerDue(p, o)
  BY <1>1 DEF AnswerDue
<1>6. m.kind = "reply" => AnswerDue(p, m.of)
  BY <1>1 DEF AnswerDue
<1> QED
  BY <1>2, <1>3, <1>4, <1>5, <1>6 DEF p

\* The first message leaves the inbox.
LEMMA InboxShrinks ==
  ASSUME NEW q \in Seq(Message), q # <<>>, NEW l
  PROVE  /\ StartDue(q, l) =>
              StartDue(Tail(q), l) \/ (IsStart(Head(q)) /\ AllFresh(Tail(q), l))
         /\ AllFresh(q, l) => Fresh(Head(q), l) /\ AllFresh(Tail(q), l)
         /\ \A o : AnswerDue(q, o) =>
              AnswerDue(Tail(q), o) \/ (Head(q).kind = "reply" /\ Head(q).of = o)
<1> DEFINE p == Tail(q)
<1>1. /\ p \in Seq(Message) /\ Len(q) \in Nat \ {0} /\ Len(p) = Len(q) - 1 /\ Head(q) = q[1]
      /\ \A i \in 1 .. Len(p) : p[i] = q[i + 1]
  OBVIOUS
<1> HIDE DEF p
<1>2. StartDue(q, l) => StartDue(p, l) \/ (IsStart(Head(q)) /\ AllFresh(p, l))
  <2> SUFFICES ASSUME StartDue(q, l)
               PROVE  StartDue(p, l) \/ (IsStart(Head(q)) /\ AllFresh(p, l))
    OBVIOUS
  <2>1. PICK i \in 1 .. Len(q) : IsStart(q[i]) /\ \A j \in i + 1 .. Len(q) : Fresh(q[j], l)
    BY DEF StartDue
  <2>2. CASE i = 1
    <3>1. ASSUME NEW j \in 1 .. Len(p) PROVE Fresh(p[j], l)
      BY <1>1, <2>1, <2>2
    <3> QED
      BY <1>1, <2>1, <2>2, <3>1 DEF AllFresh
  <2>3. CASE i # 1
    <3>1. i - 1 \in 1 .. Len(p) /\ p[i - 1] = q[i]
      BY <1>1, <2>3
    <3>2. ASSUME NEW j \in (i - 1) + 1 .. Len(p) PROVE Fresh(p[j], l)
      <4>1. j \in 1 .. Len(p) /\ j + 1 \in i + 1 .. Len(q)
        BY <1>1
      <4> QED
        BY <1>1, <2>1, <4>1
    <3> QED
      BY <2>1, <3>1, <3>2 DEF StartDue
  <2> QED
    BY <2>2, <2>3
<1>3. AllFresh(q, l) => Fresh(Head(q), l) /\ AllFresh(p, l)
  BY <1>1 DEF AllFresh
<1>4. ASSUME NEW o, AnswerDue(q, o)
      PROVE  AnswerDue(p, o) \/ (Head(q).kind = "reply" /\ Head(q).of = o)
  <2>1. PICK i \in 1 .. Len(q) : q[i].kind = "reply" /\ q[i].of = o
    BY <1>4 DEF AnswerDue
  <2>2. CASE i = 1
    BY <1>1, <2>1, <2>2
  <2>3. CASE i # 1
    <3>1. i - 1 \in 1 .. Len(p) /\ p[i - 1] = q[i]
      BY <1>1, <2>3
    <3> QED
      BY <2>1, <3>1 DEF AnswerDue
  <2> QED
    BY <2>2, <2>3
<1> QED
  BY <1>2, <1>3, <1>4 DEF p

\* A reply and its callback stay together: a number is answered once.
LEMMA RepliesStayExact ==
  ASSUME SessionInv, RepliesExact, ~Overlap, [Next]_vars
  PROVE  RepliesExact'
<1>1. /\ inbox \in Seq(Message) /\ id \in Nat /\ \A i \in Replies : inbox[i].id \in ReqId
      /\ callbacks \in [ReqId -> Method \cup {None}]
  BY InboxTyped, ConstantsTyped DEF SessionInv, TypeOK, ReqId
<1>2. CASE UNCHANGED <<inbox, erasing, callbacks>>
  BY <1>2 DEF RepliesExact, Replies
<1>3. ASSUME NEW t \in Thread, SendStep(t) PROVE RepliesExact'
  <2>1. UNCHANGED <<inbox, erasing>>
    BY <1>3 DEF SendStep, hvVars
  <2>2. \A n \in ReqId : n < id => callbacks'[n] = callbacks[n]
    BY <1>1, <1>3 DEF SendStep, Find, Insert, Number
  <2> QED
    BY <1>1, <2>1, <2>2 DEF RepliesExact, Replies, SessionInv, NumbersDistinct
<1>4. CASE Erase
  BY <1>1, <1>4 DEF Erase, RepliesExact, Replies
<1>5. CASE Dispatch
  <2> DEFINE m == Head(inbox)
  <2>1. /\ inbox # <<>> /\ inbox' = Tail(inbox) /\ m = inbox[1] /\ 1 \in 1 .. Len(inbox)
        /\ erasing = {} /\ m \in Message
    BY <1>1, <1>5 DEF Dispatch, HvIdle
  <2>2. \A i \in Replies' : i + 1 \in Replies /\ inbox'[i] = inbox[i + 1] /\ i \in Nat \ {0}
    BY <1>1, <2>1 DEF Replies
  <2>3. \/ UNCHANGED <<callbacks, erasing>>
        \/ m.kind = "reply" /\ erasing' = {m.id} /\ UNCHANGED callbacks
        \/ /\ m.kind = "reply" /\ UNCHANGED erasing
           /\ callbacks' = [callbacks EXCEPT ![m.id] = None]
    BY <1>5 DEF Dispatch, OnMessage, Connected, Disconnected, StatusUpdate, Answered
  <2>4. m.kind = "reply" => 1 \in Replies
    BY <2>1 DEF Replies
  <2>5. ASSUME NEW i \in Replies', m.kind = "reply" PROVE inbox'[i].id # m.id
    <3>1. i + 1 \in Replies /\ inbox'[i] = inbox[i + 1] /\ i + 1 # 1 /\ 1 \in Replies
      BY <2>2, <2>4, <2>5
    <3>2. inbox[i + 1].id # inbox[1].id
      BY <3>1 DEF RepliesExact
    <3> QED
      BY <2>1, <3>1, <3>2
  <2>6. ASSUME NEW i \in Replies', NEW j \in Replies', inbox'[i].id = inbox'[j].id PROVE i = j
    <3>1. i + 1 = j + 1
      BY <2>2, <2>6 DEF RepliesExact
    <3> QED
      BY <2>2, <3>1
  <2>7. ASSUME NEW i \in Replies'
        PROVE  /\ inbox'[i].id \notin erasing'
               /\ callbacks'[inbox'[i].id] = callbacks[inbox'[i].id]
    <3>1. inbox'[i].id \in ReqId /\ inbox'[i].id \notin erasing
      BY <1>1, <2>1, <2>2
    <3> HIDE DEF m
    <3> QED
      BY <1>1, <2>3, <2>5, <3>1
  <2> QED
    BY <2>2, <2>6, <2>7 DEF RepliesExact
<1>6. ASSUME NEW r \in wire, Answer(r) PROVE RepliesExact'
  <2> DEFINE ok == r.of \in NeedsKlippy => klippy = "ready"
             m  == Reply(r, ok, life)
  <2>1. m.kind = "reply" /\ m.id = r.id /\ m.of = r.of
    BY DEF Reply
  <2>2. m \in Message
    BY ConstantsTyped DEF SessionInv, TypeOK, Request, Message, Reply
  <2>3. inbox' = Append(inbox, m) /\ UNCHANGED <<callbacks, erasing>>
    BY <1>6 DEF Answer, clientVars, hvVars
  <2> HIDE DEF m
  <2>4. \A i \in Replies' : \/ i \in Replies /\ inbox'[i] = inbox[i]
                            \/ i = Len(inbox) + 1 /\ inbox'[i] = m
    BY <1>1, <2>2, <2>3 DEF Replies
  <2>5. /\ \A i \in Replies : inbox[i].id # r.id
        /\ r.id \notin erasing
        /\ callbacks[r.id] = IF r.of \in NoCallback THEN None ELSE r.of
    BY DEF SessionInv, NumbersDistinct, ReplyReachesOwner
  <2> QED
    BY <2>1, <2>3, <2>4, <2>5 DEF RepliesExact
<1>7. CASE SendStatus \/ KlippyDown \/ KlippyReady \/ OpenLink \/ CloseLink
  <2>1. UNCHANGED <<callbacks, erasing>>
    BY <1>7 DEF SendStatus, KlippyDown, KlippyReady, OpenLink, CloseLink, clientVars, hvVars
  <2>2. \A i \in Replies' : i \in Replies /\ inbox'[i] = inbox[i]
    <3>1. \A k : Notice(k).kind = k
      BY DEF Notice
    <3>2. [Notice("status") EXCEPT !.life = life].kind = "status"
      BY DEF Notice
    <3>3. CASE SendStatus \/ OpenLink
      <4>1. PICK n : inbox' = <<n>> /\ n.kind # "reply"
        BY <3>1, <3>2, <3>3 DEF SendStatus, OpenLink
      <4> QED
        BY <4>1 DEF Replies
    <3>4. CASE UNCHANGED inbox
      BY <3>4 DEF Replies
    <3>5. ASSUME NEW n, n.kind # "reply", inbox' = Append(inbox, n)
          PROVE  \A i \in Replies' : i \in Replies /\ inbox'[i] = inbox[i]
      BY <1>1, <3>5 DEF Replies
    <3> QED
      BY <1>7, <3>1, <3>3, <3>4, <3>5
      DEF KlippyDown, KlippyReady, CloseLink, Notify
  <2> QED
    BY <2>1, <2>2 DEF RepliesExact
<1> QED
  BY <1>2, <1>3, <1>4, <1>5, <1>6, <1>7
  DEF Next, Hv, Continue, Tap, vars, clientVars, hvVars, Thread

\* send_jsonrpc loses no request: each access takes it nearer to the wire.
LEMMA SendGoesOn ==
  ASSUME SessionInv, link = "open", NEW t \in Thread, SendStep(t), NEW m, UnderWay(m)
  PROVE  UnderWay(m)'
<1>1. UNCHANGED <<todo, inbox>> /\ wire \subseteq wire'
  BY DEF SendStep, hvVars, Find, Insert, Number
<1>2. CASE stage["hv"] # "idle" /\ sending["hv"] = m
  <2>1. CASE t = "ui"
    <3>1. stage'["hv"] = stage["hv"] /\ sending'["hv"] = sending["hv"]
      BY <2>1 DEF SendStep, Find, Insert, Number, LeaveSend, SessionInv, TypeOK, Thread
    <3> QED
      BY <1>2, <3>1 DEF UnderWay
  <2>2. CASE t = "hv"
    <3>1. CASE Find(t)
      <4>1. callbacks[id] = None
        BY <3>1 DEF Find, SessionInv, NumbersFresh, Thread, Other
      <4>2. stage'["hv"] = "insert" /\ sending'["hv"] = m
        BY <1>2, <2>2, <3>1, <4>1 DEF Find, SessionInv, TypeOK, Thread
      <4> QED
        BY <4>2 DEF UnderWay
    <3>2. CASE Insert(t)
      <4>1. stage'["hv"] = "number" /\ sending'["hv"] = m
        BY <1>2, <2>2, <3>2 DEF Insert, SessionInv, TypeOK, Thread
      <4> QED
        BY <4>1 DEF UnderWay
    <3>3. CASE Number(t)
      <4>1. [id |-> id, of |-> m] \in wire'
        BY <1>2, <2>2, <3>3 DEF Number
      <4> QED
        BY <4>1 DEF UnderWay
    <3> QED
      BY <3>1, <3>2, <3>3 DEF SendStep
  <2> QED
    BY <2>1, <2>2 DEF Thread
<1>3. CASE ~(stage["hv"] # "idle" /\ sending["hv"] = m)
  BY <1>1, <1>3 DEF UnderWay
<1> QED
  BY <1>2, <1>3

\* The handler's next request goes into send_jsonrpc.
LEMMA ContinueGoesOn ==
  ASSUME SessionInv, Continue, NEW m, UnderWay(m)
  PROVE  UnderWay(m)'
<1>1. /\ todo \in Seq(HvMethod) /\ todo # <<>> /\ todo' = Tail(todo)
      /\ stage'["hv"] # "idle" /\ sending'["hv"] = Head(todo)
      /\ stage["hv"] = "idle" /\ UNCHANGED <<wire, inbox>>
  BY DEF Continue, EnterSend, SessionInv, TypeOK, Thread
<1>2. ASSUME NEW i \in 1 .. Len(todo), todo[i] = m PROVE UnderWay(m)'
  <2>1. CASE i = 1
    <3>1. sending'["hv"] = m
      BY <1>1, <1>2, <2>1
    <3> QED
      BY <1>1, <3>1 DEF UnderWay
  <2>2. CASE i # 1
    <3>1. i - 1 \in 1 .. Len(todo') /\ todo'[i - 1] = m
      BY <1>1, <1>2, <2>2
    <3> QED
      BY <3>1 DEF UnderWay
  <2> QED
    BY <2>1, <2>2
<1> QED
  BY <1>1, <1>2 DEF UnderWay

\* Moonraker's answer to a request takes the place of the request.
LEMMA AnswerGoesOn ==
  ASSUME SessionInv, NEW r \in wire, Answer(r), klippy = "ready"
  PROVE  /\ \A m : UnderWay(m) => UnderWay(m)'
         /\ StartDue(inbox, life) => StartDue(inbox', life)
         /\ AllFresh(inbox, life) => AllFresh(inbox', life)
<1> DEFINE a == Reply(r, TRUE, life)
<1>1. a.kind = "reply" /\ a.of = r.of /\ a.ok /\ a.life = life /\ a.id = r.id
  BY DEF Reply
<1>2. a \in Message
  BY DEF SessionInv, TypeOK, Request, Message, Reply
<1>3. inbox' = Append(inbox, a) /\ wire' = wire \ {r} /\ UNCHANGED <<todo, stage, sending>>
  BY DEF Answer, clientVars, hvVars
<1>4. Fresh(a, life)
  BY <1>1 DEF Fresh
<1> HIDE DEF a
<1>5. inbox \in Seq(Message)
  BY DEF SessionInv, TypeOK
<1>6. /\ StartDue(inbox, life) => StartDue(inbox', life)
      /\ AllFresh(inbox, life) => AllFresh(inbox', life)
      /\ \A o : AnswerDue(inbox, o) => AnswerDue(inbox', o)
      /\ AnswerDue(inbox', r.of)
  BY <1>1, <1>2, <1>3, <1>4, <1>5, InboxGrows
<1>7. ASSUME NEW m, UnderWay(m) PROVE UnderWay(m)'
  BY <1>3, <1>6, <1>7 DEF UnderWay
<1> QED
  BY <1>6, <1>7

\* A message is handled: the start makes the requests, a reply the next one.
LEMMA DispatchGoesOn ==
  ASSUME SessionInv, RepliesExact, Dispatch, StartDue(inbox, life) \/ Discovering
  PROVE  StartDue(inbox', life) \/ Discovering'
<1> DEFINE m == Head(inbox)
<1>1. /\ inbox \in Seq(Message) /\ inbox # <<>> /\ inbox' = Tail(inbox) /\ m = inbox[1]
      /\ 1 \in 1 .. Len(inbox) /\ OnMessage(m) /\ m \in Message
      /\ stage["hv"] = "idle" /\ todo = <<>>
      /\ UNCHANGED <<stage, sending, wire, life>>
  BY DEF Dispatch, HvIdle, SessionInv, TypeOK, printerVars
<1>2. /\ StartDue(inbox, life) => StartDue(inbox', life) \/ (IsStart(m) /\ AllFresh(inbox', life))
      /\ AllFresh(inbox, life) => Fresh(m, life) /\ AllFresh(inbox', life)
      /\ \A o : AnswerDue(inbox, o) =>
           AnswerDue(inbox', o) \/ (m.kind = "reply" /\ m.of = o)
  BY <1>1, InboxShrinks
<1>3. m.kind = "reply" =>
        callbacks[m.id] = IF m.of \in NoCallback THEN None ELSE m.of
  BY <1>1 DEF Replies, RepliesExact
<1> HIDE DEF m
<1>4. CASE StartDue(inbox', life)
  BY <1>4
<1>5. CASE IsStart(m) /\ AllFresh(inbox', life)
  <2>1. Connected
    BY <1>1, <1>5 DEF IsStart, OnMessage
  <2>2. todo'[1] = "objects.list" /\ 1 \in 1 .. Len(todo') /\ state'.printer = {}
    BY <2>1 DEF Connected
  <2>3. UnderWay("objects.list")'
    BY <2>2 DEF UnderWay
  <2> QED
    BY <1>1, <1>5, <2>2, <2>3 DEF Discovering
<1>6. CASE Discovering
  <2>1. Fresh(m, life) /\ AllFresh(inbox', life) /\ state.printer \subseteq {life}
    BY <1>2, <1>6 DEF Discovering
  <2>2. ASSUME NEW o, UnderWay(o)
        PROVE  UnderWay(o)' \/ (m.kind = "reply" /\ m.of = o)
    BY <1>1, <1>2, <2>2 DEF UnderWay
  <2>3. state \in [objs : Life, printer : SUBSET Life]
    BY DEF SessionInv, TypeOK
  <2>4. CASE m.kind = "status"
    <3>1. /\ state' = [state EXCEPT !.printer = @ \cup {m.life}] /\ UNCHANGED overlay
      BY <1>1, <2>4 DEF OnMessage, StatusUpdate
    <3>2. state'.objs = state.objs /\ state'.printer = state.printer \cup {life}
      BY <2>1, <2>3, <3>1 DEF Fresh
    <3>3. \A o : UnderWay(o) => UnderWay(o)'
      BY <2>2, <2>4
    <3> QED
      BY <1>1, <1>6, <2>1, <3>1, <3>2, <3>3 DEF Discovering
  <2>5. CASE m.kind = "reply"
    <3>0. Answered(m)
      BY <1>1, <2>5 DEF OnMessage
    <3>1. m.of \in Method \cup {None} /\ m.ok = TRUE /\ m.life = life
      BY <1>1, <2>1 DEF Message, Fresh
    <3>2. CASE m.of = "objects.list"
      <4>1. callbacks[m.id] = "objects.list"
        BY <1>3, <2>5, <3>2 DEF NoCallback
      <4>2. Call("objects.list", m) /\ Fits(m, "objects.list")
        BY <3>0, <3>1, <3>2, <4>1 DEF Answered, Fits, None
      <4>3. state' = [state EXCEPT !.objs = life] /\ todo' = <<"subscribe">>
        BY <3>1, <4>2 DEF Call
      <4>4. state'.objs = life /\ state'.printer = state.printer
        BY <2>3, <4>3
      <4>5. UnderWay("subscribe")'
        BY <4>3 DEF UnderWay
      <4> QED
        BY <1>1, <2>1, <4>4, <4>5 DEF Discovering
    <3>3. CASE m.of = "subscribe"
      <4>1. callbacks[m.id] = "subscribe"
        BY <1>3, <2>5, <3>3 DEF NoCallback
      <4>2. Call("subscribe", m) /\ Fits(m, "subscribe")
        BY <3>0, <3>1, <3>3, <4>1 DEF Answered, Fits, None
      <4>3. state' = [state EXCEPT !.printer = @ \cup {m.life}]
        BY <4>2 DEF Call
      <4>4. overlay' = FALSE
        BY <4>2 DEF Call
      <4>5. state'.objs = state.objs /\ state'.printer = {life}
        BY <2>1, <2>3, <3>1, <4>3
      <4>6. UnderWay("objects.list") => UnderWay("objects.list")'
        BY <2>2, <3>3
      <4> QED
        BY <1>1, <1>6, <2>1, <4>4, <4>5, <4>6 DEF Discovering
    <3>4. CASE m.of \notin {"objects.list", "subscribe"}
      <4>1. state' = state /\ (~overlay => ~overlay')
        <5>1. CASE callbacks[m.id] = None
          BY <3>0, <5>1 DEF Answered
        <5>2. CASE callbacks[m.id] # None
          <6>1. callbacks[m.id] = m.of
            BY <1>3, <2>5, <5>2
          <6>2. Call(m.of, m)
            BY <3>0, <5>2, <6>1 DEF Answered
          <6> QED
            BY <3>4, <6>2 DEF Call
        <5> QED
          BY <5>1, <5>2
      <4>2. /\ UnderWay("objects.list") => UnderWay("objects.list")'
            /\ UnderWay("subscribe") => UnderWay("subscribe")'
        BY <2>2, <3>4
      <4> QED
        BY <1>1, <1>6, <2>1, <4>1, <4>2 DEF Discovering
    <3> QED
      BY <3>2, <3>3, <3>4
  <2> QED
    BY <2>1, <2>4, <2>5 DEF Fresh
<1> QED
  BY <1>2, <1>4, <1>5, <1>6

\* Every step leaves the discovery due, under way or done, or restarts it.
LEMMA DiscoveryStep ==
  ASSUME SessionInv, RepliesExact, Discovery, [Next]_vars
  PROVE  Discovery'
<1> SUFFICES ASSUME link' = "open", klippy' = "ready"
             PROVE  (StartDue(inbox, life) \/ Discovering)'
  BY DEF Discovery
<1>0. inbox \in Seq(Message) /\ 0 \in Life /\ life \in Life
  BY ConstantsTyped DEF SessionInv, TypeOK, Life
<1>1. ASSUME link = "open", klippy = "ready", UNCHANGED <<inbox, life, state, overlay>>,
             \A m \in HvMethod : UnderWay(m) => UnderWay(m)'
      PROVE  (StartDue(inbox, life) \/ Discovering)'
  <2>1. "objects.list" \in HvMethod /\ "subscribe" \in HvMethod
    BY DEF HvMethod
  <2> QED
    BY <1>1, <2>1 DEF Discovery, Discovering
<1>2. CASE UNCHANGED vars
  <2>1. \A m \in HvMethod : UnderWay(m) => UnderWay(m)'
    BY <1>2 DEF UnderWay, vars, clientVars, hvVars
  <2> QED
    BY <1>1, <1>2, <2>1 DEF vars, hvVars, printerVars
<1>3. CASE Continue
  <2>1. \A m \in HvMethod : UnderWay(m) => UnderWay(m)'
    BY <1>3, ContinueGoesOn
  <2> QED
    BY <1>1, <1>3, <2>1 DEF Continue, printerVars
<1>4. CASE Erase
  <2>1. \A m \in HvMethod : UnderWay(m) => UnderWay(m)'
    BY <1>4 DEF Erase, UnderWay
  <2> QED
    BY <1>1, <1>4, <2>1 DEF Erase, printerVars
<1>5. ASSUME NEW t \in Thread, SendStep(t) PROVE (StartDue(inbox, life) \/ Discovering)'
  <2>1. UNCHANGED <<link, klippy, inbox, life, state, overlay>>
    BY <1>5 DEF SendStep, printerVars, hvVars
  <2>2. \A m \in HvMethod : UnderWay(m) => UnderWay(m)'
    BY <1>5, <2>1, SendGoesOn
  <2> QED
    BY <1>1, <2>1, <2>2
<1>6. ASSUME NEW o \in UiMethod, Tap(o) PROVE (StartDue(inbox, life) \/ Discovering)'
  <2>1. /\ UNCHANGED <<link, klippy, inbox, life, state, overlay, todo, wire>>
        /\ stage'["hv"] = stage["hv"] /\ sending'["hv"] = sending["hv"]
    BY <1>6 DEF Tap, EnterSend, printerVars, hvVars, SessionInv, TypeOK, Thread
  <2>2. \A m \in HvMethod : UnderWay(m) => UnderWay(m)'
    BY <2>1 DEF UnderWay
  <2> QED
    BY <1>1, <2>1, <2>2
<1>7. CASE Dispatch
  <2>1. link = "open" /\ klippy = "ready" /\ life' = life
    BY <1>7 DEF Dispatch, printerVars
  <2>2. StartDue(inbox', life) \/ Discovering'
    BY <1>7, <2>1, DispatchGoesOn DEF Discovery
  <2> QED
    BY <2>1, <2>2
<1>8. ASSUME NEW r \in wire, Answer(r) PROVE (StartDue(inbox, life) \/ Discovering)'
  <2>1. UNCHANGED <<link, klippy, life, state, overlay>>
    BY <1>8 DEF Answer, hvVars
  <2>2. /\ \A m : UnderWay(m) => UnderWay(m)'
        /\ StartDue(inbox, life) => StartDue(inbox', life)
        /\ AllFresh(inbox, life) => AllFresh(inbox', life)
    BY <1>8, <2>1, AnswerGoesOn
  <2> QED
    BY <2>1, <2>2 DEF Discovery, Discovering
<1>9. CASE SendStatus
  <2> DEFINE u == [Notice("status") EXCEPT !.life = life]
  <2>1. u \in Message /\ Fresh(u, life)
    BY <1>0, ConstantsTyped DEF Notice, Message, Fresh
  <2>2. inbox = <<>> /\ inbox' = <<u>>
    BY <1>9 DEF SendStatus
  <2>3. UNCHANGED <<link, klippy, life, state, overlay, todo, stage, sending, wire>>
    BY <1>9 DEF SendStatus, printerVars, hvVars, clientVars
  <2> HIDE DEF u
  <2>4. inbox' = Append(inbox, u)
    BY <2>1, <2>2
  <2>5. /\ StartDue(inbox, life) => StartDue(inbox', life)
        /\ AllFresh(inbox, life) => AllFresh(inbox', life)
        /\ \A o : AnswerDue(inbox, o) => AnswerDue(inbox', o)
    BY <1>0, <2>1, <2>4, InboxGrows
  <2>6. \A m : UnderWay(m) => UnderWay(m)'
    BY <2>3, <2>5 DEF UnderWay
  <2> QED
    BY <2>3, <2>5, <2>6 DEF Discovery, Discovering
<1>10. CASE KlippyReady \/ OpenLink
  <2>1. PICK n \in Message : IsStart(n) /\ inbox' = Append(inbox, n)
    <3>1. \A k \in {"open", "klippy_ready"} : Notice(k) \in Message /\ IsStart(Notice(k))
      BY <1>0, ConstantsTyped DEF Notice, Message, IsStart
    <3>2. CASE KlippyReady
      BY <3>1, <3>2 DEF KlippyReady, Notify
    <3>3. CASE OpenLink
      <4>1. inbox = <<>> /\ inbox' = <<Notice("open")>>
        BY <3>3 DEF OpenLink
      <4>2. inbox' = Append(inbox, Notice("open"))
        BY <3>1, <4>1
      <4> QED
        BY <3>1, <4>2
    <3> QED
      BY <1>10, <3>2, <3>3
  <2>2. StartDue(inbox', life')
    BY <1>0, <2>1, InboxGrows
  <2> QED
    BY <2>2
<1>11. CASE KlippyDown \/ CloseLink
  BY <1>11 DEF KlippyDown, CloseLink
<1> QED
  BY <1>2, <1>3, <1>4, <1>5, <1>6, <1>7, <1>8, <1>9, <1>10, <1>11 DEF Next, Hv, Thread

\* When the connection and the printer are up and nothing is under way any more,
\* the discovery (init_panel.cpp, connected to the reply of the subscription) has
\* ended: the overlay is gone and the state holds this life of the printer only.
THEOREM QuietIsReady ==
  ASSUME ~Overlap PROVE Spec => []QuietMeansReady
<1> DEFINE ReadyInv == SessionInv /\ RepliesExact /\ Discovery
<1>1. Init => ReadyInv
  <2>1. Init => RepliesExact /\ Discovery
    BY DEF Init, RepliesExact, Replies, Discovery
  <2> QED
    BY <2>1, InitInv
<1>2. ReadyInv /\ [Next]_vars => ReadyInv'
  BY NextInv, RepliesStayExact, DiscoveryStep
<1>3. ReadyInv => QuietMeansReady
  <2> SUFFICES ASSUME ReadyInv, link = "open", klippy = "ready", HvIdle,
                      inbox = <<>>, wire = {}
               PROVE  ~overlay /\ state.objs = life /\ state.printer = {life}
    BY DEF QuietMeansReady
  <2>1. ~StartDue(inbox, life)
    BY DEF StartDue
  <2>2. \A m : ~UnderWay(m)
    BY DEF UnderWay, AnswerDue, HvIdle
  <2> QED
    BY <2>1, <2>2 DEF Discovery, Discovering
<1> HIDE DEF ReadyInv
<1> QED
  BY <1>1, <1>2, <1>3, PTL DEF Spec
=============================================================================
