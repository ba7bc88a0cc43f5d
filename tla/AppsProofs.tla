----------------------------- MODULE AppsProofs -----------------------------
(***************************************************************************)
(* The two taps of the Apps page, for any applications, packages, releases *)
(* and clients: what the second tap sends is on the screen, and is what    *)
(* the first tap announced.                                                *)
(***************************************************************************)
EXTENDS AppsSystem, TLAPS

\* The buttons that are drawn are about the selection they are drawn from.
Drawn ==
  /\ screen.app = selected_app /\ screen.pkg = selected_stage
  /\ screen.serial = Offered(snap, selected_app)
  /\ \A b \in screen.buttons :
       /\ b = [op |-> b.op, confirm |-> b.confirm] /\ b.op \in Op \cup {"detail"}
       /\ b.op \in {"download", "remove", "select", "update"} => selected_app # NoApp
       /\ b.op \in {"verify", "install-sys", "install-home", "update", "discard"} =>
            selected_stage # NoPkg
       /\ armed # NotArmed /\ b.op \notin Unconfirmed =>
            b.confirm = (armed = Confirmation(Body(b.op, snap, selected_app, selected_stage)))

\* What is armed is what was announced; of the selection it was announced
\* for only the app or the package may have gone since.
Announced ==
  armed # NotArmed =>
    /\ armed = Confirmation(meant) /\ meant.op \in Op \ Unconfirmed
    /\ meant = [op |-> meant.op, app |-> meant.app, pkg |-> meant.pkg, serial |-> meant.serial]
    /\ IF meant.op \in {"download", "remove", "select", "update"}
       THEN selected_app \in {meant.app, NoApp} ELSE meant.app = NoApp
    /\ IF meant.op \in {"install-sys", "install-home", "update"}
       THEN selected_stage \in {meant.pkg, NoPkg} ELSE meant.pkg = NoPkg
    /\ meant.op # "download" => meant.serial = 0

AppsInv == Drawn /\ Announced /\ DetailIsOfSelected

\* What render_controls() draws.
LEMMA DrawFacts ==
  ASSUME NEW busy, NEW s, NEW a, NEW p, NEW usb, NEW arm
  PROVE  LET d == Draw(busy, s, a, p, usb, arm)
         IN /\ d.app = a /\ d.pkg = p /\ d.serial = Offered(s, a)
            /\ \A b \in d.buttons :
                 /\ b = [op |-> b.op, confirm |-> b.confirm] /\ b.op \in Op \cup {"detail"}
                 /\ b.op \in {"download", "remove", "select", "update"} => a # NoApp
                 /\ b.op \in {"verify", "install-sys", "install-home", "update", "discard"} =>
                      p # NoPkg
                 /\ b.op \notin Unconfirmed => b.confirm = (arm = Confirmation(Body(b.op, s, a, p)))
<1> DEFINE d == Draw(busy, s, a, p, usb, arm)
<1>1. d.app = a /\ d.pkg = p /\ d.serial = Offered(s, a)
  BY DEF Draw
<1>2. ASSUME NEW b \in d.buttons
      PROVE  \E o \in Buttons(s, a, p, usb) \cup {"acknowledge"} :
               b = [op |-> o, confirm |-> o \notin Unconfirmed
                              /\ arm = Confirmation(Body(o, s, a, p))]
  BY <1>2 DEF Draw
<1>3. ASSUME NEW o \in Buttons(s, a, p, usb) \cup {"acknowledge"}
      PROVE  /\ o \in Op \cup {"detail"}
             /\ o \in {"download", "remove", "select", "update"} => a # NoApp
             /\ o \in {"verify", "install-sys", "install-home", "update", "discard"} => p # NoPkg
  BY <1>3 DEF Buttons, Op
<1> HIDE DEF d
<1>4. ASSUME NEW b \in d.buttons
      PROVE  /\ b = [op |-> b.op, confirm |-> b.confirm] /\ b.op \in Op \cup {"detail"}
             /\ b.op \in {"download", "remove", "select", "update"} => a # NoApp
             /\ b.op \in {"verify", "install-sys", "install-home", "update", "discard"} => p # NoPkg
             /\ b.op \notin Unconfirmed => b.confirm = (arm = Confirmation(Body(b.op, s, a, p)))
  <2>1. PICK o \in Buttons(s, a, p, usb) \cup {"acknowledge"} :
          b = [op |-> o, confirm |-> o \notin Unconfirmed /\ arm = Confirmation(Body(o, s, a, p))]
    BY <1>2, <1>4
  <2>2. b.op = o /\ b.confirm = (o \notin Unconfirmed /\ arm = Confirmation(Body(o, s, a, p)))
    BY <2>1
  <2>3. b = [op |-> b.op, confirm |-> b.confirm]
    BY <2>1
  <2>4. b.op \notin Unconfirmed => b.confirm = (arm = Confirmation(Body(b.op, s, a, p)))
    BY <2>2
  <2> QED
    BY <1>3, <2>2, <2>3, <2>4
<1> QED
  BY <1>1, <1>4 DEF d

\* What the invariant speaks of.
View == <<snap, selected_app, selected_stage, armed, detail, screen, meant>>

\* The invariant speaks of the panel and its requests only.
LEMMA ViewKeeps == AppsInv /\ UNCHANGED View => AppsInv'
  BY DEF View, AppsInv, Drawn, Announced, DetailIsOfSelected

\* A page that was just drawn from what it holds, with nothing armed anew.
LEMMA RedrawKeeps ==
  ASSUME NEW busy, NEW usb,
         screen' = Draw(busy, snap', selected_app', selected_stage', usb, armed')
  PROVE  Drawn'
  BY DrawFacts DEF Drawn

\* poll(): a status may take the selected app and package away, and what was
\* armed when it selects another package.
LEMMA StatusKeeps ==
  ASSUME AppsInv, TakeStatus
  PROVE  AppsInv'
<1> DEFINE s == answer.snap
           a == IF selected_app \in s.installed THEN selected_app ELSE NoApp
           p == IF Adopted(s) THEN s.exec.pkg ELSE selected_stage
           q == IF p \in s.packages THEN p ELSE NoPkg
<1>1. /\ snap' = s /\ selected_app' = a /\ selected_stage' = q
      /\ detail' = (IF a = NoApp THEN NoApp ELSE detail)
      /\ armed' = Rearmed(s) /\ meant' = (IF Rearmed(s) = NotArmed THEN NoReq ELSE meant)
      /\ screen' = Draw(FALSE, s, a, q, selected_usb, Rearmed(s))
  BY DEF TakeStatus
<1> HIDE DEF s
<1>2. Drawn'
  <2>1. screen' = Draw(FALSE, snap', selected_app', selected_stage', selected_usb, armed')
    BY <1>1
  <2> QED
    BY <2>1, RedrawKeeps
<1>3. Announced'
  <2>1. CASE armed' = NotArmed
    BY <2>1 DEF Announced
  <2>2. CASE armed' # NotArmed
    <3>1. ~Adopted(s) /\ armed' = armed /\ meant' = meant
      BY <1>1, <2>2 DEF Rearmed
    <3>2. selected_app' \in {selected_app, NoApp} /\ selected_stage' \in {selected_stage, NoPkg}
      BY <1>1, <3>1
    <3> QED
      BY <2>2, <3>1, <3>2 DEF AppsInv, Announced
  <2> QED
    BY <2>1, <2>2
<1>4. DetailIsOfSelected'
  BY <1>1 DEF AppsInv, DetailIsOfSelected
<1> QED
  BY <1>2, <1>3, <1>4 DEF AppsInv

\* A new selection drops what was armed; another app's details are taken off.
LEMMA SelectKeeps ==
  ASSUME AppsInv, TapSelect
  PROVE  AppsInv'
<1>1. PICK a, p, u : Select(a, p, u) /\ (detail' = NoApp \/ (detail' = detail /\ a = selected_app))
  BY DEF TapSelect
<1>2. Drawn'
  <2>1. screen' = Draw(Busy, snap', selected_app', selected_stage', u, armed')
    BY <1>1 DEF Select
  <2> QED
    BY <2>1, RedrawKeeps
<1>3. Announced'
  BY <1>1 DEF Select, Announced
<1>4. DetailIsOfSelected'
  BY <1>1 DEF Select, AppsInv, DetailIsOfSelected
<1> QED
  BY <1>2, <1>3, <1>4 DEF AppsInv

\* A first tap announces the operation its button is drawn for.
LEMMA ArmKeeps ==
  ASSUME AppsInv, NEW b \in screen.buttons, b.op \in Op \ Unconfirmed,
         Arm(Body(b.op, snap, selected_app, selected_stage)),
         UNCHANGED <<snap, selected_app, selected_stage, selected_usb, detail>>
  PROVE  AppsInv'
<1> DEFINE r == Body(b.op, snap, selected_app, selected_stage)
<1>1. /\ armed' = Confirmation(r) /\ meant' = r
      /\ screen' = Draw(FALSE, snap, selected_app, selected_stage, selected_usb, Confirmation(r))
  BY DEF Arm
<1>2. Drawn'
  <2>1. screen' = Draw(FALSE, snap', selected_app', selected_stage', selected_usb, armed')
    BY <1>1
  <2> QED
    BY <2>1, RedrawKeeps
<1>3. /\ r = [op |-> r.op, app |-> r.app, pkg |-> r.pkg, serial |-> r.serial] /\ r.op = b.op
      /\ r.app = IF b.op \in {"download", "remove", "select", "update"} THEN selected_app ELSE NoApp
      /\ r.pkg = IF b.op \in {"verify", "install-sys", "install-home", "update", "discard"}
                 THEN selected_stage ELSE NoPkg
      /\ b.op # "download" => r.serial = 0
  BY DEF Body
<1> HIDE DEF r
<1>4. Announced'
  BY <1>1, <1>3 DEF Announced, Unconfirmed
<1>5. DetailIsOfSelected'
  BY DEF AppsInv, DetailIsOfSelected
<1> QED
  BY <1>2, <1>4, <1>5 DEF AppsInv

\* A second tap sends what the first one announced.
LEMMA SecondTap ==
  ASSUME AppsInv, NEW b \in screen.buttons, b.op \in Op \ Unconfirmed,
         armed = Confirmation(Body(b.op, snap, selected_app, selected_stage))
  PROVE  /\ Body(b.op, snap, selected_app, selected_stage) = meant
         /\ [op |-> b.op, confirm |-> TRUE] \in screen.buttons
<1> DEFINE r == Body(b.op, snap, selected_app, selected_stage)
<1>1. /\ r = [op |-> r.op, app |-> r.app, pkg |-> r.pkg, serial |-> r.serial] /\ r.op = b.op
      /\ r.app = IF b.op \in {"download", "remove", "select", "update"} THEN selected_app ELSE NoApp
      /\ r.pkg = IF b.op \in {"verify", "install-sys", "install-home", "update", "discard"}
                 THEN selected_stage ELSE NoPkg
  BY DEF Body
<1>2. /\ armed.op = r.op /\ armed.serial = r.serial
      /\ r.op = "download" => armed.app = r.app
  BY DEF Confirmation
<1>3. armed # NotArmed
  BY <1>1, <1>2 DEF NotArmed, Op
<1>4. meant.op = armed.op /\ meant.serial = armed.serial
  BY <1>3 DEF AppsInv, Announced, Confirmation
<1>5. /\ meant = [op |-> meant.op, app |-> meant.app, pkg |-> meant.pkg, serial |-> meant.serial]
      /\ IF b.op \in {"download", "remove", "select", "update"}
         THEN selected_app \in {meant.app, NoApp} ELSE meant.app = NoApp
      /\ IF b.op \in {"install-sys", "install-home", "update"}
         THEN selected_stage \in {meant.pkg, NoPkg} ELSE meant.pkg = NoPkg
  BY <1>1, <1>2, <1>3, <1>4 DEF AppsInv, Announced
<1>6. /\ b.op \in {"download", "remove", "select", "update"} => selected_app # NoApp
      /\ b.op \in {"install-sys", "install-home", "update"} => selected_stage # NoPkg
      /\ b = [op |-> b.op, confirm |-> b.confirm]
      /\ b.confirm = TRUE
  BY <1>3 DEF AppsInv, Drawn
<1> HIDE DEF r
<1>7. r.app = meant.app /\ r.pkg = meant.pkg
  BY <1>1, <1>5, <1>6 DEF Unconfirmed
<1> QED
  BY <1>1, <1>2, <1>4, <1>5, <1>6, <1>7 DEF r
-----------------------------------------------------------------------------
\* The page starts with nothing asked for and nothing selected.
LEMMA InitInv == Init => AppsInv
  BY DEF Init, PanelInit, Blank, NullSnapshot, Offered, AppsInv, Drawn, Announced, DetailIsOfSelected

\* A tap on a button of the page.
LEMMA ActionKeeps ==
  ASSUME AppsInv, TapAction
  PROVE  /\ AppsInv'
         /\ wire' # wire /\ wire'.op \notin Unconfirmed =>
              /\ wire' = meant
              /\ \E b \in screen.buttons :
                   /\ wire' = Body(b.op, snap, selected_app, selected_stage)
                   /\ [op |-> b.op, confirm |-> TRUE] \in screen.buttons
<1>1. PICK b \in screen.buttons :
        LET r == Body(b.op, snap, selected_app, selected_stage)
        IN /\ b.op # "detail" /\ ~Refused(r)
           /\ IF b.op \in Unconfirmed \/ armed = Confirmation(r) THEN Send(r) ELSE Arm(r)
  BY DEF TapAction
<1> DEFINE r == Body(b.op, snap, selected_app, selected_stage)
<1>2. b.op \in Op /\ r.op = b.op
  BY <1>1 DEF AppsInv, Drawn, Body
<1>3. UNCHANGED <<snap, selected_app, selected_stage, selected_usb, detail>>
  BY DEF TapAction, selectedVars
<1>4. CASE Send(r)
  <2>1. AppsInv'
    BY <1>3, <1>4 DEF Send, AppsInv, Drawn, Announced, DetailIsOfSelected
  <2>2. wire' = r
    BY <1>4 DEF Send
  <2>3. ASSUME wire'.op \notin Unconfirmed
        PROVE  wire' = meant /\ [op |-> b.op, confirm |-> TRUE] \in screen.buttons
    <3>1. b.op \notin Unconfirmed
      BY <1>2, <2>2, <2>3
    <3>2. armed = Confirmation(r) \/ Arm(r)
      BY <1>1, <3>1
    <3>3. armed = Confirmation(r)
      <4>1. Confirmation(r).op = b.op /\ NotArmed.op = "none"
        BY <1>2 DEF Confirmation, NotArmed
      <4>2. b.op # "none"
        BY <1>2 DEF Op
      <4> QED
        BY <1>4, <3>2, <4>1, <4>2 DEF Send, Arm
    <3> QED
      BY <1>2, <2>2, <3>1, <3>3, SecondTap
  <2> QED
    BY <2>1, <2>2, <2>3
<1>5. CASE b.op \notin Unconfirmed /\ Arm(r)
  <2>1. AppsInv'
    BY <1>2, <1>3, <1>5, ArmKeeps
  <2>2. wire' = wire
    BY <1>5 DEF Arm
  <2> QED
    BY <2>1, <2>2
<1> QED
  BY <1>1, <1>4, <1>5

\* Everything but that tap: no operation is sent.
LEMMA OtherSteps ==
  ASSUME AppsInv, [Next]_vars, ~TapAction
  PROVE  AppsInv' /\ ~Sent
<1>1. CASE Serve
  <2>1. UNCHANGED View /\ wire' = NoReq
    BY <1>1 DEF Serve, loop, View
  <2> QED
    BY <2>1, ViewKeeps DEF Sent, NoReq, Op
<1>2. CASE Web \/ CoreRuns \/ UNCHANGED vars
  <2>1. UNCHANGED View /\ wire' = wire
    BY <1>2 DEF Web, CoreRuns, vars, panelVars, View
  <2> QED
    BY <2>1, ViewKeeps DEF Sent
<1>3. CASE Time \/ PollRefresh
  <2>1. UNCHANGED View
    BY <1>3 DEF Time, Elapse, PollRefresh, selectedVars, View
  <2>2. wire' = wire \/ wire'.op \in {"status", "none"}
    BY <1>3 DEF Time, Elapse, PollRefresh, RefreshIfDue, NoReq
  <2> QED
    BY <2>1, <2>2, ViewKeeps DEF Sent, Op
<1>4. CASE PollAnswer
  <2>1. CASE TakeStatus
    BY <2>1, StatusKeeps DEF TakeStatus, Sent
  <2>2. CASE TakeDetail /\ UNCHANGED meant
    <3>1. UNCHANGED <<snap, selected_app, selected_stage, armed, screen, meant>>
      BY <2>2 DEF TakeDetail, selectedVars
    <3>2. detail' = detail \/ detail' = selected_app
      BY <2>2 DEF TakeDetail
    <3>3. AppsInv'
      BY <3>1, <3>2 DEF AppsInv, Drawn, Announced, DetailIsOfSelected
    <3>4. wire'.op \in {"status", "none"}
      BY <2>2 DEF TakeDetail, RefreshIfDue, NoReq
    <3> QED
      BY <3>3, <3>4 DEF Sent, Op
  <2>3. CASE (TakeAccepted \/ TakeError) /\ UNCHANGED meant
    <3>1. UNCHANGED View
      BY <2>3 DEF TakeAccepted, TakeError, selectedVars, View
    <3>2. wire'.op \in {"status", "none"}
      BY <2>3 DEF TakeAccepted, TakeError, RefreshIfDue, NoReq
    <3> QED
      BY <3>1, <3>2, ViewKeeps DEF Sent, Op
  <2> QED
    BY <1>4, <2>1, <2>2, <2>3 DEF PollAnswer
<1>5. CASE Foreground \/ Back
  <2>1. UNCHANGED View
    BY <1>5 DEF Foreground, Back, selectedVars, View
  <2>2. wire' = wire \/ wire'.op = "status"
    BY <1>5 DEF Foreground, Back, Load, NoReq
  <2> QED
    BY <2>1, <2>2, ViewKeeps DEF Sent, Op
<1>6. CASE TapRefresh
  <2>1. AppsInv'
    BY <1>6 DEF TapRefresh, selectedVars, AppsInv, Drawn, Announced, DetailIsOfSelected
  <2>2. wire' = wire \/ wire'.op = "status"
    BY <1>6 DEF TapRefresh, Load, NoReq
  <2> QED
    BY <2>1, <2>2 DEF Sent, Op
<1>7. CASE TapSelect
  BY <1>7, SelectKeeps DEF TapSelect, Select, Sent
<1>8. CASE TapDetail
  <2>1. UNCHANGED View
    BY <1>8 DEF TapDetail, selectedVars, View
  <2>2. wire'.op = "detail"
    BY <1>8 DEF TapDetail, NoReq
  <2> QED
    BY <2>1, <2>2, ViewKeeps DEF Sent, Op
<1> QED
  BY <1>1, <1>2, <1>3, <1>4, <1>5, <1>6, <1>7, <1>8 DEF Next, Poll, Tap

\* Every step of the page and of the core preserves the invariant.
LEMMA AppsInvStep == AppsInv /\ [Next]_vars => AppsInv'
  BY ActionKeeps, OtherSteps

\* The invariant holds of every behaviour.
LEMMA AppsInvHolds == Spec => []AppsInv
  BY InitInv, AppsInvStep, PTL DEF Spec

(* The details on the page are of the selected app (apps_panel.cpp:284),    *)
(* in whatever order details are asked for and arrive.                      *)
THEOREM DetailsMatch == Spec => []DetailIsOfSelected
<1>1. AppsInv => DetailIsOfSelected
  BY DEF AppsInv
<1> QED
  BY <1>1, AppsInvHolds, PTL

(* What is sent is what the first tap announced (apps_panel.cpp:270, 608),  *)
(* whatever statuses, other clients and downloads did in between.           *)
THEOREM AnnouncedIsSent == Spec => ConfirmedAsArmed
<1>1. AppsInv /\ [Next]_vars => [Sent /\ wire'.op \notin Unconfirmed => wire' = meant]_vars
  BY ActionKeeps, OtherSteps DEF Sent
<1> QED
  BY <1>1, AppsInvHolds, PTL DEF Spec, ConfirmedAsArmed

(* An operation goes out only from a button that reads "Confirm" for the    *)
(* app, package and release it is about (apps_panel.cpp:503, 603).          *)
THEOREM ConfirmIsRead == Spec => ConfirmedOnScreen
<1>1. ASSUME AppsInv, [Next]_vars, Sent, wire'.op \notin Unconfirmed
      PROVE  /\ [op |-> wire'.op, confirm |-> TRUE] \in screen.buttons
             /\ wire' = [Body(wire'.op, snap, screen.app, screen.pkg)
                         EXCEPT !.serial = IF wire'.op = "download" THEN screen.serial ELSE 0]
  <2>1. TapAction
    BY <1>1, OtherSteps
  <2>2. PICK b \in screen.buttons :
          /\ wire' = Body(b.op, snap, selected_app, selected_stage)
          /\ [op |-> b.op, confirm |-> TRUE] \in screen.buttons
    BY <1>1, <2>1, ActionKeeps DEF Sent
  <2>3. wire'.op = b.op
    BY <2>2 DEF Body
  <2>4. /\ screen.app = selected_app /\ screen.pkg = selected_stage
        /\ screen.serial = Offered(snap, selected_app)
    BY <1>1 DEF AppsInv, Drawn
  <2> QED
    BY <2>2, <2>3, <2>4 DEF Body
<1>2. AppsInv /\ [Next]_vars =>
        [Sent /\ wire'.op \notin Unconfirmed =>
          /\ [op |-> wire'.op, confirm |-> TRUE] \in screen.buttons
          /\ wire' = [Body(wire'.op, snap, screen.app, screen.pkg)
                      EXCEPT !.serial = IF wire'.op = "download" THEN screen.serial ELSE 0]]_vars
  BY <1>1
<1> QED
  BY <1>2, AppsInvHolds, PTL DEF Spec, ConfirmedOnScreen
-----------------------------------------------------------------------------
(* Types.                                                                   *)

\* A package is at hand while an operation on one runs.
TypeInv ==
  /\ TypeOK
  /\ exec.op \in {"download", "upload", "verify", "install-sys", "install-home", "update"} =>
       exec.pkg \in Pkg

\* The fields of what is typed as a record.
LEMMA Fields ==
  /\ \A r \in Request : /\ r.op \in Op \cup {"status", "detail", "none"}
                        /\ r.app \in App \cup {NoApp} /\ r.pkg \in Pkg \cup {NoPkg}
                        /\ r.serial \in 0 .. MaxSerial
  /\ \A e \in Execution : /\ e.id \in 0 .. MaxExec /\ e.op \in Op \cup {"none"}
                          /\ e.app \in App \cup {NoApp} /\ e.pkg \in Pkg \cup {NoPkg}
                          /\ e = [id |-> e.id, op |-> e.op, app |-> e.app, pkg |-> e.pkg,
                                  state |-> e.state]
  /\ \A s \in Snapshot : /\ s.installed \subseteq App /\ s.packages \subseteq Pkg
                         /\ s.offers \in [App -> 0 .. MaxSerial] /\ s.exec \in Execution
  BY DEF Request, Execution, Snapshot

\* The constants in the form the steps below use them.
LEMMA Constants ==
  /\ NoReq \in Request /\ NoExec \in Execution /\ NullSnapshot \in Snapshot
  /\ 0 \in 0 .. MaxSerial /\ 0 \in 0 .. MaxExec
  /\ \A a \in App \cup {NoApp} : [NoReq EXCEPT !.op = "detail", !.app = a] \in Request
  /\ [NoReq EXCEPT !.op = "status"] \in Request
<1>1. 0 \in 0 .. MaxSerial /\ 0 \in 0 .. MaxExec
  BY AppsAssumption
<1>2. NoReq \in Request /\ NoExec \in Execution
  BY <1>1 DEF NoReq, Request, NoExec, Execution
<1>3. NullSnapshot \in Snapshot
  BY <1>1, <1>2 DEF NullSnapshot, Snapshot
<1>4. /\ \A a \in App \cup {NoApp} : [NoReq EXCEPT !.op = "detail", !.app = a] \in Request
      /\ [NoReq EXCEPT !.op = "status"] \in Request
  BY <1>1 DEF NoReq, Request
<1> QED
  BY <1>1, <1>2, <1>3, <1>4

\* A request's body, and what is drawn, are typed by the selection.
LEMMA BodyTyped ==
  ASSUME NEW op \in Op, NEW s \in Snapshot, NEW a \in App \cup {NoApp}, NEW p \in Pkg \cup {NoPkg}
  PROVE  /\ Body(op, s, a, p) \in Request
         /\ Offered(s, a) \in 0 .. MaxSerial
         /\ Confirmation(Body(op, s, a, p)) \in
              [op : Op \cup {"none"}, app : App \cup {NoApp}, serial : 0 .. MaxSerial]
<1>1. Offered(s, a) \in 0 .. MaxSerial
  BY Fields, Constants DEF Offered
<1>2. Body(op, s, a, p) \in Request
  BY <1>1, Constants DEF Body, Request
<1>3. Confirmation(Body(op, s, a, p)) \in
        [op : Op \cup {"none"}, app : App \cup {NoApp}, serial : 0 .. MaxSerial]
  BY <1>1, Constants DEF Body, Confirmation
<1> QED
  BY <1>1, <1>2, <1>3

\* What the page draws has the types of a view.
LEMMA DrawTyped ==
  ASSUME NEW busy, NEW s \in Snapshot, NEW a \in App \cup {NoApp},
         NEW p \in Pkg \cup {NoPkg}, NEW usb, NEW arm
  PROVE  Draw(busy, s, a, p, usb, arm) \in Screen
<1>1. Offered(s, a) \in 0 .. MaxSerial
  BY Fields, Constants DEF Offered
<1>2. \A o \in Buttons(s, a, p, usb) \cup {"acknowledge"} : o \in Op \cup {"detail"}
  BY DEF Buttons, Op
<1>3. \A o \in Op \cup {"detail"}, c \in BOOLEAN : [op |-> o, confirm |-> c] \in Button
  BY DEF Button
<1>4. Draw(busy, s, a, p, usb, arm).buttons \subseteq Button
  BY <1>2, <1>3 DEF Draw
<1>5. Draw(busy, s, a, p, usb, arm).kind \in {"progress", "unknown", "actions"}
  BY DEF Draw
<1> DEFINE d == Draw(busy, s, a, p, usb, arm)
<1>6. d = [kind |-> d.kind, app |-> a, pkg |-> p, serial |-> Offered(s, a), buttons |-> d.buttons]
  BY DEF Draw
<1> HIDE DEF d
<1> QED
  BY <1>1, <1>4, <1>5, <1>6 DEF Screen, d

\* The Core: a request that it admits, and the end of an execution.
LEMMA CoreTyped ==
  ASSUME TypeInv,
         \/ \E r \in Request, p \in Pkg \cup {NoPkg} : r.op \in Op /\ Admits(r, p) /\ Accept(r, p)
         \/ Finish
         \/ \E a \in App, n \in 0 .. MaxSerial :
              offers' = [offers EXCEPT ![a] = n]
              /\ UNCHANGED <<installed, display, packages, verified, exec>>
         \/ UNCHANGED coreVars
  PROVE  CoreTypeOK' /\ (exec.op \in {"download", "upload", "verify", "install-sys",
                                      "install-home", "update"} => exec.pkg \in Pkg)'
<1> DEFINE OnPackage(e) == e.op \in {"download", "upload", "verify", "install-sys",
                                     "install-home", "update"} => e.pkg \in Pkg
           Typed(i, d, ps, v, o, e) ==
             /\ i \subseteq App /\ d \in App \cup {NoApp} /\ ps \subseteq Pkg /\ v \subseteq Pkg
             /\ o \in [App -> 0 .. MaxSerial] /\ e \in Execution
<1>1. Typed(installed, display, packages, verified, offers, exec) /\ OnPackage(exec)
  BY DEF TypeInv, TypeOK, CoreTypeOK, Overview, Snapshot
<1>2. SUFFICES Typed(installed', display', packages', verified', offers', exec') /\ OnPackage(exec')
  BY DEF CoreTypeOK, Overview, Snapshot
<1>3. /\ exec.id \in 0 .. MaxExec /\ exec.app \in App \cup {NoApp} /\ exec.pkg \in Pkg \cup {NoPkg}
      /\ exec.op \in Op \cup {"none"} /\ MaxExec \in Nat
      /\ \A st \in {"none", "succeeded", "failed", "unknown"} :
           /\ [exec EXCEPT !.state = st] \in Execution
           /\ [exec EXCEPT !.state = st].op = exec.op
           /\ [exec EXCEPT !.state = st].pkg = exec.pkg
  BY <1>1, Fields, AppsAssumption DEF Execution
<1>4. CASE \E r \in Request, p \in Pkg \cup {NoPkg} : r.op \in Op /\ Admits(r, p) /\ Accept(r, p)
  <2>1. PICK r \in Request, p \in Pkg \cup {NoPkg} : r.op \in Op /\ Admits(r, p) /\ Accept(r, p)
    BY <1>4
  <2>2. r.app \in App \cup {NoApp}
    BY Fields
  <2>3. CASE r.op \in {"acknowledge", "discard"}
    BY <1>1, <1>3, <2>1, <2>3 DEF Accept
  <2>4. CASE r.op \notin {"acknowledge", "discard"}
    <3> DEFINE e == [id |-> exec.id + 1, op |-> r.op, app |-> r.app, pkg |-> p, state |-> "running"]
    <3>1. /\ exec' = e /\ packages' = (IF r.op = "upload" THEN packages \cup {p} ELSE packages)
          /\ UNCHANGED <<installed, display, verified, offers>>
      BY <2>1, <2>4 DEF Accept
    <3>2. exec.id + 1 \in 0 .. MaxExec
      BY <1>3, <2>1 DEF Admits
    <3>3. e \in Execution
      BY <2>1, <2>2, <3>2 DEF Execution
    <3>4. OnPackage(e) /\ (r.op = "upload" => p \in Pkg)
      BY <1>1, <2>1 DEF Admits
    <3> QED
      BY <1>1, <3>1, <3>3, <3>4
  <2> QED
    BY <2>3, <2>4
<1>5. CASE Finish
  <2>1. Effect => /\ installed' \subseteq App /\ display' \in App \cup {NoApp}
                  /\ packages' \subseteq Pkg /\ verified' \subseteq Pkg
    BY <1>1, <1>3, AppsAssumption DEF Effect
  <2>2. Effect \/ UNCHANGED <<installed, display, packages, verified>>
    BY <1>5 DEF Finish
  <2>3. exec' \in Execution /\ OnPackage(exec')
    BY <1>1, <1>3, <1>5 DEF Finish
  <2>4. offers' = offers
    BY <1>5 DEF Finish
  <2> QED
    BY <1>1, <2>1, <2>2, <2>3, <2>4
<1>6. CASE \E a \in App, n \in 0 .. MaxSerial :
             offers' = [offers EXCEPT ![a] = n]
             /\ UNCHANGED <<installed, display, packages, verified, exec>>
  BY <1>1, <1>6
<1>7. CASE UNCHANGED coreVars
  BY <1>1, <1>7 DEF coreVars
<1> QED
  BY <1>4, <1>5, <1>6, <1>7

\* The page: the facts of PanelTypeOK apart from what a step assigns.
LEMMA PanelFacts ==
  ASSUME PanelTypeOK
  PROVE  /\ snap \in Snapshot /\ selected_app \in App \cup {NoApp}
         /\ selected_stage \in Pkg \cup {NoPkg} /\ wire \in Request /\ meant \in Request
         /\ answer.kind = "status" => answer.snap \in Snapshot
         /\ answer.kind = "detail" => answer.app \in App
         /\ NotArmed \in [op : Op \cup {"none"}, app : App \cup {NoApp}, serial : 0 .. MaxSerial]
         /\ NoAnswer \in Answer
<1>1. NotArmed \in [op : Op \cup {"none"}, app : App \cup {NoApp}, serial : 0 .. MaxSerial]
  BY Constants DEF NotArmed
<1>2. /\ answer.kind = "status" => answer.snap \in Snapshot
      /\ answer.kind = "detail" => answer.app \in App
      /\ NoAnswer \in Answer
  BY DEF PanelTypeOK, Answer, NoAnswer
<1> QED
  BY <1>1, <1>2 DEF PanelTypeOK, NotArmed

\* A status reply that is taken leaves the page typed.
LEMMA StatusTyped ==
  ASSUME PanelTypeOK, answer.kind = "status", TakeStatus, answer' = NoAnswer, open' = open
  PROVE  PanelTypeOK'
<1> DEFINE s == answer.snap
           a == IF selected_app \in s.installed THEN selected_app ELSE NoApp
           p == IF Adopted(s) THEN s.exec.pkg ELSE selected_stage
           q == IF p \in s.packages THEN p ELSE NoPkg
<1>1. s \in Snapshot /\ s.exec \in Execution /\ s.packages \subseteq Pkg
  BY PanelFacts, Fields
<1>2. s.exec.id \in 0 .. MaxExec
  BY <1>1, Fields
<1>3. a \in App \cup {NoApp} /\ q \in Pkg \cup {NoPkg}
  BY <1>1, PanelFacts
<1>4. Draw(FALSE, s, a, q, selected_usb, Rearmed(s)) \in Screen
  BY <1>1, <1>3, DrawTyped
<1>5. /\ snap' = s /\ polling' \in BOOLEAN /\ due' = FALSE
      /\ completed_download' \in {s.exec.id, completed_download}
      /\ selected_usb' = selected_usb /\ selected_app' = a /\ selected_stage' = q
      /\ detail' \in {NoApp, detail} /\ armed' \in {NotArmed, armed} /\ meant' \in {NoReq, meant}
      /\ screen' = Draw(FALSE, s, a, q, selected_usb, Rearmed(s)) /\ wire' = wire
  BY DEF TakeStatus, Rearmed
<1> HIDE DEF s, a, q
<1> QED
  BY <1>1, <1>2, <1>3, <1>4, <1>5, PanelFacts, Constants DEF PanelTypeOK

\* So does the answer of any request that poll() takes.
LEMMA PollTyped ==
  ASSUME PanelTypeOK, PollAnswer
  PROVE  PanelTypeOK'
<1>1. CASE answer.kind = "status" /\ TakeStatus
  BY <1>1, StatusTyped DEF PollAnswer
<1>2. CASE \/ answer.kind = "detail" /\ TakeDetail /\ UNCHANGED meant
           \/ TakeAccepted /\ UNCHANGED meant
           \/ TakeError /\ UNCHANGED meant
  <2>1. /\ UNCHANGED <<open, due, polling, snap, selected_app, selected_stage, selected_usb, armed,
                       completed_download, screen, meant>>
        /\ answer' = NoAnswer
    BY <1>2 DEF PollAnswer, TakeDetail, TakeAccepted, TakeError, selectedVars
  <2>2. wire' \in Request
    BY <1>2, Constants DEF TakeDetail, TakeAccepted, TakeError, RefreshIfDue
  <2>3. detail' = detail \/ detail' \in App
    BY <1>2, PanelFacts DEF TakeDetail, TakeAccepted, TakeError
  <2> QED
    BY <2>1, <2>2, <2>3, PanelFacts DEF PanelTypeOK
<1> QED
  BY <1>1, <1>2 DEF PollAnswer

\* So does a tap.
LEMMA TapTyped ==
  ASSUME PanelTypeOK, AppsInv,
         Foreground \/ Back \/ TapRefresh \/ TapSelect \/ TapDetail \/ TapAction
         \/ PollRefresh \/ Elapse
  PROVE  PanelTypeOK'
<1>1. CASE Foreground \/ Back \/ TapRefresh \/ TapDetail \/ PollRefresh \/ Elapse
  <2>1. /\ UNCHANGED <<polling, snap, selected_app, selected_stage, selected_usb,
                       completed_download, detail, screen, answer>>
        /\ open' \in {open, TRUE, FALSE} /\ due' \in {due, TRUE}
        /\ armed' \in {armed, NotArmed} /\ meant' \in {meant, NoReq}
    BY <1>1 DEF Foreground, Back, TapRefresh, TapDetail, PollRefresh, Elapse, selectedVars
  <2>2. wire' \in Request
    BY <1>1, PanelFacts, Constants
    DEF Foreground, Back, TapRefresh, TapDetail, PollRefresh, Elapse, Load, RefreshIfDue
  <2> QED
    BY <2>1, <2>2, PanelFacts, Constants DEF PanelTypeOK
<1>2. CASE TapSelect
  <2>1. PICK a \in App \cup {NoApp}, p \in Pkg \cup {NoPkg}, u \in BOOLEAN :
          Select(a, p, u) /\ detail' \in {NoApp, detail}
    <3>1. /\ snap.installed \subseteq App /\ snap.packages \subseteq Pkg
          /\ selected_app \in App \cup {NoApp} /\ selected_stage \in Pkg \cup {NoPkg}
          /\ selected_usb \in BOOLEAN
      BY PanelFacts, Fields DEF PanelTypeOK
    <3>2. CASE \E a \in snap.installed : Select(a, selected_stage, selected_usb) /\ detail' = NoApp
      BY <3>1, <3>2
    <3>3. CASE \E p \in snap.packages : Select(selected_app, p, selected_usb) /\ UNCHANGED detail
      BY <3>1, <3>3
    <3>4. CASE Select(selected_app, selected_stage, TRUE) /\ UNCHANGED detail
      BY <3>1, <3>4
    <3> QED
      BY <1>2, <3>2, <3>3, <3>4 DEF TapSelect
  <2>2. Draw(Busy, snap, a, p, u, NotArmed) \in Screen
    BY PanelFacts, DrawTyped
  <2> QED
    BY <2>1, <2>2, PanelFacts, Constants DEF Select, PanelTypeOK
<1>3. CASE TapAction
  <2>1. PICK b \in screen.buttons :
          LET r == Body(b.op, snap, selected_app, selected_stage)
          IN b.op # "detail" /\ (Send(r) \/ Arm(r))
    BY <1>3 DEF TapAction
  <2> DEFINE r == Body(b.op, snap, selected_app, selected_stage)
  <2>2. b.op \in Op
    BY <2>1 DEF AppsInv, Drawn
  <2>3. /\ r \in Request
        /\ Confirmation(r) \in [op : Op \cup {"none"}, app : App \cup {NoApp}, serial : 0 .. MaxSerial]
        /\ Draw(FALSE, snap, selected_app, selected_stage, selected_usb, Confirmation(r)) \in Screen
    BY <2>2, PanelFacts, BodyTyped, DrawTyped
  <2> HIDE DEF r
  <2>4. UNCHANGED <<open, polling, due, snap, selected_app, selected_stage, selected_usb,
                    completed_download, detail, answer>>
    BY <1>3 DEF TapAction, selectedVars
  <2>5. CASE Send(r)
    BY <2>3, <2>4, <2>5, PanelFacts, Constants DEF Send, PanelTypeOK
  <2>6. CASE Arm(r)
    BY <2>3, <2>4, <2>6, PanelFacts DEF Arm, PanelTypeOK
  <2> QED
    BY <2>1, <2>5, <2>6 DEF r
<1> QED
  BY <1>1, <1>2, <1>3

\* The initial states are typed.
LEMMA TypeInit == Init => TypeInv
<1> SUFFICES ASSUME Init PROVE TypeInv
  OBVIOUS
<1>1. CoreTypeOK
  <2>1. offers \in [App -> 0 .. MaxSerial]
    BY AppsAssumption DEF Init, CoreInit
  <2> QED
    BY <2>1, Constants, AppsAssumption DEF Init, CoreInit, CoreTypeOK, Overview, Snapshot
<1>2. Blank \in Screen
  BY Constants DEF Blank, Screen
<1>3. NotArmed \in [op : Op \cup {"none"}, app : App \cup {NoApp}, serial : 0 .. MaxSerial]
  BY Constants DEF NotArmed
<1>4. PanelTypeOK
  BY <1>2, <1>3, Constants DEF Init, PanelInit, PanelTypeOK, Answer
<1>5. exec.op = "none"
  BY DEF Init, CoreInit, NoExec
<1> QED
  BY <1>1, <1>4, <1>5 DEF TypeInv, TypeOK

\* Every step keeps the types.
LEMMA TypeStep == TypeInv /\ AppsInv /\ [Next]_vars => TypeInv'
<1> SUFFICES ASSUME TypeInv, AppsInv, [Next]_vars PROVE TypeInv'
  OBVIOUS
<1>0. PanelTypeOK /\ CoreTypeOK
  BY DEF TypeInv, TypeOK
<1>1. CASE UNCHANGED coreVars /\ PanelTypeOK'
  BY <1>1, CoreTyped DEF TypeInv, TypeOK
<1>2. CASE Serve
  <2>1. wire' = NoReq /\ UNCHANGED loop /\ wire \in Request
    BY <1>0, <1>2, PanelFacts DEF Serve
  <2>2. Overview \in Snapshot
    BY <1>0 DEF CoreTypeOK
  <2>3. wire.op = "detail" /\ wire.app \in installed => wire.app \in App
    BY <1>0, Fields DEF CoreTypeOK, Overview, Snapshot
  <2>4. answer' \in Answer
    BY <1>2, <2>2, <2>3 DEF Serve, Answer
  <2>5. PanelTypeOK'
    BY <1>0, <2>1, <2>4, Constants DEF loop, PanelTypeOK
  <2>6. \/ UNCHANGED coreVars
        \/ \E p \in Pkg \cup {NoPkg} : wire.op \in Op /\ Admits(wire, p) /\ Accept(wire, p)
    BY <1>2 DEF Serve
  <2> QED
    BY <2>1, <2>5, <2>6, CoreTyped DEF TypeInv, TypeOK
<1>3. CASE Web
  <2>1. PanelTypeOK'
    BY <1>0, <1>3 DEF Web, panelVars, PanelTypeOK
  <2>2. CASE \E o \in Op \ {"select"}, a \in App \cup {NoApp}, p \in Pkg \cup {NoPkg} :
               LET r == [op |-> o, app |-> a, pkg |-> p, serial |-> Offered(Overview, a)]
               IN Admits(r, p) /\ Accept(r, p)
    <3>1. PICK o \in Op \ {"select"}, a \in App \cup {NoApp}, p \in Pkg \cup {NoPkg} :
               LET r == [op |-> o, app |-> a, pkg |-> p, serial |-> Offered(Overview, a)]
               IN Admits(r, p) /\ Accept(r, p)
      BY <2>2
    <3>2. Offered(Overview, a) \in 0 .. MaxSerial
      BY <1>0, Fields, Constants DEF Offered, CoreTypeOK
    <3>3. [op |-> o, app |-> a, pkg |-> p, serial |-> Offered(Overview, a)] \in Request
      BY <3>2 DEF Request
    <3> QED
      BY <2>1, <3>1, <3>3, CoreTyped DEF TypeInv, TypeOK
  <2>3. CASE \E a \in App \ {Self}, n \in 0 .. MaxSerial :
               offers' = [offers EXCEPT ![a] = n]
               /\ UNCHANGED <<installed, display, packages, verified, exec>>
    BY <2>1, <2>3, CoreTyped DEF TypeInv, TypeOK
  <2> QED
    BY <1>3, <2>2, <2>3 DEF Web
<1>4. CASE CoreRuns
  <2>1. PanelTypeOK'
    BY <1>0, <1>4 DEF CoreRuns, panelVars, PanelTypeOK
  <2> QED
    BY <1>4, <2>1, CoreTyped DEF CoreRuns, TypeInv, TypeOK
<1>5. CASE Poll \/ Time \/ Tap
  <2>1. PanelTypeOK'
    BY <1>0, <1>5, PollTyped, TapTyped DEF Poll, Time, Tap
  <2> QED
    BY <1>1, <1>5, <2>1 DEF Poll, Time, Tap
<1>6. CASE UNCHANGED vars
  BY <1>0, <1>1, <1>6 DEF vars, panelVars, PanelTypeOK
<1> QED
  BY <1>2, <1>3, <1>4, <1>5, <1>6 DEF Next

(* The state of the page (apps_panel.h) and of the Core is always of its    *)
(* type: no step selects an app or package that cannot be, or leaves an     *)
(* execution without the package it works on.                               *)
THEOREM TypeCorrect == Spec => []TypeOK
<1>1. TypeInv => TypeOK
  BY DEF TypeInv
<1> QED
  BY <1>1, TypeInit, TypeStep, AppsInvHolds, PTL DEF Spec
=============================================================================
