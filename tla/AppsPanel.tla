------------------------------ MODULE AppsPanel ------------------------------
(***************************************************************************)
(* src/apps_panel.cpp: the Apps page.  Operations that matter take two     *)
(* taps, the first of which arms a confirmation; an accepted operation is  *)
(* followed by status reads.  `wire` is the request of the worker thread   *)
(* (module RequestWorker), `answer` what it has left for poll(); the code's*)
(* `busy` is Busy.                                                         *)
(*                                                                         *)
(* The page's lists show what `snap` holds: it changes only in poll(),     *)
(* which renders.  The buttons below them are drawn more rarely, so they   *)
(* are state: `screen`.  The USB stick holds one file and stays plugged in. *)
(***************************************************************************)
EXTENDS AppsCore

VARIABLES open,
          polling,     \* polling_execution
          due,         \* 1800 ms have passed since last_refresh
          snap,        \* snapshot
          selected_app, selected_stage,
          selected_usb,
          armed,       \* armed_action
          completed_download,
          detail,      \* whose details selected_detail shows
          screen,      \* what render_controls() drew last
          wire, answer,
          meant        \* history: the request that the first tap announced
panelVars == <<open, polling, due, snap, selected_app, selected_stage, 
               selected_usb, armed, completed_download, detail, screen, wire, answer, meant>>
selectedVars == <<selected_app, selected_stage, selected_usb>>

NotArmed == [op |-> "none", app |-> NoApp, serial |-> 0]
NoAnswer == [kind |-> "none"]
Answer == {NoAnswer, [kind |-> "error"], [kind |-> "accepted"]}
     \cup [kind : {"status"}, snap : Snapshot] \cup [kind : {"detail"}, app : App]
Button == [op : Op \cup {"detail"}, confirm : BOOLEAN]
Screen == [kind : {"progress", "unknown", "actions"}, app : App \cup {NoApp},
           pkg : Pkg \cup {NoPkg}, serial : 0 .. MaxSerial, buttons : SUBSET Button]
NullSnapshot == [installed |-> {}, display |-> NoApp, packages |-> {}, verified |-> {},
                 offers |-> [a \in App |-> 0], exec |-> NoExec]
Blank == [kind |-> "actions", app |-> NoApp, pkg |-> NoPkg, serial |-> 0, buttons |-> {}]

Busy == wire # NoReq \/ answer # NoAnswer
Offered(s, a) == IF a = NoApp THEN 0 ELSE s.offers[a]

\* the body of the operation `op` on a selection
Body(op, s, a, p) ==
  [op |-> op,
   app |-> IF op \in {"download", "remove", "select", "update"} THEN a ELSE NoApp,
   pkg |-> IF op \in {"verify", "install-sys", "install-home", "update", "discard"}
           THEN p ELSE NoPkg,
   serial |-> IF op = "download" THEN Offered(s, a) ELSE 0]

Unconfirmed == {"verify", "discard", "upload", "detail"}

Confirmation_AnySerial(r) == [op |-> r.op, app |-> NoApp, serial |-> 0]

\* the string that a first tap leaves in armed_action
Confirmation(r) == [op |-> r.op, app |-> IF r.op = "download" THEN r.app ELSE NoApp,
                    serial |-> r.serial]

\* render_controls(): the buttons of a selection
Buttons(s, a, p, usb) ==
  (IF a = NoApp THEN {} ELSE
     {"detail"} \cup (IF Offered(s, a) # 0 THEN {"download"} ELSE {})
                \cup (IF a # s.display THEN {"select", "remove"} ELSE {}))
  \cup (IF p = NoPkg THEN {} ELSE
     {"discard"} \cup (IF p \notin s.verified THEN {"verify"}
                       ELSE {"install-sys", "install-home"} \cup (IF a = NoApp THEN {} ELSE {"update"})))
  \cup (IF usb THEN {"upload"} ELSE {})

Draw(busy, s, a, p, usb, arm) ==
  LET Kind == CASE busy \/ s.exec.state = "running" -> "progress"
                [] s.exec.state = "unknown" /\ ~busy -> "unknown"
                [] OTHER -> "actions"
      Ops == CASE Kind = "progress" -> {}
               [] Kind = "unknown" -> {"acknowledge"}
               [] OTHER -> Buttons(s, a, p, usb)
  IN [kind |-> Kind, app |-> a, pkg |-> p, serial |-> Offered(s, a),
      buttons |-> {[op |-> o, confirm |-> o \notin Unconfirmed
                       /\ arm = Confirmation(Body(o, s, a, p))] : o \in Ops}]

PanelInit ==
  /\ open = FALSE /\ polling = FALSE /\ due = FALSE
  /\ snap = NullSnapshot /\ screen = Blank /\ detail = NoApp
  /\ selected_app = NoApp /\ selected_stage = NoPkg
  /\ selected_usb = FALSE
  /\ armed = NotArmed /\ completed_download = 0
  /\ wire = NoReq /\ answer = NoAnswer /\ meant = NoReq
-----------------------------------------------------------------------------
(* poll()                                                                   *)

\* A download that has ended is looked at once; its package is selected only
\* for the app that is selected, and what was armed is dropped.
Adopted(s) ==
  /\ s.exec.op = "download" /\ s.exec.state = "succeeded" /\ s.exec.id # completed_download
  /\ s.exec.app \in s.installed /\ s.exec.pkg \in s.packages \cap s.verified
  /\ selected_app = s.exec.app

Rearmed(s) == IF Adopted(s) THEN NotArmed ELSE armed

TakeStatus ==
  LET s == answer.snap
      a == IF selected_app \in s.installed THEN selected_app ELSE NoApp
      p == IF Adopted(s) THEN s.exec.pkg ELSE selected_stage
      q == IF p \in s.packages THEN p ELSE NoPkg
  IN /\ snap' = s /\ polling' = (s.exec.state = "running") /\ due' = FALSE
     /\ completed_download' =
          IF s.exec.op = "download" /\ s.exec.state \in {"succeeded", "failed", "unknown"}
          THEN s.exec.id ELSE completed_download
     /\ selected_usb' = selected_usb
     /\ selected_app' = a /\ selected_stage' = q
     /\ detail' = IF a = NoApp THEN NoApp ELSE detail
     /\ armed' = Rearmed(s) /\ meant' = IF Rearmed(s) = NotArmed THEN NoReq ELSE meant
     /\ screen' = Draw(FALSE, s, a, q, selected_usb, Rearmed(s))
     /\ wire' = wire

RefreshDue == open /\ polling /\ due

\* the end of poll(), when no request is out
RefreshIfDue == wire' = IF RefreshDue THEN [NoReq EXCEPT !.op = "status"] ELSE NoReq

TakeDetail_Unchecked ==
  /\ detail' = answer.app
  /\ RefreshIfDue
  /\ UNCHANGED <<polling, due, snap, selectedVars, armed, completed_download, screen>>

\* Another app may have been selected since the details were asked for.
TakeDetail ==
  /\ detail' = IF answer.app = selected_app THEN answer.app ELSE detail
  /\ RefreshIfDue
  /\ UNCHANGED <<polling, due, snap, selectedVars, armed, completed_download, screen>>

\* The operation was accepted: read, never resubmit.
TakeAccepted ==
  /\ wire' = [NoReq EXCEPT !.op = "status"]
  /\ UNCHANGED <<polling, due, snap, selectedVars, armed, completed_download, detail, screen>>

TakeError_StopsPolling ==
  /\ polling' = FALSE
  /\ wire' = NoReq
  /\ UNCHANGED <<due, snap, selectedVars, armed, completed_download, detail, screen>>

\* Only the message changes.
TakeError ==
  /\ RefreshIfDue
  /\ UNCHANGED <<polling, due, snap, selectedVars, armed, completed_download, detail, screen>>

PollAnswer ==
  /\ answer # NoAnswer /\ answer' = NoAnswer
  /\ \/ answer.kind = "status" /\ TakeStatus
     \/ answer.kind = "detail" /\ TakeDetail /\ UNCHANGED meant
     \/ answer.kind = "accepted" /\ TakeAccepted /\ UNCHANGED meant
     \/ answer.kind = "error" /\ TakeError /\ UNCHANGED meant
  /\ UNCHANGED open

PollRefresh ==
  /\ ~Busy /\ RefreshDue /\ RefreshIfDue
  /\ UNCHANGED <<open, polling, due, snap, selectedVars, armed, completed_download, detail, screen, answer, meant>>

Elapse ==
  /\ ~due /\ polling /\ due' = TRUE
  /\ UNCHANGED <<open, polling, snap, selectedVars, armed, completed_download, detail, screen, wire, answer, meant>>
-----------------------------------------------------------------------------
(* handle()                                                                 *)

Load == wire' = IF Busy THEN wire ELSE [NoReq EXCEPT !.op = "status"]

Foreground ==
  /\ ~open /\ open' = TRUE
  /\ Load
  /\ UNCHANGED <<polling, due, snap, selectedVars, armed, completed_download, detail, screen, answer, meant>>

Back ==
  /\ open /\ open' = FALSE
  /\ UNCHANGED <<polling, due, snap, selectedVars, armed, completed_download, detail, screen, wire, answer, meant>>

TapRefresh ==
  /\ open /\ armed' = NotArmed /\ meant' = NoReq
  /\ Load
  /\ UNCHANGED <<open, polling, due, snap, selectedVars, completed_download, detail, screen, answer>>

\* clear_confirmation(), the new selection, render()
Select(a, p, u) ==
  /\ selected_app' = a /\ selected_stage' = p /\ selected_usb' = u
  /\ armed' = NotArmed /\ meant' = NoReq
  /\ screen' = Draw(Busy, snap, a, p, u, NotArmed)
  /\ UNCHANGED <<open, polling, due, snap, completed_download, wire, answer>>

TapSelect ==
  /\ open
  /\ \/ \E a \in snap.installed : Select(a, selected_stage, selected_usb) /\ detail' = NoApp
     \/ \E p \in snap.packages : Select(selected_app, p, selected_usb) /\ UNCHANGED detail
     \/ /\ snap # NullSnapshot            \* scanned and listed with the first status
        /\ Select(selected_app, selected_stage, TRUE) /\ UNCHANGED detail

TapDetail ==
  /\ open /\ [op |-> "detail", confirm |-> FALSE] \in screen.buttons
  /\ ~Busy
  /\ wire' = [NoReq EXCEPT !.op = "detail", !.app = selected_app]
  /\ UNCHANGED <<open, polling, due, snap, selectedVars, armed, completed_download, detail, screen, answer, meant>>

\* take_action(): its early returns
Refused(r) ==
  \/ Busy \/ snap.exec.state = "running"
  \/ (snap.exec.state = "unknown") # (r.op = "acknowledge")
  \/ r.op \in {"remove", "select"} /\ snap.display = selected_app

Arm_Undrawn(r) ==
  /\ armed' = Confirmation(r) /\ meant' = r
  /\ UNCHANGED <<wire, screen>>

\* the first tap
Arm(r) ==
  /\ armed' = Confirmation(r) /\ meant' = r
  /\ screen' = Draw(FALSE, snap, selected_app, selected_stage, selected_usb, Confirmation(r))
  /\ UNCHANGED wire

Send(r) == wire' = r /\ armed' = NotArmed /\ meant' = NoReq /\ UNCHANGED screen

TapAction ==
  /\ open
  /\ \E b \in screen.buttons :
       LET r == Body(b.op, snap, selected_app, selected_stage)
       IN /\ b.op # "detail" /\ ~Refused(r)
          /\ IF b.op \in Unconfirmed \/ armed = Confirmation(r) THEN Send(r) ELSE Arm(r)
  /\ UNCHANGED <<open, polling, due, snap, selectedVars, completed_download, detail, answer>>

PanelTypeOK ==
  /\ {open, polling, due, selected_usb} \subseteq BOOLEAN
  /\ snap \in Snapshot /\ screen \in Screen
  /\ {selected_app, detail} \subseteq App \cup {NoApp}
  /\ selected_stage \in Pkg \cup {NoPkg}
  /\ armed \in [op : Op \cup {"none"}, app : App \cup {NoApp}, serial : 0 .. MaxSerial]
  /\ completed_download \in 0 .. MaxExec
  /\ {wire, meant} \subseteq Request /\ answer \in Answer
=============================================================================
