----------------------------- MODULE AppsSystem ------------------------------
(***************************************************************************)
(* The Apps page, its worker and the Core, with another client of the Core *)
(* (web interface, repository check) beside it.                            *)
(***************************************************************************)
EXTENDS AppsPanel

CONSTANTS MaxWeb,    \* bound: what other clients do
          MaxLost,   \* bound: requests and answers that are lost
          MaxTaps    \* bound: taps on the open page
VARIABLES web, lost, taps
vars == <<coreVars, panelVars, web, lost, taps>>
loop == <<open, polling, due, snap, selected_app, selected_stage, selected_usb,
          armed, completed_download, detail, screen, meant>>

Init == CoreInit /\ PanelInit /\ web = 0 /\ lost = 0 /\ taps = 0

\* The Core handles the worker's request.
Serve ==
  /\ wire # NoReq /\ wire' = NoReq
  /\ \/ /\ wire.op = "status" /\ answer' = [kind |-> "status", snap |-> Overview]
        /\ UNCHANGED <<coreVars, lost>>
     \/ /\ wire.op = "detail" /\ wire.app \in installed
        /\ answer' = [kind |-> "detail", app |-> wire.app]
        /\ UNCHANGED <<coreVars, lost>>
     \/ /\ \E p \in Pkg \cup {NoPkg} : Admits(wire, p) /\ Accept(wire, p)
        /\ wire.op \in Op
        /\ \/ answer' = [kind |-> "accepted"] /\ UNCHANGED lost
           \/ answer' = [kind |-> "error"] /\ lost < MaxLost /\ lost' = lost + 1
     \/ /\ answer' = [kind |-> "error"]          \* the request is lost
        /\ lost < MaxLost /\ lost' = lost + 1
        /\ UNCHANGED coreVars
     \/ /\ answer' = [kind |-> "error"]          \* the request is refused
        /\ \/ wire.op = "detail" /\ wire.app \notin installed
           \/ wire.op \in Op /\ ~ \E p \in Pkg \cup {NoPkg} : Admits(wire, p)
        /\ UNCHANGED <<coreVars, lost>>
  /\ UNCHANGED <<loop, web, taps>>

\* Another client's operation, or a repository check that changes what is
\* offered (never, as a bound, a release of this application itself).
Web ==
  /\ web < MaxWeb /\ web' = web + 1
  /\ \/ \E o \in Op \ {"select"}, a \in App \cup {NoApp}, p \in Pkg \cup {NoPkg} :
          LET r == [op |-> o, app |-> a, pkg |-> p, serial |-> Offered(Overview, a)]
          IN Admits(r, p) /\ Accept(r, p)
     \/ /\ \E a \in App \ {Self}, n \in 0 .. MaxSerial : offers[a] # n /\ offers' = [offers EXCEPT ![a] = n]
        /\ UNCHANGED <<installed, display, packages, verified, exec>>
  /\ UNCHANGED <<panelVars, lost, taps>>

CoreRuns == Finish /\ UNCHANGED <<panelVars, web, lost, taps>>

Poll == (PollAnswer \/ PollRefresh) /\ UNCHANGED <<coreVars, web, lost, taps>>
Time == Elapse /\ UNCHANGED <<coreVars, web, lost, taps>>
Tap ==
  /\ \/ (Foreground \/ Back) /\ UNCHANGED taps
     \/ /\ taps < MaxTaps /\ taps' = taps + 1
        /\ TapRefresh \/ TapSelect \/ TapDetail \/ TapAction
  /\ UNCHANGED <<coreVars, web, lost>>

Next == Serve \/ Web \/ CoreRuns \/ Poll \/ Time \/ Tap
Spec == Init /\ [][Next]_vars

\* A request returns, by its timeout if need be; executions end; the loop
\* polls and time passes.
FairSpec == Spec /\ WF_vars(Serve) /\ WF_vars(CoreRuns) /\ WF_vars(Poll) /\ WF_vars(Time)
-----------------------------------------------------------------------------
TypeOK == CoreTypeOK /\ PanelTypeOK

Sent == wire = NoReq /\ wire'.op \in Op /\ wire' # wire

(* An operation that needs a confirmation goes out only on a tap on a       *)
(* button that reads "Confirm", drawn for the app, package and release it   *)
(* is about (apps_panel.cpp:503, 603).                                      *)
ConfirmedOnScreen ==
  [][Sent /\ wire'.op \notin Unconfirmed =>
       /\ [op |-> wire'.op, confirm |-> TRUE] \in screen.buttons
       /\ wire' = [Body(wire'.op, snap, screen.app, screen.pkg)
                   EXCEPT !.serial = IF wire'.op = "download" THEN screen.serial ELSE 0]]_vars

(* What is sent is what the first tap announced, whatever polls, other      *)
(* clients and downloads changed in between, and each announcement is good  *)
(* for one request (apps_panel.cpp:270, 608).                               *)
ConfirmedAsArmed == [][Sent /\ wire'.op \notin Unconfirmed => wire' = meant]_vars

(* The details on the page are of the selected app, though another app can  *)
(* be selected while they are on their way (apps_panel.cpp:284).            *)
DetailIsOfSelected == detail # NoApp => detail = selected_app

(* An open page that shows an operation as running comes to show its end,   *)
(* though status reads are lost (apps_panel.cpp:309).                       *)
ExecutionResolved ==
  open /\ snap.exec.state = "running" ~> ~open \/ snap.exec.state # "running"
=============================================================================
