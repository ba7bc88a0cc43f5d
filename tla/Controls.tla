------------------------------ MODULE Controls -------------------------------
(***************************************************************************)
(* The pages that show one of the printer's numbers and change it:         *)
(*   fan, led   fan_panel.cpp, led_panel.cpp: a slider with Off and Max    *)
(*   limits     limits_panel.cpp: a slider with a reset                    *)
(*   finetune   finetune_panel.cpp, speed and flow: steps with a reset     *)
(*   pressure, zoffset   its other two numbers, which are no percentages   *)
(*   homing     homing_panel.cpp: the arrows of the homed axes             *)
(*   sensor     main_panel.cpp: a heater's target, set with the numpad     *)
(*   extruder   extruder_panel.cpp: the nozzle's target                    *)
(* One control is modelled; each page has several of its kind.             *)
(*                                                                         *)
(* Data abstraction.  A number is a percentage, Top for 100, for a limit's *)
(* default and for all axes homed.  The printer reports a percentage as a  *)
(* fraction, and for some (0.29, 0.57, 0.58) int(value * 100) is one below *)
(* it: Short.  A script sets the number, or (Z offset, moves) adds to it.  *)
(***************************************************************************)
EXTENDS Feed

CONSTANTS Top, Short, MaxWire    \* MaxWire bounds the scripts under way

VARIABLES
  kind,       \* which page
  shown,      \* the number on the page
  front,      \* the page is in front
  drag,       \* the slider is held
  wire,       \* scripts Klipper has not run
  synced      \* history: the page has had word of the printer's number
pageVars == <<kind, shown, front, drag, wire, synced>>
vars == <<feedVars, pageVars>>

Value == 0 .. Top
Numbers == [{"value"} -> Value]
FineTune == {"finetune", "pressure", "zoffset"}
Slider == {"fan", "led", "limits"}
OnOff == {"fan", "led"}
Fraction == {"fan", "led", "finetune"}
Recreated == {"fan", "led", "sensor"}     \* with the list of the objects
Subscribed == {"limits", "sensor"}        \* filled with the subscription
ReadsState == {"fan", "led", "homing"} \cup FineTune  \* when they come to the front
Kind == Slider \cup Fraction \cup ReadsState \cup {"sensor", "extruder"}

Percent(v) == IF v \in Short THEN v - 1 ELSE v

\* update_value and its like
Shows(v) == IF kind \in Fraction THEN Percent(v) ELSE v

Init ==
  /\ FeedInit /\ kind \in Kind
  /\ shown = 0 /\ front = FALSE /\ drag = FALSE /\ wire = <<>> /\ synced = FALSE

Take_InFront(m) ==
  /\ IF m.kind = "update" /\ front THEN shown' = Shows(m.data["value"]) ELSE UNCHANGED shown
  /\ synced' = (synced \/ m.kind = "update")
  /\ UNCHANGED <<kind, front, drag, wire>>

\* create_fans and its like with the list of objects, init() with the reply to
\* the subscription, consume() with an update
Take(m) ==
  /\ CASE m.kind = "objects" /\ kind \in Recreated ->
            shown' = 0 /\ drag' = FALSE /\ synced' = FALSE
       [] m.kind = "update" \/ (m.kind = "subscription" /\ kind \in Subscribed) ->
            shown' = Shows(m.data["value"]) /\ synced' = TRUE /\ UNCHANGED drag
       [] OTHER -> UNCHANGED <<shown, drag, synced>>
  /\ UNCHANGED <<kind, front, wire>>

Handle == Receive(Over(Head(inbox).data, state)) /\ Take(Head(inbox))

\* foreground(); no axis counts as homed when State does not say
Foreground ==
  /\ ~front /\ front' = TRUE
  /\ IF kind \in ReadsState /\ "value" \in DOMAIN state
     THEN shown' = Shows(state["value"]) /\ synced' = TRUE
     ELSE shown' = (IF kind = "homing" THEN 0 ELSE shown) /\ UNCHANGED synced
  /\ UNCHANGED <<feedVars, kind, drag, wire>>

Back ==
  /\ front /\ ~drag /\ front' = FALSE
  /\ UNCHANGED <<feedVars, kind, shown, drag, wire, synced>>

\* gcode_script: on a closed link the script is lost
Send(script) == wire' = IF stage = "down" THEN wire ELSE Append(wire, script)
Script(v) == Send([adds |-> FALSE, by |-> v])
Adjust(d) == Send([adds |-> TRUE, by |-> d])
Sends == front /\ Len(wire) < MaxWire /\ UNCHANGED <<feedVars, kind, front>>

\* VALUE_CHANGED
Drag ==
  /\ front /\ kind \in Slider /\ shown' \in Value \ {shown} /\ drag' = TRUE
  /\ UNCHANGED <<feedVars, kind, front, wire, synced>>

\* RELEASED: the slider's value, which an update may have set meanwhile
Release ==
  /\ Sends /\ drag /\ drag' = FALSE
  /\ Script(shown) /\ synced' = (synced /\ stage # "down")
  /\ UNCHANGED shown

OffMax ==
  /\ Sends /\ kind \in OnOff /\ ~drag
  /\ shown' \in {0, Top} /\ Script(shown') /\ synced' = (synced /\ stage # "down")
  /\ UNCHANGED drag

\* The buttons below send a script; the page changes when it is reported.
Asks == Sends /\ ~drag /\ UNCHANGED <<shown, drag, synced>>
Known == "value" \in DOMAIN state

\* The resets of a limit, of speed and flow, of the Z offset, and of pressure
\* advance to what the configuration in State has.
Reset ==
  /\ Asks
  /\ \/ kind \in {"limits", "finetune"} /\ Script(Top)
     \/ kind = "zoffset" /\ Script(0)
     \/ kind = "pressure" /\ Known /\ Script(Top)

\* handle_speed, handle_flow: from the number last reported; never below 1
StepFactor ==
  /\ Asks /\ kind = "finetune" /\ Known
  /\ \E d \in {-1, 1} :
       LET to == Percent(state["value"]) + d
       IN Script(IF to < 1 THEN 1 ELSE IF to > Top THEN Top ELSE to)  \* bound: Top

\* handle_pa: likewise; never below 0
StepPressure ==
  /\ Asks /\ kind = "pressure" /\ Known
  /\ \E d \in {-1, 1} :
       LET to == state["value"] + d
       IN Script(IF to < 0 THEN 0 ELSE IF to > Top THEN Top ELSE to)  \* bound: Top

\* handle_zoffset: the printer adds, whatever was reported
StepOffset == Asks /\ kind = "zoffset" /\ \E d \in {-1, 1} : Adjust(d)

\* Home, Motors Off, and an arrow, which is enabled for a homed axis
Homing ==
  /\ Asks /\ kind = "homing"
  /\ (\E v \in {0, Top} : Script(v)) \/ (shown # 0 /\ Adjust(0))

\* handle_edit with the numpad: any number
Enter == Asks /\ kind = "sensor" /\ \E v \in Value : Script(v)

\* Extrude and Retract set the chosen temperature first, Cooldown 0; the
\* macros for the filament may do either.
Extrude == Asks /\ kind = "extruder" /\ \E v \in Value : Script(v)

\* A number that is back where it was last told is not reported again.
Unseen == printer' # printer /\ printer' = told

\* What the script makes of the number.  Bound: 0 .. Top.
Result(script) ==
  LET to == IF script.adds THEN printer["value"] + script.by ELSE script.by
  IN IF to \in Value THEN to ELSE printer["value"]

\* Klipper runs the next script, or refuses it and reports nothing.
Run ==
  /\ wire # <<>> /\ wire' = Tail(wire)
  /\ \/ /\ printer' = [printer EXCEPT !["value"] = Result(Head(wire))]
        /\ synced' = (synced /\ (kind \in OnOff \/ ~Unseen))
        /\ UNCHANGED other
     \/ other < MaxOther /\ other' = other + 1 /\ synced' = FALSE /\ UNCHANGED printer
  /\ UNCHANGED <<told, state, stage, inbox, kind, shown, front, drag>>

Elsewhere ==
  /\ Change /\ synced' = (synced /\ ~Unseen)
  /\ UNCHANGED <<kind, shown, front, drag, wire>>

Link ==
  /\ Network
  /\ synced' = (synced /\ stage' \notin {"down", "list"})
  /\ wire' = IF stage' = "down" THEN <<>> ELSE wire
  /\ UNCHANGED <<kind, shown, front, drag>>

Next ==
  \/ Handle \/ Foreground \/ Back \/ Drag \/ Release \/ OffMax
  \/ Reset \/ StepFactor \/ StepPressure \/ StepOffset \/ Homing \/ Enter \/ Extrude
  \/ Run \/ Elsewhere \/ Link
-----------------------------------------------------------------------------
(* Once everything sent has been run and reported, the page shows the       *)
(* printer's number, as its own taps or the printer's report have it,       *)
(* whichever of the two came last (fan_panel.cpp:229, limits_panel.cpp:373, *)
(* finetune_panel.cpp:419).                                                 *)
ShownIsReported ==
  Settled /\ wire = <<>> /\ ~drag /\ synced =>
    shown \in {printer["value"], Percent(printer["value"])}
=============================================================================
