-------------------------------- MODULE Prompt -------------------------------
(***************************************************************************)
(* prompt_panel.cpp: a macro describes a dialog line by line in Klipper's  *)
(* responses, which the panel draws as they come.  What Klipper says while *)
(* the link is down is not said again.                                     *)
(*                                                                         *)
(* Data abstraction.  A widget is the number of its prompt and of its line *)
(* and the container it is in: Body, Footer or the line of its group.      *)
(* Responses that are no prompt lines, or that name no command, do nothing.*)
(* A pressed button only sends its command: what follows is Klipper's.     *)
(***************************************************************************)
EXTENDS Integers, Sequences

CONSTANTS
  MaxPrompts,   \* bound: prompts
  MaxLines,     \* bound: lines between begin and show
  MaxInbox,     \* bound: lines waiting
  MaxOther      \* bound: lost links

VARIABLES
  prompt, line,           \* Klipper: the prompt's number and its last line's
  stage,                  \* "none", "building" after begin, "open" after show
  meant, grouping,        \* the widgets the macro describes; its group, or Body
  inbox, link,
  widgets,                \* what is in flex and footer_cont
  button_group_cont,      \* the group that takes the next button, or Body
  shown,                  \* the dialog is in front
  whole,                  \* history: every line since the last begin or end was heard
  other
vars == <<prompt, line, stage, meant, grouping, inbox, link,
          widgets, button_group_cont, shown, whole, other>>

Body == 0
Footer == -1
Widget(m, in) == [prompt |-> m.prompt, line |-> m.line, in |-> in]

Init ==
  /\ prompt = 0 /\ line = 0 /\ stage = "none" /\ meant = {} /\ grouping = Body
  /\ inbox = <<>> /\ link = TRUE
  /\ widgets = {} /\ button_group_cont = Body /\ shown = FALSE
  /\ whole = TRUE /\ other = 0

\* Klipper says a line; with begin or end a dialog starts anew.
Say(action) ==
  /\ Len(inbox) < MaxInbox
  /\ inbox' = IF link THEN Append(inbox, [action |-> action, prompt |-> prompt', line |-> line'])
              ELSE inbox
  /\ whole' = (link /\ (whole \/ action \in {"begin", "end"}))
  /\ UNCHANGED <<link, widgets, button_group_cont, shown, other>>

SayBegin ==
  /\ prompt < MaxPrompts /\ prompt' = prompt + 1 /\ line' = 0
  /\ stage' = "building" /\ meant' = {} /\ grouping' = Body
  /\ Say("begin")

SayLine ==
  /\ stage = "building" /\ line < MaxLines /\ line' = line + 1
  /\ UNCHANGED <<prompt, stage>>
  /\ LET Meant(in) == meant' = meant \cup {[prompt |-> prompt, line |-> line', in |-> in]} IN
     \/ Meant(Body) /\ UNCHANGED grouping /\ Say("text")
     \/ Meant(grouping) /\ UNCHANGED grouping /\ Say("button")
     \/ Meant(Footer) /\ UNCHANGED grouping /\ Say("footer_button")
     \/ Meant(Body) /\ grouping' = line' /\ Say("button_group_start")
     \/ grouping # Body /\ grouping' = Body /\ UNCHANGED meant /\ Say("button_group_end")

SayShow ==
  /\ stage = "building" /\ stage' = "open"
  /\ UNCHANGED <<prompt, line, meant, grouping>>
  /\ Say("show")

SayEnd ==
  /\ stage # "none" /\ stage' = "none" /\ meant' = {} /\ grouping' = Body
  /\ UNCHANGED <<prompt, line>>
  /\ Say("end")

\* lv_obj_clean
Clean_KeepsGroup == widgets' = {} /\ UNCHANGED button_group_cont

Clean == widgets' = {} /\ button_group_cont' = Body

Add(w) == widgets' = widgets \cup {w}

\* handle_macro_response
HandleMacroResponse ==
  LET m == Head(inbox) IN
  /\ inbox # <<>> /\ inbox' = Tail(inbox)
  /\ \/ m.action = "begin" /\ Clean /\ UNCHANGED shown
     \/ m.action = "text" /\ Add(Widget(m, Body)) /\ UNCHANGED <<button_group_cont, shown>>
     \/ m.action = "button_group_start" /\ Add(Widget(m, Body)) /\ button_group_cont' = m.line
        /\ UNCHANGED shown
     \/ m.action = "button_group_end" /\ button_group_cont' = Body /\ UNCHANGED <<widgets, shown>>
     \/ m.action = "button" /\ Add(Widget(m, button_group_cont))
        /\ UNCHANGED <<button_group_cont, shown>>
     \/ m.action = "footer_button" /\ Add(Widget(m, Footer)) /\ UNCHANGED <<button_group_cont, shown>>
     \/ m.action = "show" /\ shown' = TRUE /\ UNCHANGED <<widgets, button_group_cont>>
     \/ m.action = "end" /\ shown' = FALSE /\ Clean
  /\ UNCHANGED <<prompt, line, stage, meant, grouping, link, whole, other>>

LinkLost ==
  /\ link /\ other < MaxOther /\ other' = other + 1 /\ link' = FALSE
  /\ UNCHANGED <<prompt, line, stage, meant, grouping, inbox,
                 widgets, button_group_cont, shown, whole>>

LinkBack ==
  /\ ~link /\ link' = TRUE
  /\ UNCHANGED <<prompt, line, stage, meant, grouping, inbox,
                 widgets, button_group_cont, shown, whole, other>>

Next ==
  \/ SayBegin \/ SayLine \/ SayShow \/ SayEnd
  \/ HandleMacroResponse \/ LinkLost \/ LinkBack
-----------------------------------------------------------------------------
(* Whatever was lost before: once a prompt that was heard from its begin is *)
(* drawn, the dialog has its widgets, each in its container, and is in      *)
(* front if Klipper shows it; after a heard end it is gone                  *)
(* (prompt_panel.cpp:244, 367).                                             *)
DialogIsPrompt ==
  inbox = <<>> /\ whole =>
    /\ widgets = meant
    /\ stage = "open" => shown
    /\ stage = "none" => ~shown
=============================================================================
