---------------------------- MODULE PrintStatus -----------------------------
(***************************************************************************)
(* print_status_panel.cpp and mini_print_status.cpp: the page of the       *)
(* running print.  Its handlers read State as well as the message they are *)
(* given.  What metadata and reports fill in is PrintReadings'.            *)
(***************************************************************************)
EXTENDS PrintTypes

VARIABLES
  shown,        \* file on the page, NoFile for "No active print"
  mini,         \* the small status on the home page is shown
  button,       \* which of the pause and resume buttons is shown
  enabled,      \* and whether it can be pressed
  front,        \* the page is in front of the Files page
  pending_confirmation,
  dialog        \* the confirmation is in front of the page
statusVars == <<shown, mini, button, enabled, front, pending_confirmation, dialog>>

StatusInit ==
  /\ shown = NoFile
  /\ mini = FALSE /\ button = "pause" /\ enabled = TRUE
  /\ front = FALSE /\ pending_confirmation = "none" /\ dialog = FALSE

File(s) == IF s.file = {} THEN NoFile ELSE CHOOSE f \in s.file : TRUE

ButtonFor(paused) == IF paused THEN "resume" ELSE "pause"

\* init, after the reply to the subscription: reset, populate
InitPage(s) ==
  /\ shown' = File(s)
  /\ button' = ButtonFor("paused" \in s.state) /\ enabled' = TRUE
  /\ mini' = (s.state = {} \/ (Active(s.state) /\ (mini \/ File(s) # NoFile)))
  /\ UNCHANGED <<front, pending_confirmation, dialog>>

\* consume, first part: another file is printed
NewFile(u, s) ==
  /\ shown' = IF File(s) = NoFile THEN File(u) ELSE File(s)
  /\ front' = TRUE /\ dialog' = FALSE

SameFile == UNCHANGED <<shown, front, dialog>>

\* consume: the update u, while State holds s
StatusConsume(u, s) ==
  /\ IF u.file = {} THEN SameFile ELSE NewFile(u, s)
  /\ mini' = IF u.state # {} THEN Active(u.state)
             ELSE mini \/ (u.file # {} /\ File(s) # NoFile)
  /\ button' = IF u.paused # {} THEN ButtonFor(TRUE \in u.paused)
               ELSE IF u.file # {} THEN ButtonFor("paused" \in s.state)
               ELSE button
  /\ enabled' = (enabled \/ u.paused # {} \/ u.file # {})
  /\ UNCHANGED pending_confirmation
-----------------------------------------------------------------------------
\* foreground(), from a tap
Raise ==
  /\ front' = TRUE /\ dialog' = FALSE
  /\ UNCHANGED <<shown, mini, button, enabled, pending_confirmation>>

TapBack_KeepsPending ==
  /\ front /\ ~dialog
  /\ front' = FALSE
  /\ UNCHANGED <<wire, shown, mini, button, enabled, pending_confirmation, dialog>>

\* Back: background()
TapBack ==
  /\ front /\ ~dialog
  /\ front' = FALSE /\ pending_confirmation' = "none"
  /\ UNCHANGED <<wire, shown, mini, button, enabled, dialog>>

TapPauseResume ==
  /\ front /\ ~dialog /\ enabled
  /\ wire' = wire \cup {Ask(button, NoFile)}
  /\ enabled' = FALSE
  /\ UNCHANGED <<shown, mini, button, front, pending_confirmation, dialog>>

\* request_confirmation: at once, when the configuration asks for no prompt
TapCommand(c) ==
  /\ front /\ ~dialog
  /\ \/ /\ wire' = wire \cup {Ask(c, NoFile)}
        /\ pending_confirmation' = "none"
        /\ UNCHANGED dialog
     \/ /\ pending_confirmation' = c /\ dialog' = TRUE
        /\ UNCHANGED wire
  /\ UNCHANGED <<shown, mini, button, enabled, front>>

\* execute_confirmation, or not, and close_confirmation
TapConfirm ==
  /\ dialog
  /\ wire' \in {wire, wire \cup {Ask(pending_confirmation, NoFile)}}
  /\ pending_confirmation' = "none" /\ dialog' = FALSE
  /\ UNCHANGED <<shown, mini, button, enabled, front>>

TapStatusPage ==
  \/ TapBack \/ TapPauseResume \/ TapConfirm
  \/ \E c \in {"cancel", "emergency"} : TapCommand(c)

StatusTypeOK ==
  /\ shown \in Path \cup {NoFile}
  /\ button \in {"pause", "resume"}
  /\ {mini, enabled, front, dialog} \subseteq BOOLEAN
  /\ pending_confirmation \in {"none", "cancel", "emergency"}
=============================================================================
