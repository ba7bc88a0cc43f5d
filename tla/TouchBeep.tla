------------------------------ MODULE TouchBeep ------------------------------
(***************************************************************************)
(* touch_beep.cpp: a tap writes a tone to the beeper, and a timer of the   *)
(* loop writes it off again.  The beeper is given up when the console is   *)
(* released, at exit and before a restart (fre3nderscreen.cpp,             *)
(* fre3nderscreen_panel.cpp, main.cpp).                                    *)
(***************************************************************************)
VARIABLES
  beeper_fd,     \* the beeper's event device is open
  stop_timer,    \* the timer that ends the tone is pending
  recent,        \* the last tap is within the debounce time
  tone,          \* the beeper sounds
  works,         \* writing to the device succeeds
  ui             \* "ui": the console is ours, "text": it is not, "gone": exit
vars == <<beeper_fd, stop_timer, recent, tone, works, ui>>

Init ==
  /\ beeper_fd \in BOOLEAN /\ works = beeper_fd /\ ui = "ui"
  /\ stop_timer = FALSE /\ recent = FALSE /\ tone = FALSE

\* write_tone(frequency) and write_tone(0), on an open device
Sounds == tone' = works
Silent == tone' = (tone /\ ~works)

\* feedback_cb; a timer that cannot be made ends the tone at once
Click ==
  /\ ui = "ui" /\ beeper_fd /\ ~recent /\ recent' = TRUE
  /\ IF works
     THEN /\ \/ Sounds /\ stop_timer' = TRUE
             \/ Silent /\ stop_timer' = FALSE
          /\ UNCHANGED beeper_fd
     ELSE beeper_fd' = FALSE /\ stop_timer' = FALSE /\ UNCHANGED tone
  /\ UNCHANGED <<works, ui>>

\* stop_tone, from lv_timer_handler, which runs on a text console too
StopTone ==
  /\ stop_timer /\ ui # "gone" /\ stop_timer' = FALSE
  /\ IF beeper_fd THEN Silent ELSE UNCHANGED tone
  /\ UNCHANGED <<beeper_fd, recent, works, ui>>

Shutdown_Quietly ==
  /\ stop_timer' = FALSE /\ beeper_fd' = FALSE /\ UNCHANGED tone

\* shutdown(): no timer is left, so the tone is written off here
Shutdown ==
  /\ stop_timer' = FALSE /\ beeper_fd' = FALSE
  /\ IF beeper_fd THEN Silent ELSE UNCHANGED tone

\* Release of the console, exit, and a restart whose execl fails
Leave ==
  /\ ui = "ui" /\ ui' \in {"ui", "text", "gone"}
  /\ Shutdown
  /\ UNCHANGED <<recent, works>>

\* init(), when the console comes back
Acquire ==
  /\ ui = "text" /\ ui' = "ui"
  /\ beeper_fd' = works
  /\ UNCHANGED <<stop_timer, recent, tone, works>>

Debounced == recent /\ recent' = FALSE /\ UNCHANGED <<beeper_fd, stop_timer, tone, works, ui>>

\* The device is unplugged, and with it the tone.
Unplug == works /\ works' = FALSE /\ tone' = FALSE /\ UNCHANGED <<beeper_fd, stop_timer, recent, ui>>

Next == Click \/ StopTone \/ Leave \/ Acquire \/ Debounced \/ Unplug

\* The loop runs its timers.
Fairness == WF_vars(StopTone)
-----------------------------------------------------------------------------
(* A tone ends, whatever happens to the console and the process meanwhile   *)
(* (touch_beep.cpp:50, 89).                                                 *)
ToneEnds == tone ~> ~tone
=============================================================================
