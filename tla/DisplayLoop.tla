---------------------------- MODULE DisplayLoop -----------------------------
(***************************************************************************)
(* virtual_terminal.cpp, Fre3nderScreen::loop and main: the screen shares  *)
(* the framebuffer with the text consoles and puts the panel to sleep.     *)
(* Signals and touches may come between any two steps.                     *)
(***************************************************************************)
EXTENDS ConsoleKernel

CONSTANT Patient  \* a user who leaves vt 7 only when no handover is under way

VARIABLES pc,           \* where main() is
          terminal,     \* the vt is open
          active,       \* VirtualTerminal: flush() may write the framebuffer
          vt_active, is_sleeping, ready_file,
          blanked,      \* fbdev_blank: the panel is dark, whatever the console
          saver,        \* the screen saver object: "front", "covered", "back"
          enabled,      \* the touch input device is read by LVGL
          restarted     \* history: Restart Screen was pressed
appVars == <<pc, terminal, active, vt_active, is_sleeping, ready_file,
             blanked, saver, enabled, restarted>>
vars    == <<kernelVars, signalVars, appVars>>

Init ==
  /\ fg \in {"ui", "text"} /\ touches = {}
  /\ newvt = FALSE /\ process = FALSE /\ leader = FALSE
  /\ release_pending = FALSE /\ acquire_pending = FALSE /\ stop_pending = FALSE
  /\ pc = "init" /\ terminal = FALSE /\ ready_file = FALSE
  /\ active = FALSE /\ vt_active = FALSE /\ enabled = TRUE
  /\ is_sleeping = FALSE /\ blanked = FALSE /\ saver = "back"
  /\ restarted = FALSE
-----------------------------------------------------------------------------
\* VirtualTerminal::init; any other of its calls may fail too.
InitFails ==
  /\ pc = "init"
  /\ pc' = "failed"
  /\ terminal' \in (IF SetsidFails THEN {FALSE} ELSE {FALSE, TRUE})
  /\ leader' = TRUE
  /\ UNCHANGED <<fg, newvt, process, touches, signalVars, active, vt_active,
                 is_sleeping, ready_file, blanked, saver, enabled, restarted>>

InitVt ==
  /\ pc = "init"
  /\ ~SetsidFails
  /\ leader' = TRUE /\ terminal' = TRUE /\ process' = TRUE
  /\ pc' = "screen"
  /\ UNCHANGED <<fg, newvt, touches, signalVars, active, vt_active, is_sleeping,
                 ready_file, blanked, saver, enabled, restarted>>

\* Fre3nderScreen::init with hal_init, which opens the touch device and throws
\* when the framebuffer is not the expected one
InitScreen ==
  /\ pc = "screen"
  /\ touches' = {} /\ blanked' = FALSE
  /\ pc' \in {"activate", "failed"}
  /\ UNCHANGED <<fg, newvt, process, leader, signalVars, terminal, active,
                 vt_active, is_sleeping, ready_file, saver, enabled, restarted>>

\* VT_ACTIVATE and VT_WAITACTIVE: vt 7 comes to the front, with a signal if it
\* was not there.
ActivateVt ==
  /\ pc = "activate"
  /\ fg' = "ui"
  /\ acquire_pending' = (acquire_pending \/ fg # "ui")
  /\ pc' = "activated"
  /\ UNCHANGED <<newvt, process, leader, touches, release_pending, stop_pending,
                 terminal, active, vt_active, is_sleeping, ready_file, blanked,
                 saver, enabled, restarted>>

Activated ==
  /\ pc = "activated"
  /\ acquire_pending' = FALSE
  /\ IF acquire_pending THEN RelDisp ELSE UNCHANGED <<fg, newvt>>
  /\ active' = TRUE
  /\ pc' = "first-frame"
  /\ UNCHANGED <<process, leader, touches, release_pending, stop_pending,
                 terminal, vt_active, is_sleeping, ready_file, blanked, saver,
                 enabled, restarted>>

\* lv_refr_now, then the ready file
FirstFrame ==
  /\ pc = "first-frame"
  /\ \/ ready_file' = TRUE /\ vt_active' = TRUE /\ pc' = "loop"
     \/ pc' = "failed" /\ UNCHANGED <<ready_file, vt_active>>
  /\ UNCHANGED <<kernelVars, signalVars, terminal, active, is_sleeping, blanked,
                 saver, enabled, restarted>>
-----------------------------------------------------------------------------
\* VirtualTerminal::poll, and what the loop does before it acknowledges
PollStop ==
  /\ pc = "loop" /\ stop_pending
  /\ pc' = "stopped"
  /\ blanked' = (blanked /\ ~vt_active)
  /\ UNCHANGED <<kernelVars, signalVars, terminal, active, vt_active,
                 is_sleeping, ready_file, saver, enabled, restarted>>

PollRelease_StaysDark ==
  /\ pc = "loop" /\ ~stop_pending /\ release_pending
  /\ release_pending' = FALSE
  /\ active' = FALSE
  /\ vt_active' = FALSE /\ enabled' = FALSE
  /\ UNCHANGED blanked /\ is_sleeping' = FALSE /\ saver' = "back"
  /\ pc' = "release"
  /\ UNCHANGED <<kernelVars, acquire_pending, stop_pending, terminal,
                 ready_file, restarted>>

PollRelease_StaysAsleep ==
  /\ pc = "loop" /\ ~stop_pending /\ release_pending
  /\ release_pending' = FALSE
  /\ active' = FALSE
  /\ vt_active' = FALSE /\ enabled' = FALSE
  /\ blanked' = FALSE /\ UNCHANGED is_sleeping /\ saver' = "back"
  /\ pc' = "release"
  /\ UNCHANGED <<kernelVars, acquire_pending, stop_pending, terminal,
                 ready_file, restarted>>

PollRelease_KeepsSignal ==
  /\ pc = "loop" /\ ~stop_pending /\ release_pending
  /\ UNCHANGED release_pending
  /\ active' = FALSE
  /\ vt_active' = FALSE /\ enabled' = FALSE
  /\ blanked' = FALSE /\ is_sleeping' = FALSE /\ saver' = "back"
  /\ pc' = "release"
  /\ UNCHANGED <<kernelVars, acquire_pending, stop_pending, terminal,
                 ready_file, restarted>>

PollRelease ==
  /\ pc = "loop" /\ ~stop_pending /\ release_pending
  /\ release_pending' = FALSE
  /\ active' = FALSE
  /\ vt_active' = FALSE /\ enabled' = FALSE
  /\ blanked' = FALSE /\ is_sleeping' = FALSE /\ saver' = "back"
  /\ pc' = "release"
  /\ UNCHANGED <<kernelVars, acquire_pending, stop_pending, terminal,
                 ready_file, restarted>>

AcknowledgeRelease_StaysActive ==
  /\ pc = "release"
  /\ IF RelDispFails(FALSE)
       THEN pc' = "failed" /\ UNCHANGED <<fg, newvt, active, touches>>
       ELSE RelDisp /\ active' = TRUE /\ touches' = {} /\ pc' = "handle"
  /\ UNCHANGED <<process, leader, signalVars, terminal, vt_active, is_sleeping,
                 ready_file, blanked, saver, enabled, restarted>>

AcknowledgeRelease_Denies ==
  /\ pc = "release"
  /\ IF RelDispFails(FALSE)
       THEN pc' = "failed" /\ UNCHANGED <<fg, newvt, active, touches>>
       ELSE newvt' = FALSE /\ UNCHANGED fg /\ active' = FALSE /\ touches' = {} /\ pc' = "handle"
  /\ UNCHANGED <<process, leader, signalVars, terminal, vt_active, is_sleeping,
                 ready_file, blanked, saver, enabled, restarted>>

\* acknowledge(false), which throws when no switch waits; touches drained
AcknowledgeRelease ==
  /\ pc = "release"
  /\ IF RelDispFails(FALSE)
       THEN pc' = "failed" /\ UNCHANGED <<fg, newvt, active, touches>>
       ELSE RelDisp /\ active' = FALSE /\ touches' = {} /\ pc' = "handle"
  /\ UNCHANGED <<process, leader, signalVars, terminal, vt_active, is_sleeping,
                 ready_file, blanked, saver, enabled, restarted>>

PollAcquire_KeepsTouches ==
  /\ pc = "loop" /\ ~stop_pending /\ ~release_pending /\ acquire_pending
  /\ acquire_pending' = FALSE
  /\ pc' = "acquire"
  /\ UNCHANGED <<kernelVars, release_pending, stop_pending,
                 terminal, active, vt_active, is_sleeping, ready_file, blanked,
                 saver, enabled, restarted>>

\* The touches made on the text console are drained.
PollAcquire ==
  /\ pc = "loop" /\ ~stop_pending /\ ~release_pending /\ acquire_pending
  /\ acquire_pending' = FALSE
  /\ touches' = {}
  /\ pc' = "acquire"
  /\ UNCHANGED <<fg, newvt, process, leader, release_pending, stop_pending,
                 terminal, active, vt_active, is_sleeping, ready_file, blanked,
                 saver, enabled, restarted>>

AcknowledgeAcquire ==
  /\ pc = "acquire"
  /\ RelDisp
  /\ active' = TRUE /\ vt_active' = TRUE /\ enabled' = TRUE
  /\ blanked' = FALSE
  /\ pc' = "handle"
  /\ UNCHANGED <<process, leader, touches, signalVars, terminal, is_sleeping,
                 ready_file, saver, restarted>>

PollNone ==
  /\ pc = "loop" /\ ~stop_pending /\ ~release_pending /\ ~acquire_pending
  /\ touches' = IF vt_active THEN touches ELSE {}
  /\ pc' = "handle"
  /\ UNCHANGED <<fg, newvt, process, leader, signalVars, terminal, active,
                 vt_active, is_sleeping, ready_file, blanked, saver, enabled,
                 restarted>>

\* lv_timer_handler reads the touches and draws; then the sleep logic
Touched == enabled /\ touches # {}

Handle(goesDark) ==
  /\ touches' = IF enabled THEN {} ELSE touches
  /\ is_sleeping' = (IF vt_active THEN ~Touched /\ (is_sleeping \/ goesDark)
                                  ELSE is_sleeping)
  /\ LET falls == is_sleeping' /\ ~is_sleeping
         wakes == is_sleeping /\ ~is_sleeping'
     IN  /\ blanked' = (falls \/ (blanked /\ ~wakes))
         /\ saver' = IF falls THEN "front" ELSE IF wakes THEN "back" ELSE saver
  /\ pc' = "loop"
  /\ UNCHANGED <<fg, newvt, process, leader, signalVars, terminal, active,
                 vt_active, ready_file, enabled, restarted>>

HandleTimers == pc = "handle" /\ \E goesDark \in BOOLEAN : Handle(goesDark)

\* The lock is free: another thread brings a panel to the front
\* (InitPanel::disconnected, PromptPanel::foreground).
RaisePanel ==
  /\ pc = "loop" /\ saver = "front"
  /\ saver' = "covered"
  /\ UNCHANGED <<kernelVars, signalVars, pc, terminal, active, vt_active,
                 is_sleeping, ready_file, blanked, enabled, restarted>>

\* The Restart Screen button: execl of the same program, in the same process.
\* (Its signal handlers are gone too: a signal would end it before init() does.)
Restart ==
  /\ pc = "handle" /\ Touched /\ saver = "back"
  /\ restarted' = TRUE
  /\ pc' = "init"
  /\ terminal' = FALSE /\ active' = FALSE /\ vt_active' = FALSE
  /\ is_sleeping' = FALSE /\ saver' = "back" /\ enabled' = TRUE
  /\ release_pending' = FALSE /\ acquire_pending' = FALSE /\ stop_pending' = FALSE
  /\ touches' = {}
  /\ UNCHANGED <<fg, newvt, process, leader, blanked, ready_file>>

\* VirtualTerminal::shutdown and the end of main(); VT_SETMODE drops a switch
\* that waits, VT_ACTIVATE brings vt 1 to the front.
Shutdown ==
  /\ pc \in {"stopped", "failed"}
  /\ active' = FALSE
  /\ IF terminal
       THEN process' = FALSE /\ newvt' = FALSE /\ fg' = "text" /\ terminal' = FALSE
       ELSE UNCHANGED <<process, newvt, fg, terminal>>
  /\ ready_file' = FALSE
  /\ pc' = "exited"
  /\ UNCHANGED <<leader, touches, signalVars, vt_active, is_sleeping, blanked,
                 saver, enabled, restarted>>
-----------------------------------------------------------------------------
AppNext ==
  \/ InitFails \/ InitVt \/ InitScreen \/ ActivateVt \/ Activated \/ FirstFrame
  \/ PollStop \/ PollRelease \/ AcknowledgeRelease
  \/ PollAcquire \/ AcknowledgeAcquire \/ PollNone
  \/ HandleTimers \/ Restart \/ Shutdown

\* No handover is under way: nothing to be acknowledged is left.
HandoverDone ==
  /\ ~release_pending /\ ~acquire_pending /\ ~newvt
  /\ pc \notin {"release", "acquire", "activated"}

Environment ==
  /\ pc # "exited"
  /\ \/ LeaveUi /\ (Patient => HandoverDone)
     \/ EnterUi \/ TouchPanel
     \/ Terminate /\ pc # "init"
  /\ UNCHANGED appVars

Next == AppNext \/ RaisePanel \/ Environment

Spec == Init /\ [][Next]_vars

\* The loop never blocks: it sleeps for 5 ms between two rounds.
Fairness == WF_vars(AppNext)

FairSpec == Spec /\ Fairness
-----------------------------------------------------------------------------
TypeOK ==
  /\ fg \in {"ui", "text"} /\ touches \subseteq {"ui", "text"}
  /\ {newvt, process, leader, release_pending, acquire_pending, stop_pending,
      terminal, active, vt_active, is_sleeping, ready_file, blanked, enabled,
      restarted} \subseteq BOOLEAN
  /\ pc \in {"init", "screen", "activate", "activated", "first-frame", "loop",
             "release", "acquire", "handle", "stopped", "failed", "exited"}
  /\ saver \in {"front", "covered", "back"}

\* "No framebuffer writes after the release acknowledgment": whenever LVGL may
\* flush, the framebuffer belongs to the screen.
NoWritesAfterRelease ==
  pc \in {"first-frame", "handle"} /\ active => fg = "ui"

\* "Leave tty1 visible even if the UI was in standby": a text console is never
\* dark, on any way the screen leaves or ends.
TextVisible == fg = "text" => ~blanked

\* acknowledge(false) answers a switch that waits, so it does not throw and
\* end the screen.
ReleaseAccepted == pc = "release" => newvt

\* Asleep, dark and covered by the screen saver go together: a panel that is
\* dark can be woken, and one that is lit does not swallow every touch.
SleepAgrees ==
  pc = "loop" => blanked = is_sleeping /\ (is_sleeping <=> saver # "back")

\* No touch made on the text console is left for the UI when it is back.
AcquireDrainsTouches ==
  [][pc = "acquire" /\ pc' = "handle" => "text" \notin touches']_vars

\* A console switch the user asks for is made (unless Restart ended the screen).
SwitchCompletes == newvt ~> (fg = "text" \/ restarted)

\* The inductive invariant of a patient user's display.
DisplayInv ==
  /\ TypeOK
  /\ pc = "init" => ~terminal
  /\ pc \notin {"init", "failed", "exited"} => terminal /\ process
  /\ newvt => fg = "ui" /\ process
  /\ active => fg = "ui" /\ process
  /\ vt_active /\ pc # "exited" => active
  /\ release_pending /\ pc # "exited" => newvt
  /\ pc = "release" => newvt /\ ~release_pending /\ ~vt_active
  /\ acquire_pending /\ pc # "exited" => fg = "ui" /\ ~newvt /\ ~vt_active
  /\ pc = "acquire" =>
       fg = "ui" /\ ~newvt /\ ~acquire_pending /\ ~vt_active /\ "text" \notin touches
  /\ pc \in {"activated", "first-frame"} => fg = "ui"
  /\ pc = "first-frame" => active /\ ~acquire_pending
  /\ pc \in {"init", "screen", "activate", "activated", "first-frame"} =>
       ~vt_active /\ ~is_sleeping /\ saver = "back"
  /\ is_sleeping => vt_active
  /\ blanked => is_sleeping /\ pc \in {"loop", "handle"}
  /\ pc \in {"loop", "release", "acquire", "handle"} =>
       blanked = is_sleeping /\ (is_sleeping <=> saver # "back")

\* "self restart": the program that Restart Screen executes gets past setsid().
SelfRestart == pc = "init" => ~SetsidFails
=============================================================================
