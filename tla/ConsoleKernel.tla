--------------------------- MODULE ConsoleKernel ----------------------------
(***************************************************************************)
(* The Linux virtual terminals, as virtual_terminal.cpp uses them: vt 7    *)
(* ("ui") belongs to the screen, every other one ("text") is a plain       *)
(* console in VT_AUTO mode.  In VT_PROCESS mode leaving vt 7 waits for the *)
(* owner's VT_RELDISP, and entering it is only announced.  External.       *)
(***************************************************************************)
EXTENDS Naturals

VARIABLES fg,       \* the vt in the foreground
          newvt,    \* a switch away from vt 7 waits for VT_RELDISP
          process,  \* vt 7 is in VT_PROCESS mode
          leader,   \* the process is a session leader
          touches,  \* the vts in front when the touches not read yet were made
          release_pending, acquire_pending, stop_pending
               \* set by the signal handler of virtual_terminal.cpp
signalVars == <<release_pending, acquire_pending, stop_pending>>
kernelVars == <<fg, newvt, process, leader, touches>>

\* setsid(): refused to a process that leads its process group
SetsidFails == leader

\* Alt-Fn or chvt to a text console; repeated while one waits, it signals again
LeaveUi ==
  /\ fg = "ui"
  /\ IF process
       THEN newvt' = TRUE /\ release_pending' = TRUE /\ UNCHANGED fg
       ELSE fg' = "text" /\ UNCHANGED <<newvt, release_pending>>
  /\ UNCHANGED <<process, leader, touches, acquire_pending, stop_pending>>

\* vt 7 in front again, announced by SIGUSR2
EnterUi ==
  /\ fg = "text"
  /\ fg' = "ui"
  /\ acquire_pending' = (acquire_pending \/ process)
  /\ UNCHANGED <<newvt, process, leader, touches, release_pending, stop_pending>>

\* ioctl(VT_RELDISP): it ends the switch that waits, whichever of the two
\* acknowledgments it is; with no switch waiting only VT_ACKACQ is accepted.
RelDispFails(acquired) == ~newvt /\ ~acquired
RelDisp ==
  /\ fg' = IF newvt THEN "text" ELSE fg
  /\ newvt' = FALSE

TouchPanel ==
  /\ touches' = touches \cup {fg}
  /\ UNCHANGED <<fg, newvt, process, leader, signalVars>>

\* SIGTERM, SIGINT or SIGHUP
Terminate ==
  /\ ~stop_pending
  /\ stop_pending' = TRUE
  /\ UNCHANGED <<kernelVars, release_pending, acquire_pending>>
=============================================================================
