------------------------------ MODULE MCScreen -------------------------------
(***************************************************************************)
(* The parts of the UI loop that share no state, so that one run explores  *)
(* them one at a time: part is the one that moves.                         *)
(*   request  the worker thread of the OTA or Apps page (RequestWorker)    *)
(*   system   the System page's (SystemWorker)                             *)
(*   display  the console handover and the sleep (DisplayLoop)             *)
(*   beeper   the tone of a tap (TouchBeep)                                *)
(***************************************************************************)
EXTENDS RequestWorker, DisplayLoop

CONSTANT Loading

VARIABLES part,
  sysThread, sysTask, sysResult, sysReady, sysPc, sysTaken, sysShown, sysAsked,
  beeper_fd, stop_timer, recent, tone, works, ui

System == INSTANCE SystemWorker WITH
  thread <- sysThread, task <- sysTask, result <- sysResult, ready <- sysReady,
  pc <- sysPc, taken <- sysTaken, shown <- sysShown, asked <- sysAsked

Beeper == INSTANCE TouchBeep

sysVars == <<sysThread, sysTask, sysResult, sysReady, sysPc, sysTaken, sysShown, sysAsked>>
beepVars == <<beeper_fd, stop_timer, recent, tone, works, ui>>
screenVars == <<part, workerVars, sysVars, vars, beepVars>>

\* The parts that do not move start in one state.
ScreenInit ==
  /\ part \in {"request", "system", "display", "beeper"}
  /\ WorkerInit /\ System!Init /\ Init /\ Beeper!Init
  /\ part # "display" => fg = "ui"
  /\ part # "beeper" => ~beeper_fd

InRequest(A) == part = "request" /\ A /\ UNCHANGED <<part, sysVars, vars, beepVars>>
InSystem(A) == part = "system" /\ A /\ UNCHANGED <<part, workerVars, vars, beepVars>>
InDisplay(A) == part = "display" /\ A /\ UNCHANGED <<part, workerVars, sysVars, beepVars>>
InBeeper(A) == part = "beeper" /\ A /\ UNCHANGED <<part, workerVars, sysVars, vars>>

ScreenNext ==
  \/ InRequest(WorkerNext) \/ InSystem(System!Next)
  \/ InDisplay(Next) \/ InBeeper(Beeper!Next)

\* The fairness of the parts, each of the one that moves.
ScreenFairness ==
  /\ WF_screenVars(InRequest(UiNext /\ ui_pc # "idle")) /\ WF_screenVars(InRequest(Poll))
  /\ WF_screenVars(InRequest(ThreadNext /\ UNCHANGED uiVars))
  /\ WF_screenVars(InSystem(System!UiNext /\ sysPc # "idle"))
  /\ WF_screenVars(InSystem(System!Poll))
  /\ WF_screenVars(InSystem(System!ThreadNext /\ UNCHANGED <<sysPc, sysTaken, sysShown, sysAsked>>))
  /\ WF_screenVars(InDisplay(AppNext))
  /\ WF_screenVars(InBeeper(Beeper!StopTone))

ScreenSpec == ScreenInit /\ [][ScreenNext]_screenVars /\ ScreenFairness
-----------------------------------------------------------------------------
\* The System page never shows the answer to an older question.
ShownIsCurrent == System!ShownIsCurrent

\* The System page does not stay at "Loading system information...".
LoadingEnds == System!LoadingEnds

\* A tone ends.
ToneEnds == Beeper!ToneEnds
=============================================================================
