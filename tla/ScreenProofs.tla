---------------------------- MODULE ScreenProofs ----------------------------
(***************************************************************************)
(* Proofs about the parts of the UI loop.                                  *)
(*   The worker of the OTA and Apps pages, for every number of requests:   *)
(*   WorkerInv is inductive, the UI thread never waits, and the worker     *)
(*   implements the safety part of AsyncRequest.                           *)
(*   The System page's worker, which has no busy flag: the UI thread never *)
(*   waits, and the page never shows an older answer.                      *)
(*   The display, for a user who leaves vt 7 only when no handover is      *)
(*   under way: the framebuffer is never written while it belongs to a     *)
(*   text console, no text console is dark, and the release is always      *)
(*   accepted.                                                             *)
(***************************************************************************)
EXTENDS MCScreen, TLAPS

-----------------------------------------------------------------------------
(* The worker of the OTA and Apps pages.                                    *)

\* Names the actions for the proofs below.
LEMMA WorkerCases ==
  ASSUME WorkerNext
  PROVE  UiNext \/ ((Respond \/ Store \/ Publish) /\ UNCHANGED uiVars)
BY DEF WorkerNext, ThreadNext

\* WorkerInv is preserved by what the UI thread does in start().
LEMMA AskKeeps ==
  ASSUME WorkerInv, Start \/ StartJoin \/ StartClear \/ StartSpawn
  PROVE  WorkerInv'
<1> USE WorkerAssumption DEF WorkerInv, WorkerTypeOK, ThreadTypeOK, Joinable, threadVars
<1>1. CASE Start       BY <1>1 DEF Start
<1>2. CASE StartJoin   BY <1>2 DEF StartJoin, Join
<1>3. CASE StartClear  BY <1>3 DEF StartClear
<1>4. CASE StartSpawn  BY <1>4 DEF StartSpawn, Spawn
<1> QED BY <1>1, <1>2, <1>3, <1>4

\* WorkerInv is preserved by what the UI thread does in poll().
LEMMA PollKeeps ==
  ASSUME WorkerInv, Poll \/ PollTake \/ PollJoin \/ PollDeliver
  PROVE  WorkerInv'
<1> USE WorkerAssumption DEF WorkerInv, WorkerTypeOK, ThreadTypeOK, Joinable, threadVars
<1>1. CASE Poll        BY <1>1 DEF Poll
<1>2. CASE PollTake    BY <1>2 DEF PollTake
<1>3. CASE PollJoin    BY <1>3 DEF PollJoin, Join
<1>4. CASE PollDeliver BY <1>4 DEF PollDeliver
<1> QED BY <1>1, <1>2, <1>3, <1>4

\* WorkerInv is preserved by the steps of the worker thread.
LEMMA ThreadKeeps ==
  ASSUME WorkerInv, Respond \/ Store \/ Publish, UNCHANGED uiVars
  PROVE  WorkerInv'
<1>1. CASE Respond
  BY <1>1, WorkerAssumption
  DEF Respond, uiVars, WorkerInv, WorkerTypeOK, ThreadTypeOK, Joinable
<1>2. CASE Store
  BY <1>2, WorkerAssumption
  DEF Store, uiVars, WorkerInv, WorkerTypeOK, ThreadTypeOK, Joinable
<1>3. CASE Publish
  BY <1>3, WorkerAssumption
  DEF Publish, uiVars, WorkerInv, WorkerTypeOK, ThreadTypeOK, Joinable
<1> QED BY <1>1, <1>2, <1>3

\* What start(), poll() and the worker's lambda rely on holds in every state.
THEOREM WorkerInvariant == WorkerSpec => []WorkerInv
<1>1. WorkerInit => WorkerInv
  <2> SUFFICES ASSUME WorkerInit PROVE WorkerInv
    OBVIOUS
  <2>1. 0 \in 0 .. MaxAsk
    BY WorkerAssumption
  <2>2. WorkerTypeOK
    BY <2>1 DEF WorkerInit, ThreadInit, WorkerTypeOK, ThreadTypeOK
  <2> QED
    BY <2>2 DEF WorkerInit, ThreadInit, WorkerInv, Joinable
<1>2. WorkerInv /\ [WorkerNext]_workerVars => WorkerInv'
  <2> SUFFICES ASSUME WorkerInv, [WorkerNext]_workerVars PROVE WorkerInv'
    OBVIOUS
  <2>1. CASE UNCHANGED workerVars
    BY <2>1
    DEF workerVars, threadVars, uiVars, WorkerInv, WorkerTypeOK, ThreadTypeOK, Joinable
  <2>2. CASE WorkerNext
    BY <2>2, WorkerCases, AskKeeps, PollKeeps, ThreadKeeps DEF UiNext
  <2> QED BY <2>1, <2>2
<1> QED BY <1>1, <1>2, PTL DEF WorkerSpec

\* join() in start() and in poll() finds a worker that has published: the UI
\* thread never waits for the network.
THEOREM NeverWaits == WorkerSpec => []UiNeverWaits
<1>1. WorkerInv => UiNeverWaits
  BY DEF WorkerInv, UiNeverWaits
<1> QED BY <1>1, WorkerInvariant, PTL

\* poll() hands on the answer of the request that start() was last called for.
THEOREM CurrentAnswer == WorkerSpec => []AnswerIsCurrent
<1>1. WorkerInv => AnswerIsCurrent
  BY DEF WorkerInv, AnswerIsCurrent
<1> QED BY <1>1, WorkerInvariant, PTL

\* Requests and answers alternate: start() and poll() implement AsyncRequest
\* (its safety part; that every answer comes is checked by TLC).
THEOREM SafeRefinement == WorkerSpec => Async!Spec
<1>1. WorkerInit => Async!Init
  BY DEF WorkerInit, Async!Init
<1>2. WorkerInv /\ [WorkerNext]_workerVars => [Async!Next]_(Async!vars)
  <2> SUFFICES ASSUME WorkerInv, [WorkerNext]_workerVars
               PROVE  Async!Next \/ UNCHANGED <<asked, delivered>>
    BY DEF Async!vars
  <2>1. CASE StartSpawn
    BY <2>1 DEF StartSpawn, WorkerInv, Joinable, Async!Next, Async!Ask
  <2>2. CASE PollDeliver
    BY <2>2 DEF PollDeliver, WorkerInv, WorkerTypeOK, Async!Next, Async!Deliver
  <2>3. CASE UNCHANGED workerVars
    BY <2>3 DEF workerVars, uiVars
  <2>4. CASE WorkerNext /\ ~StartSpawn /\ ~PollDeliver
    BY <2>4 DEF WorkerNext, UiNext, uiVars, Start, StartJoin, StartClear,
                Poll, PollTake, PollJoin
  <2> QED BY <2>1, <2>2, <2>3, <2>4
<1> QED BY <1>1, <1>2, WorkerInvariant, PTL DEF WorkerSpec, Async!Spec

-----------------------------------------------------------------------------
(* The worker of the System page.                                           *)

\* The inductive invariant.  While the thread runs it works on the last
\* request; ready is set by its last step and cleared before the next thread
\* starts, so an answer that poll() takes, and one that a refresh drops, is
\* one the thread has published.
SystemInv ==
  /\ sysPc \in {"idle", "refresh-join", "refresh-clear", "refresh-spawn", "poll-take", "poll-join"}
  /\ sysThread \in {"none", "requesting", "storing", "publishing", "exited"}
  /\ sysPc = "idle" =>
       /\ sysReady => sysThread = "exited"
       /\ sysThread = "exited" => sysReady
       /\ sysThread # "none" => sysTask = sysAsked
       /\ sysThread \in {"publishing", "exited"} => sysResult = sysAsked
  /\ sysPc \in {"refresh-join", "poll-take", "poll-join"} => sysThread = "exited"
  /\ sysPc \in {"refresh-clear", "refresh-spawn"} => sysThread = "none"
  /\ sysPc \in {"refresh-spawn", "poll-take", "poll-join"} => ~sysReady
  /\ sysPc = "poll-take" => sysResult = sysAsked
  /\ sysPc = "poll-join" => sysTaken = sysAsked
  /\ sysPc = "refresh-spawn" => sysShown = Loading
  /\ sysShown \notin {0, Loading} => sysShown = sysAsked

\* SystemInv is preserved by refresh().
LEMMA RefreshKeeps ==
  ASSUME SystemInv,
         System!Refresh \/ System!RefreshJoin \/ System!RefreshClear \/ System!RefreshSpawn
  PROVE  SystemInv'
<1>1. CASE System!Refresh
  BY <1>1 DEF System!Refresh, System!Joinable, System!threadVars, SystemInv
<1>2. CASE System!RefreshJoin
  BY <1>2 DEF System!RefreshJoin, System!Join, SystemInv
<1>3. CASE System!RefreshClear
  BY <1>3 DEF System!RefreshClear, SystemInv
<1>4. CASE System!RefreshSpawn
  BY <1>4 DEF System!RefreshSpawn, System!Spawn, SystemInv
<1> QED BY <1>1, <1>2, <1>3, <1>4

\* SystemInv is preserved by poll().
LEMMA CollectKeeps ==
  ASSUME SystemInv, System!Poll \/ System!PollTake \/ System!PollJoin
  PROVE  SystemInv'
<1>1. CASE System!Poll
  BY <1>1 DEF System!Poll, SystemInv
<1>2. CASE System!PollTake
  BY <1>2 DEF System!PollTake, SystemInv
<1>3. CASE System!PollJoin
  BY <1>3 DEF System!PollJoin, System!Join, SystemInv
<1> QED BY <1>1, <1>2, <1>3

\* SystemInv is preserved by the steps of the thread.
LEMMA RequestKeeps ==
  ASSUME SystemInv, System!Respond \/ System!Store \/ System!Publish, UNCHANGED System!uiVars
  PROVE  SystemInv'
<1> USE DEF System!uiVars, SystemInv
<1>1. CASE System!Respond
  BY <1>1 DEF System!Respond
<1>2. CASE System!Store
  BY <1>2 DEF System!Store
<1>3. CASE System!Publish
  BY <1>3 DEF System!Publish
<1> QED BY <1>1, <1>2, <1>3

\* Whatever the other parts of the loop do, SystemInv holds.
THEOREM SystemInvariant == ScreenSpec => []SystemInv
<1>1. ScreenInit => SystemInv
  BY DEF ScreenInit, System!Init, System!ThreadInit, SystemInv
<1>2. SystemInv /\ [ScreenNext]_screenVars => SystemInv'
  <2> SUFFICES ASSUME SystemInv, System!Next \/ UNCHANGED sysVars PROVE SystemInv'
    BY DEF ScreenNext, InRequest, InSystem, InDisplay, InBeeper, screenVars
  <2>1. CASE UNCHANGED sysVars
    BY <2>1 DEF sysVars, SystemInv
  <2> QED BY <2>1, RefreshKeeps, CollectKeeps, RequestKeeps
          DEF System!Next, System!UiNext, System!ThreadNext
<1> QED BY <1>1, <1>2, PTL DEF ScreenSpec

\* A refresh that finds an answer nobody collected, and poll(), join a thread
\* that has ended.
THEOREM RefreshNeverWaits == ScreenSpec => []System!UiNeverWaits
<1>1. SystemInv => System!UiNeverWaits
  BY DEF SystemInv, System!UiNeverWaits
<1> QED BY <1>1, SystemInvariant, PTL

\* The System page never shows the answer to an older question.
THEOREM SystemShowsCurrent == ScreenSpec => []ShownIsCurrent
<1>1. SystemInv => ShownIsCurrent
  BY DEF SystemInv, ShownIsCurrent, System!ShownIsCurrent
<1> QED BY <1>1, SystemInvariant, PTL

-----------------------------------------------------------------------------
(* The display.                                                             *)

\* The inductive step for the start-up and the end of main().
LEMMA StartKeeps ==
  ASSUME DisplayInv,
         \/ InitFails \/ InitVt \/ InitScreen \/ ActivateVt \/ Activated
         \/ FirstFrame \/ Restart \/ Shutdown
  PROVE  DisplayInv'
<1>1. CASE InitFails
  BY <1>1 DEF InitFails, DisplayInv, TypeOK, SetsidFails, signalVars
<1>2. CASE InitVt
  BY <1>2 DEF InitVt, DisplayInv, TypeOK, SetsidFails, signalVars
<1>3. CASE InitScreen
  BY <1>3 DEF InitScreen, DisplayInv, TypeOK, signalVars
<1>4. CASE ActivateVt
  BY <1>4 DEF ActivateVt, DisplayInv, TypeOK
<1>5. CASE Activated
  BY <1>5 DEF Activated, DisplayInv, TypeOK, RelDisp
<1>6. CASE FirstFrame
  <2>1. UNCHANGED <<kernelVars, signalVars, terminal, active, is_sleeping,
                    blanked, saver, enabled, restarted>> /\ pc = "first-frame"
    BY <1>6 DEF FirstFrame
  <2>2. CASE pc' = "failed" /\ UNCHANGED <<ready_file, vt_active>>
    BY <2>1, <2>2 DEF DisplayInv, TypeOK, kernelVars, signalVars
  <2>3. CASE ready_file' = TRUE /\ vt_active' = TRUE /\ pc' = "loop"
    BY <2>1, <2>3 DEF DisplayInv, TypeOK, kernelVars, signalVars
  <2> QED BY <1>6, <2>2, <2>3 DEF FirstFrame
<1>7. CASE Restart
  BY <1>7 DEF Restart, DisplayInv, TypeOK
<1>8. CASE Shutdown
  <2> USE DEF Shutdown, DisplayInv, TypeOK, signalVars
  <2>1. CASE terminal
    BY <1>8, <2>1
  <2>2. CASE ~terminal
    BY <1>8, <2>2
  <2> QED BY <2>1, <2>2
<1> QED BY <1>1, <1>2, <1>3, <1>4, <1>5, <1>6, <1>7, <1>8

\* The inductive step for one round of the loop.
LEMMA LoopKeeps ==
  ASSUME DisplayInv,
         \/ PollStop \/ PollRelease \/ AcknowledgeRelease \/ PollAcquire
         \/ AcknowledgeAcquire \/ PollNone \/ HandleTimers \/ RaisePanel
  PROVE  DisplayInv'
<1>1. CASE PollStop
  BY <1>1 DEF PollStop, DisplayInv, TypeOK, kernelVars, signalVars
<1>2. CASE PollRelease
  BY <1>2 DEF PollRelease, DisplayInv, TypeOK, kernelVars
<1>3. CASE AcknowledgeRelease
  BY <1>3 DEF AcknowledgeRelease, DisplayInv, TypeOK, RelDisp, RelDispFails,
              signalVars
<1>4. CASE PollAcquire
  BY <1>4 DEF PollAcquire, DisplayInv, TypeOK
<1>5. CASE AcknowledgeAcquire
  BY <1>5 DEF AcknowledgeAcquire, DisplayInv, TypeOK, RelDisp, signalVars
<1>6. CASE PollNone
  BY <1>6 DEF PollNone, DisplayInv, TypeOK, signalVars
<1>7. CASE HandleTimers
  <2>1. PICK goesDark \in BOOLEAN : Handle(goesDark)
    BY <1>7 DEF HandleTimers
  <2>2. pc = "handle" /\ pc' = "loop"
    BY <1>7, <2>1 DEF HandleTimers, Handle
  <2>3. UNCHANGED <<fg, newvt, process, leader, signalVars, terminal, active,
                    vt_active, ready_file, enabled, restarted>>
    BY <2>1 DEF Handle
  <2>4. touches' \in {touches, {}}
    BY <2>1 DEF Handle
  <2>5. CASE ~vt_active
    <3>1. ~is_sleeping /\ ~is_sleeping' /\ is_sleeping' \in BOOLEAN
      BY <2>1, <2>5 DEF Handle, DisplayInv, TypeOK
    <3>2. ~blanked' /\ blanked' \in BOOLEAN /\ saver' = saver
      BY <2>1, <3>1 DEF Handle, DisplayInv, TypeOK
    <3> QED BY <2>2, <2>3, <2>4, <2>5, <3>1, <3>2
            DEF DisplayInv, TypeOK, signalVars
  <2>6. CASE vt_active
    <3>1. is_sleeping' \in BOOLEAN
      BY <2>1, <2>6 DEF Handle, Touched, DisplayInv, TypeOK
    <3>2. CASE is_sleeping'
      <4>1. blanked' /\ blanked' \in BOOLEAN /\ saver' \in {"front", "covered"}
        BY <2>1, <2>2, <3>2 DEF Handle, DisplayInv, TypeOK
      <4> QED BY <2>2, <2>3, <2>4, <2>6, <3>1, <3>2, <4>1
              DEF DisplayInv, TypeOK, signalVars
    <3>3. CASE ~is_sleeping'
      <4>1. ~blanked' /\ blanked' \in BOOLEAN /\ saver' = "back"
        BY <2>1, <2>2, <3>3 DEF Handle, DisplayInv, TypeOK
      <4> QED BY <2>2, <2>3, <2>4, <2>6, <3>1, <3>3, <4>1
              DEF DisplayInv, TypeOK, signalVars
    <3> QED BY <3>2, <3>3
  <2> QED BY <2>5, <2>6
<1>8. CASE RaisePanel
  BY <1>8 DEF RaisePanel, DisplayInv, TypeOK, kernelVars, signalVars
<1> QED BY <1>1, <1>2, <1>3, <1>4, <1>5, <1>6, <1>7, <1>8

\* The inductive step for the kernel, the touches and the signals.
LEMMA EnvironmentKeeps ==
  ASSUME Patient, DisplayInv, Environment
  PROVE  DisplayInv'
<1> USE DEF Environment, appVars, DisplayInv, TypeOK
<1>1. CASE LeaveUi /\ HandoverDone
  <2>1. CASE process
    BY <1>1, <2>1 DEF LeaveUi, HandoverDone
  <2>2. CASE ~process
    BY <1>1, <2>2 DEF LeaveUi, HandoverDone
  <2> QED BY <2>1, <2>2
<1>2. CASE EnterUi
  BY <1>2 DEF EnterUi
<1>3. CASE TouchPanel
  BY <1>3 DEF TouchPanel, signalVars
<1>4. CASE Terminate
  BY <1>4 DEF Terminate, kernelVars
<1> QED BY <1>1, <1>2, <1>3, <1>4

\* The handover between the screen and the text consoles keeps DisplayInv.
THEOREM DisplayInvariant ==
  ASSUME Patient
  PROVE  Spec => []DisplayInv
<1>1. Init => DisplayInv
  BY DEF Init, DisplayInv, TypeOK
<1>2. DisplayInv /\ [Next]_vars => DisplayInv'
  <2> SUFFICES ASSUME DisplayInv, [Next]_vars PROVE DisplayInv'
    OBVIOUS
  <2>1. CASE UNCHANGED vars
    BY <2>1 DEF vars, kernelVars, signalVars, appVars, DisplayInv, TypeOK
  <2>2. CASE Next
    BY <2>2, StartKeeps, LoopKeeps, EnvironmentKeeps DEF Next, AppNext
  <2> QED BY <2>1, <2>2
<1> QED BY <1>1, <1>2, PTL DEF Spec

\* virtual_terminal.cpp: no framebuffer writes after the release acknowledgment.
THEOREM NoWrites ==
  ASSUME Patient
  PROVE  Spec => []NoWritesAfterRelease
<1>1. DisplayInv => NoWritesAfterRelease
  BY DEF DisplayInv, NoWritesAfterRelease
<1> QED BY <1>1, DisplayInvariant, PTL

\* fre3nderscreen.cpp: tty1 is visible even if the UI was in standby.
THEOREM TextStaysVisible ==
  ASSUME Patient
  PROVE  Spec => []TextVisible
<1>1. DisplayInv => TextVisible
  BY DEF DisplayInv, TextVisible, TypeOK
<1> QED BY <1>1, DisplayInvariant, PTL

\* VT_RELDISP finds a switch that waits: acknowledge(false) does not throw.
THEOREM ReleaseIsAccepted ==
  ASSUME Patient
  PROVE  Spec => []ReleaseAccepted
<1>1. DisplayInv => ReleaseAccepted
  BY DEF DisplayInv, ReleaseAccepted
<1> QED BY <1>1, DisplayInvariant, PTL

\* Asleep, dark and covered by the screen saver go together.
THEOREM SleepStaysAgreed ==
  ASSUME Patient
  PROVE  Spec => []SleepAgrees
<1>1. DisplayInv => SleepAgrees
  BY DEF DisplayInv, SleepAgrees
<1> QED BY <1>1, DisplayInvariant, PTL

\* fre3nderscreen.cpp: the touches made on the text console are drained before
\* the touch device is enabled again.
THEOREM TouchesAreDrained ==
  ASSUME Patient
  PROVE  Spec => AcquireDrainsTouches
<1>1. DisplayInv /\ [Next]_vars
        => [pc = "acquire" /\ pc' = "handle" => "text" \notin touches']_vars
  <2> SUFFICES ASSUME DisplayInv, Next, pc = "acquire", pc' = "handle"
               PROVE  "text" \notin touches'
    BY DEF vars, appVars
  <2>1. AcknowledgeAcquire
    BY DEF Next, AppNext, Environment, appVars, RaisePanel, InitFails, InitVt,
           InitScreen, ActivateVt, Activated, FirstFrame, PollStop, PollRelease,
           AcknowledgeRelease, PollAcquire, PollNone, HandleTimers, Restart, Shutdown
  <2> QED BY <2>1 DEF AcknowledgeAcquire, DisplayInv
<1> QED BY <1>1, DisplayInvariant, PTL DEF Spec, AcquireDrainsTouches
=============================================================================
