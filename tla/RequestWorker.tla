--------------------------- MODULE RequestWorker ----------------------------
(***************************************************************************)
(* OtaPanel::start/poll and AppsPanel::start/poll: the UI thread starts a  *)
(* worker thread for a request and collects its answer in poll().  The UI  *)
(* thread's steps are cut where they touch what the worker shares.         *)
(***************************************************************************)
EXTENDS WorkerThread

VARIABLES ui_pc,         \* where the UI thread is in start() or poll()
          busy,
          taken,      \* the request whose answer poll() has moved out of `result`
          asked,      \* history: the last request started
          delivered   \* history: the last request whose answer was handled
uiVars == <<ui_pc, busy, taken, asked, delivered>>
workerVars   == <<threadVars, uiVars>>

WorkerInit ==
  /\ ThreadInit
  /\ ui_pc = "idle" /\ busy = FALSE /\ taken = 0 /\ asked = 0 /\ delivered = 0

Start_IgnoresBusy ==
  /\ ui_pc = "idle" /\ asked < MaxAsk
  /\ ui_pc' = "start-join"
  /\ UNCHANGED <<threadVars, busy, taken, asked, delivered>>

\* start(): if (busy) return
Start ==
  /\ ui_pc = "idle" /\ asked < MaxAsk
  /\ ~busy
  /\ ui_pc' = "start-join"
  /\ UNCHANGED <<threadVars, busy, taken, asked, delivered>>

StartJoin ==
  /\ ui_pc = "start-join"
  /\ Join
  /\ busy' = TRUE
  /\ ui_pc' = "start-clear"
  /\ UNCHANGED <<task, result, ready, taken, asked, delivered>>

StartClear ==
  /\ ui_pc = "start-clear"
  /\ ready' = FALSE
  /\ ui_pc' = "start-spawn"
  /\ UNCHANGED <<thread, task, result, busy, taken, asked, delivered>>

StartSpawn ==
  /\ ui_pc = "start-spawn"
  /\ Spawn(asked + 1)
  /\ asked' = asked + 1
  /\ ui_pc' = "idle"
  /\ UNCHANGED <<result, ready, busy, taken, delivered>>

\* poll(): if (ready.exchange(false))
Poll ==
  /\ ui_pc = "idle" /\ ready
  /\ ready' = FALSE
  /\ ui_pc' = "poll-take"
  /\ UNCHANGED <<thread, task, result, busy, taken, asked, delivered>>

PollTake ==
  /\ ui_pc = "poll-take"
  /\ taken' = result
  /\ result' = 0
  /\ ui_pc' = "poll-join"
  /\ UNCHANGED <<thread, task, ready, busy, asked, delivered>>

PollJoin ==
  /\ ui_pc = "poll-join"
  /\ Join
  /\ busy' = FALSE
  /\ ui_pc' = "poll-deliver"
  /\ UNCHANGED <<task, result, ready, taken, asked, delivered>>

\* The answer is handled; the handler may start the next request at once.
PollDeliver ==
  /\ ui_pc = "poll-deliver"
  /\ delivered' = taken
  /\ taken' = 0
  /\ ui_pc' \in {"idle"} \cup (IF asked < MaxAsk THEN {"start-join"} ELSE {})
  /\ UNCHANGED <<threadVars, busy, asked>>

UiNext == Start \/ StartJoin \/ StartClear \/ StartSpawn
            \/ Poll \/ PollTake \/ PollJoin \/ PollDeliver

WorkerNext == UiNext \/ (ThreadNext /\ UNCHANGED uiVars)

WorkerSpec == WorkerInit /\ [][WorkerNext]_workerVars

\* The UI loop keeps calling poll() and never stops inside a call; a request
\* returns, by its timeout if need be.
WorkerFairness ==
  /\ WF_workerVars(UiNext /\ ui_pc # "idle") /\ WF_workerVars(Poll)
  /\ WF_workerVars(ThreadNext /\ UNCHANGED uiVars)

WorkerFairSpec == WorkerSpec /\ WorkerFairness
-----------------------------------------------------------------------------
WorkerTypeOK ==
  /\ ThreadTypeOK
  /\ ui_pc \in {"idle", "start-join", "start-clear", "start-spawn",
             "poll-take", "poll-join", "poll-deliver"}
  /\ busy \in BOOLEAN
  /\ taken \in 0 .. MaxAsk /\ asked \in 0 .. MaxAsk /\ delivered \in 0 .. MaxAsk

\* The UI thread never waits for the network: when it joins the worker, the
\* worker has already published its answer.
UiNeverWaits == ui_pc \in {"start-join", "poll-join"} => thread \in {"none", "exited"}

\* The answer poll() hands on is that of the request made last.
AnswerIsCurrent == ui_pc \in {"poll-join", "poll-deliver"} => taken = asked

\* The UI thread is told of an answer exactly once, and of every answer.
Async == INSTANCE AsyncRequest
ImplementsAsync == Async!FairSpec

\* The inductive invariant.
WorkerInv ==
  /\ WorkerTypeOK
  /\ ui_pc = "idle" /\ ~busy => thread = "none" /\ ~ready
  /\ ui_pc = "idle" /\ busy => Joinable /\ task = asked
                              /\ (ready => thread = "exited")
                              /\ (thread = "exited" => ready)
                              /\ (thread \in {"publishing", "exited"} => result = asked)
  /\ ui_pc \in {"start-join", "start-clear", "start-spawn"} =>
       thread = "none" /\ ~ready /\ asked < MaxAsk
  /\ ui_pc = "start-join" => ~busy
  /\ ui_pc \in {"start-clear", "start-spawn"} => busy
  /\ ui_pc = "poll-take" => thread = "exited" /\ busy /\ ~ready /\ result = asked
  /\ ui_pc = "poll-join" => thread = "exited" /\ busy /\ ~ready /\ taken = asked
  /\ ui_pc = "poll-deliver" => thread = "none" /\ ~busy /\ ~ready /\ taken = asked
  /\ asked = (IF Joinable \/ ui_pc = "poll-deliver" THEN delivered + 1 ELSE delivered)
=============================================================================
