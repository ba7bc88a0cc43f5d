---------------------------- MODULE SystemWorker ----------------------------
(***************************************************************************)
(* SystemPanel::refresh and poll.  There is no `busy` flag here: a refresh *)
(* is refused while the worker runs, and one that finds an answer poll()   *)
(* has not collected yet drops it and asks again.                          *)
(***************************************************************************)
EXTENDS WorkerThread

CONSTANT Loading   \* the label reads "Loading system information..."

VARIABLES pc,      \* where the UI thread is in refresh() or poll()
          taken,   \* the request whose answer poll() has swapped out
          shown,   \* the request whose answer info_label shows
          asked    \* history: the last request started
uiVars == <<pc, taken, shown, asked>>
vars   == <<threadVars, uiVars>>

Init ==
  /\ ThreadInit
  /\ pc = "idle" /\ taken = 0 /\ shown = 0 /\ asked = 0

\* foreground() or the Refresh button; refused while the worker runs
Refresh ==
  /\ pc = "idle" /\ asked < MaxAsk
  /\ Joinable => ready
  /\ pc' = IF Joinable THEN "refresh-join" ELSE "refresh-clear"
  /\ UNCHANGED <<threadVars, taken, shown, asked>>

RefreshJoin ==
  /\ pc = "refresh-join"
  /\ Join
  /\ pc' = "refresh-clear"
  /\ UNCHANGED <<task, result, ready, taken, shown, asked>>

RefreshClear_KeepsReady ==
  /\ pc = "refresh-clear"
  /\ shown' = Loading
  /\ pc' = "refresh-spawn"
  /\ UNCHANGED <<threadVars, taken, asked>>

RefreshClear ==
  /\ pc = "refresh-clear"
  /\ ready' = FALSE
  /\ shown' = Loading
  /\ pc' = "refresh-spawn"
  /\ UNCHANGED <<thread, task, result, taken, asked>>

RefreshSpawn ==
  /\ pc = "refresh-spawn"
  /\ Spawn(asked + 1)
  /\ asked' = asked + 1
  /\ pc' = "idle"
  /\ UNCHANGED <<result, ready, taken, shown>>

\* poll(), from the timer: if (!ready.exchange(false)) return
Poll ==
  /\ pc = "idle" /\ ready
  /\ ready' = FALSE
  /\ pc' = "poll-take"
  /\ UNCHANGED <<thread, task, result, taken, shown, asked>>

PollTake ==
  /\ pc = "poll-take"
  /\ taken' = result
  /\ result' = 0
  /\ pc' = "poll-join"
  /\ UNCHANGED <<thread, task, ready, shown, asked>>

PollJoin ==
  /\ pc = "poll-join"
  /\ Join
  /\ shown' = taken
  /\ taken' = 0
  /\ pc' = "idle"
  /\ UNCHANGED <<task, result, ready, asked>>

UiNext == Refresh \/ RefreshJoin \/ RefreshClear \/ RefreshSpawn
            \/ Poll \/ PollTake \/ PollJoin

Next == UiNext \/ (ThreadNext /\ UNCHANGED uiVars)

Spec == Init /\ [][Next]_vars

\* As in RequestWorker.  MaxAsk stands for a user who does not press Refresh
\* for ever in the 100 ms between an answer and the timer.
Fairness ==
  /\ WF_vars(UiNext /\ pc # "idle") /\ WF_vars(Poll)
  /\ WF_vars(ThreadNext /\ UNCHANGED uiVars)

FairSpec == Spec /\ Fairness
-----------------------------------------------------------------------------
TypeOK ==
  /\ ThreadTypeOK
  /\ pc \in {"idle", "refresh-join", "refresh-clear", "refresh-spawn",
             "poll-take", "poll-join"}
  /\ taken \in 0 .. MaxAsk /\ asked \in 0 .. MaxAsk
  /\ shown \in {Loading} \cup 0 .. MaxAsk

\* The UI thread never waits for the network in join().
UiNeverWaits == pc \in {"refresh-join", "poll-join"} => thread \in {"none", "exited"}

\* An answer on the page is the answer to the last question, even after a
\* refresh that dropped an answer nobody collected.
ShownIsCurrent == shown \notin {0, Loading} => shown = asked

\* "Loading system information..." does not stay.
LoadingEnds == shown = Loading ~> shown \notin {0, Loading}
=============================================================================
