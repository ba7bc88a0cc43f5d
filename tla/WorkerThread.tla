---------------------------- MODULE WorkerThread ----------------------------
(***************************************************************************)
(* The thread a panel starts for one Management request, and what it       *)
(* shares with the UI thread: `result`, under result_mutex, and the atomic *)
(* flag `ready`.  (ota_panel.cpp, apps_panel.cpp, system_panel.cpp start   *)
(* the same lambda.)  Requests are numbered; 0 is no request.              *)
(***************************************************************************)
EXTENDS Naturals

CONSTANT MaxAsk   \* bound: requests ever started
ASSUME WorkerAssumption == MaxAsk \in Nat

VARIABLES thread,   \* "none": not joinable
          task,     \* the request the thread was started with
          result,   \* the request whose answer is in `result`
          ready
threadVars == <<thread, task, result, ready>>

ThreadInit == thread = "none" /\ task = 0 /\ result = 0 /\ ready = FALSE

\* std::thread(...), a std::terminate if the old one was not joined
Spawn(n) ==
  /\ thread' = "requesting"
  /\ task' = n

Joinable == thread # "none"

\* join(): waits until the thread has run to its end
Join ==
  /\ thread \in {"none", "exited"}
  /\ thread' = "none"

\* auto answer = request();
Respond ==
  /\ thread = "requesting"
  /\ thread' = "storing"
  /\ UNCHANGED <<task, result, ready>>

Store_Skipped ==
  /\ thread = "storing"
  /\ thread' = "publishing"
  /\ UNCHANGED <<task, result, ready>>

Store ==
  /\ thread = "storing"
  /\ result' = task
  /\ thread' = "publishing"
  /\ UNCHANGED <<task, ready>>

\* ready.store(true): the last thing the thread does
Publish ==
  /\ thread = "publishing"
  /\ ready' = TRUE
  /\ thread' = "exited"
  /\ UNCHANGED <<task, result>>

ThreadNext == Respond \/ Store \/ Publish

ThreadTypeOK ==
  /\ thread \in {"none", "requesting", "storing", "publishing", "exited"}
  /\ task \in 0 .. MaxAsk
  /\ result \in 0 .. MaxAsk
  /\ ready \in BOOLEAN
=============================================================================
