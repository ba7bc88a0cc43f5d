----------------------------- MODULE OtaSystem ------------------------------
(***************************************************************************)
(* The OTA page, the Core and what lies between them: a request can be     *)
(* answered, answered badly or lost, and a POST whose answer was lost may  *)
(* still reach the Core later; the web page and an operator at the printer *)
(* use the same Core; the screen process may restart with a request out.   *)
(***************************************************************************)
EXTENDS OtaPanel, OtaCore

VARIABLES late,   \* POSTs nobody waits for that the Core may still carry out
          webs    \* history: interventions by others so far

envVars == <<late, webs>>
vars    == <<panelVars, coreVars, envVars>>

Init == PanelInit /\ life = 1 /\ CoreInit /\ late = {} /\ webs = 0

IsPost(r) == r.op \notin {"none", "status"}

Answered(a) ==
  /\ answer' = a /\ wire' = NoReq
  /\ UNCHANGED <<open, busy, flowVars, snapshot, choiceVars, selected_package, armed,
                 pending_execution, submitted_operation, status_request, update, life>>
-----------------------------------------------------------------------------
HandleStatus ==
  /\ wire.op = "status"
  /\ Answered([kind |-> "status", snap |-> Overview])
  /\ UNCHANGED <<coreVars, envVars>>

HandlePost ==
  /\ IsPost(wire)
  /\ IF Admits(wire)
     THEN /\ Accept(wire)
          /\ Answered([kind |-> "accepted", id |-> exec'.id, pkg |-> exec'.req.pkg])
     ELSE /\ Answered([kind |-> "error", unclear |-> FALSE])
          /\ UNCHANGED coreVars
  /\ UNCHANGED envVars

\* No answer, a server error or one that is not the API's: a POST may still
\* be carried out.
LoseAnswer ==
  /\ wire.op # "none"
  /\ \E a \in {[kind |-> "malformed"], [kind |-> "error", unclear |-> TRUE]} : Answered(a)
  /\ late' \in IF IsPost(wire) THEN {late, late \cup {wire}} ELSE {late}
  /\ UNCHANGED <<coreVars, webs>>

HandleLate ==
  \E r \in late :
    /\ late' = late \ {r}
    /\ \/ Admits(r) /\ Accept(r)
       \/ UNCHANGED coreVars
    /\ UNCHANGED <<panelVars, webs>>

WebSubmit ==
  /\ webs < MaxWeb
  /\ \E o \in Op, p \in staged \cup {NoPkg}, h \in HomeChoice, s \in SysChoice :
       LET r == [op |-> o, pkg |-> p, tx |-> tx.id, home |-> h, sys |-> s,
                 from |-> 0, auto |-> FALSE]
       IN /\ o \notin {"backup-plan", "backup"} => h = "none" /\ s = "none"
          /\ Admits(r) /\ Accept(r)
  /\ webs' = webs + 1
  /\ UNCHANGED <<panelVars, late>>

Operator ==
  /\ webs < MaxWeb
  /\ Inspect
  /\ webs' = webs + 1
  /\ UNCHANGED <<panelVars, late>>

\* "Restart UI" or a crash: a request being sent may or may not have left.
Restart ==
  /\ life < MaxLife
  /\ open' = FALSE /\ busy' = FALSE /\ uncertain' = FALSE /\ reboot_sent' = FALSE
  /\ check_after_verify' = FALSE /\ update_active' = FALSE
  /\ snapshot' = NullSnapshot
  /\ preflight' = NoPre
  /\ selected_usb' = FALSE /\ selected_package' = NoPkg
  /\ home_choice' = "unset" /\ sys_choice' = "unset"
  /\ armed' = FALSE
  /\ pending_execution' = NoId
  /\ submitted_operation' = "none"
  /\ status_request' = TRUE
  /\ update' = NoUpdate
  /\ wire' = NoReq /\ answer' = NoAnswer
  /\ life' = life + 1
  /\ late' \in IF IsPost(wire) THEN {late, late \cup {wire}} ELSE {late}
  /\ UNCHANGED <<coreVars, webs>>

Ui   == (Poll \/ Handle) /\ UNCHANGED <<coreVars, envVars>>
Core == (Succeed \/ Fail \/ BecomeUnknown) /\ UNCHANGED <<panelVars, envVars>>
Wire == HandleStatus \/ HandlePost \/ LoseAnswer

Next == Ui \/ Core \/ Wire \/ HandleLate \/ WebSubmit \/ Operator \/ Restart

Spec == Init /\ [][Next]_vars

\* The UI loop calls poll() on every pass, a request is answered or times out,
\* and the Core finishes what it runs.
Fairness ==
  /\ WF_vars(Poll /\ UNCHANGED <<coreVars, envVars>>)
  /\ WF_vars(Wire)
  /\ WF_vars(Core)

FairSpec == Spec /\ Fairness
-----------------------------------------------------------------------------
TypeOK ==
  /\ PanelTypeOK /\ CoreTypeOK
  /\ late \subseteq {r \in Request : IsPost(r)}
  /\ webs \in 0 .. MaxWeb

\* The page waits for the answer to a POST, or for the receipt it announced.
PostDue == (busy /\ ~status_request) \/ pending_execution # NoId

\* Operations of this run of the screen that the Core runs or may still run.
Work ==
  {r.op : r \in {q \in late \cup {wire} : IsPost(q) /\ q.from = life}}
  \cup (IF exec.state = "running" /\ exec.req.from = life THEN {exec.req.op} ELSE {})

\* No second operation is ever outstanding beside a first one of this run,
\* whether it waits on the wire, in a lost request or in the Core.
SingleFlight ==
  /\ \A r, q \in {r \in late : r.from = life} : r = q
  /\ (\E r \in late : r.from = life) => ~IsPost(wire)
  /\ exec.state = "running" /\ exec.req.from = life =>
       ~IsPost(wire) /\ \A r \in late : r.from # life

\* "Completed steps will not be repeated" and "do not issue the next operation
\* from HTTP 202 alone": with nobody else at the Core, every step the page
\* sends is the one the Core expects, so none is ever rejected.
StepsNeverRejected ==
  webs = 0 /\ life = 1 /\ exec.id < MaxExec
    /\ answer = [kind |-> "error", unclear |-> FALSE]
  => status_request \/ submitted_operation \in {"verify", "preflight"}

\* The request the workflow sends is for the package and context the user
\* confirmed, as the Core holds them at that moment.
SentAsConfirmed ==
  wire.op \in StepOp \cup {"backup", "reboot"} =>
    /\ wire.op # "reboot" => wire.pkg = update.pkg
    /\ wire.tx = update.tx
    /\ tx.id # NoId /\ wire.tx = tx.id => tx.pkg = update.pkg /\ tx.ctx = update.ctx

\* The workflow confirms a transaction by itself only with the backups the
\* user chose, all verified.
AutoConfirmBackedUp ==
  wire.op = "confirm" /\ wire.auto /\ tx.id = wire.tx =>
    /\ tx.verified
    /\ (tx.home # "none") = (update.home # "none")
    /\ (tx.sys # "none") = (update.sys # "none")

\* While a reboot this run asked for may yet happen, or has, the page knows it.
RebootLatched ==
  "reboot" \in Work \/ (exec.req.op = "reboot" /\ exec.req.from = life
                        /\ exec.state \in {"running", "succeeded", "unknown"})
  => reboot_sent

\* A running update always has a request out or a receipt due: it cannot hang
\* with the buttons blocked and nothing left to poll for.
UpdateHasWork ==
  update_active => open /\ PostDue

\* Whatever the confirmation shows stays as it was shown until it is tapped.
ConfirmationStands ==
  [][armed /\ armed' => UNCHANGED <<snapshot, preflight, selected_package,
                                    home_choice, sys_choice>>]_vars

\* Leaving the page stops the update: nothing is sent behind the user's back.
NothingSentWhileClosed ==
  [][IsPost(wire') /\ wire' # wire => open /\ open']_vars

\* "On error or a lost receipt we stop; a fresh status read never resumes it":
\* once unclear, this process sends no operation again.
UnclearIsFinal ==
  [][uncertain /\ life' = life => uncertain' /\ ~IsPost(wire')]_vars

-----------------------------------------------------------------------------
(* The inductive invariant behind them.                                    *)

\* A request or an answer is there only while busy, and is of the kind awaited.
WireMatches ==
  /\ ~busy \/ answer.kind # "none" => wire.op = "none"
  /\ ~busy => answer.kind = "none"
  /\ wire.op = "status" => status_request
  /\ IsPost(wire) => ~status_request /\ wire.from = life
  /\ answer.kind = "status" => status_request
  /\ answer.kind = "accepted" => ~status_request /\ answer.id # NoId

\* The answer about to be read leaves the fate of a POST open.
LostPost ==
  /\ ~status_request
  /\ \/ answer.kind = "malformed"
     \/ answer.kind = "error" /\ answer.unclear

\* What may still run is a receipt due, a receipt being delivered, or unclear.
WorkAccounted ==
  /\ (\E r \in late : r.from = life) => uncertain \/ LostPost
  /\ exec.state = "running" => exec.id # NoId
  /\ exec.state = "running" /\ exec.req.from = life =>
       \/ uncertain \/ LostPost
       \/ exec.id = pending_execution
       \/ answer.kind = "accepted" /\ answer.id = exec.id

\* Unclear, or with a receipt due, no POST is out.
NoPostBeside ==
  /\ uncertain => ~update_active /\ ~check_after_verify /\ (busy => status_request)
  /\ pending_execution # NoId => (busy => status_request)

NoFutureLife == exec.req.from <= life /\ \A r \in late : r.from <= life

\* A status that shows an execution finished is never older than its end.
StatusNotAhead ==
  answer.kind = "status" =>
    LET e == answer.snap.exec
    IN e.id <= exec.id /\ (e.id = exec.id => e = exec \/ e.state = "running")

\* Which operation a workflow flag stands for.
FlagMatchesOperation ==
  /\ check_after_verify =>
       open /\ PostDue /\ submitted_operation = "verify" /\ ~update_active
  /\ update_active => submitted_operation \notin {"verify", "preflight"}

IInv ==
  /\ TypeOK /\ WireMatches /\ WorkAccounted /\ NoPostBeside /\ NoFutureLife
  /\ StatusNotAhead /\ FlagMatchesOperation /\ SingleFlight /\ UpdateHasWork
-----------------------------------------------------------------------------
Phase == IF uncertain THEN "unclear"
         ELSE IF PostDue THEN "inflight"
         ELSE "quiet"

Serial == INSTANCE SerialOperations WITH Operation <- Op, phase <- Phase, work <- Work

\* The page implements the abstract promise.
ImplementsSerial == Serial!Spec

\* An update that was started ends: finished, failed or given up.
UpdateEnds == update_active ~> ~update_active

\* On an open page, every receipt is resolved.
ReceiptResolved ==
  (open /\ pending_execution # NoId) ~> (~open \/ pending_execution = NoId \/ uncertain)
=============================================================================
