------------------------------ MODULE OtaPanel ------------------------------
(***************************************************************************)
(* src/ota_panel.cpp: the screen's OTA page.  One user authorises an       *)
(* update by two taps; the panel then sends the Core one operation after   *)
(* another, each only when a status read shows the receipt of the last.    *)
(*                                                                         *)
(* The UI thread runs handle() and poll() one at a time; a request runs in *)
(* a worker thread between them (start; module RequestWorker).  `wire` is  *)
(* the request that worker is waiting on, `answer` the result it has left  *)
(* for poll() (answer.kind # "none" is `ready`).                           *)
(*                                                                         *)
(* Left out: wording and layout; `planned`, which is written and never     *)
(* read; request_operation, equal to submitted_operation while a POST is   *)
(* out; the names of the USB files (some .ota file is selected or none).   *)
(* The buttons on the screen are those render() would draw for the current *)
(* state: whenever execution_blocks() lets a tap through, it has been      *)
(* called since the state last changed.                                    *)
(***************************************************************************)
EXTENDS OtaTypes

VARIABLES
  open, busy, uncertain, reboot_sent, check_after_verify, update_active,
  snapshot, preflight, selected_usb, selected_package, home_choice, sys_choice,
  armed, pending_execution, submitted_operation, status_request,
  update,      \* update_package, _transaction, _version/_target, _home, _sys
  wire, answer,
  life         \* history: which run of the screen process this is

choiceVars == <<preflight, selected_usb, home_choice, sys_choice>>
flowVars   == <<uncertain, reboot_sent, update_active, check_after_verify>>
panelVars  == <<open, busy, flowVars, snapshot, choiceVars, selected_package, armed,
                pending_execution, submitted_operation, status_request, update,
                wire, answer, life>>

NoPre == [pkg |-> NoPkg, ctx |-> NoCtx]
NoUpdate == [pkg |-> NoPkg, tx |-> NoId, ctx |-> NoCtx, home |-> "unset", sys |-> "unset"]
NoAnswer == [kind |-> "none"]

\* What ManagementClient hands back.  "error" is !ok; `unclear`: status 0 or >= 500.
Answer == {NoAnswer, [kind |-> "malformed"]}
     \cup [kind : {"error"}, unclear : BOOLEAN]
     \cup [kind : {"status"}, snap : Snapshot]
     \cup [kind : {"accepted"}, id : Id, pkg : Package \cup {NoPkg}]

StatusRequest == [NoReq EXCEPT !.op = "status"]

PanelInit ==
  /\ open = FALSE /\ busy = FALSE /\ uncertain = FALSE /\ reboot_sent = FALSE
  /\ check_after_verify = FALSE /\ update_active = FALSE
  /\ snapshot = NullSnapshot
  /\ preflight = NoPre
  /\ selected_usb = FALSE /\ selected_package = NoPkg
  /\ home_choice = "unset" /\ sys_choice = "unset"
  /\ armed = FALSE
  /\ pending_execution = NoId
  /\ submitted_operation = "none"
  /\ status_request = TRUE
  /\ update = NoUpdate
  /\ wire = NoReq /\ answer = NoAnswer
-----------------------------------------------------------------------------
Blocked_IgnoresUnclear(s, pending) ==
  \/ reboot_sent \/ s.busy
  \/ s.exec.state \in {"running", "unknown"}
  \/ pending # NoId

Blocked_IgnoresWork(s, pending) ==
  uncertain \/ reboot_sent \/ s.exec.state = "unknown"

\* execution_blocks() without its `busy`, for a snapshot and a pending receipt
Blocked(s, pending) ==
  \/ uncertain \/ reboot_sent \/ s.busy
  \/ s.exec.state \in {"running", "unknown"}
  \/ pending # NoId

ExecutionBlocks == busy \/ Blocked(snapshot, pending_execution)

\* backup_choice_valid against the offer of the preflight
ChoicesValid == home_choice \in HomeChoice /\ sys_choice \in SysChoice

\* render() adopts the package of the Core's transaction
Rendered(s, p) == IF s.tx.id # NoId THEN s.tx.pkg ELSE p

Req(op, pkg, t, home, sys, auto) ==
  [op |-> op, pkg |-> pkg, tx |-> t, home |-> home, sys |-> sys, from |-> life,
   auto |-> auto]

\* the request body of the operation that follows a phase
StepReq(op, pkg, t, auto) ==
  Req(op, IF op = "reboot" THEN NoPkg ELSE pkg, t, "unset", "unset", auto)

AskedReboot_OnReceipt(op) == reboot_sent

\* reboot_sent after submitting an operation, whatever becomes of it
AskedReboot(op) == reboot_sent \/ op = "reboot"

\* start(): a status read, or a POST; submit() is start() of a POST
StartStatus ==
  /\ busy' = TRUE
  /\ status_request' = TRUE
  /\ wire' = StatusRequest
  /\ UNCHANGED submitted_operation

StartPost(r) ==
  /\ busy' = TRUE
  /\ status_request' = FALSE
  /\ submitted_operation' = r.op
  /\ wire' = r

StartNothing ==
  /\ busy' = FALSE
  /\ UNCHANGED <<status_request, submitted_operation, wire>>

Pause_StaysActive(unclear) ==
  /\ check_after_verify' = FALSE
  /\ uncertain' = (uncertain \/ unclear)
  /\ UNCHANGED update_active

\* pause_update
Pause(unclear) ==
  /\ update_active' = FALSE
  /\ check_after_verify' = FALSE
  /\ uncertain' = (uncertain \/ unclear)

\* clear_selection
ClearSelection(check) ==
  /\ armed' = FALSE
  /\ check_after_verify' = check
  /\ preflight' = NoPre
  /\ home_choice' = "unset" /\ sys_choice' = "unset"
-----------------------------------------------------------------------------
(* poll(): the worker has left an answer.                                  *)

Unclear_NeedsServerError == FALSE

\* A lost POST response is not evidence that the Core rejected it.
Unclear == ~status_request /\ answer.unclear
LostStatus == status_request /\ pending_execution # NoId

PollError ==
  /\ answer.kind = "error"
  /\ Pause(Unclear \/ LostStatus)
  /\ pending_execution' = IF LostStatus THEN NoId ELSE pending_execution
  /\ reboot_sent' = (reboot_sent /\ ~(~status_request /\ ~Unclear
                                       /\ submitted_operation = "reboot"))
  /\ selected_package' = Rendered(snapshot, selected_package)
  /\ StartNothing
  /\ answer' = NoAnswer
  /\ UNCHANGED <<open, snapshot, choiceVars, armed, update, life>>

\* The exception path: a reply that is not what the request calls for.
PollMalformed ==
  /\ answer.kind = "malformed"
  /\ Pause(TRUE)
  /\ StartNothing
  /\ answer' = NoAnswer
  /\ UNCHANGED <<open, reboot_sent, snapshot, choiceVars, selected_package, armed,
                 pending_execution, update, life>>

\* 202: remember the receipt and read the Core's status at once.
PollAccepted ==
  /\ answer.kind = "accepted"
  /\ pending_execution' = answer.id
  /\ selected_package' = IF submitted_operation = "verify" THEN answer.pkg
                         ELSE selected_package
  /\ StartStatus
  /\ answer' = NoAnswer
  /\ UNCHANGED <<open, flowVars, snapshot, choiceVars, armed, update, life>>

\* What every valid status reply does: new snapshot, USB rescan, render.
TakeStatus(s) ==
  /\ answer.kind = "status" /\ answer.snap = s
  /\ snapshot' = s
  /\ selected_usb' \in {selected_usb, FALSE}
  /\ selected_package' = Rendered(s, selected_package)
  /\ answer' = NoAnswer
  /\ UNCHANGED <<open, life>>

IsReceipt(s) == s.exec.id = pending_execution /\ s.exec.req.op = submitted_operation

PollNoReceiptDue(s) ==
  /\ TakeStatus(s)
  /\ pending_execution = NoId
  /\ StartNothing
  /\ UNCHANGED <<flowVars, preflight, home_choice, sys_choice, armed,
                 pending_execution, update>>

PollReceiptChanged(s) ==
  /\ TakeStatus(s)
  /\ pending_execution # NoId /\ ~IsReceipt(s)
  /\ Pause(TRUE)
  /\ StartNothing
  /\ UNCHANGED <<reboot_sent, preflight, home_choice, sys_choice, armed,
                 pending_execution, update>>

PollStillRunning(s) ==
  /\ TakeStatus(s)
  /\ pending_execution # NoId /\ IsReceipt(s) /\ s.exec.state = "running"
  /\ StartNothing
  /\ UNCHANGED <<flowVars, preflight, home_choice, sys_choice, armed,
                 pending_execution, update>>

PollFailed_KeepsReceipt(s) ==
  /\ TakeStatus(s)
  /\ pending_execution # NoId /\ IsReceipt(s) /\ s.exec.state \in {"failed", "unknown"}
  /\ Pause(s.exec.state = "unknown")
  /\ StartNothing
  /\ UNCHANGED <<reboot_sent, preflight, home_choice, sys_choice, armed,
                 pending_execution, update>>

PollFailed(s) ==
  /\ TakeStatus(s)
  /\ pending_execution # NoId /\ IsReceipt(s) /\ s.exec.state \in {"failed", "unknown"}
  /\ Pause(s.exec.state = "unknown")
  /\ reboot_sent' = (reboot_sent
                      /\ ~(s.exec.req.op = "reboot" /\ s.exec.state = "failed"))
  /\ pending_execution' = NoId
  /\ StartNothing
  /\ UNCHANGED <<preflight, home_choice, sys_choice, armed, update>>

\* The receipt says succeeded, and the result, transaction and package are ours.
ReceiptSound(s) ==
  LET r == s.exec.req
  IN /\ s.exec.result # "bad"
     /\ \/ ~update_active \/ update.tx = NoId
        \/ r.op \in {"backup-plan", "backup"}
        \/ r.tx = update.tx
     /\ r.op # "reboot" =>
          r.pkg = IF update_active THEN update.pkg ELSE selected_package

Succeeded(s) ==
  /\ TakeStatus(s)
  /\ pending_execution # NoId /\ IsReceipt(s) /\ s.exec.state = "succeeded"
  /\ pending_execution' = NoId

PollUnsound(s) ==
  /\ Succeeded(s)
  /\ ~ReceiptSound(s)
  /\ Pause(TRUE)
  /\ StartNothing
  /\ UNCHANGED <<reboot_sent, preflight, home_choice, sys_choice, armed, update>>

PollRebooted(s) ==
  /\ Succeeded(s)
  /\ ReceiptSound(s) /\ s.exec.req.op = "reboot"
  /\ IF s.exec.result = "ok" /\ s.exec.req.tx = update.tx
     THEN update_active' = FALSE /\ UNCHANGED <<check_after_verify, uncertain>>
     ELSE Pause(TRUE)
  /\ StartNothing
  /\ UNCHANGED <<reboot_sent, preflight, home_choice, sys_choice, armed, update>>

\* A finished operation other than the reboot; a preflight renews the choices.
Finished(s) ==
  /\ Succeeded(s)
  /\ ReceiptSound(s) /\ s.exec.req.op # "reboot"
  /\ IF s.exec.req.op = "preflight"
     THEN /\ preflight' = [pkg |-> s.exec.req.pkg, ctx |-> s.exec.ctx]
          /\ home_choice' = "unset" /\ sys_choice' = "unset"
     ELSE UNCHANGED <<preflight, home_choice, sys_choice>>
-----------------------------------------------------------------------------
(* advance_update: what follows a finished operation.                      *)

ChecksPackage(s) == ~uncertain /\ s.exec.req.op = "verify" /\ check_after_verify
InWorkflow(s)    == ~uncertain /\ ~ChecksPackage(s) /\ update_active /\ open

\* submit(): silently dropped while execution_blocks()
AdvanceVerified(s) ==
  /\ Finished(s)
  /\ ChecksPackage(s)
  /\ s.exec.ctx # NoCtx
  /\ check_after_verify' = FALSE
  /\ IF Blocked(s, NoId)
     THEN StartNothing /\ UNCHANGED armed
     ELSE /\ StartPost(Req("preflight", selected_package, NoId, "unset", "unset", TRUE))
          /\ armed' = FALSE
  /\ UNCHANGED <<uncertain, reboot_sent, update_active, update>>

\* The backup plan is the confirmed selection, in the confirmed context.
PlanAgrees(s) ==
  /\ s.exec.req.home = update.home /\ s.exec.req.sys = update.sys
  /\ s.exec.ctx = update.ctx
  /\ s.tx.id = NoId

AdvancePlanned(s) ==
  /\ Finished(s)
  /\ InWorkflow(s) /\ ~Blocked(s, NoId)
  /\ s.exec.req.op = "backup-plan" /\ PlanAgrees(s)
  /\ StartPost(Req("backup", update.pkg, NoId, update.home, update.sys, TRUE))
  /\ armed' = FALSE
  /\ UNCHANGED <<flowVars, update>>

TransactionAgrees_AnyContext(s, op) ==
  /\ s.tx.id # NoId
  /\ IF update.tx = NoId THEN op = "backup" ELSE s.tx.id = update.tx
  /\ s.tx.pkg = update.pkg
  /\ s.tx.state = StateAfter[op]

\* The Core's transaction is the one being updated and reached the next phase.
TransactionAgrees(s, op) ==
  /\ s.tx.id # NoId
  /\ IF update.tx = NoId THEN op = "backup" ELSE s.tx.id = update.tx
  /\ s.tx.pkg = update.pkg /\ s.tx.ctx = update.ctx
  /\ s.tx.state = StateAfter[op]

BackupsAgree_Unverified(s) ==
  /\ (s.tx.home # "none") = (update.home # "none")
  /\ (s.tx.sys # "none") = (update.sys # "none")

BackupsAgree(s) ==
  /\ (s.tx.home # "none") = (update.home # "none")
  /\ (s.tx.sys # "none") = (update.sys # "none")
  /\ s.tx.verified

AdvanceStep(s) ==
  LET op   == s.exec.req.op
      next == OperationForState[StateAfter[op]]
  IN /\ Finished(s)
     /\ InWorkflow(s) /\ ~Blocked(s, NoId)
     /\ op \in StepOp \cup {"backup"}
     /\ TransactionAgrees(s, op)
     /\ op = "backup" => BackupsAgree(s)
     /\ update' = [update EXCEPT !.tx = s.tx.id]
     /\ StartPost(StepReq(next, update.pkg, s.tx.id, TRUE))
     /\ reboot_sent' = AskedReboot(next)
     /\ armed' = FALSE
     /\ UNCHANGED <<uncertain, update_active, check_after_verify>>

\* Anything that does not agree stops the update.
AdvanceHalt(s) ==
  LET op == s.exec.req.op
  IN /\ Finished(s)
     /\ \/ ChecksPackage(s) /\ s.exec.ctx = NoCtx
        \/ /\ InWorkflow(s)
           /\ \/ Blocked(s, NoId)
              \/ op = "backup-plan" /\ ~PlanAgrees(s)
              \/ op \in StepOp \cup {"backup"} /\ ~TransactionAgrees(s, op)
              \/ op = "backup" /\ ~BackupsAgree(s)
     /\ Pause(TRUE)
     /\ update' = IF /\ InWorkflow(s) /\ ~Blocked(s, NoId)
                     /\ op = "backup" /\ TransactionAgrees(s, op)
                  THEN [update EXCEPT !.tx = s.tx.id] ELSE update
     /\ StartNothing
     /\ UNCHANGED <<reboot_sent, armed>>

AdvanceNothing(s) ==
  /\ Finished(s)
  /\ ~ChecksPackage(s)
  /\ InWorkflow(s) => ~Blocked(s, NoId) /\ s.exec.req.op \in {"verify", "preflight"}
  /\ StartNothing
  /\ UNCHANGED <<flowVars, armed, update>>

RefreshDue_IdleOnly ==
  open /\ ~busy /\ ~uncertain /\ pending_execution # NoId /\ ~update_active

\* An open page re-reads the status every 1.5 s while a receipt is due.
RefreshDue == open /\ ~busy /\ ~uncertain /\ pending_execution # NoId

PollRefresh ==
  /\ answer.kind = "none" /\ RefreshDue
  /\ StartStatus
  /\ UNCHANGED <<open, flowVars, snapshot, choiceVars, selected_package, armed,
                 pending_execution, update, answer, life>>

PollStatus ==
  answer.kind = "status" /\
  LET s == answer.snap
  IN \/ PollNoReceiptDue(s) \/ PollReceiptChanged(s) \/ PollStillRunning(s)
     \/ PollFailed(s) \/ PollUnsound(s) \/ PollRebooted(s)
     \/ AdvanceVerified(s) \/ AdvancePlanned(s) \/ AdvanceStep(s)
     \/ AdvanceHalt(s) \/ AdvanceNothing(s)

Poll == PollError \/ PollMalformed \/ PollAccepted \/ PollStatus \/ PollRefresh
-----------------------------------------------------------------------------
(* handle(): the user's taps.                                              *)

\* refresh() does nothing while a request is out
RefreshUnlessBusy ==
  IF busy THEN UNCHANGED <<busy, status_request, submitted_operation, wire>>
  ELSE StartStatus

Foreground ==
  /\ ~open
  /\ open' = TRUE
  /\ RefreshUnlessBusy
  /\ UNCHANGED <<flowVars, snapshot, choiceVars, selected_package, armed,
                 pending_execution, update, answer, life>>

Back ==
  /\ open
  /\ open' = FALSE
  /\ update_active' = FALSE
  /\ check_after_verify' = FALSE
  /\ armed' = FALSE
  /\ UNCHANGED <<busy, uncertain, reboot_sent, snapshot, choiceVars, selected_package,
                 pending_execution, submitted_operation, status_request, update,
                 wire, answer, life>>

TapRefresh_KeepsArmed ==
  /\ open /\ ~busy
  /\ StartStatus
  /\ UNCHANGED <<open, flowVars, snapshot, choiceVars, selected_package, armed,
                 pending_execution, update, answer, life>>

TapRefresh ==
  /\ open /\ ~busy
  /\ armed' = FALSE
  /\ StartStatus
  /\ UNCHANGED <<open, flowVars, snapshot, choiceVars, selected_package,
                 pending_execution, update, answer, life>>

TapUsbFile ==
  /\ open /\ ~ExecutionBlocks /\ snapshot.tx.id = NoId
  /\ ClearSelection(FALSE)
  /\ selected_usb' = TRUE
  /\ UNCHANGED <<open, busy, uncertain, reboot_sent, update_active, snapshot,
                 selected_package, pending_execution, submitted_operation,
                 status_request, update, wire, answer, life>>

TapPackage(p) ==
  /\ open /\ ~ExecutionBlocks /\ snapshot.tx.id = NoId
  /\ p \in snapshot.staged
  /\ ClearSelection(FALSE)
  /\ selected_package' = p
  /\ UNCHANGED <<open, busy, uncertain, reboot_sent, update_active, snapshot,
                 selected_usb, pending_execution, submitted_operation,
                 status_request, update, wire, answer, life>>

\* The choice buttons are drawn for a preflight without a transaction.
TapChoice ==
  /\ open /\ ~ExecutionBlocks
  /\ preflight # NoPre /\ snapshot.tx.id = NoId
  /\ armed' = FALSE
  /\ \/ home_choice' \in HomeChoice /\ UNCHANGED sys_choice
     \/ sys_choice' \in SysChoice /\ UNCHANGED home_choice
  /\ UNCHANGED <<open, busy, flowVars, snapshot, preflight, selected_usb,
                 selected_package, pending_execution, submitted_operation,
                 status_request, update, wire, answer, life>>

\* take_action
CanAct == open /\ ~ExecutionBlocks /\ ~update_active

TapUpload ==
  /\ CanAct
  /\ snapshot.tx.id = NoId /\ ~snapshot.activation /\ selected_usb
  /\ ClearSelection(TRUE)
  /\ selected_package' = NoPkg
  /\ StartPost(Req("verify", NoPkg, NoId, "unset", "unset", FALSE))
  /\ UNCHANGED <<open, uncertain, reboot_sent, update_active, snapshot, selected_usb,
                 pending_execution, update, answer, life>>

TapVerify ==
  /\ CanAct
  /\ snapshot.tx.id = NoId /\ ~snapshot.activation /\ selected_package # NoPkg
  /\ ClearSelection(TRUE)
  /\ StartPost(Req("verify", selected_package, NoId, "unset", "unset", FALSE))
  /\ UNCHANGED <<open, uncertain, reboot_sent, update_active, snapshot, selected_usb,
                 selected_package, pending_execution, update, answer, life>>

Continuing == snapshot.tx.id # NoId
NextOperation == OperationForState[snapshot.tx.state]

CanUpdate ==
  /\ CanAct
  /\ IF Continuing
     THEN snapshot.activation => NextOperation = "reboot"
     ELSE /\ preflight # NoPre /\ preflight.pkg = selected_package
          /\ ChoicesValid /\ ~snapshot.activation

\* First tap: "CONFIRM UPDATE" appears.
Arm ==
  /\ CanUpdate /\ ~armed
  /\ armed' = TRUE
  /\ selected_package' = Rendered(snapshot, selected_package)
  /\ UNCHANGED <<open, busy, flowVars, snapshot, choiceVars, pending_execution,
                 submitted_operation, status_request, update, wire, answer, life>>

\* Second tap: the update is bound to what the page shows.
Bound ==
  IF Continuing
  THEN [pkg |-> snapshot.tx.pkg, tx |-> snapshot.tx.id, ctx |-> snapshot.tx.ctx,
        home |-> home_choice, sys |-> sys_choice]
  ELSE [pkg |-> selected_package, tx |-> NoId, ctx |-> preflight.ctx,
        home |-> home_choice, sys |-> sys_choice]

FirstRequest ==
  IF Continuing THEN StepReq(NextOperation, snapshot.tx.pkg, snapshot.tx.id, FALSE)
  ELSE Req("backup-plan", selected_package, NoId, home_choice, sys_choice, FALSE)

Confirm ==
  /\ CanUpdate /\ armed
  /\ armed' = FALSE
  /\ update' = Bound
  /\ IF Bound.ctx = NoCtx
     THEN Pause(TRUE) /\ StartNothing /\ UNCHANGED reboot_sent
     ELSE /\ update_active' = TRUE
          /\ StartPost(FirstRequest)
          /\ reboot_sent' = AskedReboot(FirstRequest.op)
          /\ UNCHANGED <<uncertain, check_after_verify>>
  /\ selected_package' = Rendered(snapshot, selected_package)
  /\ UNCHANGED <<open, snapshot, choiceVars, pending_execution, answer, life>>

Handle ==
  \/ Foreground \/ Back \/ TapRefresh \/ TapUsbFile \/ TapChoice
  \/ TapUpload \/ TapVerify \/ Arm \/ Confirm
  \/ \E p \in Package : TapPackage(p)

Flags == {open, busy, uncertain, reboot_sent, check_after_verify, update_active,
          selected_usb, armed, status_request}

PanelTypeOK ==
  /\ Flags \subseteq BOOLEAN
  /\ snapshot \in Snapshot
  /\ preflight \in [pkg : Package \cup {NoPkg}, ctx : Context \cup {NoCtx}]
  /\ selected_package \in Package \cup {NoPkg}
  /\ home_choice \in HomeChoice \cup {"unset"}
  /\ sys_choice \in SysChoice \cup {"unset"}
  /\ pending_execution \in Id
  /\ submitted_operation \in Op \cup {"none"}
  /\ update \in [pkg : Package \cup {NoPkg}, tx : Id, ctx : Context \cup {NoCtx},
                 home : HomeChoice \cup {"unset"}, sys : SysChoice \cup {"unset"}]
  /\ wire \in Request
  /\ answer \in Answer
  /\ life \in Life \ {0}
=============================================================================
