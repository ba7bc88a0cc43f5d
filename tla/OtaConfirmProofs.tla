-------------------------- MODULE OtaConfirmProofs --------------------------
(***************************************************************************)
(* What the user confirmed on the OTA page is what the Core is asked for,  *)
(* and a reboot that was asked for is never forgotten, for every value of  *)
(* the constants.  IInv (OtaProofs) is not enough: RebootInv adds where an *)
(* operation's reboot can be, TxInv that a transaction once read is the    *)
(* Core's or gone, ArmedInv that nothing is under way while the            *)
(* confirmation is up.                                                     *)
(* And since the screen started, no step of an update is rejected by a     *)
(* Core that has no other client (Alone): AdmitInv says what the Core keeps *)
(* (CoreSound, CheckedHeld), that what the page read is what the Core is,  *)
(* but for an operation the page waits for (PageCurrent), and that what it *)
(* then asks for (Following) the Core admits.                              *)
(***************************************************************************)
EXTENDS OtaProofs

\* A reboot this run of the screen asked for that may still happen, or has.
RebootOut ==
  \/ \E r \in late : r.from = life /\ r.op = "reboot"
  \/ /\ exec.req.op = "reboot" /\ exec.req.from = life
     /\ exec.state \in {"running", "succeeded", "unknown"}

\* The page is about to read that the Core did not take the operation.
Refused == answer.kind = "error" /\ ~answer.unclear /\ ~status_request

PostIsSubmitted == IsPost(wire) => wire.op = submitted_operation

RebootInv ==
  /\ PostIsSubmitted
  /\ wire.op = "reboot" => ~RebootOut
  /\ Refused /\ submitted_operation = "reboot" => ~RebootOut
  /\ wire.op = "reboot" \/ RebootOut => reboot_sent
  /\ (\E r \in late : r.from = life) => pending_execution = NoId
  /\ exec.req.from = life =>
       /\ answer.kind = "accepted" => exec.id = answer.id
       /\ pending_execution # NoId => exec.id = pending_execution

\* What a transaction keeps from its backup on.
SameTx(a, b) ==
  /\ a.pkg = b.pkg /\ a.ctx = b.ctx
  /\ a.home = b.home /\ a.sys = b.sys /\ a.verified = b.verified

BackupRuns == exec.state = "running" /\ exec.req.op = "backup"

\* A transaction that was read is the Core's, or is gone.
Known(t) ==
  /\ t.id <= exec.id
  /\ t.id # NoId /\ t.id = tx.id => SameTx(t, tx)
  /\ BackupRuns => t.id < exec.id

\* The update under way is of the Core's transaction, or that one is gone.
UpdateKnown ==
  /\ update.tx <= exec.id
  /\ update.tx # NoId /\ update.tx = tx.id => tx.pkg = update.pkg /\ tx.ctx = update.ctx
  /\ BackupRuns => update.tx < exec.id

BackupsChosen(t) ==
  /\ t.verified
  /\ (t.home # "none") = (update.home # "none")
  /\ (t.sys # "none") = (update.sys # "none")

\* The request on the wire is the update's.
WireOfUpdate ==
  /\ wire.op \in StepOp \cup {"backup", "reboot"} =>
       /\ wire.op # "reboot" => wire.pkg = update.pkg
       /\ wire.tx = update.tx
  /\ wire.op = "confirm" /\ wire.auto =>
       wire.tx # NoId /\ (wire.tx = tx.id => BackupsChosen(tx))

TxInv ==
  /\ tx.id <= exec.id
  /\ BackupRuns => tx.id = NoId /\ exec.id # NoId
  /\ Known(snapshot.tx)
  /\ answer.kind = "status" => Known(answer.snap.tx)
  /\ UpdateKnown
  /\ submitted_operation = "backup-plan" /\ update_active => update.tx = NoId
  /\ PostIsSubmitted
  /\ WireOfUpdate

ArmedInv == armed => open /\ ~busy /\ pending_execution = NoId

ConfirmInv == IInv /\ RebootInv /\ TxInv /\ ArmedInv
-----------------------------------------------------------------------------
\* What poll() may take for granted when it reads an answer.
LEMMA AnswerRead ==
  ASSUME IInv
  PROVE  /\ answer.kind # "none" => busy /\ wire.op = "none" /\ ~IsPost(wire)
         /\ answer.kind = "accepted" => ~(\E r \in late : r.from = life)
         /\ answer.kind = "status" =>
              /\ answer.snap.exec.id \in Nat
              /\ answer.snap.exec.id = exec.id =>
                   answer.snap.exec = exec \/ answer.snap.exec.state = "running"
BY TypedFacts DEF IInv, WireMatches, WorkAccounted, NoPostBeside, LostPost, IsPost, StatusNotAhead

\* A status after which nothing is sent.
NothingSent(s) ==
  /\ TakeStatus(s) /\ StartNothing
  /\ reboot_sent /\ ~reboot_sent' => PollFailed(s)
  /\ pending_execution' \in {pending_execution, NoId}
  /\ armed' = armed
  /\ update_active' => update_active
  /\ \/ update' = update
     \/ /\ update' = [update EXCEPT !.tx = s.tx.id]
        /\ s.tx.id # NoId /\ s.tx.pkg = update.pkg /\ s.tx.ctx = update.ctx
        /\ ~update_active'

\* A status that is followed by an operation.
SendCase(s, r) ==
  /\ TakeStatus(s) /\ StartPost(r)
  /\ ~reboot_sent
  /\ r.op = "reboot" => reboot_sent'
  /\ pending_execution' = NoId
  /\ ~armed'
  /\ r.op \in Op
  /\ \/ r.op = "preflight" /\ UNCHANGED update
     \/ /\ r.op = "backup" /\ r.pkg = update.pkg /\ r.tx = NoId
        /\ submitted_operation = "backup-plan" /\ update_active
        /\ UNCHANGED update
     \/ /\ r.op \in StepOp \cup {"reboot"}
        /\ r.op # "reboot" => r.pkg = update.pkg
        /\ r.tx = s.tx.id /\ s.tx.id # NoId
        /\ update' = [update EXCEPT !.tx = s.tx.id]
        /\ s.tx.pkg = update.pkg /\ s.tx.ctx = update.ctx
        /\ r.op = "confirm" => BackupsChosen(s.tx)

\* A status read sends nothing, or the next operation of the update.
LEMMA StatusRead ==
  ASSUME PollStatus
  PROVE  LET s == answer.snap
         IN  answer.kind = "status" /\ (NothingSent(s) \/ \E r : SendCase(s, r))
<1> DEFINE s == answer.snap
<1>0. /\ answer.kind = "status"
      /\ \/ PollNoReceiptDue(s) \/ PollReceiptChanged(s) \/ PollStillRunning(s)
         \/ PollFailed(s) \/ PollUnsound(s) \/ PollRebooted(s)
         \/ AdvanceVerified(s) \/ AdvancePlanned(s) \/ AdvanceStep(s)
         \/ AdvanceHalt(s) \/ AdvanceNothing(s)
  BY DEF PollStatus
<1> HIDE DEF s
<1> SUFFICES NothingSent(s) \/ \E r : SendCase(s, r)
  BY <1>0 DEF s
<1>4. CASE PollNoReceiptDue(s) \/ PollReceiptChanged(s) \/ PollStillRunning(s)
  BY <1>4 DEF PollNoReceiptDue, PollReceiptChanged, PollStillRunning, Pause, flowVars, NothingSent
<1>5. CASE PollFailed(s)
  BY <1>5 DEF PollFailed, Pause, NothingSent
<1>6. CASE PollUnsound(s) \/ PollRebooted(s)
  BY <1>6 DEF PollUnsound, PollRebooted, Succeeded, Pause, NothingSent
<1>7. CASE AdvanceHalt(s)
  <2>1. /\ TakeStatus(s) /\ StartNothing /\ UNCHANGED <<reboot_sent, armed>>
        /\ pending_execution' = NoId /\ ~update_active'
    BY <1>7 DEF AdvanceHalt, Finished, Succeeded, Pause
  <2>2. \/ update' = update
        \/ /\ update' = [update EXCEPT !.tx = s.tx.id]
           /\ TransactionAgrees(s, "backup")
    BY <1>7 DEF AdvanceHalt
  <2> QED
    BY <2>1, <2>2 DEF NothingSent, TransactionAgrees
<1>8. CASE AdvanceNothing(s)
  BY <1>8 DEF AdvanceNothing, Finished, Succeeded, flowVars, NothingSent
<1>1. CASE AdvanceVerified(s)
  <2> DEFINE r == Req("preflight", selected_package, NoId, "unset", "unset", TRUE)
  <2>1. r.op = "preflight" /\ r.op \in Op
    BY DEF Req, Op
  <2> HIDE DEF r
  <2>2. CASE Blocked(s, NoId)
    BY <1>1, <2>2 DEF AdvanceVerified, Finished, Succeeded, NothingSent
  <2>3. CASE ~Blocked(s, NoId)
    <3>1. StartPost(r) /\ ~armed' /\ TakeStatus(s) /\ pending_execution' = NoId
          /\ UNCHANGED <<reboot_sent, update>>
      BY <1>1, <2>3 DEF AdvanceVerified, Finished, Succeeded, r
    <3>2. ~reboot_sent
      BY <2>3 DEF Blocked
    <3>3. SendCase(s, r)
      BY <2>1, <3>1, <3>2 DEF SendCase
    <3> QED
      BY <3>3
  <2> QED
    BY <2>2, <2>3
<1>2. CASE AdvancePlanned(s)
  <2> DEFINE r == Req("backup", update.pkg, NoId, update.home, update.sys, TRUE)
  <2>1. r.op = "backup" /\ r.op \in Op /\ r.pkg = update.pkg /\ r.tx = NoId
    BY DEF Req, Op
  <2> HIDE DEF r
  <2>2. StartPost(r) /\ ~armed' /\ TakeStatus(s) /\ pending_execution' = NoId
        /\ UNCHANGED <<reboot_sent, update>> /\ update_active
        /\ submitted_operation = "backup-plan"
    BY <1>2 DEF AdvancePlanned, Finished, Succeeded, InWorkflow, IsReceipt, flowVars, r
  <2>3. ~reboot_sent
    BY <1>2 DEF AdvancePlanned, Blocked
  <2>4. SendCase(s, r)
    BY <2>1, <2>2, <2>3 DEF SendCase
  <2> QED
    BY <2>4
<1>3. CASE AdvanceStep(s)
  <2> DEFINE op   == s.exec.req.op
             next == OperationForState[StateAfter[op]]
             r    == StepReq(next, update.pkg, s.tx.id, TRUE)
  <2>1. op \in StepOp \cup {"backup"}
    BY <1>3 DEF AdvanceStep
  <2>2. next \in StepOp \cup {"reboot"} /\ (next = "confirm" => op = "backup")
    BY <2>1 DEF OperationForState, StateAfter, TxState, StepOp
  <2>3. r.op = next /\ r.tx = s.tx.id /\ (next # "reboot" => r.pkg = update.pkg)
    BY DEF StepReq, Req
  <2>4. /\ StartPost(r) /\ ~armed' /\ TakeStatus(s) /\ pending_execution' = NoId
        /\ update' = [update EXCEPT !.tx = s.tx.id]
        /\ reboot_sent' = AskedReboot(next)
        /\ TransactionAgrees(s, op) /\ (op = "backup" => BackupsAgree(s))
    BY <1>3 DEF AdvanceStep, Finished, Succeeded
  <2>5. ~reboot_sent
    BY <1>3 DEF AdvanceStep, Blocked
  <2>6. s.tx.id # NoId /\ s.tx.pkg = update.pkg /\ s.tx.ctx = update.ctx
    BY <2>4 DEF TransactionAgrees
  <2>7. next = "confirm" => BackupsChosen(s.tx)
    BY <2>2, <2>4 DEF BackupsAgree, BackupsChosen
  <2> HIDE DEF r, next
  <2>8. r.op \in Op
    BY <2>2, <2>3 DEF Op
  <2>9. r.op = "reboot" => reboot_sent'
    BY <2>3, <2>4, <2>5 DEF AskedReboot
  <2>10. SendCase(s, r)
    BY <2>2, <2>3, <2>4, <2>5, <2>6, <2>7, <2>8, <2>9 DEF SendCase
  <2> QED
    BY <2>10
<1> QED
  BY <1>0, <1>1, <1>2, <1>3, <1>4, <1>5, <1>6, <1>7, <1>8
-----------------------------------------------------------------------------
Extra == RebootInv /\ TxInv /\ ArmedInv

\* What poll() reads of the Core's transaction is known, so the update is too.
LEMMA PollConfirms ==
  ASSUME ConfirmInv, Poll, UNCHANGED <<coreVars, envVars>>
  PROVE  Extra'
<1> USE DEF ConfirmInv, Extra, PostIsSubmitted, IsPost, NoId, coreVars, envVars
<1> NoAnswer.kind = "none" /\ StatusRequest.op = "status"
  BY DEF NoAnswer, StatusRequest, NoReq
<1>0. UNCHANGED <<tx, exec, late>>
  OBVIOUS
<1>1. ASSUME life' = life PROVE RebootOut' <=> RebootOut
  BY <1>0, <1>1 DEF RebootOut
<1>2. ASSUME NEW t PROVE Known(t)' = Known(t)
  BY <1>0 DEF Known, BackupRuns
<1>3. CASE PollError
  <2>1. RebootInv'
    BY <1>0, <1>1, <1>3, AnswerRead
    DEF PollError, RebootInv, Refused, Pause, Unclear, LostStatus, StartNothing
  <2>2. TxInv'
    BY <1>0, <1>2, <1>3, AnswerRead
    DEF PollError, TxInv, UpdateKnown, BackupRuns, WireOfUpdate, BackupsChosen, Known, SameTx,
        Pause, StartNothing
  <2> QED
    BY <1>3, <2>1, <2>2, AnswerRead DEF PollError, ArmedInv, StartNothing, LostStatus
<1>4. CASE PollMalformed
  <2>1. RebootInv'
    BY <1>0, <1>1, <1>4, AnswerRead
    DEF PollMalformed, RebootInv, Refused, Pause, StartNothing
  <2>2. TxInv'
    BY <1>0, <1>2, <1>4, AnswerRead
    DEF PollMalformed, TxInv, UpdateKnown, BackupRuns, WireOfUpdate, BackupsChosen, Known, SameTx,
        Pause, StartNothing
  <2> QED
    BY <1>4, <2>1, <2>2, AnswerRead DEF PollMalformed, ArmedInv, StartNothing
<1>5. CASE PollAccepted \/ PollRefresh
  <2>1. wire' = StatusRequest /\ StartStatus /\ answer'.kind = "none" /\ life' = life
        /\ UNCHANGED <<update, update_active, snapshot, armed, reboot_sent>>
    BY <1>5 DEF PollAccepted, PollRefresh, StartStatus, flowVars
  <2>2. /\ \/ pending_execution' = pending_execution
           \/ answer.kind = "accepted" /\ pending_execution' = answer.id
        /\ ~armed
    BY <1>5, AnswerRead DEF PollAccepted, PollRefresh, RefreshDue, ArmedInv
  <2>3. RebootInv'
    BY <1>0, <1>1, <2>1, <2>2, AnswerRead DEF RebootInv, Refused, StartStatus
  <2>4. TxInv'
    BY <1>0, <1>2, <2>1, <2>2
    DEF TxInv, UpdateKnown, BackupRuns, WireOfUpdate, StartStatus, Known, SameTx, StepOp
  <2> QED
    BY <2>1, <2>2, <2>3, <2>4 DEF ArmedInv
<1>6. CASE PollStatus
  <2> DEFINE s == answer.snap
  <2>1. answer.kind = "status" /\ (NothingSent(s) \/ \E r : SendCase(s, r))
    BY <1>6, StatusRead
  <2>2. /\ s.exec.id \in Nat
        /\ s.exec.id = exec.id => s.exec = exec \/ s.exec.state = "running"
        /\ busy /\ wire.op = "none"
    BY <2>1, AnswerRead
  <2>3. Known(s.tx)
    BY <2>1 DEF TxInv
  <2>9. update.tx \in Nat /\ exec.id \in Nat
        /\ [update EXCEPT !.tx = s.tx.id].tx = s.tx.id
        /\ [update EXCEPT !.tx = s.tx.id].pkg = update.pkg
        /\ [update EXCEPT !.tx = s.tx.id].ctx = update.ctx
        /\ [update EXCEPT !.tx = s.tx.id].home = update.home
        /\ [update EXCEPT !.tx = s.tx.id].sys = update.sys
    BY OtaAssumption, TypedFacts DEF IInv, TypeOK, PanelTypeOK, Id
  <2> HIDE DEF s
  <2>4. TakeStatus(s)
    BY <2>1 DEF NothingSent, SendCase
  <2>5. life' = life /\ answer'.kind = "none" /\ snapshot' = s
    BY <2>4 DEF TakeStatus
  <2>6. CASE NothingSent(s)
    <3>1. PollFailed(s) => ~(submitted_operation = "reboot" /\ RebootOut) \/ reboot_sent'
      <4> SUFFICES ASSUME PollFailed(s), RebootOut, ~reboot_sent'
                   PROVE  submitted_operation # "reboot"
        OBVIOUS
      <4>1. /\ pending_execution # NoId /\ s.exec.id = pending_execution
            /\ s.exec.req.op = submitted_operation
            /\ s.exec.state \in {"failed", "unknown"}
            /\ s.exec.req.op = "reboot" => s.exec.state = "failed"
        BY DEF PollFailed, IsReceipt, RebootInv
      <4>2. exec.req.op = "reboot" /\ exec.req.from = life
            /\ exec.state \in {"running", "succeeded", "unknown"}
        BY <4>1 DEF RebootInv, RebootOut
      <4>3. s.exec = exec
        BY <2>2, <4>1, <4>2 DEF RebootInv
      <4> QED
        BY <4>1, <4>2, <4>3
    <3>2. reboot_sent /\ ~reboot_sent' => submitted_operation = "reboot"
      BY <2>6 DEF NothingSent, PollFailed, IsReceipt
    <3>3. RebootInv'
      BY <1>0, <1>1, <2>2, <2>5, <2>6, <3>1, <3>2
      DEF NothingSent, RebootInv, Refused, StartNothing
    <3>4. UpdateKnown'
      BY <1>0, <2>3, <2>6, <2>9 DEF NothingSent, UpdateKnown, TxInv, BackupRuns, Known, SameTx
    <3>5. TxInv'
      BY <1>0, <1>2, <2>2, <2>3, <2>5, <2>6, <3>4
      DEF NothingSent, TxInv, BackupRuns, WireOfUpdate, StartNothing, Known, SameTx, StepOp
    <3> QED
      BY <2>2, <2>6, <3>3, <3>5 DEF NothingSent, ArmedInv, StartNothing
  <2>7. ASSUME NEW r, SendCase(s, r) PROVE Extra'
    <3>1. /\ StartPost(r) /\ ~reboot_sent /\ (r.op = "reboot" => reboot_sent')
          /\ pending_execution' = NoId /\ ~armed' /\ r.op \in Op
      BY <2>7 DEF SendCase
    <3>2. ~RebootOut
      BY <3>1 DEF RebootInv
    <3>3. RebootInv'
      BY <1>0, <1>1, <2>5, <3>1, <3>2 DEF RebootInv, Refused, StartPost
    <3>4. UpdateKnown'
      <4>1. CASE update' = update
        BY <1>0, <4>1 DEF UpdateKnown, TxInv, BackupRuns
      <4>2. CASE /\ update' = [update EXCEPT !.tx = s.tx.id]
                 /\ s.tx.pkg = update.pkg /\ s.tx.ctx = update.ctx
        BY <1>0, <2>3, <2>9, <4>2 DEF UpdateKnown, BackupRuns, Known, SameTx
      <4> QED
        BY <2>7, <4>1, <4>2 DEF SendCase
    <3>5. WireOfUpdate'
      <4>1. wire' = r
        BY <3>1 DEF StartPost
      <4>2. CASE r.op = "preflight"
        BY <4>1, <4>2 DEF WireOfUpdate, StepOp
      <4>3. CASE r.op = "backup"
        <5>1. update' = update /\ r.pkg = update.pkg /\ r.tx = NoId /\ update.tx = NoId
          BY <2>7, <4>3 DEF SendCase, TxInv, StepOp
        <5> QED
          BY <4>1, <4>3, <5>1 DEF WireOfUpdate
      <4>4. CASE r.op \in StepOp \cup {"reboot"}
        <5>1. /\ r.op # "reboot" => r.pkg = update.pkg
              /\ r.tx = s.tx.id /\ s.tx.id # NoId
              /\ update' = [update EXCEPT !.tx = s.tx.id]
              /\ r.op = "confirm" => BackupsChosen(s.tx)
          BY <2>7, <4>4 DEF SendCase, StepOp
        <5>2. r.op = "confirm" /\ s.tx.id = tx.id => BackupsChosen(tx)
          BY <2>3, <5>1 DEF Known, SameTx, BackupsChosen
        <5>3. BackupsChosen(tx)' = BackupsChosen(tx)
          BY <1>0, <2>9, <5>1 DEF BackupsChosen
        <5> QED
          BY <1>0, <2>9, <4>1, <5>1, <5>2, <5>3 DEF WireOfUpdate
      <4> QED
        BY <2>7, <4>2, <4>3, <4>4 DEF SendCase
    <3>6. r.op # "backup-plan"
      BY <2>7 DEF SendCase, StepOp
    <3>7. TxInv'
      BY <1>0, <1>2, <2>3, <2>5, <3>1, <3>4, <3>5, <3>6
      DEF TxInv, BackupRuns, StartPost, Known, SameTx
    <3> QED
      BY <3>1, <3>3, <3>7 DEF ArmedInv
  <2> QED
    BY <2>1, <2>6, <2>7
<1> QED
  BY <1>3, <1>4, <1>5, <1>6 DEF Poll

\* A tap binds the update to what the page shows, and the page shows what the
\* Core holds or nothing of it.
LEMMA HandleConfirms ==
  ASSUME ConfirmInv, Handle, UNCHANGED <<coreVars, envVars>>
  PROVE  Extra'
<1> USE DEF ConfirmInv, Extra, PostIsSubmitted, IsPost, NoId, coreVars, envVars
<1> StatusRequest.op = "status"
  BY DEF StatusRequest, NoReq
<1>0. UNCHANGED <<tx, exec, late, answer, life, snapshot>>
  BY DEF Handle, Foreground, Back, TapRefresh, TapUsbFile, TapPackage, TapChoice,
         TapUpload, TapVerify, Arm, Confirm
<1>1. RebootOut' <=> RebootOut
  BY <1>0 DEF RebootOut
<1>2. ASSUME NEW t PROVE Known(t)' = Known(t)
  BY <1>0 DEF Known, BackupRuns
<1>3. ~busy => wire.op = "none" /\ answer.kind = "none"
  BY DEF IInv, WireMatches
<1>4. CASE Foreground \/ TapRefresh
  <2>1. /\ UNCHANGED <<update, update_active, reboot_sent, pending_execution, submitted_operation>>
        /\ \/ wire' = wire /\ UNCHANGED <<status_request, busy>>
           \/ wire' = StatusRequest /\ status_request'
        /\ ~armed'
    BY <1>4 DEF Foreground, TapRefresh, RefreshUnlessBusy, StartStatus, flowVars, ArmedInv
  <2>2. RebootInv'
    BY <1>0, <1>1, <2>1 DEF RebootInv, Refused
  <2>3. TxInv'
    BY <1>0, <1>2, <2>1
    DEF TxInv, UpdateKnown, BackupRuns, WireOfUpdate, Known, SameTx, StepOp, BackupsChosen
  <2> QED
    BY <2>1, <2>2, <2>3 DEF ArmedInv
<1>5. CASE Back \/ TapUsbFile \/ TapChoice \/ Arm \/ \E p \in Package : TapPackage(p)
  <2>1. /\ UNCHANGED <<update, reboot_sent, pending_execution, submitted_operation,
                       wire, status_request, busy>>
        /\ update_active' => update_active
        /\ armed' => open' /\ ~busy /\ pending_execution = NoId
    <3>1. CASE Back \/ TapChoice
      BY <1>5, <3>1 DEF Back, TapChoice, flowVars
    <3>2. CASE TapUsbFile \/ \E p \in Package : TapPackage(p)
      BY <1>5, <3>2 DEF TapUsbFile, TapPackage, ClearSelection
    <3>3. CASE Arm
      BY <1>5, <3>3 DEF Arm, CanUpdate, CanAct, ExecutionBlocks, Blocked, flowVars
    <3> QED
      BY <1>5, <3>1, <3>2, <3>3
  <2>2. RebootInv'
    BY <1>0, <1>1, <2>1 DEF RebootInv, Refused
  <2>3. TxInv'
    BY <1>0, <1>2, <2>1
    DEF TxInv, UpdateKnown, BackupRuns, WireOfUpdate, Known, SameTx, StepOp, BackupsChosen
  <2> QED
    BY <2>1, <2>2, <2>3 DEF ArmedInv
<1>6. CASE TapUpload \/ TapVerify
  <2>1. PICK r : /\ StartPost(r) /\ r.op = "verify"
                 /\ UNCHANGED <<update, reboot_sent, pending_execution, update_active>>
                 /\ ~armed' /\ ~busy /\ ~reboot_sent
    BY <1>6 DEF TapUpload, TapVerify, CanAct, ExecutionBlocks, Blocked, ClearSelection, Req
  <2>2. RebootInv'
    BY <1>0, <1>1, <1>3, <2>1 DEF RebootInv, Refused, StartPost
  <2>3. TxInv'
    BY <1>0, <1>2, <2>1
    DEF TxInv, UpdateKnown, BackupRuns, WireOfUpdate, Known, SameTx, StepOp, StartPost
  <2> QED
    BY <2>1, <2>2, <2>3 DEF ArmedInv
<1>7. CASE Confirm
  <2>1. /\ ~busy /\ ~reboot_sent /\ pending_execution = NoId /\ ~armed'
        /\ pending_execution' = NoId /\ update' = Bound
        /\ \/ StartNothing /\ ~update_active' /\ UNCHANGED reboot_sent
           \/ StartPost(FirstRequest) /\ (FirstRequest.op = "reboot" => reboot_sent')
    BY <1>7 DEF Confirm, CanUpdate, CanAct, ExecutionBlocks, Blocked, Pause, AskedReboot
  <2>2. ~RebootOut
    BY <2>1 DEF RebootInv
  <2>3. UpdateKnown'
    <3>1. CASE Continuing
      <4>1. update'.tx = snapshot.tx.id /\ update'.pkg = snapshot.tx.pkg
            /\ update'.ctx = snapshot.tx.ctx
        BY <2>1, <3>1 DEF Bound
      <4> QED
        BY <1>0, <4>1 DEF UpdateKnown, TxInv, BackupRuns, Known, SameTx
    <3>2. CASE ~Continuing
      <4>1. update'.tx = 0
        BY <2>1, <3>2 DEF Bound
      <4> QED
        BY <1>0, <4>1, TypedFacts DEF UpdateKnown, TxInv, BackupRuns, IInv
    <3> QED
      BY <3>1, <3>2
  <2>4. /\ FirstRequest.tx = Bound.tx /\ ~FirstRequest.auto
        /\ FirstRequest.op # "reboot" => FirstRequest.pkg = Bound.pkg
        /\ FirstRequest.op = "backup-plan" => Bound.tx = 0
    <3>1. CASE Continuing
      <4>1. snapshot.tx.state \in TxState
        BY SnapshotFields DEF IInv, TypeOK, PanelTypeOK
      <4>2. NextOperation # "backup-plan"
        BY <4>1 DEF NextOperation, OperationForState, TxState
      <4> QED
        <5>1. FirstRequest = StepReq(NextOperation, snapshot.tx.pkg, snapshot.tx.id, FALSE)
          BY <3>1 DEF FirstRequest
        <5>2. Bound.tx = snapshot.tx.id /\ Bound.pkg = snapshot.tx.pkg
          BY <3>1 DEF Bound
        <5> QED
          BY <4>2, <5>1, <5>2 DEF StepReq, Req
    <3>2. CASE ~Continuing
      BY <3>2 DEF FirstRequest, Bound, Req
    <3> QED
      BY <3>1, <3>2
  <2> DEFINE r == FirstRequest
  <2> HIDE DEF r
  <2>5. CASE StartNothing /\ ~update_active' /\ UNCHANGED reboot_sent
    <3>1. RebootInv'
      BY <1>0, <1>1, <1>3, <2>1, <2>2, <2>5 DEF RebootInv, Refused, StartNothing
    <3>2. TxInv'
      BY <1>0, <1>2, <1>3, <2>1, <2>3, <2>5
      DEF TxInv, BackupRuns, WireOfUpdate, Known, SameTx, StepOp, StartNothing
    <3> QED
      BY <2>1, <3>1, <3>2 DEF ArmedInv
  <2>6. CASE StartPost(r) /\ (r.op = "reboot" => reboot_sent')
    <3>1. RebootInv'
      BY <1>0, <1>1, <1>3, <2>1, <2>2, <2>6 DEF RebootInv, Refused, StartPost
    <3>2. WireOfUpdate'
      BY <2>1, <2>4, <2>6 DEF WireOfUpdate, StartPost, r
    <3>3. TxInv'
      BY <1>0, <1>2, <2>1, <2>3, <2>4, <2>6, <3>2
      DEF TxInv, BackupRuns, Known, SameTx, StartPost, r
    <3> QED
      BY <2>1, <3>1, <3>3 DEF ArmedInv
  <2> QED
    BY <2>1, <2>5, <2>6 DEF r
<1> QED
  BY <1>4, <1>5, <1>6, <1>7 DEF Handle

\* What a successful operation does to a transaction that exists.
LEMMA EffectKeeps ==
  ASSUME CoreTypeOK, NEW c \in Context \cup {NoCtx}, Effect(c)
  PROVE  \/ exec.req.op = "backup" /\ tx'.id = exec.id
         \/ exec.req.op # "backup" /\ tx'.id = tx.id /\ SameTx(tx', tx)
<1>1. tx \in Transaction
  BY DEF CoreTypeOK
<1>2. CASE exec.req.op = "backup"
  BY <1>2 DEF Effect, StepOp
<1>3. CASE exec.req.op \in StepOp
  <2>1. tx' = [tx EXCEPT !.state = StateAfter[exec.req.op]] /\ exec.req.op # "backup"
    BY <1>3 DEF Effect, StepOp
  <2> QED
    BY <1>1, <2>1 DEF Transaction, SameTx
<1>4. CASE exec.req.op # "backup" /\ exec.req.op \notin StepOp
  BY <1>4 DEF Effect, SameTx
<1> QED
  BY <1>2, <1>3, <1>4

\* Everything but the screen: what was read stays true or is gone.
LEMMA EnvironmentConfirms ==
  ASSUME ConfirmInv, IInv',
         \/ HandleStatus \/ HandlePost \/ LoseAnswer \/ HandleLate
         \/ WebSubmit \/ Operator \/ Restart
         \/ (Core /\ UNCHANGED <<late, webs>>)
  PROVE  Extra'
<1> USE DEF ConfirmInv, Extra, PostIsSubmitted, IsPost, NoId
<1>1. NoReq.op = "none" /\ NoAnswer.kind = "none" /\ NoTx.id = 0
      /\ NullSnapshot.tx = NoTx /\ NoUpdate.tx = 0
  BY DEF NoReq, NoAnswer, NoTx, NullSnapshot, NoUpdate
<1>2. /\ tx.id \in Nat /\ exec.id \in Nat /\ snapshot.tx.id \in Nat /\ update.tx \in Nat
      /\ answer.kind = "status" => answer.snap.tx.id \in Nat
      /\ CoreTypeOK
  BY OtaAssumption, TypedFacts, SnapshotFields, ExecutionFields
  DEF IInv, TypeOK, PanelTypeOK, CoreTypeOK, Transaction, Id
<1>3. WireMatches /\ WorkAccounted /\ NoPostBeside /\ NoFutureLife /\ SingleFlight
  BY DEF IInv
<1>4. CASE HandleStatus
  <2> DEFINE a == [kind |-> "status", snap |-> Overview]
  <2>1. a.kind = "status" /\ a.snap.tx = tx
    BY DEF Overview
  <2>2. Answered(a) /\ UNCHANGED <<tx, exec, late>>
    BY <1>4 DEF HandleStatus, coreVars, envVars
  <2> HIDE DEF a
  <2>3. RebootInv'
    BY <1>1, <2>1, <2>2 DEF Answered, RebootInv, RebootOut, Refused, flowVars
  <2>4. Known(tx)
    BY <1>2 DEF Known, SameTx, TxInv, BackupRuns
  <2>5. TxInv'
    BY <1>1, <2>1, <2>2, <2>4
    DEF Answered, TxInv, Known, SameTx, BackupRuns, UpdateKnown, WireOfUpdate, StepOp, flowVars
  <2> QED
    BY <2>2, <2>3, <2>5 DEF Answered, ArmedInv
<1>5. ASSUME NEW r \in Request, r.op \in Op, Admits(r), Accept(r),
             UNCHANGED <<snapshot, update, submitted_operation, update_active>>,
             UNCHANGED answer \/ answer'.kind # "status",
             UNCHANGED wire \/ wire' = NoReq
      PROVE  TxInv'
  <2>1. /\ tx' = tx /\ exec'.id = exec.id + 1 /\ exec'.req.op = r.op
        /\ exec.state # "running"
    BY <1>2, <1>5, AcceptTypes DEF Admits
  <2>2. r.op = "backup" => tx.id = 0
    BY <1>5 DEF Admits
  <2>3. ASSUME NEW t, t.id \in Nat, Known(t) PROVE Known(t)'
    BY <1>2, <2>1, <2>3 DEF Known, BackupRuns, SameTx
  <2>4. UpdateKnown'
    BY <1>2, <1>5, <2>1 DEF UpdateKnown, TxInv, BackupRuns
  <2>5. WireOfUpdate'
    BY <1>1, <1>5, <2>1 DEF WireOfUpdate, TxInv, BackupsChosen, StepOp
  <2> QED
    BY <1>1, <1>2, <1>5, <2>1, <2>2, <2>3, <2>4, <2>5 DEF TxInv, BackupRuns
<1>6. CASE HandlePost
  <2>1. CASE Admits(wire)
    <3> DEFINE a == [kind |-> "accepted", id |-> exec'.id, pkg |-> exec'.req.pkg]
    <3>1. a.kind = "accepted" /\ a.id = exec'.id
      OBVIOUS
    <3>2. Answered(a) /\ Accept(wire) /\ late' = late
      BY <1>6, <2>1 DEF HandlePost, envVars
    <3> HIDE DEF a
    <3>3. wire \in Request /\ wire.op \in Op
      BY <1>6 DEF HandlePost, IInv, TypeOK, PanelTypeOK, Request
    <3>4. exec'.state = "running" /\ exec'.req.op = wire.op
      BY <1>2, <2>1, <3>2, <3>3, AcceptTypes
    <3>5. ~\E r \in late : r.from = life
      BY <1>3, <1>6 DEF HandlePost, SingleFlight
    <3>6. busy /\ ~status_request /\ pending_execution = 0
      BY <1>3, <1>6 DEF HandlePost, WireMatches, NoPostBeside
    <3>7. RebootInv'
      BY <1>1, <3>1, <3>2, <3>4, <3>5, <3>6
      DEF Answered, RebootInv, RebootOut, Refused, flowVars
    <3>8. TxInv'
      BY <1>5, <2>1, <3>1, <3>2, <3>3 DEF Answered, flowVars
    <3> QED
      BY <3>2, <3>7, <3>8 DEF Answered, ArmedInv
  <2>2. CASE ~Admits(wire)
    <3> DEFINE a == [kind |-> "error", unclear |-> FALSE]
    <3>1. a.kind = "error" /\ ~a.unclear
      OBVIOUS
    <3>2. Answered(a) /\ UNCHANGED <<tx, exec, late>>
      BY <1>6, <2>2 DEF HandlePost, coreVars, envVars
    <3> HIDE DEF a
    <3>3. RebootInv'
      BY <1>1, <1>6, <3>1, <3>2 DEF HandlePost, Answered, RebootInv, RebootOut, Refused, flowVars
    <3>4. TxInv'
      BY <1>1, <3>1, <3>2
      DEF Answered, TxInv, Known, SameTx, BackupRuns, UpdateKnown, WireOfUpdate, StepOp, flowVars
    <3> QED
      BY <3>2, <3>3, <3>4 DEF Answered, ArmedInv
  <2> QED
    BY <2>1, <2>2
<1>7. CASE LoseAnswer
  <2>1. PICK a \in {[kind |-> "malformed"], [kind |-> "error", unclear |-> TRUE]} : Answered(a)
    BY <1>7 DEF LoseAnswer
  <2>2. a.kind = "malformed" \/ (a.kind = "error" /\ a.unclear)
    OBVIOUS
  <2>3. /\ wire.op # "none" /\ UNCHANGED <<tx, exec>>
        /\ late' = late \/ (IsPost(wire) /\ late' = late \cup {wire})
    BY <1>7 DEF LoseAnswer, coreVars
  <2>4. IsPost(wire) => wire.from = life /\ pending_execution = 0
    BY <1>3 DEF WireMatches, NoPostBeside
  <2>5. RebootInv'
    BY <1>1, <2>1, <2>2, <2>3, <2>4 DEF Answered, RebootInv, RebootOut, Refused, flowVars
  <2>6. TxInv'
    BY <1>1, <2>1, <2>2, <2>3
    DEF Answered, TxInv, Known, SameTx, BackupRuns, UpdateKnown, WireOfUpdate, StepOp, flowVars
  <2> QED
    BY <2>1, <2>5, <2>6 DEF Answered, ArmedInv
<1>8. CASE HandleLate
  <2>1. PICK r \in late :
          /\ late' = late \ {r}
          /\ (Admits(r) /\ Accept(r)) \/ UNCHANGED coreVars
          /\ UNCHANGED <<panelVars, webs>>
    BY <1>8 DEF HandleLate
  <2>2. CASE UNCHANGED coreVars
    <3>1. RebootInv'
      BY <2>1, <2>2 DEF coreVars, panelVars, flowVars, RebootInv, RebootOut, Refused
    <3>2. TxInv'
      BY <2>1, <2>2
      DEF coreVars, panelVars, flowVars, TxInv, Known, SameTx, BackupRuns, UpdateKnown,
          WireOfUpdate, BackupsChosen
    <3> QED
      BY <2>1, <3>1, <3>2 DEF panelVars, ArmedInv
  <2>3. CASE Admits(r) /\ Accept(r)
    <3>1. r \in Request /\ r.op \in Op
      BY DEF IInv, TypeOK, Request
    <3>2. /\ exec'.id = exec.id + 1 /\ exec'.state = "running" /\ exec'.req.from = r.from
          /\ exec'.req.op = r.op
      BY <1>2, <2>3, <3>1, AcceptTypes
    <3>3. r.from = life =>
            pending_execution = 0 /\ answer.kind # "accepted" /\ ~IsPost(wire)
      BY <1>3, AnswerRead DEF RebootInv, SingleFlight
    <3>4. r.from = life /\ r.op = "reboot" => RebootOut
      BY DEF RebootOut
    <3>5. RebootOut' => RebootOut
      BY <2>1, <3>2, <3>4 DEF RebootOut, panelVars
    <3>6. RebootInv'
      BY <2>1, <3>2, <3>3, <3>5 DEF RebootInv, Refused, panelVars, flowVars
    <3>7. TxInv'
      BY <1>5, <2>1, <2>3, <3>1 DEF panelVars, flowVars
    <3> QED
      BY <2>1, <3>6, <3>7 DEF panelVars, ArmedInv
  <2> QED
    BY <2>1, <2>2, <2>3
<1>9. CASE WebSubmit
  <2>1. PICK o \in Op, p \in staged \cup {NoPkg}, h \in HomeChoice, y \in SysChoice :
          LET r == [op |-> o, pkg |-> p, tx |-> tx.id, home |-> h, sys |-> y,
                    from |-> 0, auto |-> FALSE]
          IN Admits(r) /\ Accept(r)
    BY <1>9 DEF WebSubmit
  <2> DEFINE r == [op |-> o, pkg |-> p, tx |-> tx.id, home |-> h, sys |-> y,
                   from |-> 0, auto |-> FALSE]
  <2>2. 0 \in Life /\ tx.id \in Id /\ p \in Package \cup {NoPkg}
    BY OtaAssumption DEF Life, IInv, TypeOK, CoreTypeOK, Transaction
  <2>3. r \in Request /\ r.op \in Op /\ r.from = 0
    BY <2>2 DEF Request
  <2>4. Admits(r) /\ Accept(r) /\ UNCHANGED panelVars /\ late' = late
    BY <1>9, <2>1 DEF WebSubmit
  <2> HIDE DEF r
  <2>5. exec'.req.from = 0 /\ life # 0
    BY <1>2, <2>3, <2>4, AcceptTypes, TypedFacts DEF IInv
  <2>6. RebootInv'
    BY <2>4, <2>5 DEF panelVars, flowVars, RebootInv, RebootOut, Refused
  <2>7. TxInv'
    BY <1>5, <2>3, <2>4 DEF panelVars, flowVars
  <2> QED
    BY <2>4, <2>6, <2>7 DEF panelVars, ArmedInv
<1>10. CASE Operator
  <2>1. tx' = NoTx /\ UNCHANGED <<exec, late, panelVars>> /\ exec.state # "running"
    BY <1>10 DEF Operator, Inspect
  <2>2. RebootInv'
    BY <2>1 DEF panelVars, flowVars, RebootInv, RebootOut, Refused
  <2>3. TxInv'
    BY <1>1, <1>2, <2>1
    DEF panelVars, flowVars, TxInv, Known, SameTx, BackupRuns, UpdateKnown, WireOfUpdate
  <2> QED
    BY <2>1, <2>2, <2>3 DEF panelVars, ArmedInv
<1>11. CASE Restart
  <2>1. exec.req.from # life' /\ \A r \in late' : r.from # life'
    BY <1>3, <1>11, TypedFacts DEF Restart, NoFutureLife, WireMatches, IInv
  <2>2. RebootInv'
    BY <1>1, <1>11, <2>1 DEF Restart, RebootInv, RebootOut, Refused, coreVars
  <2>3. TxInv'
    BY <1>1, <1>2, <1>11
    DEF Restart, TxInv, Known, SameTx, BackupRuns, UpdateKnown, WireOfUpdate, coreVars, StepOp
  <2> QED
    BY <1>11, <2>2, <2>3 DEF Restart, ArmedInv
<1>12. ASSUME Core, UNCHANGED <<late, webs>>
       PROVE  Extra'
  <2>1. /\ exec.state = "running" /\ exec'.state # "running"
        /\ exec'.id = exec.id /\ exec'.req = exec.req /\ UNCHANGED panelVars
    BY <1>2, <1>12 DEF Core, Succeed, Fail, BecomeUnknown, CoreTypeOK, Execution
  <2>2. \/ tx' = tx
        \/ exec.req.op = "backup" /\ tx'.id = exec.id
        \/ tx'.id = tx.id /\ SameTx(tx', tx)
    BY <1>2, <1>12, EffectKeeps DEF Core, Succeed, Fail, BecomeUnknown
  <2>3. RebootInv'
    BY <1>12, <2>1 DEF panelVars, flowVars, RebootInv, RebootOut, Refused
  <2>4. ~BackupRuns' /\ tx'.id <= exec'.id
    BY <1>2, <2>1, <2>2 DEF BackupRuns, TxInv
  <2>5. ASSUME NEW t, t.id \in Nat, Known(t) PROVE Known(t)'
    BY <1>2, <2>1, <2>2, <2>4, <2>5 DEF Known, BackupRuns, SameTx
  <2>6. UpdateKnown'
    BY <1>2, <2>1, <2>2, <2>4 DEF UpdateKnown, TxInv, BackupRuns, SameTx, panelVars
  <2>7. WireOfUpdate'
    BY <1>2, <2>1, <2>2
    DEF WireOfUpdate, UpdateKnown, TxInv, BackupRuns, SameTx, BackupsChosen, StepOp, panelVars
  <2>8. TxInv'
    BY <1>2, <2>1, <2>4, <2>5, <2>6, <2>7 DEF TxInv, panelVars, flowVars
  <2> QED
    BY <2>1, <2>3, <2>8 DEF panelVars, ArmedInv
<1> QED
  BY <1>4, <1>6, <1>7, <1>8, <1>9, <1>10, <1>11, <1>12
-----------------------------------------------------------------------------
\* The strengthened invariant holds when the screen starts.
LEMMA ConfirmInit == Init => ConfirmInv
<1> SUFFICES ASSUME Init PROVE Extra
  BY InvInit DEF ConfirmInv, Extra
<1>1. /\ wire.op = "none" /\ answer.kind = "none" /\ update.tx = 0 /\ tx.id = 0
      /\ exec.id = 0 /\ exec.state = "none" /\ snapshot.tx.id = 0 /\ late = {}
      /\ submitted_operation = "none" /\ ~armed
  BY DEF Init, PanelInit, CoreInit, NoReq, NoAnswer, NoExec, NoId, NoUpdate, NoTx, NullSnapshot
<1>2. RebootInv
  BY <1>1 DEF RebootInv, RebootOut, Refused, PostIsSubmitted, IsPost, Init, PanelInit
<1>3. TxInv
  BY <1>1 DEF TxInv, Known, BackupRuns, UpdateKnown, WireOfUpdate, PostIsSubmitted, IsPost,
              StepOp, NoId
<1> QED
  BY <1>1, <1>2, <1>3 DEF Extra, ArmedInv

\* Every step preserves it.
LEMMA ConfirmStep == ConfirmInv /\ [Next]_vars => ConfirmInv'
<1> SUFFICES ASSUME ConfirmInv, [Next]_vars PROVE ConfirmInv'
  OBVIOUS
<1>1. IInv'
  BY InvStep DEF ConfirmInv
<1>2. CASE Ui
  BY <1>1, <1>2, PollConfirms, HandleConfirms DEF Ui, ConfirmInv, Extra
<1>3. CASE Core \/ Wire \/ HandleLate \/ WebSubmit \/ Operator \/ Restart
  BY <1>1, <1>3, EnvironmentConfirms DEF Wire, Core, envVars, ConfirmInv, Extra
<1>4. CASE UNCHANGED vars
  BY <1>1, <1>4
  DEF vars, panelVars, flowVars, coreVars, envVars, ConfirmInv, RebootInv, RebootOut,
      Refused, TxInv, ArmedInv, Known, SameTx, BackupRuns, UpdateKnown, WireOfUpdate,
      BackupsChosen, PostIsSubmitted
<1> QED
  BY <1>2, <1>3, <1>4 DEF Next

\* The strengthened invariant of the page, the Core and what lies between them.
LEMMA ConfirmInvHolds == Spec => []ConfirmInv
BY ConfirmInit, ConfirmStep, PTL DEF Spec

(* While a reboot this process asked for may yet happen, or has, the page   *)
(* keeps reboot_sent (ota_panel.cpp:525) and lets nothing else be started.  *)
THEOREM RebootIsLatched == Spec => []RebootLatched
<1>1. ConfirmInv => RebootLatched
  BY DEF ConfirmInv, RebootInv, RebootOut, RebootLatched, Work, IsPost
<1> QED
  BY <1>1, ConfirmInvHolds, PTL

(* Every request of a running update names the package, the transaction and *)
(* the context the user confirmed, as the Core holds them at that moment.   *)
THEOREM RequestsAreConfirmed == Spec => []SentAsConfirmed
<1>1. ConfirmInv => SentAsConfirmed
  BY DEF ConfirmInv, TxInv, UpdateKnown, WireOfUpdate, SentAsConfirmed
<1> QED
  BY <1>1, ConfirmInvHolds, PTL

(* The page confirms a transaction by itself only when the Core holds the   *)
(* backups the user chose, all verified.                                    *)
THEOREM ConfirmedBackedUp == Spec => []AutoConfirmBackedUp
<1>1. ConfirmInv => AutoConfirmBackedUp
  BY DEF ConfirmInv, TxInv, WireOfUpdate, BackupsChosen, AutoConfirmBackedUp
<1> QED
  BY <1>1, ConfirmInvHolds, PTL

(* What the user is asked to confirm does not change under the finger: no   *)
(* status is read, and no choice changed, while the confirmation is up.     *)
THEOREM ConfirmationHolds == Spec => ConfirmationStands
<1> DEFINE Stands == armed /\ armed' => UNCHANGED <<snapshot, preflight, selected_package,
                                                   home_choice, sys_choice>>
<1>1. ASSUME ConfirmInv, [Next]_vars PROVE [Stands]_vars
  <2> SUFFICES ASSUME armed, armed'
               PROVE  UNCHANGED <<snapshot, preflight, selected_package, home_choice, sys_choice>>
    OBVIOUS
  <2>1. open /\ ~busy /\ pending_execution = NoId /\ answer.kind = "none"
    BY <1>1 DEF ConfirmInv, ArmedInv, IInv, WireMatches
  <2>2. CASE Ui
    <3>1. ~Poll
      BY <2>1 DEF Poll, PollError, PollMalformed, PollAccepted, PollStatus, PollRefresh, RefreshDue
    <3>2. Handle
      BY <2>2, <3>1 DEF Ui
    <3> QED
      BY <2>1, <3>2
      DEF Handle, Foreground, Back, TapRefresh, TapUsbFile, TapPackage, TapChoice, TapUpload,
          TapVerify, Arm, Confirm, ClearSelection
  <2>3. CASE Core \/ HandleLate \/ WebSubmit \/ Operator \/ UNCHANGED vars
    BY <2>3 DEF Core, HandleLate, WebSubmit, Operator, vars, panelVars, choiceVars
  <2>4. CASE Wire
    BY <2>4 DEF Wire, HandleStatus, HandlePost, LoseAnswer, Answered, choiceVars
  <2>5. CASE Restart
    BY <2>5 DEF Restart
  <2> QED
    BY <1>1, <2>2, <2>3, <2>4, <2>5 DEF Next
<1> QED
  BY <1>1, ConfirmInit, ConfirmStep, PTL DEF Spec, ConfirmationStands
-----------------------------------------------------------------------------
(* With nobody else at the Core and no restart, the page knows the Core: a *)
(* step it sends is one the Core admits.                                    *)

Alone == webs = 0 /\ life = 1

\* The operations that follow from what the page has read, not from a package
\* it chose.
Following == StepOp \cup {"backup-plan", "backup", "reboot"}

\* What the Core keeps, whoever asks it.
CoreSound ==
  /\ tx.id # NoId => tx.pkg \in staged
  /\ activation => tx.id # NoId
  /\ exec.req.op \in Op \ {"reboot"} => exec.req.pkg \in staged
  /\ exec.state = "running" /\ exec.req.op \in StepOp => tx.id # NoId
  /\ exec.req.op = "backup-plan" =>
       exec.req.home \in HomeChoice /\ exec.req.sys \in SysChoice

\* A package that was checked is still at the Core.
CheckedHeld ==
  /\ answer.kind = "status" /\ answer.snap.exec.req.op = "preflight" =>
       answer.snap.exec.req.pkg \in staged
  /\ preflight # NoPre => preflight.pkg \in staged

\* What was read is older than the last execution, or all there is to know.
UpToDate(s) ==
  /\ s.exec.id <= exec.id
  /\ s.exec.id = exec.id => s.exec = exec \/ s.exec.state = "running"
  /\ s.exec = exec => s.tx = tx /\ s.activation = activation

\* No operation is under way, and the page knows it.
Settled ==
  ~uncertain /\ pending_execution = NoId /\ ~LostPost /\ answer.kind # "accepted"

PageCurrent ==
  /\ \A r \in late : r.from = life
  /\ exec.state = "running" => exec.req.from = life
  /\ UpToDate(snapshot)
  /\ answer.kind = "status" => UpToDate(answer.snap)
  /\ Settled => snapshot.exec = exec
  /\ Settled /\ answer.kind = "status" => answer.snap.exec = exec
  /\ ~uncertain /\ pending_execution # NoId => exec.id = pending_execution
  /\ ~uncertain /\ answer.kind = "accepted" => exec.id = answer.id
  /\ wire.op \in Following /\ exec.id < MaxExec => Admits(wire)
  /\ Refused /\ exec.id < MaxExec => submitted_operation \in {"verify", "preflight"}

AdmitInv == CoreSound /\ CheckedHeld /\ (Alone => PageCurrent)

\* An admitted request leaves the Core sound, and forgets no package.
LEMMA AcceptSound ==
  ASSUME CoreTypeOK, CoreSound, NEW r \in Request, r.op \in Op, Admits(r), Accept(r)
  PROVE  /\ CoreSound' /\ staged \subseteq staged'
         /\ UNCHANGED <<tx, activation>>
<1>1. PICK p \in IF IsUpload(r) THEN Package \ staged ELSE {r.pkg} :
        /\ exec' = [id |-> exec.id + 1, req |-> [r EXCEPT !.pkg = p], ctx |-> NoCtx,
                    state |-> "running", result |-> "bad"]
        /\ staged' = IF r.op = "reboot" THEN staged ELSE staged \cup {p}
        /\ UNCHANGED <<tx, activation>>
  BY DEF Accept
<1>2. /\ exec'.req.op = r.op /\ exec'.req.pkg = p
      /\ exec'.req.home = r.home /\ exec'.req.sys = r.sys
  BY <1>1 DEF Request
<1>3. staged \subseteq staged' /\ (r.op # "reboot" => p \in staged')
  BY <1>1
<1>4. r.op \in StepOp => tx.id # NoId
  BY DEF Admits
<1>5. r.op = "backup-plan" => r.home \in HomeChoice /\ r.sys \in SysChoice
  BY DEF Admits
<1>6. tx' = tx /\ activation' = activation
  BY <1>1
<1>7. CoreSound'
  BY <1>2, <1>3, <1>4, <1>5, <1>6 DEF CoreSound
<1> QED
  BY <1>3, <1>6, <1>7

\* So does the end of an operation.
LEMMA EndSound ==
  ASSUME CoreTypeOK, CoreSound, BackupRuns => exec.id # NoId, Succeed \/ Fail \/ BecomeUnknown
  PROVE  /\ CoreSound' /\ staged' = staged
         /\ exec.state = "running" /\ exec'.state # "running"
         /\ exec'.id = exec.id /\ exec'.req = exec.req
<1>1. /\ exec.state = "running" /\ exec'.state # "running" /\ staged' = staged
      /\ exec'.id = exec.id /\ exec'.req = exec.req
  BY DEF Succeed, Fail, BecomeUnknown, CoreTypeOK, Execution
<1>2. UNCHANGED <<tx, activation>> \/ \E c \in Context \cup {NoCtx} : Effect(c)
  BY DEF Succeed, Fail, BecomeUnknown
<1>3. CASE UNCHANGED <<tx, activation>>
  BY <1>1, <1>3 DEF CoreSound
<1>4. ASSUME NEW c \in Context \cup {NoCtx}, Effect(c) PROVE CoreSound'
  <2>1. CASE exec.req.op = "backup"
    <3>1. tx'.id = exec.id /\ tx'.pkg = exec.req.pkg /\ activation' = activation
      BY <1>4, <2>1 DEF Effect, StepOp
    <3> QED
      BY <1>1, <2>1, <3>1 DEF CoreSound, BackupRuns, Op
  <2>2. CASE exec.req.op \in StepOp
    <3>1. tx' = [tx EXCEPT !.state = StateAfter[exec.req.op]]
      BY <1>4, <2>2 DEF Effect, StepOp
    <3>2. tx'.id = tx.id /\ tx'.pkg = tx.pkg
      BY <3>1 DEF CoreTypeOK, Transaction
    <3> QED
      BY <1>1, <2>2, <3>2 DEF CoreSound
  <2>3. CASE exec.req.op \notin StepOp \cup {"backup"}
    BY <1>1, <1>4, <2>3 DEF Effect, CoreSound
  <2> QED
    BY <2>1, <2>2, <2>3
<1> QED
  BY <1>1, <1>2, <1>3, <1>4

\* How a step of the system can touch the Core, and who can take it.
LEMMA CoreSteps ==
  ASSUME ConfirmInv, CoreSound, [Next]_vars
  PROVE  \/ UNCHANGED coreVars
         \/ \E r \in Request : /\ r.op \in Op /\ Admits(r) /\ Accept(r)
                               /\ \/ HandlePost /\ r = wire
                                  \/ HandleLate /\ r \in late
                                  \/ WebSubmit
         \/ Core
         \/ Operator /\ Inspect
<1>1. wire \in Request /\ late \subseteq {r \in Request : IsPost(r)} /\ CoreTypeOK
  BY DEF ConfirmInv, IInv, TypeOK, PanelTypeOK
<1>2. ASSUME NEW r \in Request, IsPost(r) PROVE r.op \in Op
  BY <1>2 DEF IsPost, Request
<1>3. CASE HandlePost
  <2>1. IsPost(wire) /\ ((Admits(wire) /\ Accept(wire)) \/ UNCHANGED coreVars)
    BY <1>3 DEF HandlePost
  <2>2. wire.op \in Op
    BY <1>1, <1>2, <2>1
  <2>3. CASE Admits(wire) /\ Accept(wire)
    <3>1. \E r \in Request : r.op \in Op /\ Admits(r) /\ Accept(r) /\ HandlePost /\ r = wire
      BY <1>1, <1>3, <2>2, <2>3
    <3> QED
      BY <3>1
  <2> QED
    BY <2>1, <2>3
<1>4. CASE HandleLate
  <2>1. PICK r \in late : (Admits(r) /\ Accept(r)) \/ UNCHANGED coreVars
    BY <1>4 DEF HandleLate
  <2> QED
    BY <1>1, <1>2, <1>4, <2>1
<1>5. CASE WebSubmit
  <2>1. PICK o \in Op, p \in staged \cup {NoPkg}, h \in HomeChoice, y \in SysChoice :
          LET r == [op |-> o, pkg |-> p, tx |-> tx.id, home |-> h, sys |-> y,
                    from |-> 0, auto |-> FALSE]
          IN Admits(r) /\ Accept(r)
    BY <1>5 DEF WebSubmit
  <2> DEFINE r == [op |-> o, pkg |-> p, tx |-> tx.id, home |-> h, sys |-> y,
                   from |-> 0, auto |-> FALSE]
  <2>2. 0 \in Life /\ tx.id \in Id /\ p \in Package \cup {NoPkg}
    BY <1>1, OtaAssumption DEF Life, CoreTypeOK, Transaction
  <2>3. r \in Request /\ r.op \in Op
    BY <2>2 DEF Request
  <2> QED
    BY <1>5, <2>1, <2>3
<1>6. CASE Operator
  BY <1>6 DEF Operator
<1> QED
  BY <1>3, <1>4, <1>5, <1>6
  DEF Next, Ui, Wire, HandleStatus, LoseAnswer, Restart, vars

\* The Core stays sound and no package is forgotten.
LEMMA CoreStaysSound ==
  ASSUME ConfirmInv, CoreSound, [Next]_vars
  PROVE  CoreSound' /\ staged \subseteq staged'
<1>1. CoreTypeOK /\ (BackupRuns => exec.id # NoId)
  BY DEF ConfirmInv, IInv, TypeOK, TxInv
<1>2. CASE UNCHANGED coreVars
  BY <1>2 DEF coreVars, CoreSound
<1>3. CASE \E r \in Request : r.op \in Op /\ Admits(r) /\ Accept(r)
  BY <1>1, <1>3, AcceptSound
<1>4. CASE Core
  BY <1>1, <1>4, EndSound DEF Core
<1>5. CASE Inspect
  BY <1>5 DEF Inspect, CoreSound, NoTx, NoId
<1> QED
  BY <1>2, <1>3, <1>4, <1>5, CoreSteps

\* Every status becomes the page's snapshot.
LEMMA StatusTaken ==
  ASSUME NEW s, TakeStatus(s)
  PROVE  answer'.kind = "none" /\ life' = life /\ snapshot' = s
BY DEF TakeStatus, NoAnswer

\* What a status leaves behind, whatever it says.
LEMMA FollowsRead ==
  ASSUME PollStatus
  PROVE  LET s == answer.snap
         IN  /\ answer.kind = "status" /\ TakeStatus(s)
             /\ uncertain => uncertain'
             /\ \/ preflight' = preflight
                \/ s.exec.req.op = "preflight" /\ preflight'.pkg = s.exec.req.pkg
             /\ \/ pending_execution' = pending_execution
                \/ /\ pending_execution' = NoId
                   /\ pending_execution # NoId => IsReceipt(s) /\ s.exec.state # "running"
             /\ \/ StartNothing
                \/ \E r : StartPost(r) /\ r.op = "preflight"
                \/ AdvancePlanned(s)
                \/ AdvanceStep(s)
<1> DEFINE s == answer.snap
<1>0. /\ answer.kind = "status"
      /\ \/ PollNoReceiptDue(s) \/ PollReceiptChanged(s) \/ PollStillRunning(s)
         \/ PollFailed(s) \/ PollUnsound(s) \/ PollRebooted(s)
         \/ AdvanceVerified(s) \/ AdvancePlanned(s) \/ AdvanceStep(s)
         \/ AdvanceHalt(s) \/ AdvanceNothing(s)
  BY DEF PollStatus
<1> HIDE DEF s
<1> DEFINE Stays == uncertain => uncertain'
           Checked == \/ preflight' = preflight
                      \/ s.exec.req.op = "preflight" /\ preflight'.pkg = s.exec.req.pkg
           Pending == \/ pending_execution' = pending_execution
                      \/ /\ pending_execution' = NoId
                         /\ pending_execution # NoId => IsReceipt(s) /\ s.exec.state # "running"
           Sent == \/ StartNothing
                   \/ \E r : StartPost(r) /\ r.op = "preflight"
                   \/ AdvancePlanned(s)
                   \/ AdvanceStep(s)
<1> SUFFICES TakeStatus(s) /\ Stays /\ Checked /\ Pending /\ Sent
  BY <1>0 DEF s
<1>1. ASSUME Finished(s) PROVE TakeStatus(s) /\ Checked /\ Pending
  <2>1. /\ TakeStatus(s) /\ IsReceipt(s) /\ s.exec.state = "succeeded"
        /\ pending_execution' = NoId
    BY <1>1 DEF Finished, Succeeded
  <2>2. Checked
    BY <1>1 DEF Finished
  <2> QED
    BY <2>1, <2>2
<1>2. CASE PollNoReceiptDue(s) \/ PollReceiptChanged(s) \/ PollStillRunning(s)
  <2>1. /\ TakeStatus(s) /\ StartNothing
        /\ preflight' = preflight /\ pending_execution' = pending_execution
    BY <1>2 DEF PollNoReceiptDue, PollReceiptChanged, PollStillRunning
  <2>2. Stays
    BY <1>2 DEF PollNoReceiptDue, PollReceiptChanged, PollStillRunning, Pause, flowVars
  <2> QED
    BY <2>1, <2>2
<1>3. CASE PollFailed(s)
  BY <1>3 DEF PollFailed, Pause
<1>4. CASE PollUnsound(s) \/ PollRebooted(s)
  BY <1>4 DEF PollUnsound, PollRebooted, Succeeded, Pause
<1>5. CASE AdvanceHalt(s) \/ AdvanceNothing(s)
  <2>1. Finished(s) /\ StartNothing
    BY <1>5 DEF AdvanceHalt, AdvanceNothing
  <2>2. Stays
    BY <1>5 DEF AdvanceHalt, AdvanceNothing, Pause, flowVars
  <2> QED
    BY <1>1, <2>1, <2>2
<1>6. CASE AdvanceVerified(s)
  <2> DEFINE r == Req("preflight", selected_package, NoId, "unset", "unset", TRUE)
  <2>1. r.op = "preflight"
    BY DEF Req
  <2> HIDE DEF r
  <2>2. Finished(s) /\ uncertain' = uncertain /\ (StartNothing \/ StartPost(r))
    BY <1>6 DEF AdvanceVerified, r
  <2>3. Sent
    BY <2>1, <2>2
  <2>4. Stays
    BY <2>2
  <2>5. TakeStatus(s) /\ Checked /\ Pending
    BY <1>1, <2>2
  <2> HIDE DEF Stays, Checked, Pending, Sent
  <2> QED
    BY <2>3, <2>4, <2>5
<1>7. CASE AdvancePlanned(s) \/ AdvanceStep(s)
  <2>1. Finished(s)
    BY <1>7 DEF AdvancePlanned, AdvanceStep
  <2>2. Stays
    BY <1>7 DEF AdvancePlanned, AdvanceStep, flowVars
  <2>3. TakeStatus(s) /\ Checked /\ Pending
    BY <1>1, <2>1
  <2> QED
    BY <1>7, <2>2, <2>3
<1> QED
  BY <1>0, <1>2, <1>3, <1>4, <1>5, <1>6, <1>7

\* A package that was checked stays at the Core: nothing there is deleted.
LEMMA CheckedStaysHeld ==
  ASSUME ConfirmInv, CoreSound, CheckedHeld, [Next]_vars
  PROVE  CheckedHeld'
<1>1. staged \subseteq staged'
  BY CoreStaysSound
<1>2. CASE UNCHANGED panelVars
  BY <1>1, <1>2 DEF panelVars, choiceVars, CheckedHeld
<1>3. CASE Restart
  BY <1>3 DEF Restart, CheckedHeld, NoAnswer
<1>4. CASE Wire
  <2>1. preflight' = preflight
    BY <1>4 DEF Wire, HandleStatus, HandlePost, LoseAnswer, Answered, choiceVars
  <2>2. CASE HandleStatus
    <3>1. answer' = [kind |-> "status", snap |-> Overview] /\ staged' = staged
      BY <2>2 DEF HandleStatus, Answered, coreVars
    <3>2. exec.req.op = "preflight" => exec.req.pkg \in staged
      BY DEF CoreSound, Op
    <3>3. answer'.snap.exec = exec
      BY <3>1 DEF Overview
    <3> QED
      BY <2>1, <3>1, <3>2, <3>3 DEF CheckedHeld
  <2>3. CASE HandlePost \/ LoseAnswer
    <3>1. answer'.kind # "status"
      BY <2>3 DEF HandlePost, LoseAnswer, Answered
    <3> QED
      BY <1>1, <2>1, <3>1 DEF CheckedHeld
  <2> QED
    BY <1>4, <2>2, <2>3 DEF Wire
<1>5. CASE Poll
  <2>1. answer'.kind # "status"
    <3>1. PollStatus => answer'.kind = "none"
      BY FollowsRead, StatusTaken
    <3>2. CASE PollError \/ PollMalformed \/ PollAccepted
      <4>1. answer' = NoAnswer
        BY <3>2 DEF PollError, PollMalformed, PollAccepted
      <4> QED
        BY <4>1 DEF NoAnswer
    <3>3. CASE PollRefresh
      BY <3>3 DEF PollRefresh
    <3> QED
      BY <1>5, <3>1, <3>2, <3>3 DEF Poll
  <2>2. CASE PollStatus
    BY <1>1, <2>1, <2>2, FollowsRead DEF CheckedHeld
  <2>3. CASE PollError \/ PollMalformed \/ PollAccepted \/ PollRefresh
    <3>1. preflight' = preflight
      BY <2>3 DEF PollError, PollMalformed, PollAccepted, PollRefresh, choiceVars
    <3> QED
      BY <1>1, <2>1, <3>1 DEF CheckedHeld
  <2> QED
    BY <1>5, <2>2, <2>3 DEF Poll
<1>6. CASE Handle
  <2>1. answer' = answer /\ (preflight' = preflight \/ preflight' = NoPre)
    BY <1>6
    DEF Handle, Foreground, Back, TapRefresh, TapUsbFile, TapPackage, TapChoice, TapUpload,
        TapVerify, Arm, Confirm, ClearSelection, choiceVars
  <2> QED
    BY <1>1, <2>1 DEF CheckedHeld
<1> QED
  BY <1>2, <1>3, <1>4, <1>5, <1>6
  DEF Next, Ui, Core, HandleLate, WebSubmit, Operator, vars

\* A wire that holds an operation holds one of this run, and nothing else of it
\* is under way.
LEMMA WireAlone ==
  ASSUME IInv
  PROVE  /\ IsPost(wire) => /\ wire.from = life /\ ~uncertain /\ pending_execution = NoId
                            /\ ~status_request /\ answer.kind = "none" /\ busy
                            /\ ~\E r \in late : r.from = life
         /\ answer.kind # "none" => wire.op = "none"
         /\ ~busy => wire.op = "none" /\ answer.kind = "none"
         /\ LostPost => pending_execution = NoId /\ ~status_request
         /\ answer.kind = "accepted" => ~status_request /\ pending_execution = NoId
BY DEF IInv, WireMatches, NoPostBeside, SingleFlight, LostPost, IsPost

\* A page at rest leaves the Core at rest.
LEMMA SettledCore ==
  ASSUME ConfirmInv, PageCurrent, Settled
  PROVE  /\ exec.state # "running" /\ late = {}
         /\ snapshot.exec = exec /\ snapshot.tx = tx /\ snapshot.activation = activation
BY DEF ConfirmInv, IInv, WorkAccounted, PageCurrent, Settled, UpToDate

\* The receipt poll() reads is the Core's last execution, and the rest of the
\* status is as that execution left it.
LEMMA ReceiptCurrent ==
  ASSUME ConfirmInv, PageCurrent, PollStatus, ~uncertain, pending_execution' = NoId
  PROVE  LET s == answer.snap
         IN  s.exec = exec /\ s.tx = tx /\ s.activation = activation
<1> DEFINE s == answer.snap
<1>1. /\ answer.kind = "status" /\ UpToDate(s)
      /\ pending_execution # NoId /\ pending_execution' = NoId =>
           IsReceipt(s) /\ s.exec.state # "running"
  BY FollowsRead DEF PageCurrent
<1>2. CASE pending_execution = NoId
  <2>1. Settled
    BY <1>1, <1>2 DEF Settled, LostPost
  <2> QED
    BY <1>1, <2>1 DEF PageCurrent, UpToDate
<1>3. CASE pending_execution # NoId
  <2>1. s.exec.id = exec.id /\ s.exec.state # "running"
    BY <1>1, <1>3 DEF IsReceipt, PageCurrent
  <2> QED
    BY <1>1, <2>1 DEF UpToDate
<1> QED
  BY <1>2, <1>3

\* What the running update asks for next is admitted.
LEMMA NextAdmitted ==
  ASSUME ConfirmInv, CoreSound, PageCurrent, PollStatus,
         AdvancePlanned(answer.snap) \/ AdvanceStep(answer.snap)
  PROVE  exec.id < MaxExec => Admits(wire')
<1> DEFINE s == answer.snap
<1>1. ~uncertain /\ pending_execution' = NoId /\ ReceiptSound(s) /\ update_active
      /\ s.exec.state = "succeeded"
  BY DEF AdvancePlanned, AdvanceStep, InWorkflow, Finished, Succeeded
<1>2. s.exec = exec /\ s.tx = tx /\ s.activation = activation
  BY <1>1, ReceiptCurrent
<1> HIDE DEF s
<1>3. CASE AdvancePlanned(s)
  <2> DEFINE r == Req("backup", update.pkg, NoId, update.home, update.sys, TRUE)
  <2>1. r.op = "backup" /\ r.pkg = update.pkg /\ r.home = update.home /\ r.sys = update.sys
    BY DEF Req
  <2> HIDE DEF r
  <2>2. wire' = r /\ exec.req.op = "backup-plan" /\ PlanAgrees(s)
    BY <1>2, <1>3 DEF AdvancePlanned, StartPost, r
  <2>3. update.pkg = exec.req.pkg /\ exec.req.pkg \in staged
    BY <1>1, <1>2, <2>2 DEF ReceiptSound, CoreSound, Op
  <2>4. update.home \in HomeChoice /\ update.sys \in SysChoice
    BY <1>2, <2>2 DEF PlanAgrees, CoreSound
  <2>5. tx.id = NoId /\ ~activation
    BY <1>2, <2>2 DEF PlanAgrees, CoreSound
  <2> QED
    BY <1>1, <1>2, <2>1, <2>2, <2>3, <2>4, <2>5 DEF Admits, IsUpload, StepOp
<1>4. CASE AdvanceStep(s)
  <2> DEFINE op   == s.exec.req.op
             next == OperationForState[StateAfter[op]]
             r    == StepReq(next, update.pkg, s.tx.id, TRUE)
  <2>1. op \in StepOp \cup {"backup"} /\ TransactionAgrees(s, op) /\ wire' = r
    BY <1>4 DEF AdvanceStep, StartPost
  <2>2. next \in StepOp \cup {"reboot"} /\ (next = "reboot" => StateAfter[op] = "activation-prepared")
    BY <2>1 DEF OperationForState, StateAfter, TxState, StepOp
  <2>3. r.op = next /\ r.tx = s.tx.id /\ (next # "reboot" => r.pkg = update.pkg)
    BY DEF StepReq, Req
  <2>4. tx.id # NoId /\ tx.pkg = update.pkg /\ OperationForState[tx.state] = next
        /\ (next = "reboot" => tx.state = "activation-prepared")
    BY <1>2, <2>1, <2>2 DEF TransactionAgrees
  <2>5. tx.pkg \in staged
    BY <2>4 DEF CoreSound
  <2> HIDE DEF r, next, op
  <2> QED
    BY <1>1, <1>2, <2>1, <2>2, <2>3, <2>4, <2>5 DEF Admits, IsUpload, StepOp
<1> QED
  BY <1>3, <1>4 DEF s

\* poll(): the page knows what it reads.
LEMMA PollCurrent ==
  ASSUME ConfirmInv, CoreSound, PageCurrent, Poll, UNCHANGED <<coreVars, envVars>>
  PROVE  PageCurrent'
<1>1. UNCHANGED <<tx, activation, exec, staged, late>>
  BY DEF coreVars, envVars
<1>2. ASSUME NEW s PROVE UpToDate(s)' <=> UpToDate(s)
  BY <1>1 DEF UpToDate
<1>3. IInv
  BY DEF ConfirmInv
<1>4. StatusRequest.op \notin Following /\ NoAnswer.kind = "none"
  BY DEF StatusRequest, NoReq, Following, StepOp, NoAnswer
<1>6. CASE PollError
  <2>1. /\ answer'.kind = "none" /\ UNCHANGED <<wire, snapshot, life>>
        /\ uncertain => uncertain'
        /\ pending_execution' # pending_execution => uncertain'
        /\ LostPost => uncertain'
    BY <1>3, <1>4, <1>6, WireAlone
    DEF PollError, Pause, Unclear, LostStatus, StartNothing, LostPost
  <2>2. answer.kind # "accepted"
    BY <1>6 DEF PollError
  <2>3. Settled' => Settled
    BY <2>1, <2>2 DEF Settled
  <2> QED
    BY <1>1, <1>2, <2>1, <2>3 DEF PageCurrent, Admits, Refused, UpToDate
<1>7. CASE PollMalformed
  <2>1. answer'.kind = "none" /\ UNCHANGED <<wire, snapshot, life>> /\ uncertain'
    BY <1>4, <1>7 DEF PollMalformed, Pause, StartNothing
  <2> QED
    BY <1>1, <2>1 DEF PageCurrent, Admits, Refused, UpToDate, Settled
<1>8. CASE PollAccepted
  <2>1. /\ answer'.kind = "none" /\ UNCHANGED <<snapshot, life, uncertain>>
        /\ wire'.op \notin Following /\ answer.kind = "accepted"
        /\ pending_execution' = answer.id
    BY <1>4, <1>8 DEF PollAccepted, StartStatus, flowVars
  <2>2. pending_execution' # NoId
    BY <1>3, <2>1 DEF IInv, WireMatches
  <2> QED
    BY <1>1, <2>1, <2>2 DEF PageCurrent, Refused, UpToDate, Settled
<1>9. CASE PollRefresh
  <2>1. /\ UNCHANGED <<snapshot, life, uncertain, pending_execution>>
        /\ answer.kind = "none" /\ answer'.kind = "none"
        /\ wire'.op \notin Following
    BY <1>4, <1>9 DEF PollRefresh, StartStatus, flowVars
  <2>2. Settled' => Settled
    BY <2>1 DEF Settled, LostPost
  <2> QED
    BY <1>1, <2>1, <2>2 DEF PageCurrent, Refused, UpToDate
<1>10. CASE PollStatus
  <2> DEFINE s == answer.snap
  <2>1. /\ answer.kind = "status" /\ UpToDate(s)
        /\ answer'.kind = "none" /\ life' = life /\ snapshot' = s
        /\ uncertain => uncertain'
    BY <1>10, FollowsRead, StatusTaken DEF PageCurrent
  <2>2. pending_execution' = pending_execution \/ pending_execution' = NoId
    BY <1>10, FollowsRead
  <2>3. Settled' => s.exec = exec
    BY <1>10, <2>1, ReceiptCurrent DEF Settled
  <2>4. wire'.op \in Following /\ exec.id < MaxExec => Admits(wire')
    <3>1. CASE StartNothing
      <4>1. wire' = wire
        BY <3>1 DEF StartNothing
      <4> QED
        BY <4>1 DEF PageCurrent
    <3>2. CASE \E r : StartPost(r) /\ r.op = "preflight"
      <4>1. wire'.op = "preflight"
        BY <3>2 DEF StartPost
      <4> QED
        BY <4>1 DEF Following, StepOp
    <3>3. CASE AdvancePlanned(s) \/ AdvanceStep(s)
      BY <1>10, <3>3, NextAdmitted
    <3> QED
      BY <1>10, <3>1, <3>2, <3>3, FollowsRead
  <2>5. Admits(wire)' <=> Admits(wire')
    BY <1>1 DEF Admits
  <2> HIDE DEF s
  <2>6. UpToDate(snapshot)'
    BY <1>1, <2>1 DEF UpToDate
  <2> QED
    BY <1>1, <2>1, <2>2, <2>3, <2>4, <2>5, <2>6 DEF PageCurrent, Refused, Settled
<1> QED
  BY <1>6, <1>7, <1>8, <1>9, <1>10 DEF Poll

\* A tap starts what the page, and so the Core, allows.
LEMMA FirstAdmitted ==
  ASSUME ConfirmInv, CoreSound, CheckedHeld, PageCurrent, CanUpdate
  PROVE  exec.id < MaxExec => Admits(FirstRequest)
<1>1. Settled
  <2>1. ~busy /\ ~uncertain /\ pending_execution = NoId
    BY DEF CanUpdate, CanAct, ExecutionBlocks, Blocked
  <2>2. answer.kind = "none"
    BY <2>1, WireAlone DEF ConfirmInv
  <2> QED
    BY <2>1, <2>2 DEF Settled, LostPost
<1>2. exec.state # "running" /\ snapshot.tx = tx /\ snapshot.activation = activation
  BY <1>1, SettledCore
<1>3. CASE Continuing
  <2> DEFINE r == StepReq(NextOperation, snapshot.tx.pkg, snapshot.tx.id, FALSE)
  <2>1. FirstRequest = r /\ tx.id # NoId /\ tx.pkg \in staged
    BY <1>2, <1>3 DEF FirstRequest, Continuing, CoreSound
  <2>2. NextOperation = OperationForState[tx.state] /\ tx.state \in TxState
    BY <1>2 DEF NextOperation, ConfirmInv, IInv, TypeOK, CoreTypeOK, Transaction
  <2>3. /\ NextOperation \in StepOp \cup {"reboot"}
        /\ NextOperation = "reboot" => tx.state = "activation-prepared"
    BY <2>2 DEF OperationForState, TxState, StepOp
  <2>4. r.op = NextOperation /\ r.tx = tx.id /\ (NextOperation # "reboot" => r.pkg = tx.pkg)
    BY <1>2 DEF StepReq, Req
  <2> HIDE DEF r
  <2> QED
    BY <1>2, <2>1, <2>2, <2>3, <2>4 DEF Admits, IsUpload, StepOp
<1>4. CASE ~Continuing
  <2> DEFINE r == Req("backup-plan", selected_package, NoId, home_choice, sys_choice, FALSE)
  <2>1. FirstRequest = r /\ tx.id = NoId /\ ~activation
    BY <1>2, <1>4 DEF FirstRequest, Continuing, CanUpdate
  <2>2. selected_package \in staged /\ home_choice \in HomeChoice /\ sys_choice \in SysChoice
    BY <1>4 DEF CanUpdate, ChoicesValid, CheckedHeld
  <2>3. r.op = "backup-plan" /\ r.pkg = selected_package /\ r.home = home_choice
        /\ r.sys = sys_choice
    BY DEF Req
  <2> HIDE DEF r
  <2> QED
    BY <1>2, <2>1, <2>2, <2>3 DEF Admits, IsUpload, StepOp
<1> QED
  BY <1>3, <1>4

\* handle(): a tap does not change what the page knows.
LEMMA HandleCurrent ==
  ASSUME ConfirmInv, CoreSound, CheckedHeld, PageCurrent, Handle,
         UNCHANGED <<coreVars, envVars>>
  PROVE  PageCurrent'
<1>1. UNCHANGED <<tx, activation, exec, staged, late>>
  BY DEF coreVars, envVars
<1>2. UNCHANGED <<answer, life, snapshot, pending_execution>>
  BY DEF Handle, Foreground, Back, TapRefresh, TapUsbFile, TapPackage, TapChoice,
         TapUpload, TapVerify, Arm, Confirm
<1>3. uncertain => uncertain'
  BY DEF Handle, Foreground, Back, TapRefresh, TapUsbFile, TapPackage, TapChoice,
         TapUpload, TapVerify, Arm, Confirm, Pause, flowVars
<1>4. /\ ~busy => wire.op = "none" /\ answer.kind = "none"
      /\ StatusRequest.op \notin Following
  BY WireAlone DEF ConfirmInv, StatusRequest, NoReq, Following, StepOp
<1>5. \/ UNCHANGED <<wire, status_request, submitted_operation>>
      \/ ~busy /\ wire'.op \notin Following
      \/ ~busy /\ CanUpdate /\ wire' = FirstRequest
  <2>1. CASE Foreground \/ TapRefresh
    BY <1>4, <2>1 DEF Foreground, TapRefresh, RefreshUnlessBusy, StartStatus
  <2>2. CASE Back \/ TapUsbFile \/ TapChoice \/ Arm \/ \E p \in Package : TapPackage(p)
    BY <2>2 DEF Back, TapUsbFile, TapChoice, Arm, TapPackage
  <2>3. CASE TapUpload \/ TapVerify
    <3>1. ~busy /\ wire'.op = "verify"
      BY <2>3 DEF TapUpload, TapVerify, StartPost, Req, CanAct, ExecutionBlocks
    <3> QED
      BY <3>1 DEF Following, StepOp
  <2>4. CASE Confirm
    <3>1. ~busy /\ CanUpdate
      BY <2>4 DEF Confirm, CanUpdate, CanAct, ExecutionBlocks
    <3>2. wire' = FirstRequest \/ UNCHANGED <<wire, status_request, submitted_operation>>
      BY <2>4 DEF Confirm, StartPost, StartNothing
    <3> QED
      BY <3>1, <3>2
  <2> QED
    BY <2>1, <2>2, <2>3, <2>4 DEF Handle
<1>6. Settled' => Settled
  BY <1>2, <1>3, <1>4, <1>5 DEF Settled, LostPost
<1>7. wire'.op \in Following /\ exec.id < MaxExec => Admits(wire')
  BY <1>5, FirstAdmitted DEF PageCurrent
<1>8. Admits(wire)' <=> Admits(wire')
  BY <1>1 DEF Admits
<1>9. Refused' => Refused /\ submitted_operation' = submitted_operation
  BY <1>2, <1>4, <1>5 DEF Refused
<1> QED
  BY <1>1, <1>2, <1>3, <1>6, <1>7, <1>8, <1>9 DEF PageCurrent, UpToDate

\* An execution that starts makes what was read before older.
LEMMA AcceptOutdates ==
  ASSUME CoreTypeOK, NEW r \in Request, r.op \in Op, Admits(r), Accept(r),
         NEW s, s.exec.id \in Nat, UpToDate(s)
  PROVE  UpToDate(s)'
<1>1. exec'.id = exec.id + 1 /\ exec.id \in Nat
  BY AcceptTypes, OtaAssumption, ExecutionFields DEF CoreTypeOK, Id
<1> QED
  BY <1>1 DEF UpToDate

\* The wire and the Core: only what the page asked for happens.
LEMMA CoreCurrent ==
  ASSUME ConfirmInv, CoreSound, PageCurrent, Alone,
         (Core /\ UNCHANGED <<late, webs>>) \/ Wire \/ HandleLate
  PROVE  PageCurrent'
<1> USE DEF ConfirmInv
<1>1. /\ CoreTypeOK /\ wire \in Request /\ exec.id \in Nat /\ snapshot.exec.id \in Nat
      /\ answer.kind = "status" => answer.snap.exec.id \in Nat
  BY TypedFacts, SnapshotFields, ExecutionFields, OtaAssumption
  DEF IInv, TypeOK, PanelTypeOK, Id
<1>2. NoReq.op \notin Following \cup {"status"}
  BY DEF NoReq, Following, StepOp
<1>3. CASE HandleStatus
  <2> DEFINE a == [kind |-> "status", snap |-> Overview]
  <2>0. a.kind = "status"
    OBVIOUS
  <2>1. a.snap.exec = exec /\ a.snap.tx = tx /\ a.snap.activation = activation
    BY DEF Overview
  <2>2. Answered(a) /\ UNCHANGED <<tx, activation, staged, exec, late>> /\ wire.op = "status"
    BY <1>3 DEF HandleStatus, coreVars, envVars
  <2> HIDE DEF a
  <2>3. /\ answer' = a /\ wire' = NoReq
        /\ UNCHANGED <<uncertain, pending_execution, snapshot, life, status_request>>
    BY <2>2 DEF Answered, flowVars
  <2>4. answer.kind = "none"
    BY <2>2, WireAlone
  <2>5. Settled' => Settled
    BY <2>0, <2>3, <2>4 DEF Settled, LostPost
  <2>6. UpToDate(snapshot)'
    BY <2>2, <2>3 DEF UpToDate, PageCurrent
  <2>7. UpToDate(answer.snap)'
    BY <1>1, <2>1, <2>2, <2>3 DEF UpToDate
  <2> QED
    BY <1>2, <2>0, <2>1, <2>2, <2>3, <2>5, <2>6, <2>7 DEF PageCurrent, Refused
<1>4. CASE LoseAnswer
  <2>1. PICK a \in {[kind |-> "malformed"], [kind |-> "error", unclear |-> TRUE]} : Answered(a)
    BY <1>4 DEF LoseAnswer
  <2>2. a.kind = "malformed" \/ (a.kind = "error" /\ a.unclear)
    OBVIOUS
  <2>3. /\ answer' = a /\ wire' = NoReq
        /\ UNCHANGED <<uncertain, pending_execution, snapshot, life, status_request>>
        /\ UNCHANGED <<tx, activation, staged, exec>>
    BY <1>4, <2>1 DEF Answered, flowVars, LoseAnswer, coreVars
  <2>4. answer.kind = "none"
    BY <1>4, WireAlone DEF LoseAnswer
  <2>5. \A r \in late' : r.from = life'
    BY <1>4, <2>3, WireAlone DEF LoseAnswer, PageCurrent
  <2>6. Settled' => Settled
    BY <2>2, <2>3, <2>4 DEF Settled, LostPost
  <2> QED
    BY <1>2, <2>2, <2>3, <2>5, <2>6 DEF PageCurrent, Refused, UpToDate
<1>5. CASE HandlePost
  <2>1. /\ IsPost(wire) /\ wire.op \in Op /\ wire.from = life /\ ~uncertain
        /\ pending_execution = NoId /\ ~status_request /\ answer.kind = "none" /\ late' = late
        /\ wire.op = submitted_operation
    BY <1>1, <1>5, WireAlone DEF HandlePost, IsPost, Request, envVars, RebootInv, PostIsSubmitted
  <2>2. CASE Admits(wire)
    <3> DEFINE a == [kind |-> "accepted", id |-> exec'.id, pkg |-> exec'.req.pkg]
    <3>1. a.kind = "accepted" /\ a.id = exec'.id
      OBVIOUS
    <3>2. Answered(a) /\ Accept(wire)
      BY <1>5, <2>2 DEF HandlePost
    <3> HIDE DEF a
    <3>3. /\ answer' = a /\ wire' = NoReq
          /\ UNCHANGED <<uncertain, pending_execution, snapshot, life, status_request>>
      BY <3>2 DEF Answered, flowVars
    <3>4. exec'.req.from = life
      BY <1>1, <2>1, <2>2, <3>2, AcceptTypes
    <3>5. UpToDate(snapshot)'
      <4>1. ASSUME NEW s, s.exec.id \in Nat, UpToDate(s) PROVE UpToDate(s)'
        BY <1>1, <2>1, <2>2, <3>2, <4>1, AcceptOutdates
      <4>2. DEFINE s == snapshot
      <4> QED
        BY <1>1, <3>3, <4>1 DEF PageCurrent, UpToDate
    <3> QED
      BY <1>2, <2>1, <3>1, <3>3, <3>4, <3>5 DEF PageCurrent, Refused, Settled
  <2>3. CASE ~Admits(wire)
    <3> DEFINE a == [kind |-> "error", unclear |-> FALSE]
    <3>1. a.kind = "error" /\ ~a.unclear
      OBVIOUS
    <3>2. Answered(a) /\ UNCHANGED <<tx, activation, staged, exec>>
      BY <1>5, <2>3 DEF HandlePost, coreVars
    <3> HIDE DEF a
    <3>3. /\ answer' = a /\ wire' = NoReq
          /\ UNCHANGED <<uncertain, pending_execution, snapshot, life, status_request,
                         submitted_operation>>
      BY <3>2 DEF Answered, flowVars
    <3>4. Settled' => Settled
      BY <2>1, <3>1, <3>3 DEF Settled, LostPost
    <3>5. exec.id < MaxExec => submitted_operation \in {"verify", "preflight"}
      BY <2>1, <2>3 DEF PageCurrent, Op, Following
    <3> QED
      BY <1>2, <2>1, <3>1, <3>2, <3>3, <3>4, <3>5 DEF PageCurrent, Refused, UpToDate
  <2> QED
    BY <2>2, <2>3
<1>6. CASE HandleLate
  <2>1. PICK r \in late :
          /\ late' = late \ {r}
          /\ (Admits(r) /\ Accept(r)) \/ UNCHANGED coreVars
          /\ UNCHANGED <<panelVars, webs>>
    BY <1>6 DEF HandleLate
  <2>2. /\ UNCHANGED <<answer, wire, uncertain, pending_execution, snapshot, life,
                       status_request, submitted_operation>>
        /\ r.from = life
    BY <2>1 DEF panelVars, flowVars, PageCurrent
  <2>3. uncertain \/ LostPost
    BY <2>2 DEF IInv, WorkAccounted
  <2>4. ~Settled' /\ ~IsPost(wire)
    BY <2>2, <2>3, WireAlone DEF Settled, LostPost
  <2>5. wire.op \notin Following
    BY <2>4 DEF IsPost, Following, StepOp
  <2>6. ~uncertain => pending_execution = NoId /\ answer.kind # "accepted"
    BY <2>3, WireAlone DEF LostPost
  <2>7. ~Refused \/ uncertain
    BY <2>3 DEF LostPost, Refused
  <2>8. CASE UNCHANGED coreVars
    BY <2>1, <2>2, <2>4, <2>8 DEF coreVars, PageCurrent, UpToDate, Admits, Refused
  <2>9. CASE Admits(r) /\ Accept(r)
    <3>1. r \in Request /\ r.op \in Op
      BY DEF IInv, TypeOK, Request, IsPost
    <3>2. exec'.req.from = r.from /\ exec'.id = exec.id + 1
      BY <1>1, <2>9, <3>1, AcceptTypes
    <3>3. ASSUME NEW s, s.exec.id \in Nat, UpToDate(s) PROVE UpToDate(s)'
      BY <1>1, <2>9, <3>1, <3>3, AcceptOutdates
    <3>4. UpToDate(snapshot)' /\ (answer'.kind = "status" => UpToDate(answer.snap)')
      BY <1>1, <2>2, <3>3 DEF PageCurrent, UpToDate
    <3>5. Refused' /\ exec'.id < MaxExec => submitted_operation' \in {"verify", "preflight"}
      BY <1>1, <2>2, <3>2, OtaAssumption DEF PageCurrent, Refused
    <3> QED
      BY <2>1, <2>2, <2>4, <2>5, <2>6, <3>2, <3>4, <3>5 DEF PageCurrent
  <2> QED
    BY <2>1, <2>8, <2>9
<1>7. CASE Core /\ UNCHANGED <<late, webs>>
  <2>1. /\ exec.state = "running" /\ exec'.state # "running"
        /\ exec'.id = exec.id /\ UNCHANGED panelVars
    BY <1>1, <1>7, EndSound DEF Core, TxInv
  <2>2. /\ UNCHANGED <<answer, wire, uncertain, pending_execution, snapshot, life,
                       status_request, submitted_operation>>
        /\ late' = late
    BY <1>7, <2>1 DEF panelVars, flowVars
  <2>3. ~Settled
    BY <2>1, SettledCore
  <2>4. ~Settled'
    BY <2>2, <2>3 DEF Settled, LostPost
  <2>5. wire.op \notin Following
    <3>1. exec.req.from = life
      BY <2>1 DEF PageCurrent
    <3>2. ~IsPost(wire)
      BY <2>1, <3>1 DEF IInv, SingleFlight
    <3> QED
      BY <3>2 DEF IsPost, Following, StepOp
  <2>6. ASSUME NEW s, UpToDate(s) PROVE UpToDate(s)'
    BY <2>1, <2>6 DEF UpToDate
  <2>7. UpToDate(snapshot)' /\ (answer'.kind = "status" => UpToDate(answer.snap)')
    BY <2>2, <2>6 DEF PageCurrent, UpToDate
  <2> QED
    BY <2>1, <2>2, <2>4, <2>5, <2>7 DEF PageCurrent, Refused
<1> QED
  BY <1>3, <1>4, <1>5, <1>6, <1>7 DEF Wire

\* The page's knowledge of the Core holds when the screen starts, for whatever
\* packages the Core has.
LEMMA AdmitInit == Init => AdmitInv
<1> SUFFICES ASSUME Init PROVE AdmitInv
  OBVIOUS
<1>1. /\ wire = NoReq /\ answer = NoAnswer /\ preflight = NoPre /\ snapshot = NullSnapshot
      /\ tx = NoTx /\ exec = NoExec /\ activation = FALSE /\ late = {} /\ ~uncertain
      /\ pending_execution = NoId
  BY DEF Init, PanelInit, CoreInit
<1>2. /\ wire.op = "none" /\ answer.kind = "none" /\ snapshot.tx = tx /\ snapshot.exec = exec
      /\ snapshot.activation = activation /\ tx.id = NoId /\ exec.id = NoId
      /\ exec.state = "none" /\ exec.req.op = "none"
  BY <1>1 DEF NoReq, NoAnswer, NullSnapshot, NoTx, NoExec
<1>3. CoreSound
  BY <1>1, <1>2 DEF CoreSound, Op, StepOp
<1>4. CheckedHeld
  BY <1>1, <1>2 DEF CheckedHeld
<1>5. PageCurrent
  BY <1>1, <1>2 DEF PageCurrent, UpToDate, NoId, Following, StepOp, Refused
<1> QED
  BY <1>3, <1>4, <1>5 DEF AdmitInv

\* Every step preserves it.
LEMMA AdmitStep == ConfirmInv /\ AdmitInv /\ [Next]_vars => AdmitInv'
<1> SUFFICES ASSUME ConfirmInv, AdmitInv, [Next]_vars PROVE AdmitInv'
  OBVIOUS
<1>1. CoreSound' /\ CheckedHeld'
  BY CoreStaysSound, CheckedStaysHeld DEF AdmitInv
<1>2. life \in Nat /\ life # 0 /\ webs \in Nat
  BY TypedFacts, OtaAssumption DEF ConfirmInv, IInv, TypeOK
<1> SUFFICES ASSUME Alone' PROVE PageCurrent'
  BY <1>1 DEF AdmitInv
<1>3. CASE Restart \/ WebSubmit \/ Operator
  BY <1>2, <1>3 DEF Restart, WebSubmit, Operator, Alone
<1>4. CASE Ui
  <2>1. Alone
    <3>1. life' = life
      BY <1>4, FollowsRead, StatusTaken
      DEF Ui, Poll, PollError, PollMalformed, PollAccepted, PollRefresh, Handle, Foreground,
          Back, TapRefresh, TapUsbFile, TapPackage, TapChoice, TapUpload, TapVerify, Arm, Confirm
    <3> QED
      BY <1>4, <3>1 DEF Ui, Alone, envVars
  <2> QED
    BY <1>4, <2>1, PollCurrent, HandleCurrent DEF Ui, AdmitInv
<1>5. CASE Core \/ Wire \/ HandleLate
  <2>1. life' = life /\ webs' = webs
    BY <1>5 DEF Core, Wire, HandleLate, HandleStatus, HandlePost, LoseAnswer, Answered,
                panelVars, envVars
  <2>2. Core => UNCHANGED <<late, webs>>
    BY DEF Core, envVars
  <2> QED
    BY <1>5, <2>1, <2>2, CoreCurrent DEF Alone, AdmitInv
<1>6. CASE UNCHANGED vars
  BY <1>6
  DEF vars, panelVars, flowVars, coreVars, envVars, AdmitInv, Alone, PageCurrent, UpToDate,
      Settled, LostPost, Refused, Admits
<1> QED
  BY <1>3, <1>4, <1>5, <1>6 DEF Next

(* "Completed steps will not be repeated": with nobody else at the Core and *)
(* since the screen started, no step of an update is sent that the Core     *)
(* turns down (ota_panel.cpp, advance_update and take_action), whatever     *)
(* answers were lost and operations failed on the way.                      *)
THEOREM StepsAreAdmitted == Spec => []StepsNeverRejected
<1>1. ConfirmInv /\ AdmitInv => StepsNeverRejected
  <2> SUFFICES ASSUME ConfirmInv, AdmitInv, webs = 0, life = 1, exec.id < MaxExec,
                      answer = [kind |-> "error", unclear |-> FALSE], ~status_request
               PROVE  submitted_operation \in {"verify", "preflight"}
    BY DEF StepsNeverRejected
  <2>1. answer.kind = "error" /\ answer.unclear = FALSE
    OBVIOUS
  <2>2. Refused
    BY <2>1 DEF Refused
  <2> QED
    BY <2>2 DEF AdmitInv, Alone, PageCurrent
<1> QED
  BY <1>1, ConfirmInit, ConfirmStep, AdmitInit, AdmitStep, PTL DEF Spec
=============================================================================
