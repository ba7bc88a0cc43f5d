----------------------------- MODULE OtaProofs ------------------------------
(***************************************************************************)
(* The OTA page keeps its operations apart, for every value of the         *)
(* constants: IInv is inductive, SingleFlight and UpdateHasWork follow,    *)
(* and the system implements SerialOperations.                             *)
(***************************************************************************)
EXTENDS OtaTypeProofs

\* IInv without its types, which OtaTypeProofs proves.
Accounts ==
  /\ WireMatches /\ WorkAccounted /\ NoPostBeside /\ NoFutureLife
  /\ StatusNotAhead /\ FlagMatchesOperation /\ SingleFlight /\ UpdateHasWork

\* The facts of TypeOK that the arithmetic below needs.
LEMMA TypedFacts ==
  ASSUME TypeOK
  PROVE  /\ exec.id \in Nat /\ pending_execution \in Nat /\ life \in Nat /\ life # 0
         /\ answer.kind = "status" =>
              answer.snap.exec.id \in Nat /\ answer.snap \in Snapshot
         /\ answer.kind = "accepted" => answer.id \in Nat
         /\ \A r \in late : r.from \in Nat
         /\ wire.from \in Nat /\ exec.req.from \in Nat
  BY OtaAssumption, AnswerFields, SnapshotFields, ExecutionFields
  DEF TypeOK, PanelTypeOK, CoreTypeOK, Id, Life, Request

\* poll(): an answer that is read leaves no operation unaccounted for.
LEMMA PollAccounts ==
  ASSUME IInv, Poll, UNCHANGED <<coreVars, envVars>>
  PROVE  Accounts'
<1> USE DEF Accounts, IInv, WireMatches, WorkAccounted, NoPostBeside, NoFutureLife,
            StatusNotAhead, FlagMatchesOperation, SingleFlight, UpdateHasWork,
            coreVars, envVars, PostDue, LostPost, IsPost, NoId
<1> NoAnswer.kind = "none" /\ StatusRequest.op = "status"
  BY DEF NoAnswer, StatusRequest, NoReq
<1>1. CASE PollError
  BY <1>1, TypedFacts DEF PollError, Pause, Unclear, LostStatus, StartNothing, choiceVars
<1>2. CASE PollMalformed
  BY <1>2, TypedFacts DEF PollMalformed, Pause, StartNothing, choiceVars
<1>3. CASE PollAccepted
  BY <1>3, TypedFacts DEF PollAccepted, StartStatus, choiceVars, flowVars
<1>4. CASE PollRefresh
  BY <1>4, TypedFacts DEF PollRefresh, RefreshDue, StartStatus, choiceVars, flowVars
<1>5. CASE PollStatus
  <2> DEFINE s == answer.snap
  <2>1. answer.kind = "status" /\ s \in Snapshot
    BY <1>5, TypedFacts DEF PollStatus
  <2>2. s.exec.req.op \in Op \cup {"status", "none"}
    BY <2>1, SnapshotFields, ExecutionFields
  <2> HIDE DEF s
  <2>3. s.exec.id <= exec.id /\ (s.exec.id = exec.id => s.exec = exec \/ s.exec.state = "running")
    BY <2>1 DEF s
  <2>4. s.exec.id \in Nat
    BY <2>1, TypedFacts DEF s
  <2>5. CASE PollNoReceiptDue(s)
    BY <2>1, <2>3, <2>4, <2>5, TypedFacts
    DEF PollNoReceiptDue, TakeStatus, StartNothing, flowVars
  <2>13. CASE PollReceiptChanged(s)
    BY <2>1, <2>3, <2>4, <2>13, TypedFacts
    DEF PollReceiptChanged, TakeStatus, IsReceipt, Pause, StartNothing
  <2>14. CASE PollStillRunning(s)
    BY <2>1, <2>3, <2>4, <2>14, TypedFacts
    DEF PollStillRunning, TakeStatus, IsReceipt, StartNothing, flowVars
  <2>6. CASE PollFailed(s)
    BY <2>1, <2>3, <2>4, <2>6, TypedFacts
    DEF PollFailed, TakeStatus, IsReceipt, Pause, StartNothing, flowVars
  <2>7. CASE PollUnsound(s)
    BY <2>1, <2>3, <2>4, <2>7, TypedFacts
    DEF PollUnsound, Succeeded, TakeStatus, IsReceipt, Pause, StartNothing
  <2>15. CASE PollRebooted(s)
    <3>1. ~update_active' /\ ~check_after_verify' /\ (uncertain' \/ uncertain' = uncertain)
      BY <2>1, <2>15 DEF PollRebooted, Succeeded, IsReceipt, Pause
    <3>2. uncertain => uncertain'
      BY <2>15 DEF PollRebooted, Pause
    <3>3. exec.state = "running" /\ exec.req.from = life => uncertain
      BY <2>1, <2>3, <2>15 DEF PollRebooted, Succeeded, IsReceipt
    <3>4. TakeStatus(s) /\ StartNothing /\ pending_execution' = NoId
      BY <2>15 DEF PollRebooted, Succeeded
    <3> QED
      BY <2>1, <3>1, <3>2, <3>3, <3>4, TypedFacts DEF TakeStatus, StartNothing
  <2>16. ASSUME Finished(s)
         PROVE  /\ TakeStatus(s) /\ pending_execution # NoId /\ pending_execution' = NoId
                /\ s.exec.req.op = submitted_operation
                /\ exec.state = "running" /\ exec.req.from = life => uncertain
    BY <2>1, <2>3, <2>16 DEF Finished, Succeeded, IsReceipt
  <2>8. CASE AdvanceVerified(s)
    <3> DEFINE r == Req("preflight", selected_package, NoId, "unset", "unset", TRUE)
    <3>1. /\ check_after_verify /\ ~check_after_verify'
          /\ ~uncertain /\ ~uncertain' /\ update_active' = update_active
          /\ StartNothing \/ StartPost(r)
      BY <2>8 DEF AdvanceVerified, ChecksPackage
    <3>2. r.op = "preflight" /\ r.from = life
      BY DEF Req
    <3> HIDE DEF r
    <3>3. TakeStatus(s) /\ pending_execution # NoId /\ pending_execution' = NoId
          /\ (exec.state = "running" /\ exec.req.from = life => uncertain)
      BY <2>8, <2>16 DEF AdvanceVerified
    <3>4. CASE StartNothing
      BY <2>1, <3>1, <3>3, <3>4, TypedFacts DEF TakeStatus, StartNothing
    <3>5. CASE StartPost(r)
      BY <2>1, <3>1, <3>2, <3>3, <3>5, TypedFacts DEF TakeStatus, StartPost
    <3> QED
      BY <3>1, <3>4, <3>5
  <2>9. CASE AdvancePlanned(s)
    <3> DEFINE r == Req("backup", update.pkg, NoId, update.home, update.sys, TRUE)
    <3>1. /\ update_active /\ open /\ ~uncertain /\ StartPost(r) /\ UNCHANGED flowVars
      BY <2>9 DEF AdvancePlanned, InWorkflow
    <3>2. r.op = "backup" /\ r.from = life
      BY DEF Req
    <3> HIDE DEF r
    <3>3. TakeStatus(s) /\ pending_execution # NoId /\ pending_execution' = NoId
          /\ (exec.state = "running" /\ exec.req.from = life => uncertain)
      BY <2>9, <2>16 DEF AdvancePlanned
    <3> QED
      BY <2>1, <3>1, <3>2, <3>3, TypedFacts DEF TakeStatus, StartPost, flowVars
  <2>10. CASE AdvanceStep(s)
    <3> DEFINE next == OperationForState[StateAfter[s.exec.req.op]]
               r    == StepReq(next, update.pkg, s.tx.id, TRUE)
    <3>1. next \in Op /\ next \notin {"verify", "preflight"}
      BY <2>10 DEF AdvanceStep, OperationForState, StateAfter, TxState, StepOp, Op
    <3>2. r.op = next /\ r.from = life
      BY DEF StepReq, Req
    <3>3. /\ update_active /\ update_active' /\ open /\ ~uncertain /\ ~uncertain'
          /\ StartPost(r) /\ check_after_verify' = check_after_verify
      BY <2>10 DEF AdvanceStep, InWorkflow
    <3> HIDE DEF next, r
    <3>4. TakeStatus(s) /\ pending_execution # NoId /\ pending_execution' = NoId
          /\ (exec.state = "running" /\ exec.req.from = life => uncertain)
      BY <2>10, <2>16 DEF AdvanceStep
    <3>5. r.op \notin {"none", "status"}
      BY <3>1, <3>2 DEF Op, StepOp
    <3> QED
      BY <2>1, <3>1, <3>2, <3>3, <3>4, <3>5, TypedFacts DEF TakeStatus, StartPost
  <2>11. CASE AdvanceHalt(s)
    <3>1. Pause(TRUE) /\ StartNothing
      BY <2>11 DEF AdvanceHalt
    <3>2. TakeStatus(s) /\ pending_execution' = NoId
      BY <2>11, <2>16 DEF AdvanceHalt
    <3> QED
      BY <2>1, <3>1, <3>2, TypedFacts DEF TakeStatus, Pause, StartNothing
  <2>12. CASE AdvanceNothing(s)
    <3>1. TakeStatus(s) /\ pending_execution # NoId /\ pending_execution' = NoId
          /\ s.exec.req.op = submitted_operation
          /\ (exec.state = "running" /\ exec.req.from = life => uncertain)
      BY <2>12, <2>16 DEF AdvanceNothing
    <3>2. StartNothing /\ UNCHANGED flowVars /\ ~ChecksPackage(s)
      BY <2>12 DEF AdvanceNothing
    <3>3. ~update_active
      BY <2>12, <3>1 DEF AdvanceNothing, InWorkflow, ChecksPackage
    <3>4. ~check_after_verify
      BY <3>1, <3>2 DEF ChecksPackage
    <3> QED
      BY <2>1, <3>1, <3>2, <3>3, <3>4, TypedFacts DEF TakeStatus, StartNothing, flowVars
  <2> QED
    BY <1>5, <2>5, <2>6, <2>7, <2>8, <2>9, <2>10, <2>11, <2>12, <2>13, <2>14, <2>15
    DEF PollStatus, s
<1> QED
  BY <1>1, <1>2, <1>3, <1>4, <1>5 DEF Poll

\* A tap sends an operation only when none is outstanding.
LEMMA HandleAccounts ==
  ASSUME IInv, Handle, UNCHANGED <<coreVars, envVars>>
  PROVE  Accounts'
<1> USE DEF Accounts, IInv, WireMatches, WorkAccounted, NoPostBeside, NoFutureLife,
            StatusNotAhead, FlagMatchesOperation, SingleFlight, UpdateHasWork,
            coreVars, envVars, PostDue, LostPost, IsPost, NoId
<1> StatusRequest.op = "status"
  BY DEF StatusRequest, NoReq
<1>1. CASE Foreground \/ TapRefresh
  BY <1>1, TypedFacts DEF Foreground, TapRefresh, RefreshUnlessBusy, StartStatus,
     choiceVars, flowVars
<1>2. CASE Back
  BY <1>2, TypedFacts DEF Back, choiceVars
<1>3. CASE TapUsbFile \/ \E p \in Package : TapPackage(p)
  BY <1>3, TypedFacts DEF TapUsbFile, TapPackage, ClearSelection
<1>4. CASE TapChoice \/ Arm
  BY <1>4, TypedFacts DEF TapChoice, Arm, choiceVars, flowVars
<1>5. CASE TapUpload \/ TapVerify
  BY <1>5, TypedFacts DEF TapUpload, TapVerify, CanAct, ExecutionBlocks, Blocked,
     ClearSelection, StartPost, Req
<1>6. CASE Confirm
  <2>1. FirstRequest.op \in Op /\ FirstRequest.op \notin {"verify", "preflight"}
        /\ FirstRequest.from = life
    <3>1. snapshot.tx.state \in TxState
      BY SnapshotFields DEF TypeOK, PanelTypeOK
    <3>2. NextOperation \in Op /\ NextOperation \notin {"verify", "preflight"}
      BY <3>1 DEF NextOperation, OperationForState, TxState, Op, StepOp
    <3> QED
      BY <3>2 DEF FirstRequest, StepReq, Req, Op
  <2> QED
    BY <1>6, <2>1, TypedFacts
    DEF Confirm, CanUpdate, CanAct, ExecutionBlocks, Blocked, Pause, StartNothing,
        StartPost, choiceVars, Op, StepOp
<1> QED
  BY <1>1, <1>2, <1>3, <1>4, <1>5, <1>6 DEF Handle

\* The Core, the wire, other clients and a restart keep what the page relies on.
LEMMA EnvironmentAccounts ==
  ASSUME IInv,
         \/ HandleStatus \/ HandlePost \/ LoseAnswer \/ HandleLate
         \/ WebSubmit \/ Operator \/ Restart
         \/ (Core /\ UNCHANGED <<late, webs>>)
  PROVE  Accounts'
<1> USE DEF Accounts, IInv, WireMatches, WorkAccounted, NoPostBeside, NoFutureLife,
            StatusNotAhead, FlagMatchesOperation, SingleFlight, UpdateHasWork,
            PostDue, LostPost, IsPost, NoId
<1>1. NoReq.op = "none" /\ NoAnswer.kind = "none"
  BY DEF NoReq, NoAnswer
<1>2. CASE HandleStatus
  <2> DEFINE a == [kind |-> "status", snap |-> Overview]
  <2>1. a.kind = "status" /\ a.snap.exec = exec
    BY DEF Overview
  <2>2. Answered(a)
    BY <1>2 DEF HandleStatus
  <2> HIDE DEF a
  <2> QED
    BY <1>1, <1>2, <2>1, <2>2, TypedFacts
    DEF HandleStatus, Answered, coreVars, envVars, flowVars
<1>3. CASE HandlePost
  <2>1. CASE Admits(wire)
    <3> DEFINE a == [kind |-> "accepted", id |-> exec'.id, pkg |-> exec'.req.pkg]
    <3>1. a.kind = "accepted" /\ a.id = exec'.id
      OBVIOUS
    <3>2. Answered(a)
      BY <1>3, <2>1 DEF HandlePost
    <3> HIDE DEF a
    <3>3. wire \in Request /\ wire.op \in Op
      BY <1>3 DEF HandlePost, TypeOK, PanelTypeOK, Request
    <3>4. /\ exec'.id # NoId /\ exec'.state = "running" /\ exec'.req.from = wire.from
      BY <1>3, <2>1, <3>3, AcceptTypes DEF HandlePost, TypeOK
    <3> QED
      BY <1>1, <1>3, <3>1, <3>2, <3>4, TypedFacts DEF HandlePost, Answered, envVars, flowVars
  <2>2. CASE ~Admits(wire)
    <3> DEFINE a == [kind |-> "error", unclear |-> FALSE]
    <3>1. a.kind = "error" /\ ~a.unclear
      OBVIOUS
    <3>2. Answered(a)
      BY <1>3, <2>2 DEF HandlePost
    <3> HIDE DEF a
    <3> QED
      BY <1>1, <1>3, <2>2, <3>1, <3>2, TypedFacts
      DEF HandlePost, Answered, envVars, coreVars, flowVars
  <2> QED
    BY <2>1, <2>2
<1>4. CASE LoseAnswer
  <2>1. PICK a \in {[kind |-> "malformed"], [kind |-> "error", unclear |-> TRUE]} : Answered(a)
    BY <1>4 DEF LoseAnswer
  <2>2. a.kind = "malformed" \/ (a.kind = "error" /\ a.unclear)
    OBVIOUS
  <2>3. wire.op # "none" /\ UNCHANGED coreVars
        /\ (~IsPost(wire) => late' = late) /\ (late' = late \/ late' = late \cup {wire})
    BY <1>4 DEF LoseAnswer
  <2> QED
    BY <1>1, <2>1, <2>2, <2>3, TypedFacts DEF Answered, coreVars, flowVars
<1>5. CASE HandleLate
  <2>1. PICK r \in late :
          /\ late' = late \ {r}
          /\ (Admits(r) /\ Accept(r)) \/ UNCHANGED coreVars
          /\ UNCHANGED <<panelVars, webs>>
    BY <1>5 DEF HandleLate
  <2>2. CASE UNCHANGED coreVars
    BY <2>1, <2>2, TypedFacts DEF coreVars, panelVars, flowVars
  <2>3. CASE Admits(r) /\ Accept(r)
    <3>1. r \in Request /\ r.op \in Op
      BY DEF TypeOK, Request
    <3>2. /\ exec'.id = exec.id + 1 /\ exec'.state = "running" /\ exec'.req.from = r.from
          /\ exec.state # "running"
      BY <2>3, <3>1, AcceptTypes DEF TypeOK, Admits
    <3> QED
      BY <2>1, <3>2, TypedFacts DEF panelVars, flowVars
  <2> QED
    BY <2>1, <2>2, <2>3
<1>6. CASE WebSubmit
  <2>1. PICK o \in Op, p \in staged \cup {NoPkg}, h \in HomeChoice, y \in SysChoice :
          LET r == [op |-> o, pkg |-> p, tx |-> tx.id, home |-> h, sys |-> y,
                    from |-> 0, auto |-> FALSE]
          IN Admits(r) /\ Accept(r)
    BY <1>6 DEF WebSubmit
  <2> DEFINE r == [op |-> o, pkg |-> p, tx |-> tx.id, home |-> h, sys |-> y,
                   from |-> 0, auto |-> FALSE]
  <2>2. 0 \in Life /\ tx.id \in Id /\ p \in Package \cup {NoPkg}
    BY OtaAssumption DEF Life, TypeOK, CoreTypeOK, Transaction
  <2>3. r \in Request /\ r.op \in Op /\ r.from = 0
    BY <2>2 DEF Request
  <2> HIDE DEF r
  <2>4. /\ exec'.id = exec.id + 1 /\ exec'.state = "running" /\ exec'.req.from = 0
        /\ exec.state # "running"
    BY <2>1, <2>3, AcceptTypes DEF TypeOK, Admits, r
  <2> QED
    BY <1>6, <2>4, TypedFacts DEF WebSubmit, panelVars, flowVars
<1>7. CASE Operator
  BY <1>7, TypedFacts DEF Operator, Inspect, panelVars, flowVars
<1>8. CASE Restart
  BY <1>1, <1>8, TypedFacts DEF Restart, coreVars
<1>9. ASSUME Core, UNCHANGED <<late, webs>>
      PROVE  Accounts'
  <2>1. exec.state = "running" /\ exec'.state # "running"
        /\ exec'.id = exec.id /\ exec'.req = exec.req /\ UNCHANGED panelVars
    BY <1>9 DEF Core, Succeed, Fail, BecomeUnknown, TypeOK, CoreTypeOK, Execution
  <2> QED
    BY <1>9, <2>1, TypedFacts DEF panelVars, flowVars
<1> QED
  BY <1>2, <1>3, <1>4, <1>5, <1>6, <1>7, <1>8, <1>9

\* The inductive invariant holds when the screen starts.
LEMMA InvInit == Init => IInv
<1> SUFFICES ASSUME Init PROVE Accounts
  BY InitTypes DEF IInv, Accounts
<1> QED
  BY OtaAssumption
  DEF Init, PanelInit, CoreInit, NoReq, NoAnswer, NoExec, NoId, Accounts, WireMatches,
      WorkAccounted, NoPostBeside, NoFutureLife, StatusNotAhead, FlagMatchesOperation,
      SingleFlight, UpdateHasWork, PostDue, LostPost, IsPost

\* Every step preserves the inductive invariant.
LEMMA InvStep == IInv /\ [Next]_vars => IInv'
<1> SUFFICES ASSUME IInv, [Next]_vars PROVE IInv'
  OBVIOUS
<1>1. TypeOK'
  BY StepTypes DEF IInv
<1>2. CASE Ui
  BY <1>1, <1>2, PollAccounts, HandleAccounts DEF Ui, IInv, Accounts
<1>3. CASE Core \/ Wire \/ HandleLate \/ WebSubmit \/ Operator \/ Restart
  BY <1>1, <1>3, EnvironmentAccounts DEF Wire, Core, envVars, IInv, Accounts
<1>4. CASE UNCHANGED vars
  BY <1>1, <1>4
  DEF vars, panelVars, flowVars, coreVars, envVars, IInv, WireMatches, WorkAccounted,
      NoPostBeside, NoFutureLife, StatusNotAhead, FlagMatchesOperation, SingleFlight,
      UpdateHasWork, PostDue, LostPost
<1> QED
  BY <1>2, <1>3, <1>4 DEF Next

\* The inductive invariant holds throughout.
THEOREM Invariant == Spec => []IInv
BY InvInit, InvStep, PTL DEF Spec

\* No operation of this run of the screen is ever outstanding beside another.
THEOREM SingleFlightHolds == Spec => []SingleFlight
<1>1. IInv => SingleFlight
  BY DEF IInv
<1> QED
  BY <1>1, Invariant, PTL

\* A running update always has a request out or a receipt due.
THEOREM UpdateHasWorkHolds == Spec => []UpdateHasWork
<1>1. IInv => UpdateHasWork
  BY DEF IInv
<1> QED
  BY <1>1, Invariant, PTL

\* A page that shows itself ready has nothing running in the Core or on the way to it.
LEMMA QuietMeansIdle ==
  ASSUME IInv, ~uncertain, ~PostDue
  PROVE  Work = {}
<1>1. ~LostPost
  BY DEF IInv, WireMatches, LostPost, PostDue
<1>2. ~IsPost(wire) /\ \A r \in late : r.from # life
  BY <1>1 DEF IInv, WireMatches, WorkAccounted, PostDue, IsPost
<1>3. ~(exec.state = "running" /\ exec.req.from = life)
  BY <1>1 DEF IInv, WireMatches, WorkAccounted, PostDue, NoId
<1> QED
  BY <1>2, <1>3 DEF Work

\* What a step of the screen does to the work outstanding: nothing, or it sends
\* one operation while none is.
StaysOrSends ==
  /\ life' = life /\ (uncertain => uncertain')
  /\ \/ wire' = wire /\ (PostDue' => PostDue)
     \/ ~IsPost(wire) /\ ~IsPost(wire') /\ (PostDue' => PostDue)
     \/ /\ open /\ open' /\ ~uncertain /\ ~uncertain' /\ Work = {} /\ PostDue'
        /\ wire'.op \in Op /\ IsPost(wire') /\ wire'.from = life

\* poll() sends an operation only while none is outstanding, on an open page.
LEMMA PollStaysOrSends ==
  ASSUME IInv, Poll
  PROVE  StaysOrSends
<1> USE DEF StaysOrSends, PostDue, NoId
<1>1. StatusRequest.op = "status" /\ NoReq.op = "none"
  BY DEF StatusRequest, NoReq
<1>2. answer.kind # "none" => ~IsPost(wire)
  BY DEF IInv, WireMatches, IsPost
<1>3. ~busy => ~IsPost(wire)
  BY DEF IInv, WireMatches, IsPost
<1>4. answer.kind = "status" => status_request
  BY DEF IInv, WireMatches
<1>5. answer.kind = "accepted" => busy /\ ~status_request
  BY DEF IInv, WireMatches
<1>6. CASE PollError
  BY <1>2, <1>6 DEF PollError, Pause, StartNothing
<1>7. CASE PollMalformed
  BY <1>2, <1>7 DEF PollMalformed, Pause, StartNothing
<1>8. CASE PollAccepted
  BY <1>1, <1>2, <1>5, <1>8 DEF PollAccepted, StartStatus, flowVars, IsPost
<1>9. CASE PollRefresh
  BY <1>1, <1>3, <1>9 DEF PollRefresh, RefreshDue, StartStatus, flowVars, IsPost
<1>10. CASE PollStatus
  <2> DEFINE s == answer.snap
  <2>1. answer.kind = "status" /\ ~IsPost(wire) /\ status_request
    BY <1>2, <1>4, <1>10 DEF PollStatus
  <2>2. s.exec.id = exec.id => s.exec = exec \/ s.exec.state = "running"
    BY <2>1 DEF IInv, StatusNotAhead
  <2> HIDE DEF s
  <2>13. ASSUME TakeStatus(s), StartNothing, uncertain => uncertain',
                pending_execution' \in {pending_execution, NoId}
         PROVE  StaysOrSends
    BY <2>13 DEF TakeStatus, StartNothing
  <2>3. CASE PollNoReceiptDue(s) \/ PollReceiptChanged(s) \/ PollStillRunning(s)
             \/ PollFailed(s) \/ PollUnsound(s)
    <3>1. TakeStatus(s) /\ StartNothing
          /\ pending_execution' \in {pending_execution, NoId}
      BY <2>3
      DEF PollNoReceiptDue, PollReceiptChanged, PollStillRunning, PollFailed, PollUnsound,
          Succeeded
    <3>2. UNCHANGED flowVars \/ \E u \in BOOLEAN : Pause(u)
      BY <2>3
      DEF PollNoReceiptDue, PollReceiptChanged, PollStillRunning, PollFailed, PollUnsound
    <3>3. uncertain => uncertain'
      BY <3>2 DEF flowVars, Pause
    <3> QED
      BY <2>13, <3>1, <3>3
  <2>4. CASE PollRebooted(s)
    <3>1. life' = life /\ wire' = wire /\ ~PostDue' /\ (uncertain => uncertain')
      BY <2>4 DEF PollRebooted, Succeeded, TakeStatus, Pause, StartNothing
    <3> QED
      BY <3>1
  <2>5. ASSUME Finished(s)
        PROVE  life' = life /\ open' = open /\ pending_execution' = NoId
    BY <2>5 DEF Finished, Succeeded, TakeStatus
  <2>6. ASSUME Finished(s), ~uncertain
        PROVE  Work = {}
    <3>1. ~LostPost /\ answer.kind # "accepted"
      BY <2>1 DEF LostPost
    <3>2. \A r \in late : r.from # life
      BY <2>6, <3>1 DEF IInv, WorkAccounted
    <3>3. ~(exec.state = "running" /\ exec.req.from = life)
      BY <2>2, <2>6, <3>1 DEF IInv, WorkAccounted, Finished, Succeeded, IsReceipt
    <3> QED
      BY <2>1, <3>2, <3>3 DEF Work
  <2>7. ASSUME NEW r, StartPost(r), r.op \in Op, r.from = life, Finished(s),
               open, ~uncertain, ~uncertain'
        PROVE  StaysOrSends
    <3>1. r.op \notin {"none", "status"}
      BY <2>7 DEF Op, StepOp
    <3> QED
      BY <2>5, <2>6, <2>7, <3>1 DEF StartPost, IsPost
  <2>8. CASE AdvanceVerified(s)
    <3> DEFINE r == Req("preflight", selected_package, NoId, "unset", "unset", TRUE)
    <3>1. r.op \in Op /\ r.from = life
      BY DEF Req, Op
    <3>2. Finished(s) /\ open /\ ~uncertain /\ ~uncertain' /\ (StartNothing \/ StartPost(r))
      BY <2>8 DEF AdvanceVerified, ChecksPackage, IInv, FlagMatchesOperation
    <3> HIDE DEF r
    <3> QED
      BY <2>1, <2>5, <2>7, <3>1, <3>2 DEF StartNothing
  <2>9. CASE AdvancePlanned(s)
    <3> DEFINE r == Req("backup", update.pkg, NoId, update.home, update.sys, TRUE)
    <3>1. r.op \in Op /\ r.from = life
      BY DEF Req, Op
    <3>2. Finished(s) /\ open /\ ~uncertain /\ ~uncertain' /\ StartPost(r)
      BY <2>9 DEF AdvancePlanned, InWorkflow, flowVars
    <3> HIDE DEF r
    <3> QED
      BY <2>7, <3>1, <3>2
  <2>10. CASE AdvanceStep(s)
    <3> DEFINE next == OperationForState[StateAfter[s.exec.req.op]]
               r    == StepReq(next, update.pkg, s.tx.id, TRUE)
    <3>1. next \in Op
      BY <2>10, TablesTyped DEF AdvanceStep
    <3>2. r.op = next /\ r.from = life
      BY DEF StepReq, Req
    <3>3. Finished(s) /\ open /\ ~uncertain /\ ~uncertain' /\ StartPost(r)
      BY <2>10 DEF AdvanceStep, InWorkflow
    <3> HIDE DEF r, next
    <3> QED
      BY <2>7, <3>1, <3>2, <3>3
  <2>11. CASE AdvanceHalt(s)
    BY <2>1, <2>5, <2>11 DEF AdvanceHalt, Pause, StartNothing
  <2>12. CASE AdvanceNothing(s)
    BY <2>1, <2>5, <2>12 DEF AdvanceNothing, StartNothing, flowVars
  <2> QED
    BY <1>10, <2>3, <2>4, <2>8, <2>9, <2>10, <2>11, <2>12 DEF PollStatus, s
<1> QED
  BY <1>6, <1>7, <1>8, <1>9, <1>10 DEF Poll

\* So does a tap.
LEMMA HandleStaysOrSends ==
  ASSUME IInv, Handle
  PROVE  StaysOrSends
<1> USE DEF StaysOrSends, PostDue, NoId
<1>1. StatusRequest.op = "status"
  BY DEF StatusRequest, NoReq
<1>2. ~busy => ~IsPost(wire)
  BY DEF IInv, WireMatches, IsPost
<1>3. CASE Foreground \/ TapRefresh
  BY <1>1, <1>2, <1>3
  DEF Foreground, TapRefresh, RefreshUnlessBusy, StartStatus, flowVars, IsPost
<1>4. CASE Back \/ TapUsbFile \/ TapChoice \/ Arm \/ \E p \in Package : TapPackage(p)
  BY <1>4 DEF Back, TapUsbFile, TapChoice, Arm, TapPackage, ClearSelection, flowVars
<1>5. ASSUME NEW r, StartPost(r), r.op \in Op, r.from = life, life' = life,
             open, open', ~ExecutionBlocks, ~uncertain'
      PROVE  StaysOrSends
  <2>1. r.op \notin {"none", "status"}
    BY <1>5 DEF Op, StepOp
  <2>2. ~uncertain /\ ~PostDue
    BY <1>5 DEF ExecutionBlocks, Blocked
  <2> QED
    BY <1>5, <2>1, <2>2, QuietMeansIdle DEF StartPost, IsPost
<1>6. CASE TapUpload
  <2> DEFINE r == Req("verify", NoPkg, NoId, "unset", "unset", FALSE)
  <2>1. r.op \in Op /\ r.from = life
    BY DEF Req, Op
  <2>2. StartPost(r) /\ life' = life /\ open /\ open' /\ ~ExecutionBlocks /\ ~uncertain'
    BY <1>6 DEF TapUpload, CanAct, ExecutionBlocks, Blocked
  <2> HIDE DEF r
  <2> QED
    BY <1>5, <2>1, <2>2
<1>7. CASE TapVerify
  <2> DEFINE r == Req("verify", selected_package, NoId, "unset", "unset", FALSE)
  <2>1. r.op \in Op /\ r.from = life
    BY DEF Req, Op
  <2>2. StartPost(r) /\ life' = life /\ open /\ open' /\ ~ExecutionBlocks /\ ~uncertain'
    BY <1>7 DEF TapVerify, CanAct, ExecutionBlocks, Blocked
  <2> HIDE DEF r
  <2> QED
    BY <1>5, <2>1, <2>2
<1>8. CASE Confirm
  <2>1. FirstRequest.op \in Op /\ FirstRequest.from = life
    <3>1. snapshot.tx.state \in TxState
      BY SnapshotFields DEF IInv, TypeOK, PanelTypeOK
    <3> QED
      BY <3>1, TablesTyped DEF FirstRequest, NextOperation, StepReq, Req, Op
  <2>2. life' = life /\ open /\ open' /\ ~ExecutionBlocks /\ ~busy
    BY <1>8 DEF Confirm, CanUpdate, CanAct, ExecutionBlocks
  <2>3. CASE Bound.ctx = NoCtx
    <3>1. wire' = wire /\ busy' = FALSE /\ pending_execution' = pending_execution
          /\ (uncertain => uncertain')
      BY <1>8, <2>3 DEF Confirm, StartNothing, Pause
    <3> QED
      BY <2>2, <3>1
  <2>4. CASE Bound.ctx # NoCtx
    <3>1. StartPost(FirstRequest) /\ uncertain' = uncertain
      BY <1>8, <2>4 DEF Confirm
    <3>2. ~uncertain'
      BY <2>2, <3>1 DEF ExecutionBlocks, Blocked
    <3> QED
      BY <1>5, <2>1, <2>2, <3>1, <3>2
  <2> QED
    BY <2>3, <2>4
<1> QED
  BY <1>3, <1>4, <1>6, <1>7, <1>8 DEF Handle

\* When the work changes only by one operation ending, the abstract page sees
\* that operation finish, or nothing at all.
LEMMA EnvironmentRefines ==
  ASSUME IInv, IInv',
         \/ HandleStatus \/ HandlePost \/ LoseAnswer \/ HandleLate
         \/ WebSubmit \/ Operator \/ (Core /\ UNCHANGED <<late, webs>>)
  PROVE  /\ Phase' = Phase /\ life' = life
         /\ Work' = Work \/ (Work # {} /\ Work' = {})
<1> USE DEF IsPost
<1>1. NoReq.op = "none"
  BY DEF NoReq
<1>2. SingleFlight /\ WireMatches /\ NoFutureLife /\ TypeOK
  BY DEF IInv
<1>3. ASSUME NEW a, Answered(a)
      PROVE  Phase' = Phase /\ life' = life /\ wire'.op = "none"
  BY <1>1, <1>3 DEF Answered, Phase, PostDue, flowVars
<1>4. CASE HandleStatus
  <2>1. wire.op = "status" /\ late' = late /\ exec' = exec
    BY <1>4 DEF HandleStatus, coreVars, envVars
  <2>2. Phase' = Phase /\ life' = life /\ wire'.op = "none"
    BY <1>3, <1>4 DEF HandleStatus
  <2>3. Work' = Work
    BY <2>1, <2>2 DEF Work
  <2> QED
    BY <2>2, <2>3
<1>5. CASE HandlePost
  <2>1. late' = late /\ IsPost(wire) /\ wire.from = life
    BY <1>2, <1>5 DEF HandlePost, envVars, WireMatches
  <2>2. Phase' = Phase /\ life' = life /\ wire'.op = "none"
    <3>1. \E a : Answered(a)
      BY <1>5 DEF HandlePost
    <3> QED
      BY <1>3, <3>1
  <2>3. (\A r \in late : r.from # life) /\ ~(exec.state = "running" /\ exec.req.from = life)
    BY <1>2, <2>1 DEF SingleFlight
  <2>4. Work = {wire.op}
    BY <2>1, <2>3 DEF Work
  <2>5. CASE Admits(wire)
    <3>1. wire \in Request /\ wire.op \in Op
      BY <1>2, <2>1 DEF TypeOK, PanelTypeOK, Request
    <3>2. exec'.state = "running" /\ exec'.req.from = wire.from /\ exec'.req.op = wire.op
      BY <1>2, <1>5, <2>5, <3>1, AcceptTypes DEF HandlePost, TypeOK
    <3>3. Work' = {wire.op}
      BY <2>1, <2>2, <2>3, <3>2 DEF Work
    <3> QED
      BY <2>2, <2>4, <3>3
  <2>6. CASE ~Admits(wire)
    <3>1. exec' = exec
      BY <1>5, <2>6 DEF HandlePost, coreVars
    <3>2. Work' = {}
      BY <2>1, <2>2, <2>3, <3>1 DEF Work
    <3> QED
      BY <2>2, <2>4, <3>2
  <2> QED
    BY <2>5, <2>6
<1>6. CASE LoseAnswer
  <2>1. exec' = exec /\ wire.op # "none"
        /\ (~IsPost(wire) => late' = late) /\ (late' = late \/ late' = late \cup {wire})
    BY <1>6 DEF LoseAnswer, coreVars
  <2>2. Phase' = Phase /\ life' = life /\ wire'.op = "none"
    BY <1>3, <1>6 DEF LoseAnswer
  <2>3. CASE ~IsPost(wire)
    <3>1. Work' = Work
      BY <2>1, <2>2, <2>3 DEF Work
    <3> QED
      BY <2>2, <3>1
  <2>4. CASE IsPost(wire)
    <3>1. wire.from = life /\ (\A r \in late : r.from # life)
          /\ ~(exec.state = "running" /\ exec.req.from = life)
      BY <1>2, <2>4 DEF SingleFlight, WireMatches
    <3>2. Work = {wire.op}
      BY <2>4, <3>1 DEF Work
    <3>3. CASE late' = late
      <4>1. Work' = {}
        BY <2>1, <2>2, <3>1, <3>3 DEF Work
      <4> QED
        BY <2>2, <3>2, <4>1
    <3>4. CASE late' = late \cup {wire}
      <4>1. Work' = {wire.op}
        BY <2>1, <2>2, <2>4, <3>1, <3>4 DEF Work
      <4> QED
        BY <2>2, <3>2, <4>1
    <3> QED
      BY <2>1, <3>3, <3>4
  <2> QED
    BY <2>3, <2>4
<1>7. CASE HandleLate
  <2>1. PICK r \in late :
          /\ late' = late \ {r}
          /\ (Admits(r) /\ Accept(r)) \/ UNCHANGED coreVars
          /\ UNCHANGED <<panelVars, webs>>
    BY <1>7 DEF HandleLate
  <2>2. Phase' = Phase /\ life' = life /\ wire' = wire
    BY <2>1 DEF panelVars, flowVars, Phase, PostDue
  <2>3. r \in Request /\ IsPost(r) /\ r.op \in Op
    BY <1>2 DEF TypeOK, Request
  <2>4. \/ exec' = exec
        \/ /\ exec.state # "running" /\ exec'.state = "running"
           /\ exec'.req.from = r.from /\ exec'.req.op = r.op
    BY <1>2, <2>1, <2>3, AcceptTypes DEF TypeOK, Admits, coreVars
  <2>5. CASE r.from = life
    <3>1. \A q \in late' : q.from # life
      BY <1>2, <2>1, <2>5 DEF SingleFlight
    <3>2. \A q \in late : q.from = life => q = r
      BY <1>2, <2>5 DEF SingleFlight
    <3>3. ~IsPost(wire) /\ ~(exec.state = "running" /\ exec.req.from = life)
      BY <1>2, <2>5 DEF SingleFlight
    <3>4. Work = {r.op}
      BY <2>3, <2>5, <3>2, <3>3 DEF Work
    <3>5. Work' = {} \/ Work' = {r.op}
      BY <2>2, <2>4, <2>5, <3>1, <3>3 DEF Work
    <3> QED
      BY <2>2, <3>4, <3>5
  <2>6. CASE r.from # life
    <3>1. Work' = Work
      BY <2>1, <2>2, <2>4, <2>6 DEF Work
    <3> QED
      BY <2>2, <3>1
  <2> QED
    BY <2>5, <2>6
<1>8. CASE WebSubmit
  <2>1. PICK o \in Op, p \in staged \cup {NoPkg}, h \in HomeChoice, y \in SysChoice :
          LET r == [op |-> o, pkg |-> p, tx |-> tx.id, home |-> h, sys |-> y,
                    from |-> 0, auto |-> FALSE]
          IN Admits(r) /\ Accept(r)
    BY <1>8 DEF WebSubmit
  <2> DEFINE r == [op |-> o, pkg |-> p, tx |-> tx.id, home |-> h, sys |-> y,
                   from |-> 0, auto |-> FALSE]
  <2>2. 0 \in Life /\ tx.id \in Id /\ p \in Package \cup {NoPkg}
    BY <1>2, OtaAssumption DEF Life, TypeOK, CoreTypeOK, Transaction
  <2>3. r \in Request /\ r.op \in Op /\ r.from = 0
    BY <2>2 DEF Request
  <2> HIDE DEF r
  <2>4. /\ exec.state # "running" /\ exec'.req.from = 0
    BY <1>2, <2>1, <2>3, AcceptTypes DEF TypeOK, Admits, r
  <2>5. UNCHANGED <<panelVars, late>> /\ life # 0
    BY <1>2, <1>8, TypedFacts DEF WebSubmit
  <2>6. Phase' = Phase /\ life' = life /\ wire' = wire /\ late' = late
    BY <2>5 DEF panelVars, flowVars, Phase, PostDue
  <2>7. Work' = Work
    BY <2>4, <2>5, <2>6 DEF Work
  <2> QED
    BY <2>6, <2>7
<1>9. CASE Operator
  BY <1>9 DEF Operator, Inspect, panelVars, flowVars, Phase, PostDue, Work
<1>10. ASSUME Core, UNCHANGED <<late, webs>>
       PROVE  /\ Phase' = Phase /\ life' = life
              /\ Work' = Work \/ (Work # {} /\ Work' = {})
  <2>1. exec.state = "running" /\ exec'.state # "running" /\ UNCHANGED <<panelVars, late>>
    BY <1>2, <1>10 DEF Core, Succeed, Fail, BecomeUnknown, TypeOK, CoreTypeOK, Execution
  <2>2. Phase' = Phase /\ life' = life /\ wire' = wire /\ late' = late
    BY <2>1 DEF panelVars, flowVars, Phase, PostDue
  <2>3. CASE exec.req.from = life
    <3>1. ~IsPost(wire) /\ \A r \in late : r.from # life
      BY <1>2, <2>1, <2>3 DEF SingleFlight
    <3>2. Work = {exec.req.op} /\ Work' = {}
      BY <2>1, <2>2, <2>3, <3>1 DEF Work
    <3> QED
      BY <2>2, <3>2
  <2>4. CASE exec.req.from # life
    <3>1. Work' = Work
      BY <2>1, <2>2, <2>4 DEF Work
    <3> QED
      BY <2>2, <3>1
  <2> QED
    BY <2>3, <2>4
<1> QED
  BY <1>4, <1>5, <1>6, <1>7, <1>8, <1>9, <1>10

\* The abstract page starts quiet, with no operation.
LEMMA InitRefines == Init => Serial!Init
BY OtaAssumption
DEF Init, PanelInit, CoreInit, Serial!Init, Phase, PostDue, Work, NoReq, NoExec, IsPost, NoId

\* A quiet page has no operation that can still run.
LEMMA QuietWork == IInv /\ Phase = "quiet" => Work = {}
BY QuietMeansIdle DEF Phase

\* Every step of the system is a step of the abstract page, or none.
LEMMA StepRefines ==
  IInv /\ IInv' /\ [Next]_vars => [Serial!Next]_(Serial!vars)
<1>0. (IInv /\ Phase = "quiet" => Work = {})'
  BY QuietWork, PTL
<1> SUFFICES ASSUME IInv, IInv', [Next]_vars
             PROVE  Serial!Next \/ (Phase' = Phase /\ Work' = Work)
  BY DEF Serial!vars
<1>1. CASE Ui
  <2>1. StaysOrSends /\ late' = late /\ exec' = exec
    BY <1>1, PollStaysOrSends, HandleStaysOrSends DEF Ui, coreVars, envVars
  <2>2. ASSUME Work' = Work, PostDue' => PostDue
        PROVE  Serial!Next \/ (Phase' = Phase /\ Work' = Work)
    <3>1. Phase' = "quiet" => Work = {}
      BY <1>0, <2>2
    <3>2. Phase \in {"quiet", "inflight", "unclear"}
      BY DEF Phase
    <3>3. CASE Phase' = Phase
      BY <2>2, <3>3
    <3>4. CASE Phase' # Phase /\ Phase' = "unclear"
      BY <2>2, <3>4 DEF Serial!Next, Serial!GiveUp
    <3>5. CASE Phase' # Phase /\ Phase' = "quiet"
      <4>1. Phase = "inflight"
        BY <2>1, <3>2, <3>5 DEF StaysOrSends, Phase
      <4> QED
        BY <2>2, <3>1, <3>5, <4>1 DEF Serial!Next, Serial!Report
    <3>6. CASE Phase' # Phase /\ Phase' = "inflight"
      BY <2>1, <2>2, <3>6 DEF StaysOrSends, Phase
    <3>7. Phase' \in {"quiet", "inflight", "unclear"}
      BY DEF Phase
    <3> QED
      BY <3>3, <3>4, <3>5, <3>6, <3>7
  <2>3. CASE wire' = wire /\ (PostDue' => PostDue)
    <3>1. Work' = Work
      BY <2>1, <2>3 DEF Work, StaysOrSends
    <3> QED
      BY <2>2, <2>3, <3>1
  <2>4. CASE ~IsPost(wire) /\ ~IsPost(wire') /\ (PostDue' => PostDue)
    <3>1. Work' = Work
      BY <2>1, <2>4 DEF Work, StaysOrSends
    <3> QED
      BY <2>2, <2>4, <3>1
  <2>5. CASE /\ open /\ open' /\ ~uncertain /\ ~uncertain' /\ Work = {} /\ PostDue'
             /\ wire'.op \in Op /\ IsPost(wire') /\ wire'.from = life
    <3>1. life' = life
      BY <2>1 DEF StaysOrSends
    <3>2. (\A r \in late : IsPost(r) => r.from # life)
          /\ ~(exec.state = "running" /\ exec.req.from = life)
      BY <2>5 DEF Work
    <3>3. Work' = {wire'.op}
      BY <2>1, <2>5, <3>1, <3>2 DEF Work
    <3>4. Phase # "unclear" /\ Phase' = "inflight"
      BY <2>5 DEF Phase
    <3> QED
      BY <2>5, <3>3, <3>4 DEF Serial!Next, Serial!Submit
  <2> QED
    BY <2>1, <2>3, <2>4, <2>5 DEF StaysOrSends
<1>2. CASE Core \/ Wire \/ HandleLate \/ WebSubmit \/ Operator
  <2>1. Phase' = Phase /\ (Work' = Work \/ (Work # {} /\ Work' = {}))
    BY <1>2, EnvironmentRefines DEF Wire, Core, envVars
  <2> QED
    BY <2>1 DEF Serial!Next, Serial!Finish
<1>3. CASE Restart
  <2>1. life' = life + 1 /\ life \in Nat /\ exec' = exec /\ ~IsPost(wire')
        /\ Phase' = "quiet"
    BY <1>3, TypedFacts
    DEF Restart, coreVars, NoReq, IsPost, IInv, Phase, PostDue
  <2>2. \A r \in late' : r.from <= life
    BY <1>3, <2>1 DEF Restart, IInv, NoFutureLife, WireMatches
  <2>3. exec.req.from <= life /\ exec.req.from \in Nat /\ \A r \in late' : r.from \in Nat
    BY <1>3, TypedFacts DEF IInv, NoFutureLife, Restart
  <2>4. Work' = {}
    BY <2>1, <2>2, <2>3 DEF Work
  <2> QED
    BY <2>1, <2>4 DEF Serial!Next, Serial!Restart
<1>4. CASE UNCHANGED vars
  BY <1>4 DEF vars, panelVars, flowVars, coreVars, envVars, Phase, PostDue, Work
<1> QED
  BY <1>1, <1>2, <1>3, <1>4 DEF Next

\* The page keeps the promise of SerialOperations: one operation at a time,
\* ready again only when nothing of it can still run, and nothing more once
\* an outcome is unclear.
THEOREM Refinement == Spec => ImplementsSerial
BY InitRefines, InvInit, InvStep, StepRefines, PTL
DEF Spec, ImplementsSerial, Serial!Spec

\* An operation whose outcome is unclear is the last one this process sends.
THEOREM UnclearIsFinalHolds == Spec => UnclearIsFinal
<1> DEFINE Final == uncertain /\ life' = life => uncertain' /\ ~IsPost(wire')
<1>1. ASSUME IInv, IInv', [Next]_vars
      PROVE  [Final]_vars
  <2> SUFFICES ASSUME uncertain, life' = life PROVE uncertain'
    BY <1>1 DEF IInv, NoPostBeside, WireMatches, IsPost
  <2>1. CASE Ui
    BY <1>1, <2>1, PollStaysOrSends, HandleStaysOrSends DEF Ui, StaysOrSends
  <2>2. CASE Core \/ Wire \/ HandleLate \/ WebSubmit \/ Operator
    <3>1. Phase' = Phase
      BY <1>1, <2>2, EnvironmentRefines DEF Wire, Core, envVars
    <3> QED
      BY <3>1 DEF Phase
  <2>3. CASE Restart
    BY <1>1, <2>3, TypedFacts DEF Restart, IInv
  <2>4. CASE UNCHANGED vars
    BY <2>4 DEF vars, panelVars, flowVars
  <2> QED
    BY <1>1, <2>1, <2>2, <2>3, <2>4 DEF Next
<1> QED
  BY <1>1, InvInit, InvStep, PTL DEF Spec, UnclearIsFinal

\* Nothing is sent while the page is closed.
THEOREM NothingSentWhileClosedHolds == Spec => NothingSentWhileClosed
<1> DEFINE Seen == IsPost(wire') /\ wire' # wire => open /\ open'
<1>1. ASSUME IInv, [Next]_vars
      PROVE  [Seen]_vars
  <2> SUFFICES ASSUME IsPost(wire'), wire' # wire PROVE open /\ open'
    OBVIOUS
  <2>1. CASE Ui
    BY <1>1, <2>1, PollStaysOrSends, HandleStaysOrSends DEF Ui, StaysOrSends
  <2>2. CASE Wire \/ Restart
    BY <2>2 DEF Wire, HandleStatus, HandlePost, LoseAnswer, Answered, Restart, IsPost, NoReq
  <2>3. CASE Core \/ HandleLate \/ WebSubmit \/ Operator \/ UNCHANGED vars
    BY <2>3 DEF Core, HandleLate, WebSubmit, Operator, vars, panelVars
  <2> QED
    BY <1>1, <2>1, <2>2, <2>3 DEF Next
<1> QED
  BY <1>1, InvInit, InvStep, PTL DEF Spec, NothingSentWhileClosed
=============================================================================
