--------------------------- MODULE OtaTypeProofs ----------------------------
(***************************************************************************)
(* Type correctness of OtaSystem, for every value of its constants.        *)
(***************************************************************************)
EXTENDS OtaSystem, TLAPS

\* The tables of the update's steps: each phase has its operation, each step its phase.
LEMMA TablesTyped ==
  /\ OperationForState \in [TxState -> Op]
  /\ StateAfter \in [StepOp \cup {"backup"} -> TxState]
BY DEF OperationForState, StateAfter, TxState, Op, StepOp

\* The values that stand for "nothing" have the types of what they stand in for.
LEMMA ConstantsTyped ==
  /\ NoReq \in Request /\ StatusRequest \in Request
  /\ NoTx \in Transaction /\ NoExec \in Execution /\ NullSnapshot \in Snapshot
  /\ NoAnswer \in Answer /\ NoId \in Id
<1> 0 \in Life /\ NoId \in Id
  BY OtaAssumption DEF Life, Id, NoId
<1>1. NoReq \in Request
  <2>1. "none" \in Op \cup {"status", "none"} /\ "unset" \in HomeChoice \cup {"unset"}
        /\ "unset" \in SysChoice \cup {"unset"} /\ NoPkg \in Package \cup {NoPkg}
    OBVIOUS
  <2> QED
    BY <2>1, Zenon DEF NoReq, Request
<1>2. StatusRequest \in Request
  BY <1>1 DEF StatusRequest, Request
<1>3. NoTx \in Transaction
  BY Zenon DEF NoTx, Transaction, TxState, Id, NoId, HomeChoice, SysChoice
<1>4. NoExec \in Execution
  BY <1>1, Zenon DEF NoExec, Execution
<1>5. NullSnapshot \in Snapshot
  BY <1>3, <1>4, Zenon DEF NullSnapshot, Snapshot
<1> QED
  BY <1>1, <1>2, <1>3, <1>4, <1>5 DEF Answer

\* A request put together by submit() is a request.
LEMMA ReqTyped ==
  ASSUME life \in Life,
         NEW op \in Op, NEW pkg \in Package \cup {NoPkg}, NEW t \in Id,
         NEW home \in HomeChoice \cup {"unset"}, NEW sys \in SysChoice \cup {"unset"},
         NEW auto \in BOOLEAN
  PROVE  Req(op, pkg, t, home, sys, auto) \in Request
BY DEF Req, Request

\* The types of an execution's fields.
LEMMA ExecutionFields ==
  ASSUME NEW e \in Execution
  PROVE  /\ e.id \in Id /\ e.req \in Request /\ e.ctx \in Context \cup {NoCtx}
         /\ e.req.op \in Op \cup {"status", "none"}
         /\ e.req.pkg \in Package \cup {NoPkg} /\ e.req.tx \in Id /\ e.req.from \in Life
         /\ e.req.home \in HomeChoice \cup {"unset"} /\ e.req.sys \in SysChoice \cup {"unset"}
BY DEF Execution, Request

\* The types of a snapshot's fields.
LEMMA SnapshotFields ==
  ASSUME NEW s \in Snapshot
  PROVE  /\ s.tx \in Transaction /\ s.exec \in Execution
         /\ s.tx.id \in Id /\ s.tx.pkg \in Package \cup {NoPkg}
         /\ s.tx.ctx \in Context \cup {NoCtx} /\ s.tx.state \in TxState
         /\ s.staged \in SUBSET Package
BY DEF Snapshot, Transaction

\* What an answer holds, by its kind.
LEMMA AnswerFields ==
  ASSUME answer \in Answer
  PROVE  /\ answer.kind = "status" => answer.snap \in Snapshot
         /\ answer.kind = "accepted" =>
              answer.id \in Id /\ answer.pkg \in Package \cup {NoPkg}
BY DEF Answer, NoAnswer

\* What the Core reports of itself is a snapshot, and so an answer.
LEMMA OverviewTyped ==
  ASSUME CoreTypeOK
  PROVE  /\ Overview \in Snapshot
         /\ [kind |-> "status", snap |-> Overview] \in Answer
<1>1. Overview \in Snapshot
  BY DEF CoreTypeOK, Overview, Snapshot
<1> QED
  BY <1>1 DEF Answer

\* The request of a workflow step is a request.
LEMMA StepReqTyped ==
  ASSUME life \in Life, NEW op \in Op, NEW pkg \in Package \cup {NoPkg}, NEW t \in Id,
         NEW auto \in BOOLEAN
  PROVE  StepReq(op, pkg, t, auto) \in Request
BY ReqTyped DEF StepReq
-----------------------------------------------------------------------------
\* One poll() keeps the panel's types.
LEMMA PollTypes ==
  ASSUME PanelTypeOK, Poll
  PROVE  PanelTypeOK'
<1> USE DEF PanelTypeOK, StartNothing, StartStatus, StartPost
<1> life \in Life
  BY DEF Life
<1>1. CASE PollError
  <2>1. selected_package' \in Package \cup {NoPkg}
    BY <1>1, SnapshotFields DEF PollError, Rendered
  <2>2. Flags' \subseteq BOOLEAN
    BY <1>1 DEF PollError, Pause, choiceVars, Flags
  <2>3. pending_execution' \in Id
    BY <1>1, ConstantsTyped DEF PollError
  <2> QED
    BY <1>1, <2>1, <2>2, <2>3, ConstantsTyped DEF PollError, choiceVars
<1> USE DEF Flags
<1>2. CASE PollMalformed
  BY <1>2, ConstantsTyped DEF PollMalformed, Pause, choiceVars
<1>3. CASE PollAccepted
  BY <1>3, ConstantsTyped, AnswerFields DEF PollAccepted, choiceVars, flowVars
<1>4. CASE PollRefresh
  BY <1>4, ConstantsTyped DEF PollRefresh, choiceVars, flowVars
<1>5. CASE PollStatus
  <2> DEFINE s == answer.snap
  <2>1. s \in Snapshot
    BY <1>5, AnswerFields DEF PollStatus
  <2> HIDE DEF s
  <2>2. /\ s.exec \in Execution /\ s.exec.req.pkg \in Package \cup {NoPkg}
        /\ s.exec.ctx \in Context \cup {NoCtx} /\ s.exec.req.op \in Op \cup {"status", "none"}
        /\ s.tx.id \in Id
    BY <2>1, SnapshotFields, ExecutionFields
  <2>3. ASSUME TakeStatus(s)
        PROVE  /\ snapshot' \in Snapshot /\ selected_usb' \in BOOLEAN
               /\ selected_package' \in Package \cup {NoPkg} /\ answer' \in Answer
               /\ open' \in BOOLEAN /\ life' \in Life \ {0}
    BY <2>1, <2>3, SnapshotFields, ConstantsTyped DEF TakeStatus, Rendered
  <2>4. CASE \/ PollNoReceiptDue(s) \/ PollReceiptChanged(s) \/ PollStillRunning(s)
             \/ PollFailed(s)
    BY <2>4, <2>3, ConstantsTyped DEF PollNoReceiptDue, PollReceiptChanged, PollStillRunning, PollFailed,
                      Pause, flowVars
  <2>5. CASE PollUnsound(s) \/ PollRebooted(s)
    BY <2>5, <2>3, ConstantsTyped DEF PollUnsound, PollRebooted, Succeeded, Pause, flowVars
  <2>6. ASSUME Finished(s)
        PROVE  /\ preflight' \in [pkg : Package \cup {NoPkg}, ctx : Context \cup {NoCtx}]
               /\ home_choice' \in HomeChoice \cup {"unset"} /\ sys_choice' \in SysChoice \cup {"unset"}
               /\ pending_execution' \in Id /\ TakeStatus(s)
    BY <2>2, <2>6, ConstantsTyped DEF Finished, Succeeded
  <2>7. CASE AdvanceVerified(s)
    <3>1. Req("preflight", selected_package, NoId, "unset", "unset", TRUE) \in Request
      BY ReqTyped, ConstantsTyped DEF Op
    <3>2. Req("preflight", selected_package, NoId, "unset", "unset", TRUE).op \in Op
      BY DEF Req, Op
    <3> QED
      BY <2>3, <2>6, <2>7, <3>1, <3>2 DEF AdvanceVerified
  <2>8. CASE AdvancePlanned(s)
    <3> DEFINE r == Req("backup", update.pkg, NoId, update.home, update.sys, TRUE)
    <3>1. r \in Request
      BY ReqTyped, ConstantsTyped DEF Op
    <3>2. r.op \in Op
      BY DEF Req, Op
    <3> QED
      BY <2>3, <2>6, <2>8, <3>1, <3>2 DEF AdvancePlanned, flowVars
  <2>9. CASE AdvanceStep(s)
    <3> DEFINE next == OperationForState[StateAfter[s.exec.req.op]]
               r    == StepReq(next, update.pkg, s.tx.id, TRUE)
    <3>1. next \in Op
      BY <2>9, TablesTyped DEF AdvanceStep
    <3>2. r \in Request
      BY <2>2, <3>1, StepReqTyped
    <3>3. r.op \in Op
      BY <3>1 DEF StepReq, Req
    <3> HIDE DEF next
    <3>4. StartPost(r) /\ reboot_sent' = (reboot_sent \/ next = "reboot")
      BY <2>9 DEF AdvanceStep, AskedReboot, next
    <3> HIDE DEF r
    <3> QED
      BY <2>2, <2>3, <2>6, <2>9, <3>2, <3>3, <3>4 DEF AdvanceStep
  <2>10. CASE AdvanceHalt(s)
    BY <2>2, <2>3, <2>6, <2>10 DEF AdvanceHalt, Pause
  <2>11. CASE AdvanceNothing(s)
    BY <2>3, <2>6, <2>11 DEF AdvanceNothing, flowVars
  <2> QED
    BY <1>5, <2>4, <2>5, <2>7, <2>8, <2>9, <2>10, <2>11 DEF PollStatus, s
<1> QED
  BY <1>1, <1>2, <1>3, <1>4, <1>5 DEF Poll

\* One tap keeps the panel's types.
LEMMA HandleTypes ==
  ASSUME PanelTypeOK, Handle
  PROVE  PanelTypeOK'
<1> USE DEF PanelTypeOK, Flags, StartNothing, StartStatus, StartPost
<1> life \in Life
  BY DEF Life
<1>1. CASE Foreground \/ TapRefresh
  BY <1>1, ConstantsTyped
  DEF Foreground, TapRefresh, RefreshUnlessBusy, choiceVars, flowVars
<1>2. CASE Back
  BY <1>2 DEF Back, choiceVars
<1>3. ASSUME NEW check \in BOOLEAN, ClearSelection(check)
      PROVE  /\ armed' \in BOOLEAN /\ check_after_verify' \in BOOLEAN
             /\ preflight' \in [pkg : Package \cup {NoPkg}, ctx : Context \cup {NoCtx}]
             /\ home_choice' \in HomeChoice \cup {"unset"}
             /\ sys_choice' \in SysChoice \cup {"unset"}
  BY <1>3 DEF ClearSelection, NoPre
<1>4. CASE TapUsbFile
  BY <1>3, <1>4 DEF TapUsbFile
<1>5. CASE \E p \in Package : TapPackage(p)
  BY <1>3, <1>5 DEF TapPackage
<1>6. CASE TapChoice
  BY <1>6 DEF TapChoice, flowVars
<1>7. CASE TapUpload
  <2> DEFINE r == Req("verify", NoPkg, NoId, "unset", "unset", FALSE)
  <2>1. r \in Request
    BY ReqTyped, ConstantsTyped DEF Op
  <2>2. r.op \in Op
    BY DEF Req, Op
  <2>3. StartPost(r)
    BY <1>7 DEF TapUpload
  <2> HIDE DEF r
  <2> QED
    BY <1>3, <1>7, <2>1, <2>2, <2>3 DEF TapUpload
<1>8. CASE TapVerify
  <2> DEFINE r == Req("verify", selected_package, NoId, "unset", "unset", FALSE)
  <2>1. r \in Request
    BY ReqTyped, ConstantsTyped DEF Op
  <2>2. r.op \in Op
    BY DEF Req, Op
  <2>3. StartPost(r)
    BY <1>8 DEF TapVerify
  <2> HIDE DEF r
  <2> QED
    BY <1>3, <1>8, <2>1, <2>2, <2>3 DEF TapVerify
<1>9. Rendered(snapshot, selected_package) \in Package \cup {NoPkg}
  BY SnapshotFields DEF Rendered
<1>10. CASE Arm
  BY <1>9, <1>10 DEF Arm, choiceVars, flowVars
<1>11. CASE Confirm
  <2> USE <1>11
  <2>1. snapshot.tx \in Transaction /\ snapshot.tx.id \in Id
        /\ snapshot.tx.pkg \in Package \cup {NoPkg}
        /\ snapshot.tx.ctx \in Context \cup {NoCtx} /\ snapshot.tx.state \in TxState
    BY SnapshotFields
  <2>2. update' \in [pkg : Package \cup {NoPkg}, tx : Id, ctx : Context \cup {NoCtx},
                     home : HomeChoice \cup {"unset"}, sys : SysChoice \cup {"unset"}]
    BY <2>1, ConstantsTyped DEF Confirm, Bound
  <2>3. FirstRequest \in Request /\ FirstRequest.op \in Op
    <3>1. CASE Continuing
      <4>1. NextOperation \in Op
        BY <2>1, TablesTyped DEF NextOperation
      <4>2. StepReq(NextOperation, snapshot.tx.pkg, snapshot.tx.id, FALSE) \in Request
        BY <2>1, <4>1, StepReqTyped
      <4>3. StepReq(NextOperation, snapshot.tx.pkg, snapshot.tx.id, FALSE).op \in Op
        BY <4>1 DEF StepReq, Req
      <4> QED
        BY <3>1, <4>2, <4>3 DEF FirstRequest
    <3>2. CASE ~Continuing
      <4>1. Req("backup-plan", selected_package, NoId, home_choice, sys_choice, FALSE)
              \in Request
        BY ReqTyped, ConstantsTyped DEF Op
      <4>2. Req("backup-plan", selected_package, NoId, home_choice, sys_choice, FALSE).op
              \in Op
        BY DEF Req, Op
      <4> QED
        BY <3>2, <4>1, <4>2 DEF FirstRequest
    <3> QED
      BY <3>1, <3>2
  <2>4. Flags' \subseteq BOOLEAN
    BY DEF Confirm, AskedReboot, Pause, choiceVars
  <2>5. wire' \in Request /\ submitted_operation' \in Op \cup {"none"}
    BY <2>3 DEF Confirm
  <2> QED
    BY <1>9, <2>2, <2>4, <2>5 DEF Confirm, choiceVars
<1> QED
  BY <1>1, <1>2, <1>4, <1>5, <1>6, <1>7, <1>8, <1>10, <1>11 DEF Handle

\* An admitted request starts a well-formed execution.
LEMMA AcceptTypes ==
  ASSUME CoreTypeOK, NEW r \in Request, r.op \in Op, Admits(r), Accept(r)
  PROVE  /\ CoreTypeOK'
         /\ exec'.id = exec.id + 1 /\ exec'.id # NoId /\ exec'.state = "running"
         /\ exec'.req.from = r.from /\ exec'.req.op = r.op
         /\ exec'.req.pkg \in Package \cup {NoPkg}
         /\ tx' = tx
<1> DEFINE pick == IF IsUpload(r) THEN Package \ staged ELSE {r.pkg}
<1>1. PICK p \in pick :
        /\ exec' = [id |-> exec.id + 1, req |-> [r EXCEPT !.pkg = p], ctx |-> NoCtx,
                    state |-> "running", result |-> "bad"]
        /\ staged' = IF r.op = "reboot" THEN staged ELSE staged \cup {p}
        /\ UNCHANGED <<tx, activation>>
  BY DEF Accept
<1>2. staged \subseteq Package
  BY DEF CoreTypeOK
<1>3. p \in Package \cup {NoPkg} /\ (r.op # "reboot" => p \in Package)
  <2>1. r.op # "reboot" /\ ~IsUpload(r) => r.pkg \in staged
    BY DEF Admits
  <2>2. IsUpload(r) => r.op # "reboot"
    BY DEF IsUpload
  <2> QED
    BY <1>2, <2>1, <2>2 DEF Request
<1>4. exec.id + 1 \in Id /\ exec.id + 1 # NoId
  BY OtaAssumption, ExecutionFields DEF Admits, CoreTypeOK, Id, NoId
<1>5. [r EXCEPT !.pkg = p] \in Request /\ [r EXCEPT !.pkg = p].from = r.from
      /\ [r EXCEPT !.pkg = p].op = r.op /\ [r EXCEPT !.pkg = p].pkg = p
  BY <1>3 DEF Request
<1>6. exec' \in Execution
  BY <1>1, <1>4, <1>5 DEF Execution
<1>8. exec'.req.op = "backup" =>
        exec'.req.home \in HomeChoice /\ exec'.req.sys \in SysChoice
  <2> SUFFICES ASSUME r.op = "backup"
               PROVE  exec'.req.home \in HomeChoice /\ exec'.req.sys \in SysChoice
    BY <1>1, <1>5
  <2>1. r.home \in HomeChoice /\ r.sys \in SysChoice
    BY DEF Admits
  <2> QED
    BY <1>1, <2>1 DEF Request
<1>7. staged' \in SUBSET Package
  BY <1>1, <1>2, <1>3
<1> QED
  BY <1>1, <1>3, <1>4, <1>5, <1>6, <1>7, <1>8 DEF CoreTypeOK

\* A successful operation leaves a well-formed transaction.
LEMMA EffectTypes ==
  ASSUME CoreTypeOK, NEW c \in Context \cup {NoCtx}, Effect(c)
  PROVE  tx' \in Transaction /\ activation' \in BOOLEAN
<1> exec \in Execution /\ tx \in Transaction
  BY DEF CoreTypeOK
<1>1. CASE exec.req.op = "backup"
  <2>1. PICK v \in BOOLEAN :
          tx' = [id |-> exec.id, pkg |-> exec.req.pkg, state |-> "awaiting-confirmation",
                 ctx |-> c, home |-> exec.req.home, sys |-> exec.req.sys,
                 verified |-> v \/ (exec.req.home = "none" /\ exec.req.sys = "none")]
    BY <1>1 DEF Effect, StepOp
  <2>2. activation' = activation
    BY <1>1 DEF Effect, StepOp
  <2> DEFINE verified == v \/ (exec.req.home = "none" /\ exec.req.sys = "none")
  <2>3. verified \in BOOLEAN
    OBVIOUS
  <2>4. exec.req.home \in HomeChoice /\ exec.req.sys \in SysChoice
        /\ exec.id \in Id /\ exec.req.pkg \in Package \cup {NoPkg}
        /\ activation \in BOOLEAN /\ "awaiting-confirmation" \in TxState
    BY <1>1, ExecutionFields DEF CoreTypeOK, TxState
  <2>5. tx' = [id |-> exec.id, pkg |-> exec.req.pkg, state |-> "awaiting-confirmation",
               ctx |-> c, home |-> exec.req.home, sys |-> exec.req.sys,
               verified |-> verified]
    BY <2>1
  <2> HIDE DEF verified
  <2> QED
    BY <2>2, <2>3, <2>4, <2>5 DEF Transaction
<1>2. CASE exec.req.op \in StepOp
  <2>1. StateAfter[exec.req.op] \in TxState
    BY <1>2, TablesTyped
  <2>2. tx' = [tx EXCEPT !.state = StateAfter[exec.req.op]]
        /\ activation' = (activation \/ exec.req.op = "prepare-activation")
    BY <1>2 DEF Effect, StepOp
  <2> QED
    BY <2>1, <2>2 DEF Transaction
<1>3. CASE exec.req.op # "backup" /\ exec.req.op \notin StepOp
  BY <1>3 DEF Effect, CoreTypeOK
<1> QED
  BY <1>1, <1>2, <1>3

\* Everything but the screen keeps every type.
LEMMA EnvironmentTypes ==
  ASSUME TypeOK,
         \/ HandleStatus \/ HandlePost \/ LoseAnswer \/ HandleLate
         \/ WebSubmit \/ Operator \/ Restart
         \/ (Core /\ UNCHANGED <<late, webs>>)
  PROVE  TypeOK'
<1> USE DEF TypeOK
<1>1. ASSUME NEW a \in Answer, Answered(a)
      PROVE  PanelTypeOK'
  BY <1>1, ConstantsTyped DEF Answered, PanelTypeOK, Flags, flowVars, choiceVars
<1>2. ASSUME UNCHANGED panelVars
      PROVE  PanelTypeOK'
  BY <1>2 DEF panelVars, PanelTypeOK, Flags, flowVars, choiceVars
<1>3. ASSUME UNCHANGED coreVars
      PROVE  CoreTypeOK'
  BY <1>3 DEF coreVars, CoreTypeOK
<1>4. CASE HandleStatus
  BY <1>1, <1>3, <1>4, OverviewTyped DEF HandleStatus, envVars
<1>5. wire \in Request /\ (IsPost(wire) => wire.op \in Op)
  BY DEF PanelTypeOK, IsPost, Request
<1>6. CASE HandlePost
  <2>1. CASE Admits(wire)
    <3> DEFINE a == [kind |-> "accepted", id |-> exec'.id, pkg |-> exec'.req.pkg]
    <3>1. CoreTypeOK' /\ exec'.req.pkg \in Package \cup {NoPkg}
      BY <1>5, <1>6, <2>1, AcceptTypes DEF HandlePost
    <3>2. a \in Answer
      BY <3>1 DEF CoreTypeOK, Execution, Answer
    <3>3. Answered(a)
      BY <1>6, <2>1 DEF HandlePost
    <3> QED
      BY <1>1, <1>6, <3>1, <3>2, <3>3 DEF HandlePost, envVars
  <2>2. CASE ~Admits(wire)
    <3>1. [kind |-> "error", unclear |-> FALSE] \in Answer
      BY DEF Answer
    <3> QED
      BY <1>1, <1>3, <1>6, <2>2, <3>1 DEF HandlePost, envVars
  <2> QED
    BY <2>1, <2>2
<1>7. CASE LoseAnswer
  <2>1. [kind |-> "malformed"] \in Answer
    BY DEF Answer
  <2>2. [kind |-> "error", unclear |-> TRUE] \in Answer
    BY DEF Answer
  <2>3. PanelTypeOK'
    BY <1>1, <1>7, <2>1, <2>2 DEF LoseAnswer
  <2>4. late' \subseteq {r \in Request : IsPost(r)}
    BY <1>5, <1>7 DEF LoseAnswer
  <2> QED
    BY <1>3, <1>7, <2>3, <2>4 DEF LoseAnswer
<1>8. CASE HandleLate
  <2>1. PICK r \in late :
          /\ late' = late \ {r}
          /\ (Admits(r) /\ Accept(r)) \/ UNCHANGED coreVars
          /\ UNCHANGED <<panelVars, webs>>
    BY <1>8 DEF HandleLate
  <2>2. r \in Request /\ r.op \in Op
    BY DEF IsPost, Request
  <2>3. CoreTypeOK'
    BY <1>3, <2>1, <2>2, AcceptTypes
  <2> QED
    BY <1>2, <2>1, <2>3
<1>9. CASE WebSubmit
  <2>1. PICK o \in Op, p \in staged \cup {NoPkg}, h \in HomeChoice, y \in SysChoice :
          LET r == [op |-> o, pkg |-> p, tx |-> tx.id, home |-> h, sys |-> y,
                    from |-> 0, auto |-> FALSE]
          IN Admits(r) /\ Accept(r)
    BY <1>9 DEF WebSubmit
  <2> DEFINE r == [op |-> o, pkg |-> p, tx |-> tx.id, home |-> h, sys |-> y,
                   from |-> 0, auto |-> FALSE]
  <2>2. 0 \in Life /\ tx.id \in Id /\ p \in Package \cup {NoPkg}
    BY OtaAssumption DEF Life, CoreTypeOK, Transaction
  <2>3. r \in Request /\ r.op \in Op
    BY <2>2 DEF Request
  <2>4. CoreTypeOK'
    BY <2>1, <2>3, AcceptTypes
  <2>5. webs' \in 0 .. MaxWeb
    BY <1>9, OtaAssumption DEF WebSubmit
  <2> QED
    BY <1>2, <1>9, <2>4, <2>5 DEF WebSubmit
<1>10. CASE Operator
  <2>1. CoreTypeOK'
    BY <1>10, ConstantsTyped DEF Operator, Inspect, CoreTypeOK
  <2>2. webs' \in 0 .. MaxWeb
    BY <1>10, OtaAssumption DEF Operator
  <2> QED
    BY <1>2, <1>10, <2>1, <2>2 DEF Operator
<1>11. CASE Restart
  <2>1. Flags' \subseteq BOOLEAN
    BY <1>11 DEF Restart, Flags
  <2>2. life' \in Life \ {0}
    BY <1>11, OtaAssumption DEF Restart, PanelTypeOK, Life
  <2>3. NoPre \in [pkg : Package \cup {NoPkg}, ctx : Context \cup {NoCtx}]
        /\ NoUpdate \in [pkg : Package \cup {NoPkg}, tx : Id, ctx : Context \cup {NoCtx},
                         home : HomeChoice \cup {"unset"}, sys : SysChoice \cup {"unset"}]
    BY ConstantsTyped DEF NoPre, NoUpdate
  <2>4. PanelTypeOK'
    BY <1>11, <2>1, <2>2, <2>3, ConstantsTyped DEF Restart, PanelTypeOK
  <2>5. late' \subseteq {r \in Request : IsPost(r)}
    BY <1>5, <1>11 DEF Restart
  <2> QED
    BY <1>3, <1>11, <2>4, <2>5 DEF Restart
<1>12. ASSUME Core, UNCHANGED <<late, webs>>
       PROVE  TypeOK'
  <2>1. ASSUME NEW c \in Context \cup {NoCtx}, Effect(c)
        PROVE  tx' \in Transaction /\ activation' \in BOOLEAN
    BY <2>1, EffectTypes
  <2>2. CASE Succeed
    <3>1. PICK c \in Context \cup {NoCtx}, res \in {"ok", "bad", "unclear"} :
            /\ Effect(c)
            /\ exec' = [exec EXCEPT !.state = "succeeded", !.ctx = c, !.result = res]
      BY <2>2 DEF Succeed
    <3>2. exec' \in Execution /\ exec'.req = exec.req
      BY <3>1 DEF CoreTypeOK, Execution
    <3> QED
      BY <2>1, <2>2, <3>1, <3>2, <1>2, <1>12 DEF Succeed, Core, CoreTypeOK, envVars
  <2>3. CASE Fail \/ BecomeUnknown
    <3>1. exec' \in Execution /\ exec'.req = exec.req /\ staged' = staged
      BY <2>3 DEF Fail, BecomeUnknown, CoreTypeOK, Execution
    <3>2. tx' \in Transaction /\ activation' \in BOOLEAN
      BY <2>1, <2>3 DEF Fail, BecomeUnknown, CoreTypeOK
    <3> QED
      BY <3>1, <3>2, <1>2, <1>12 DEF Core, CoreTypeOK, envVars
  <2> QED
    BY <1>12, <2>2, <2>3 DEF Core
<1> QED
  BY <1>4, <1>6, <1>7, <1>8, <1>9, <1>10, <1>11, <1>12

\* The system starts with every variable in its type.
LEMMA InitTypes == Init => TypeOK
<1> SUFFICES ASSUME Init PROVE TypeOK
  OBVIOUS
<1>1. Flags \subseteq BOOLEAN
  BY DEF Init, PanelInit, Flags
<1>2. 1 \in Life \ {0} /\ 0 \in 0 .. MaxWeb
  BY OtaAssumption DEF Life
<1>3. NoPre \in [pkg : Package \cup {NoPkg}, ctx : Context \cup {NoCtx}]
      /\ NoUpdate \in [pkg : Package \cup {NoPkg}, tx : Id, ctx : Context \cup {NoCtx},
                       home : HomeChoice \cup {"unset"}, sys : SysChoice \cup {"unset"}]
  BY ConstantsTyped DEF NoPre, NoUpdate
<1>4. PanelTypeOK
  BY <1>1, <1>2, <1>3, ConstantsTyped DEF Init, PanelInit, PanelTypeOK
<1>5. CoreTypeOK
  BY ConstantsTyped DEF Init, CoreInit, CoreTypeOK, NoExec, NoReq
<1> QED
  BY <1>2, <1>4, <1>5 DEF Init, TypeOK

\* No step of the system takes a variable out of its type.
LEMMA StepTypes == TypeOK /\ [Next]_vars => TypeOK'
<1> SUFFICES ASSUME TypeOK, [Next]_vars PROVE TypeOK'
  OBVIOUS
<1>1. CASE Ui
  <2>1. PanelTypeOK'
    BY <1>1, PollTypes, HandleTypes DEF Ui, TypeOK
  <2>2. CoreTypeOK' /\ late' = late /\ webs' = webs
    BY <1>1 DEF Ui, TypeOK, CoreTypeOK, coreVars, envVars
  <2> QED
    BY <2>1, <2>2 DEF TypeOK
<1>2. CASE UNCHANGED vars
  <2>1. PanelTypeOK'
    BY <1>2 DEF TypeOK, PanelTypeOK, vars, panelVars, Flags, flowVars, choiceVars
  <2>2. CoreTypeOK' /\ late' = late /\ webs' = webs
    BY <1>2 DEF TypeOK, CoreTypeOK, vars, coreVars, envVars
  <2> QED
    BY <2>1, <2>2 DEF TypeOK
<1>3. CASE Core \/ Wire \/ HandleLate \/ WebSubmit \/ Operator \/ Restart
  BY <1>3, EnvironmentTypes DEF Wire, Core, envVars
<1> QED
  BY <1>1, <1>2, <1>3 DEF Next

\* Every variable of the system keeps its type in every behaviour.
THEOREM TypeCorrect == Spec => []TypeOK
BY InitTypes, StepTypes, PTL DEF Spec
=============================================================================
