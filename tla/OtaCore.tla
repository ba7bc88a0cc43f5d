------------------------------ MODULE OtaCore -------------------------------
(***************************************************************************)
(* The management Core's OTA side, from the simulator the repository keeps *)
(* for it (dev/simulator/mock_management.py, class SimulatedOta): which    *)
(* operation is admitted in which phase and what it leaves behind.  The    *)
(* simulator finishes an operation within the POST that starts it.  The    *)
(* panel also handles the receipts "running", "failed" and "unknown", so   *)
(* here an operation runs for a while and ends in any of them; a running   *)
(* operation makes the Core busy.                                          *)
(***************************************************************************)
EXTENDS OtaTypes

VARIABLES tx, activation, staged, exec
coreVars == <<tx, activation, staged, exec>>

CoreInit ==
  /\ tx = NoTx
  /\ activation = FALSE
  /\ staged \in SUBSET Package
  /\ exec = NoExec

Overview == [busy |-> exec.state = "running", tx |-> tx, activation |-> activation,
             exec |-> exec, staged |-> staged]

\* An upload is a verify request that names no package.
IsUpload(r) == r.op = "verify" /\ r.pkg = NoPkg

\* The checks of SimulatedOta.run and .upload.
Admits(r) ==
  /\ exec.state # "running"
  /\ exec.id < MaxExec
  /\ r.op = "reboot" =>
       tx.id # NoId /\ tx.state = "activation-prepared" /\ r.tx = tx.id
  /\ IsUpload(r) => staged # Package
  /\ r.op # "reboot" /\ ~IsUpload(r) => r.pkg \in staged
  /\ r.op \in {"verify", "preflight", "backup-plan", "backup"} =>
       tx.id = NoId /\ ~activation
  /\ r.op \in {"backup-plan", "backup"} => r.home \in HomeChoice /\ r.sys \in SysChoice
  /\ r.op \in StepOp =>
       tx.id # NoId /\ r.tx = tx.id /\ OperationForState[tx.state] = r.op

\* An admitted request starts an execution; an upload first stages its package.
Accept(r) ==
  \E p \in IF IsUpload(r) THEN Package \ staged ELSE {r.pkg} :
    /\ exec' = [id |-> exec.id + 1, req |-> [r EXCEPT !.pkg = p], ctx |-> NoCtx,
                state |-> "running", result |-> "bad"]
    /\ staged' = IF r.op = "reboot" THEN staged ELSE staged \cup {p}
    /\ UNCHANGED <<tx, activation>>

\* What a successful operation does to the transaction.
Effect(c) ==
  LET r == exec.req
  IN \/ /\ r.op = "backup"
        /\ \E v \in BOOLEAN :
             tx' = [id |-> exec.id, pkg |-> r.pkg, state |-> "awaiting-confirmation",
                    ctx |-> c, home |-> r.home, sys |-> r.sys,
                    verified |-> v \/ (r.home = "none" /\ r.sys = "none")]
        /\ UNCHANGED activation
     \/ /\ r.op \in StepOp
        /\ tx' = [tx EXCEPT !.state = StateAfter[r.op]]
        /\ activation' = (activation \/ r.op = "prepare-activation")
     \/ /\ r.op \notin StepOp \cup {"backup"}
        /\ UNCHANGED <<tx, activation>>

Succeed ==
  /\ exec.state = "running"
  /\ \E c \in Context \cup {NoCtx}, res \in {"ok", "bad", "unclear"} :
       /\ res = "unclear" => exec.req.op = "reboot"
       /\ c = NoCtx => exec.req.op # "backup"
       /\ Effect(c)
       /\ exec' = [exec EXCEPT !.state = "succeeded", !.ctx = c, !.result = res]
  /\ UNCHANGED staged

Fail ==
  /\ exec.state = "running"
  /\ exec' = [exec EXCEPT !.state = "failed"]
  /\ UNCHANGED <<tx, activation, staged>>

\* An interrupted operation: the Core cannot say whether it took effect.
BecomeUnknown ==
  /\ exec.state = "running"
  /\ \/ UNCHANGED <<tx, activation>>
     \/ \E c \in Context : Effect(c)
  /\ exec' = [exec EXCEPT !.state = "unknown"]
  /\ UNCHANGED staged

\* Someone settles the transaction on the printer itself ("Inspect ... SSH").
Inspect ==
  /\ exec.state # "running"
  /\ tx.id # NoId
  /\ tx' = NoTx
  /\ activation' = FALSE
  /\ UNCHANGED <<staged, exec>>

CoreTypeOK ==
  /\ tx \in Transaction
  /\ activation \in BOOLEAN
  /\ staged \in SUBSET Package
  /\ exec \in Execution
  /\ exec.req.op = "backup" =>
       exec.req.home \in HomeChoice /\ exec.req.sys \in SysChoice
=============================================================================
