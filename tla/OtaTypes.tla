------------------------------ MODULE OtaTypes ------------------------------
(***************************************************************************)
(* What the OTA panel (src/ota_panel.cpp) and the management Core say to   *)
(* each other: operations, transaction phases, requests, executions and    *)
(* status snapshots.                                                       *)
(*                                                                         *)
(* Data abstraction.  A package is a model value.  A "context" is what a   *)
(* package means on this printer: its version together with the slot the   *)
(* Core would write (package.version and target.slot); NoCtx is a context  *)
(* the Core left incomplete.  Identifiers are numbers, 0 being the empty   *)
(* string; a transaction takes the number of the execution that made it.   *)
(* A null JSON object is a record with id 0.                               *)
(***************************************************************************)
EXTENDS Naturals

CONSTANTS
  Package, NoPkg,          \* OTA packages; no package selected
  Context, NoCtx,          \* version + target slot; incomplete context
  HomeTarget, SysTarget,   \* backup targets the Core offers for each role
  MaxExec,                 \* bound: executions the Core ever starts
  MaxWeb,                  \* bound: operations other clients submit
  MaxLife                  \* bound: times the screen process runs

ASSUME OtaAssumption ==
  /\ NoPkg \notin Package
  /\ NoCtx \notin Context
  /\ "none" \notin HomeTarget /\ "unset" \notin HomeTarget
  /\ "none" \notin SysTarget  /\ "unset" \notin SysTarget
  /\ MaxExec \in Nat /\ MaxWeb \in Nat
  /\ MaxLife \in Nat \ {0}

NoId == 0
Id   == 0 .. MaxExec
Life == 0 .. MaxLife       \* 0: another client of the Core (the web page)

TxState == {"awaiting-confirmation", "confirmed", "written-awaiting-readback",
            "readback-verified", "activation-prepared"}
StepOp  == {"confirm", "write", "readback", "prepare-activation"}
Op      == StepOp \cup {"verify", "preflight", "backup-plan", "backup", "reboot"}

\* operation_for_state: the one operation that may follow a phase
OperationForState ==
  [s \in TxState |->
     CASE s = "awaiting-confirmation"     -> "confirm"
       [] s = "confirmed"                 -> "write"
       [] s = "written-awaiting-readback" -> "readback"
       [] s = "readback-verified"         -> "prepare-activation"
       [] s = "activation-prepared"       -> "reboot"]

\* the `states` table of advance_update: the phase a completed operation leaves
StateAfter ==
  [o \in StepOp \cup {"backup"} |->
     CASE o = "backup"             -> "awaiting-confirmation"
       [] o = "confirm"            -> "confirmed"
       [] o = "write"              -> "written-awaiting-readback"
       [] o = "readback"           -> "readback-verified"
       [] o = "prepare-activation" -> "activation-prepared"]

HomeChoice == HomeTarget \cup {"none"}
SysChoice  == SysTarget \cup {"none"}

\* A request body.  `from` (which client, which run of the screen) and `auto`
\* (sent by the running workflow, not by a tap) are history: no code reads them.
Request == [op : Op \cup {"status", "none"}, pkg : Package \cup {NoPkg}, tx : Id,
            home : HomeChoice \cup {"unset"}, sys : SysChoice \cup {"unset"},
            from : Life, auto : BOOLEAN]

NoReq == [op |-> "none", pkg |-> NoPkg, tx |-> NoId, home |-> "unset", sys |-> "unset",
          from |-> 0, auto |-> FALSE]

\* A transaction; `verified`: every backup it selected was verified.
Transaction == [id : Id, pkg : Package \cup {NoPkg}, state : TxState,
                ctx : Context \cup {NoCtx},
                home : HomeChoice, sys : SysChoice, verified : BOOLEAN]

NoTx == [id |-> NoId, pkg |-> NoPkg, state |-> "awaiting-confirmation", ctx |-> NoCtx,
         home |-> "none", sys |-> "none", verified |-> FALSE]

\* The Core's execution receipt.  result: "ok", "bad" (does not name the
\* operation or is not ok) or, for a reboot, "unclear" (not reboot-requested).
Execution == [id : Id, req : Request, ctx : Context \cup {NoCtx},
              state : {"none", "running", "succeeded", "failed", "unknown"},
              result : {"ok", "bad", "unclear"}]

NoExec == [id |-> NoId, req |-> NoReq, ctx |-> NoCtx, state |-> "none", result |-> "bad"]

Snapshot == [busy : BOOLEAN, tx : Transaction, activation : BOOLEAN,
             exec : Execution, staged : SUBSET Package]

NullSnapshot == [busy |-> FALSE, tx |-> NoTx, activation |-> FALSE,
                 exec |-> NoExec, staged |-> {}]
=============================================================================
