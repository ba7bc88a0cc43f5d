------------------------------ MODULE AppsCore ------------------------------
(***************************************************************************)
(* The management Core's Apps side, from the simulator the repository      *)
(* keeps for it (dev/simulator/mock_management.py, class SimulatedApps):   *)
(* what an operation is admitted on and what it leaves behind.  There most *)
(* operations end within the POST; the panel also expects "running",       *)
(* "uploading" (here: running), "failed" and "unknown", so an operation    *)
(* runs for a while and ends in any of them.                               *)
(***************************************************************************)
EXTENDS Naturals, FiniteSets

CONSTANTS App, NoApp, Pkg, NoPkg,
          Self,         \* this application, the display at first
          Contains,     \* the application in a package
          MaxExec,      \* bound: executions
          MaxSerial     \* bound: release serials offered

ASSUME AppsAssumption ==
  /\ NoApp \notin App /\ NoPkg \notin Pkg /\ Self \in App
  /\ Contains \in [Pkg -> App]
  /\ MaxExec \in Nat /\ MaxSerial \in Nat \ {0}

VARIABLES installed, display, packages, verified,
          offers,   \* repository.updates: the serial offered for an app, 0 for none
          exec
coreVars == <<installed, display, packages, verified, offers, exec>>

Op == {"download", "remove", "select", "verify", "install-sys", "install-home",
       "update", "discard", "acknowledge", "upload"}
NoReq == [op |-> "none", app |-> NoApp, pkg |-> NoPkg, serial |-> 0]
Request == [op : Op \cup {"status", "detail", "none"}, app : App \cup {NoApp},
            pkg : Pkg \cup {NoPkg}, serial : 0 .. MaxSerial]
Execution == [id : 0 .. MaxExec, op : Op \cup {"none"}, app : App \cup {NoApp},
              pkg : Pkg \cup {NoPkg},
              state : {"none", "running", "succeeded", "failed", "unknown"}]
NoExec == [id |-> 0, op |-> "none", app |-> NoApp, pkg |-> NoPkg, state |-> "none"]
Snapshot == [installed : SUBSET App, display : App \cup {NoApp}, packages : SUBSET Pkg,
             verified : SUBSET Pkg, offers : [App -> 0 .. MaxSerial], exec : Execution]

\* overview()
Overview == [installed |-> installed, display |-> display, packages |-> packages,
             verified |-> verified, offers |-> offers, exec |-> exec]

CoreInit ==
  /\ installed = App /\ display = Self
  /\ packages = {} /\ verified = {}
  /\ offers = [a \in App |-> IF a = Self THEN 0 ELSE 1]
  /\ exec = NoExec

\* The checks of run(); a download brings a package that is not there yet.
Admits(r, p) ==
  /\ exec.id < MaxExec
  /\ IF r.op = "acknowledge" THEN exec.state = "unknown"
     ELSE exec.state \notin {"running", "unknown"}
  /\ r.op \in {"download", "upload"} => p \in Pkg \ packages
  /\ r.op = "download" => /\ r.app \in installed /\ Contains[p] = r.app
                          /\ r.serial # 0 /\ offers[r.app] = r.serial
  /\ r.op \in {"verify", "install-sys", "install-home", "update", "discard"} =>
       p = r.pkg /\ p \in packages
  /\ r.op \in {"install-sys", "install-home"} => p \in verified /\ Contains[p] \notin installed
  /\ r.op = "update" => p \in verified /\ Contains[p] = r.app /\ r.app \in installed
  /\ r.op = "remove" => r.app \in installed \ {display}
  /\ r.op = "select" => r.app \in installed

Accept(r, p) ==
  CASE r.op = "acknowledge" ->
         /\ exec' = [exec EXCEPT !.state = "none"]
         /\ UNCHANGED <<installed, display, packages, verified, offers>>
    [] r.op = "discard" ->
         /\ packages' = packages \ {p} /\ verified' = verified \ {p}
         /\ UNCHANGED <<installed, display, offers, exec>>
    [] OTHER ->
         /\ exec' = [id |-> exec.id + 1, op |-> r.op, app |-> r.app, pkg |-> p,
                     state |-> "running"]
         /\ packages' = IF r.op = "upload" THEN packages \cup {p} ELSE packages
         /\ UNCHANGED <<installed, display, verified, offers>>

Effect ==
  LET p == exec.pkg
      gone == exec.op \in {"install-sys", "install-home", "update"}
      come == exec.op \in {"download", "upload", "verify"}
  IN /\ installed' = CASE exec.op \in {"install-sys", "install-home"} -> installed \cup {Contains[p]}
                       [] exec.op = "remove" -> installed \ {exec.app}
                       [] OTHER -> installed
     /\ display' = IF exec.op = "select" THEN exec.app ELSE display
     /\ packages' = CASE gone -> packages \ {p} [] come -> packages \cup {p} [] OTHER -> packages
     /\ verified' = CASE gone -> verified \ {p} [] come -> verified \cup {p} [] OTHER -> verified

\* An execution ends; one that was interrupted may have taken effect or not.
Finish ==
  /\ exec.state = "running"
  /\ \/ Effect /\ exec' = [exec EXCEPT !.state = "succeeded"]
     \/ /\ UNCHANGED <<installed, display, packages, verified>>
        /\ exec' = [exec EXCEPT !.state = "failed"]
     \/ /\ Effect \/ UNCHANGED <<installed, display, packages, verified>>
        /\ exec' = [exec EXCEPT !.state = "unknown"]
  /\ UNCHANGED offers

CoreTypeOK == Overview \in Snapshot
=============================================================================
