-------------------------- MODULE SerialOperations --------------------------
(***************************************************************************)
(* What the OTA page promises of the operations it has the Core perform    *)
(* during one run of the screen: they happen one at a time; the page shows *)
(* itself ready for another one only when nothing it sent can still run;   *)
(* and once an outcome is unclear it sends nothing more until restarted.   *)
(***************************************************************************)
CONSTANT Operation

VARIABLES phase,   \* what the page says: "quiet", "inflight" or "unclear"
          work     \* operations it sent that the Core runs or may still run

vars == <<phase, work>>

Init == phase = "quiet" /\ work = {}

\* A tap, or the next step of a running update.
Submit ==
  /\ phase # "unclear" /\ work = {}
  /\ phase' = "inflight"
  /\ \E o \in Operation : work' = {o}

\* The Core finishes or rejects the operation, or it never arrived.
Finish ==
  /\ work # {} /\ work' = {}
  /\ UNCHANGED phase

Report ==
  /\ phase = "inflight" /\ work = {}
  /\ phase' = "quiet"
  /\ UNCHANGED work

GiveUp ==
  /\ phase # "unclear"
  /\ phase' = "unclear"
  /\ UNCHANGED work

\* A new process knows nothing of the old one's operations.
Restart == phase' = "quiet" /\ work' = {}

Next == Submit \/ Finish \/ Report \/ GiveUp \/ Restart

Spec == Init /\ [][Next]_vars
=============================================================================
