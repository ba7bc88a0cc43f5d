------------------------------- MODULE BedMesh -------------------------------
(***************************************************************************)
(* bedmesh_panel.cpp: the active mesh, the saved profiles and what can be  *)
(* done with them.  Klipper reports only what changed, so the page fills   *)
(* up from State what an update leaves out, except the profile's name.     *)
(*                                                                         *)
(* Data abstraction.  A mesh is a number, 0 for none.  Of the details of a *)
(* profile, and the keyboard of the save prompt, nothing is kept.          *)
(***************************************************************************)
EXTENDS Feed

CONSTANTS Profile, Default, NoProfile, MaxMesh, MaxTaps

VARIABLES
  active_profile, mesh, mesh_shown, save,    \* the active mesh; Save is enabled
  rows, marked,                              \* the table of profiles; its active row
  prompt, name,                              \* the save prompt is open, with which name
  wire, taps,                                \* scripts to run; taps, for MaxTaps
  whole                                      \* history: shown from a report with the name
pageVars == <<active_profile, mesh, mesh_shown, save, rows, marked, prompt, name>>
vars == <<feedVars, pageVars, wire, taps, whole>>

NoMesh(p) == [p EXCEPT !.name = NoProfile, !.matrix = 0]

Init ==
  /\ FeedInit
  /\ active_profile = NoProfile /\ mesh = 0 /\ mesh_shown = FALSE /\ save = FALSE
  /\ rows = {} /\ marked = NoProfile /\ prompt = FALSE /\ name = NoProfile
  /\ wire = <<>> /\ taps = 0 /\ whole = FALSE

\* State merges objects: a profile that is gone stays in it until it is reset.
Merged(bm) ==
  IF {"profiles"} \subseteq DOMAIN bm \cap DOMAIN state
  THEN Over([bm EXCEPT !["profiles"] = @ \cup state["profiles"]], state)
  ELSE Over(bm, state)

From_Report(bm, st, f) == IF f \in DOMAIN bm THEN bm[f] ELSE IF f = "profiles" THEN {} ELSE 0

\* What the report leaves out is read from State.
From(bm, st, f) == IF f \in DOMAIN bm THEN bm[f] ELSE st[f]

\* refresh_views, of a report and what State is with it
Refresh(bm, st) ==
  IF "name" \notin DOMAIN bm
  THEN save' = FALSE /\ whole' = FALSE /\ UNCHANGED <<active_profile, mesh, mesh_shown, rows, marked>>
  ELSE /\ active_profile' = bm["name"] /\ whole' = TRUE
       /\ save' = (bm["name"] # NoProfile) /\ mesh_shown' = save'
       /\ mesh' = IF save' THEN From(bm, st, "matrix") ELSE mesh
       /\ rows' = From(bm, st, "profiles")
       /\ marked' = IF bm["name"] \in rows' THEN bm["name"] ELSE NoProfile

\* The list of the objects is no report; the subscription's reply is one.
Handle ==
  LET m == Head(inbox) IN
  /\ Receive(Merged(m.data))
  /\ IF m.kind = "objects" THEN UNCHANGED <<active_profile, mesh, mesh_shown, save, rows, marked, whole>>
     ELSE Refresh(m.data, state')
  /\ UNCHANGED <<prompt, name, wire, taps>>

\* foreground(): from State, if it knows the mesh
Foreground ==
  /\ state # Unknown /\ Refresh(state, state)
  /\ UNCHANGED <<feedVars, prompt, name, wire, taps>>

Script(s) == wire' = IF stage = "down" THEN wire ELSE Append(wire, s)

\* Clear, Calibrate, a row's load and delete, Save and its prompt.
Tap ==
  /\ taps < MaxTaps /\ taps' = taps + 1
  /\ \/ /\ ~prompt
        /\ \/ \E op \in {"clear", "calibrate"} : Script([op |-> op, of |-> NoProfile])
           \/ \E p \in rows : Script([op |-> "remove", of |-> p])
           \/ \E p \in rows \ {marked} : Script([op |-> "load", of |-> p])
        /\ UNCHANGED <<prompt, name>>
     \/ /\ save /\ ~prompt /\ prompt' = TRUE
        /\ name' = IF active_profile = NoProfile THEN name ELSE active_profile
        /\ UNCHANGED wire
     \/ /\ prompt /\ prompt' = FALSE
        /\ \/ UNCHANGED <<wire, name>>                               \* Cancel
           \/ \E p \in Profile : Script([op |-> "save", of |-> p]) /\ name' = NoProfile
  /\ UNCHANGED <<feedVars, active_profile, mesh, mesh_shown, save, rows, marked, whole>>

\* What a script does; removing and saving end with SAVE_CONFIG, which
\* restarts Klipper.
Effect(s) ==
  CASE s.op = "clear" -> {NoMesh(printer)}
    [] s.op = "calibrate" ->
         {[name |-> Default, matrix |-> n, profiles |-> printer.profiles \cup {Default}] : n \in 1 .. MaxMesh}
    [] s.op = "load" ->
         IF s.of \in printer.profiles
         THEN {[printer EXCEPT !.name = s.of, !.matrix = n] : n \in 1 .. MaxMesh} ELSE {printer}
    [] s.op = "remove" -> {NoMesh([printer EXCEPT !.profiles = @ \ {s.of}])}
    [] s.op = "save" -> {NoMesh([printer EXCEPT !.profiles = @ \cup {s.of}])}
Restarts == {"remove", "save"}

Run ==
  /\ wire # <<>> /\ stage # "down"
  /\ printer' \in Effect(Head(wire))
  /\ IF Head(wire).op \in Restarts THEN wire' = <<>> /\ stage' = "down"
     ELSE wire' = Tail(wire) /\ UNCHANGED stage
  /\ UNCHANGED <<told, state, inbox, other, pageVars, taps, whole>>

Elsewhere == Change /\ UNCHANGED <<pageVars, wire, taps, whole>>

Link ==
  /\ Network
  /\ wire' = IF stage' = "down" THEN <<>> ELSE wire
  /\ UNCHANGED <<pageVars, taps, whole>>

Next == Handle \/ Foreground \/ Tap \/ Run \/ Elsewhere \/ Link
-----------------------------------------------------------------------------
(* Once nothing is under way, a page whose last report had a profile's name *)
(* shows the active mesh, can save it, and lists every profile there is     *)
(* (bedmesh_panel.cpp:366).  It may still list one another client removed.  *)
ProfileFollows ==
  Settled /\ wire = <<>> /\ whole =>
    /\ active_profile = printer.name
    /\ save = (printer.name # NoProfile) /\ mesh_shown = save
    /\ mesh_shown => mesh = printer.matrix
    /\ printer.profiles \subseteq rows
=============================================================================
