----------------------------- MODULE PrintTypes -----------------------------
(***************************************************************************)
(* What the Files page and the print page share: paths and the file tree   *)
(* (tree.h), reports of the printer's print, requests and messages.        *)
(*                                                                         *)
(* Data abstraction.  A path is a sequence of names, <<>> the root and the *)
(* empty file name.  A JSON value that may be null is a set of at most one *)
(* element.  Temperatures, speeds, progress and times are left out.        *)
(***************************************************************************)
EXTENDS Naturals, Sequences, SequencesExt

CONSTANTS
  Name,        \* names of files and directories
  Path,        \* gcode files there may be
  MaxTaps,     \* bound: taps on the two pages
  MaxEvents,   \* bound: commands of other clients, restarts and lost links
  MaxInbox     \* bound: messages waiting

ASSUME PrintAssumption ==
  /\ Path \subseteq Seq(Name) /\ <<>> \notin Path
  /\ MaxTaps \in Nat /\ MaxEvents \in Nat /\ MaxInbox \in Nat \ {0}

NoFile == <<>>

\* add_path: a listing makes a node of every prefix of its files
Nodes(list) == {<<>>} \cup UNION {Prefixes(p) : p \in list}
Children(list, dir) == {q \in Nodes(list) : q # <<>> /\ Front(q) = dir}
IsLeaf(list, p) == Children(list, p) = {}

\* find_path: the directory, or the root when it is gone or a file now
FindPath(list, p) == IF p \in Nodes(list) /\ ~IsLeaf(list, p) THEN p ELSE <<>>

\* print_stats and pause_resume, as far as known or changed; a print is over
\* when it is complete or cancelled, or failed
PrintState == {"standby", "printing", "paused", "over"}
Maybe(S) == {{}} \cup {{x} : x \in S}
Report == [file : Maybe(Path \cup {NoFile}), state : Maybe(PrintState),
           paused : Maybe(BOOLEAN)]
Unknown == [file |-> {}, state |-> {}, paused |-> {}]
Full(f, s, p) == [file |-> {f}, state |-> {s}, paused |-> {p}]

\* is_print_active
Active(s) == s \cap {"printing", "paused"} # {}

\* json merge_patch, as State::set_data uses it
Merge(old, new) == [x \in DOMAIN old |-> IF new[x] = {} THEN old[x] ELSE new[x]]

\* A request
Command == {"start", "pause", "resume", "cancel", "emergency"}
Ask(m, p) == [m |-> m, path |-> p]
Request == [m : Command \cup {"objects", "list", "metadata", "subscribe"},
            path : Path \cup {NoFile}]

VARIABLES
  state,     \* State: /printer_state as received since the last reset
  wire       \* requests Moonraker has not answered; equal ones count once
=============================================================================
