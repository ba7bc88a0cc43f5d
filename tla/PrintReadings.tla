---------------------------- MODULE PrintReadings ----------------------------
(***************************************************************************)
(* print_status_panel.cpp: what the print page says of the print besides   *)
(* its state: times, layers, progress and the picture.  Some of it comes   *)
(* from reports, some from the file's metadata, which is asked for each    *)
(* time the page is filled; a reply is taken whatever file the page shows. *)
(*                                                                         *)
(* Data abstraction.  What a file's metadata says is known by the file.    *)
(* Temperatures, speeds and fans show the last report; the Z offset is     *)
(* filled in like the progress.                                            *)
(***************************************************************************)
EXTENDS Feed

CONSTANTS
  NoFile,
  Estimate,    \* estimated_time of a file's metadata
  Layers       \* layer_count of a file's metadata

VARIABLES
  shown,                               \* file on the page
  estimated_time_s,                    \* the file it is of, NoFile for 0
  current_file, thumbnail,             \* files, NoFile for none
  time_left, mini_eta, elapsed,        \* on the page and the small status
  layers, progress,                    \* layers: how many there are in all
  asked,                               \* metadata asked for and not answered
  answer, late                         \* history: see ReadingsOfFile
timeVars == <<time_left, mini_eta, elapsed>>
pageVars == <<shown, estimated_time_s, current_file, thumbnail, timeVars, layers, progress>>
vars == <<feedVars, pageVars, asked, answer, late>>

Dots == -1      \* "..."

Init ==
  /\ FeedInit
  /\ shown = NoFile /\ estimated_time_s = NoFile /\ current_file = NoFile /\ thumbnail = NoFile
  /\ time_left = Dots /\ mini_eta = Dots /\ elapsed = 0 /\ layers = Dots /\ progress = 0
  /\ asked = <<>> /\ answer = "none" /\ late = FALSE

Of(data, f, default) == IF f \in DOMAIN data THEN data[f] ELSE default

\* update_time_progress: with no time left the small status keeps what it says
TimeProgress(passed, estimate, eta) ==
  /\ elapsed' = passed
  /\ time_left' = IF passed > estimate THEN Dots ELSE estimate - passed
  /\ mini_eta' = IF passed > estimate THEN eta ELSE estimate - passed

EstimateOf(f) == IF f = NoFile THEN 0 ELSE Estimate[f]

Refill_ResetLast(st) ==
  /\ shown' = Of(st, "file", NoFile)
  /\ estimated_time_s' = NoFile /\ thumbnail' = NoFile
  /\ progress' = 0
  /\ asked' = IF shown' = NoFile \/ stage = "down" THEN asked ELSE Append(asked, shown')
  /\ answer' = "none" /\ late' = FALSE
  /\ UNCHANGED current_file

\* reset and populate from State; the layers' file stays until it is answered
Refill(st) ==
  /\ shown' = Of(st, "file", NoFile)
  /\ estimated_time_s' = NoFile /\ thumbnail' = NoFile
  /\ progress' = Of(st, "progress", 0)
  /\ asked' = IF shown' = NoFile \/ stage = "down" THEN asked ELSE Append(asked, shown')
  /\ answer' = "none" /\ late' = FALSE
  /\ UNCHANGED current_file

\* init, after the reply to the subscription
InitPage(st) ==
  /\ Refill(st)
  /\ time_left' = Dots /\ mini_eta' = Dots /\ elapsed' = 0 /\ layers' = Dots

SameFile(u) ==
  /\ progress' = Of(u, "progress", progress)
  /\ answer' = IF answer = "whole" THEN "reported" ELSE answer
  /\ UNCHANGED <<shown, estimated_time_s, thumbnail, current_file, asked, late>>

\* max_layer: what the slicer wrote into the print, or the file's metadata
MaxLayer(u) ==
  IF Of(u, "total_layer", 0) # 0 THEN u["total_layer"]
  ELSE IF current_file = NoFile THEN 0 ELSE Layers[current_file]

\* consume: the update u, while State holds st
Consume(u, st) ==
  /\ IF "file" \in DOMAIN u THEN Refill(st) ELSE SameFile(u)
  /\ LET new == "file" \in DOMAIN u
         eta == IF new THEN Dots ELSE mini_eta
     IN IF "duration" \in DOMAIN u
        THEN TimeProgress(u["duration"], EstimateOf(estimated_time_s'), eta)
        ELSE /\ mini_eta' = eta
             /\ time_left' = IF new THEN Dots ELSE time_left
             /\ elapsed' = IF new THEN 0 ELSE elapsed
  /\ layers' = MaxLayer(u)

\* handle_metadata: no estimate or picture in the reply leaves those there are
TakeMetadata(m) ==
  /\ current_file' = IF m.data = "error" THEN NoFile ELSE m.file
  /\ IF m.data = "whole"
     THEN /\ estimated_time_s' = m.file /\ thumbnail' = m.file
          /\ IF "duration" \in DOMAIN state
             THEN TimeProgress(state["duration"], Estimate[m.file], mini_eta)
             ELSE UNCHANGED timeVars
     ELSE UNCHANGED <<estimated_time_s, thumbnail, timeVars>>
  /\ answer' = m.data
  /\ late' = (late \/ m.file # shown)
  /\ UNCHANGED <<shown, layers, progress, asked>>

Handle ==
  /\ inbox # <<>>
  /\ LET m == Head(inbox) IN
     IF m.kind = "metadata" THEN Receive(state) /\ TakeMetadata(m)
     ELSE /\ Receive(Over(m.data, state))
          /\ CASE m.kind = "objects" -> UNCHANGED <<pageVars, asked, answer, late>>
               [] m.kind = "subscription" -> InitPage(state')
               [] m.kind = "update" -> Consume(m.data, state')
-----------------------------------------------------------------------------
\* Moonraker answers these in the order it is asked; it may not know the file
\* (yet), or no more than its size.
AnswerMetadata ==
  /\ asked # <<>> /\ stage # "list" /\ Len(inbox) < MaxInbox
  /\ \E d \in {"error", "bare", "whole"} :
       inbox' = Append(inbox, [kind |-> "metadata", file |-> Head(asked), data |-> d])
  /\ asked' = Tail(asked)
  /\ UNCHANGED <<printer, told, state, stage, other, pageVars, answer, late>>

\* A lost connection loses its requests, a lost Klippy does not.
Link ==
  /\ Network
  /\ asked' \in IF stage' = "down" THEN {asked, <<>>} ELSE {asked}
  /\ UNCHANGED <<pageVars, answer, late>>

Prints == Change /\ UNCHANGED <<pageVars, asked, answer, late>>

Next == Handle \/ AnswerMetadata \/ Link \/ Prints
-----------------------------------------------------------------------------
(* The estimate and the picture are the shown file's, unless a reply about  *)
(* the file before came after it was shown; and once nothing is under way   *)
(* and this file's metadata has come, whatever came before it, so are       *)
(* they, the times are the printer's and the small status agrees.  Layers   *)
(* are right from the next report on (print_status_panel.cpp:723, 756,      *)
(* 990).                                                                    *)
ReadingsOfFile ==
  /\ ~late => {estimated_time_s, thumbnail} \subseteq {NoFile, shown}
  /\ Settled /\ asked = <<>> /\ shown # NoFile =>
       /\ shown = printer.file /\ progress = printer.progress
       /\ answer \in {"whole", "reported"} =>
            /\ {estimated_time_s, thumbnail, current_file} = {shown}
            /\ elapsed = printer.duration
            /\ time_left # Dots => time_left = Estimate[shown] - elapsed /\ mini_eta = time_left
       /\ answer = "reported" => layers \in {Layers[shown], printer.total_layer}
=============================================================================
