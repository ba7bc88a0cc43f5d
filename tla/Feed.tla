-------------------------------- MODULE Feed ---------------------------------
(***************************************************************************)
(* What a page learns about the printer's objects: InitPanel asks for the  *)
(* list of them and subscribes, Moonraker then reports the fields that     *)
(* changed, and State keeps them.  Extended by the pages that consume the  *)
(* reports; Session models the requests and the threads behind it.         *)
(*                                                                         *)
(* Data abstraction.  The printer's objects are a function from Field; a   *)
(* report is a function from the fields that are in it.                    *)
(***************************************************************************)
EXTENDS Integers, Sequences

CONSTANTS
  Field,       \* the fields the page reads
  Printer,     \* states the printer can be in, functions on Field
  MaxOther,    \* bound: changes by other clients and lost links
  MaxInbox     \* bound: messages waiting

VARIABLES
  printer,     \* the objects as they are
  told,        \* as the subscriber was last told
  state,       \* State: /printer_state, a function on the fields known
  stage,       \* where InitPanel is
  inbox,       \* messages the event loop has to handle
  other        \* history: counts for MaxOther
feedVars == <<printer, told, state, stage, inbox, other>>

Unknown == [f \in {} |-> f]

\* State with the fields of a report put over what it has
Over(report, old) ==
  [f \in DOMAIN report \cup DOMAIN old |-> IF f \in DOMAIN report THEN report[f] ELSE old[f]]

FeedInit ==
  /\ printer \in Printer /\ told = printer
  /\ state = Unknown /\ stage = "down" /\ inbox = <<>> /\ other = 0

\* Lost link or lost Klippy; what has arrived is still handled.
Drop ==
  /\ stage = "up" /\ other < MaxOther
  /\ other' = other + 1 /\ stage' = "down"
  /\ UNCHANGED <<printer, told, state, inbox>>

\* connected(): State is emptied and the objects are asked for
Connect ==
  /\ stage = "down" /\ inbox = <<>>
  /\ state' = Unknown /\ stage' = "list"
  /\ UNCHANGED <<printer, told, inbox, other>>

AnswerList ==
  /\ stage = "list" /\ stage' = "listed"
  /\ inbox' = <<[kind |-> "objects", data |-> Unknown]>>
  /\ UNCHANGED <<printer, told, state, other>>

AnswerSubscribe ==
  /\ stage = "subscribe" /\ stage' = "up" /\ told' = printer
  /\ inbox' = Append(inbox, [kind |-> "subscription", data |-> printer])
  /\ UNCHANGED <<printer, state, other>>

Changed == {f \in Field : printer[f] # told[f]}

SendUpdate ==
  /\ stage = "up" /\ Changed # {} /\ Len(inbox) < MaxInbox /\ told' = printer
  /\ inbox' = Append(inbox, [kind |-> "update", data |-> [f \in Changed |-> printer[f]]])
  /\ UNCHANGED <<printer, state, stage, other>>

\* The next message: what InitPanel and State do of it; now is State with the
\* report merged in.  Each page takes it in the same step, after State.
Receive(now) ==
  /\ inbox # <<>> /\ inbox' = Tail(inbox)
  /\ state' = now
  /\ stage' = IF Head(inbox).kind = "objects" /\ stage = "listed" THEN "subscribe" ELSE stage
  /\ UNCHANGED <<printer, told, other>>

\* Another client changes the printer.
Change ==
  /\ other < MaxOther /\ other' = other + 1
  /\ printer' \in Printer \ {printer}
  /\ UNCHANGED <<told, state, stage, inbox>>

Network == Drop \/ Connect \/ AnswerList \/ AnswerSubscribe \/ SendUpdate

\* Connected, and nothing is under way any more.
Settled == stage = "up" /\ inbox = <<>> /\ told = printer
=============================================================================
