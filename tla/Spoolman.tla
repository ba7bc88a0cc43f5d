------------------------------ MODULE Spoolman -------------------------------
(***************************************************************************)
(* spoolman_panel.cpp: the table of spools, which one is active, and the   *)
(* taps that activate, archive and restore one; Moonraker answers the      *)
(* requests in any order and reports every change of the active spool.     *)
(*                                                                         *)
(* Data abstraction.  Of a spool only whether it is archived; of a row,    *)
(* the columns 0, 6 and 7.  Sorting by a column is any order of the spools.*)
(***************************************************************************)
EXTENDS Integers, Sequences, SequencesExt, FiniteSetsExt, TLC

CONSTANTS
  Spool,        \* ids of spools
  MaxTaps,      \* bound: taps on the page
  MaxOther      \* bound: acts of other clients, refusals, lost links

VARIABLES
  archived, active,        \* Moonraker and Spoolman; active is 0 for none
  spools,                  \* id -> archived, as last listed
  active_id,
  show_archived,
  table,                   \* the rows below the header
  wire, inbox, link,       \* requests; messages; the connection is up
  taps, other              \* history
pageVars == <<spools, active_id, show_archived, table>>
vars == <<archived, active, pageVars, wire, inbox, link, taps, other>>

Ask(op, id) == [op |-> op, id |-> id]

\* What init() asks for.
Reload == {Ask("list", 0), Ask("active", 0)}
Send(S) == wire' = IF link THEN wire \cup S ELSE wire

Init ==
  /\ archived = {} /\ active = 0
  /\ spools = [s \in {} |-> s] /\ active_id = -1 /\ show_archived = FALSE /\ table = <<>>
  /\ wire = Reload /\ inbox = <<>> /\ link = TRUE
  /\ taps = 0 /\ other = 0

ById(S) == SetToSortSeq(S, LAMBDA a, b : a < b)

\* Column 7 of the active spool's row is not written: it keeps what it shows.
Row(id, i, known, act) ==
  [id |-> id,
   six |-> IF id = act THEN "active" ELSE IF known[id] THEN "" ELSE "play",
   seven |-> IF known[id] THEN "upload" ELSE IF id # act THEN "drive"
             ELSE IF i <= Len(table) THEN table[i].seven ELSE ""]

\* populate_spools, in the given order; nothing is done while no spool is known
Populate(order, known, act, all) ==
  LET rows == SelectSeq(order, LAMBDA s : all \/ ~known[s])
  IN table' = IF DOMAIN known = {} THEN table
              ELSE [i \in 1 .. Len(rows) |-> Row(rows[i], i, known, act)]

TakeList(m) ==
  /\ IF m.ok
     THEN spools' = m.spools /\ Populate(ById(DOMAIN m.spools), m.spools, active_id, show_archived)
     ELSE UNCHANGED <<spools, table>>
  /\ UNCHANGED <<active_id, show_archived, wire>>

TakeActive_OfListed(m) ==
  /\ IF m.id \in DOMAIN spools
     THEN active_id' = m.id /\ Populate(ById(DOMAIN spools), spools, m.id, show_archived)
     ELSE UNCHANGED <<active_id, table>>
  /\ UNCHANGED <<spools, show_archived, wire>>

\* The reply to get_spool_id and handle_active_id_update; null is passed over.
TakeActive(m) ==
  /\ IF m.id # 0
     THEN active_id' = m.id /\ Populate(ById(DOMAIN spools), spools, m.id, show_archived)
     ELSE UNCHANGED <<active_id, table>>
  /\ UNCHANGED <<spools, show_archived, wire>>

Handle ==
  /\ inbox # <<>> /\ inbox' = Tail(inbox)
  /\ LET m == Head(inbox) IN
     \/ m.kind = "list" /\ TakeList(m)
     \/ m.kind = "active" /\ TakeActive(m)
     \/ m.kind \in {"connected", "patched"} /\ Send(Reload) /\ UNCHANGED pageVars
  /\ UNCHANGED <<archived, active, link, taps, other>>

\* A tap on a row, on the header, on Reload or on the switch.
Tap ==
  /\ taps < MaxTaps /\ taps' = taps + 1
  /\ \/ \E i \in DOMAIN table :
          /\ \/ table[i].six = "play" /\ Send({Ask("post", table[i].id)})
             \/ table[i].seven = "drive" /\ Send({Ask("archive", table[i].id)})
             \/ table[i].seven = "upload" /\ Send({Ask("unarchive", table[i].id)})
          /\ UNCHANGED pageVars
     \/ /\ \E order \in SetToSeqs(DOMAIN spools) : Populate(order, spools, active_id, show_archived)
        /\ UNCHANGED <<spools, active_id, show_archived, wire>>
     \/ Send(Reload) /\ UNCHANGED pageVars
     \/ /\ show_archived' = ~show_archived
        /\ Populate(ById(DOMAIN spools), spools, active_id, show_archived')
        /\ UNCHANGED <<spools, active_id, wire>>
  /\ UNCHANGED <<archived, active, inbox, link, other>>

Msg(k) == [kind |-> k, id |-> 0, ok |-> FALSE, spools |-> [s \in {} |-> s]]
Tell(m) == inbox' = Append(inbox, m)
ActiveIs(id) == [Msg("active") EXCEPT !.id = id]

\* Moonraker handles a request; the spool server may refuse one it is asked.
Serve(r) ==
  /\ r \in wire /\ wire' = wire \ {r}
  /\ \/ /\ r.op = "list" /\ UNCHANGED <<archived, active, other>>
        /\ Tell([Msg("list") EXCEPT !.ok = TRUE, !.spools = [s \in Spool |-> s \in archived]])
     \/ r.op = "active" /\ Tell(ActiveIs(active)) /\ UNCHANGED <<archived, active, other>>
     \/ r.op = "post" /\ active' = r.id /\ Tell(ActiveIs(r.id)) /\ UNCHANGED <<archived, other>>
     \/ /\ r.op \in {"archive", "unarchive"} /\ Tell(Msg("patched")) /\ UNCHANGED <<active, other>>
        /\ archived' = IF r.op = "archive" THEN archived \cup {r.id} ELSE archived \ {r.id}
     \/ /\ r.op \notin {"active", "post"} /\ other < MaxOther /\ other' = other + 1
        /\ Tell(Msg(IF r.op = "list" THEN "list" ELSE "patched"))
        /\ UNCHANGED <<archived, active>>
  /\ UNCHANGED <<pageVars, link, taps>>

\* Another client, or the link.
Other ==
  /\ other < MaxOther /\ other' = other + 1
  /\ \/ /\ active' \in (Spool \cup {0}) \ {active} /\ UNCHANGED <<archived, wire, link>>
        /\ inbox' = IF link THEN Append(inbox, ActiveIs(active')) ELSE inbox
     \/ /\ \E s \in Spool : archived' = SymDiff(archived, {s})
        /\ UNCHANGED <<active, wire, inbox, link>>
     \/ link /\ link' = FALSE /\ wire' = {} /\ UNCHANGED <<archived, active, inbox>>
  /\ UNCHANGED <<pageVars, taps>>

Relink ==
  /\ ~link /\ link' = TRUE /\ Tell(Msg("connected"))
  /\ UNCHANGED <<archived, active, pageVars, wire, taps, other>>

Next == Handle \/ Tap \/ (\E r \in wire : Serve(r)) \/ Other \/ Relink
-----------------------------------------------------------------------------
Settled == link /\ wire = {} /\ inbox = <<>>

(* Once nothing is under way, the page has the active spool Moonraker has,  *)
(* and marks its row and no other, whatever order the replies came in       *)
(* (spoolman_panel.cpp:115, 214).                                           *)
ActiveFollows ==
  Settled /\ active # 0 =>
    active_id = active /\ \A i \in DOMAIN table : table[i].six = "active" <=> table[i].id = active

(* "prevent archiving active spool" (spoolman_panel.cpp:192): its row has   *)
(* nothing in column 7 that a tap archives it by.                           *)
ActiveNotArchivable ==
  \A i \in DOMAIN table : table[i].six = "active" => table[i].seven # "drive"
=============================================================================
