------------------------------- MODULE Macros --------------------------------
(***************************************************************************)
(* macros_panel.cpp and macro_item.cpp: the list of macros, of which the   *)
(* user hides some; what is hidden is kept in Moonraker's database.  The   *)
(* settings and the printer's objects are asked for at the same time, and  *)
(* the list is made when the objects arrive, from the settings there are.  *)
(* Sending a macro changes nothing here and is left out.  A macro hidden   *)
(* while a reconnect is between the two replies is shown again, though     *)
(* the database has it hidden: the new list is made from the old settings. *)
(***************************************************************************)
EXTENDS Naturals, Sequences

CONSTANTS
  Macro,
  MaxTaps,      \* bound: taps on the page
  MaxOther      \* bound: lost links, acts of other clients, refused writes

VARIABLES
  db,               \* macros the database has as hidden
  settings,         \* State: the set of them that was read, if any
  items,            \* macros in the list (all of them, or none yet)
  hidden, visible,  \* MacroItem: hidden; the items on the page
  always_visible, show_hidden,   \* of the items; the switch of the page
  wire,             \* requests to the database, carried out in order
  subscribing, inbox, link,
  agreed,           \* history: the list was made from what the database has
  taps, other
pageVars == <<items, hidden, visible, always_visible, show_hidden>>
vars == <<db, settings, pageVars, wire, subscribing, inbox, link, agreed, taps, other>>

Unread == {}
Read == [op |-> "read", of |-> "", hide |-> FALSE]
Write(m, h) == [op |-> "write", of |-> m, hide |-> h]

Init ==
  /\ db \in SUBSET Macro /\ settings = Unread
  /\ items = {} /\ hidden = {} /\ visible = {} /\ always_visible = FALSE /\ show_hidden = FALSE
  /\ wire = <<Read>> /\ subscribing = TRUE /\ inbox = <<>> /\ link = TRUE
  /\ agreed = FALSE /\ taps = 0 /\ other = 0

\* populate(): new items, which know nothing of the page's switch
Populate ==
  /\ items' = Macro /\ always_visible' = FALSE
  /\ hidden' = UNION settings
  /\ visible' = Macro \ hidden'
  /\ agreed' = (settings = {db} /\ \A i \in DOMAIN wire : wire[i].op = "read")
  /\ UNCHANGED <<settings, show_hidden>>

Handle ==
  /\ inbox # <<>> /\ inbox' = Tail(inbox)
  /\ LET m == Head(inbox) IN
     \/ m.kind = "settings" /\ settings' = {m.hidden} /\ UNCHANGED <<pageVars, agreed, wire, subscribing>>
     \/ m.kind = "objects" /\ Populate /\ UNCHANGED <<wire, subscribing>>
     \/ /\ m.kind = "connected" /\ settings' = Unread
        /\ wire' = IF link THEN Append(wire, Read) ELSE wire
        /\ subscribing' = link /\ UNCHANGED <<pageVars, agreed>>
  /\ UNCHANGED <<db, link, taps, other>>

Tap == taps < MaxTaps /\ taps' = taps + 1 /\ UNCHANGED <<db, settings, items, subscribing, inbox, link, other>>

HideShow_WritesLate(m) ==
  /\ Tap /\ m \in items
  /\ hidden' = IF m \in hidden THEN hidden \ {m} ELSE hidden \cup {m}
  /\ visible' = IF m \in hidden' /\ ~always_visible THEN visible \ {m} ELSE visible \cup {m}
  /\ wire' = IF link THEN Append(wire, Write(m, m \notin hidden')) ELSE wire
  /\ agreed' = (agreed /\ link)
  /\ UNCHANGED <<always_visible, show_hidden>>

\* handle_hide_show: shown on the page before the database has it
HideShow(m) ==
  /\ Tap /\ m \in items
  /\ hidden' = IF m \in hidden THEN hidden \ {m} ELSE hidden \cup {m}
  /\ visible' = IF m \in hidden' /\ ~always_visible THEN visible \ {m} ELSE visible \cup {m}
  /\ wire' = IF link THEN Append(wire, Write(m, m \in hidden')) ELSE wire
  /\ agreed' = (agreed /\ link)
  /\ UNCHANGED <<always_visible, show_hidden>>

\* The switch: show(), or hide_if_hidden(), on every item
ShowHidden ==
  /\ Tap
  /\ show_hidden' = ~show_hidden
  /\ always_visible' = IF items = {} THEN always_visible ELSE show_hidden'
  /\ visible' = IF show_hidden' THEN items ELSE visible \ hidden
  /\ UNCHANGED <<hidden, wire, agreed>>

\* The database answers a read; it carries a write out or, seldom, does not.
Database ==
  /\ wire # <<>> /\ wire' = Tail(wire)
  /\ LET r == Head(wire) IN
     \/ /\ r.op = "read" /\ inbox' = Append(inbox, [kind |-> "settings", hidden |-> db])
        /\ UNCHANGED <<db, agreed, other>>
     \/ /\ r.op = "write" /\ db' = (IF r.hide THEN db \cup {r.of} ELSE db \ {r.of})
        /\ UNCHANGED <<inbox, agreed, other>>
     \/ /\ r.op = "write" /\ other < MaxOther /\ other' = other + 1 /\ agreed' = FALSE
        /\ UNCHANGED <<db, inbox>>
  /\ UNCHANGED <<settings, pageVars, subscribing, link, taps>>

Objects ==
  /\ subscribing /\ subscribing' = FALSE
  /\ inbox' = Append(inbox, [kind |-> "objects", hidden |-> {}])
  /\ UNCHANGED <<db, settings, pageVars, wire, link, agreed, taps, other>>

\* Another client hides or shows a macro, or the link is lost.
Other ==
  /\ other < MaxOther /\ other' = other + 1 /\ agreed' = FALSE
  /\ \/ db' \in (SUBSET Macro) \ {db} /\ UNCHANGED <<wire, subscribing, link>>
     \/ link /\ link' = FALSE /\ wire' = <<>> /\ subscribing' = FALSE /\ UNCHANGED db
  /\ UNCHANGED <<settings, pageVars, inbox, taps>>

Relink ==
  /\ ~link /\ link' = TRUE /\ inbox' = Append(inbox, [kind |-> "connected", hidden |-> {}])
  /\ UNCHANGED <<db, settings, pageVars, wire, subscribing, agreed, taps, other>>

Next ==
  \/ Handle \/ (\E m \in Macro : HideShow(m)) \/ ShowHidden \/ Database \/ Objects
  \/ Other \/ Relink
-----------------------------------------------------------------------------
(* Once nothing is under way, a list made from what the database had hides  *)
(* what the database has as hidden, and no other macro, however often the   *)
(* user hid and showed them (macro_item.cpp:245, 254).                      *)
MacrosAgree ==
  link /\ wire = <<>> /\ inbox = <<>> /\ agreed =>
    hidden = db /\ visible = (IF always_visible THEN items ELSE items \ db)
=============================================================================
