---------------------------- MODULE PrintSystem -----------------------------
(***************************************************************************)
(* The Files page and the print page, the State store they read, and the   *)
(* printer behind Moonraker, which prints, reports what changed and answers*)
(* requests in any order.  Messages are handled one by one, in the order   *)
(* they were sent; taps come in between.                                   *)
(***************************************************************************)
EXTENDS PrintFiles, PrintStatus

VARIABLES
  printer,      \* what it prints: file, state, paused
  sent,         \* what Moonraker last reported
  subscribed, inbox,
  filled,       \* the pages were filled since State was reset
  taps, events
farVars == <<printer, sent, subscribed, events>>
vars == <<state, wire, filesVars, statusVars, farVars, inbox, filled, taps>>

Idle == [file |-> NoFile, state |-> "standby", paused |-> FALSE]

Init ==
  /\ state = Unknown /\ wire = {} /\ FilesInit /\ StatusInit
  /\ printer \in {Idle} \cup [file : Path, state : {"printing"}, paused : {FALSE}]
  /\ sent = Idle /\ subscribed = FALSE /\ inbox = <<[of |-> "ready"]>> /\ filled = FALSE
  /\ taps = 0 /\ events = 0

AsReport(p) == Full(p.file, p.state, p.paused)
Changed(old, new) == [x \in DOMAIN old |-> IF old[x] = new[x] THEN {} ELSE {new[x]}]
-----------------------------------------------------------------------------
(* Klipper and Moonraker: taken from how the pages use them.                *)

Busy == printer.state \in {"printing", "paused"}
Settled == printer.paused = (printer.state = "paused")

\* What a command does.  A print is loaded first and starts a moment later;
\* is_paused follows a moment after the state.
Effect(c, f) ==
  /\ Settled
  /\ \/ c = "start" /\ ~Busy /\ printer' = [Idle EXCEPT !.file = f]
     \/ c = "pause" /\ printer.state = "printing" /\ printer' = [printer EXCEPT !.state = "paused"]
     \/ c = "resume" /\ printer.state = "paused" /\ printer' = [printer EXCEPT !.state = "printing"]
     \/ /\ (c = "cancel" /\ Busy) \/ c = "emergency"
        /\ printer' = [printer EXCEPT !.state = "over", !.paused = FALSE]

\* A command of the pages: carried out, or refused when it comes too late.
Serve ==
  /\ \E r \in wire : /\ r.m \in Command
                     /\ Effect(r.m, r.path) \/ UNCHANGED printer
                     /\ wire' = wire \ {r}
  /\ UNCHANGED <<state, filesVars, statusVars, sent, subscribed, inbox, filled,
                 taps, events>>

\* Another client's command.
Other ==
  /\ events < MaxEvents /\ events' = events + 1
  /\ \E c \in Command, f \in Path : Effect(c, f)
  /\ UNCHANGED <<state, wire, filesVars, statusVars, sent, subscribed, inbox, filled,
                 taps>>

Prints ==
  /\ \/ ~Settled /\ printer' = [printer EXCEPT !.paused = printer.state = "paused"]
     \/ /\ printer.file # NoFile /\ printer.state = "standby"
        /\ printer' = [printer EXCEPT !.state = "printing"]
     \/ printer.state = "printing" /\ printer' = [printer EXCEPT !.state = "over"]
  /\ UNCHANGED <<state, wire, filesVars, statusVars, sent, subscribed, inbox, filled,
                 taps, events>>

\* The client reconnects, or Klipper restarts under the same connection.
Link ==
  /\ events < MaxEvents /\ events' = events + 1
  /\ \/ wire' = {} /\ inbox' = <<[of |-> "ready"]>> /\ UNCHANGED printer
     \/ /\ Len(inbox) < MaxInbox
        /\ inbox' = Append(inbox, [of |-> "ready"]) /\ printer' = Idle
        /\ UNCHANGED wire
  /\ subscribed' = FALSE
  /\ UNCHANGED <<state, filesVars, statusVars, sent, filled, taps>>

SendUpdate ==
  /\ subscribed /\ sent # printer /\ Len(inbox) < MaxInbox
  /\ inbox' = Append(inbox, [of |-> "update", report |-> Changed(sent, printer)])
  /\ sent' = printer
  /\ UNCHANGED <<state, wire, filesVars, statusVars, printer, subscribed, filled,
                 taps, events>>

\* An answer, or an error, to any request.
Reply(r) ==
  CASE r.m = "list" -> {[of |-> "list", files |-> l] : l \in SUBSET Path}
    [] r.m = "subscribe" -> {[of |-> "subscribe", report |-> s] : s \in {AsReport(printer), Unknown}}
    [] OTHER -> {[of |-> r.m, path |-> r.path, ok |-> ok] : ok \in BOOLEAN}
Answer ==
  /\ Len(inbox) < MaxInbox
  /\ \E r \in wire : \E a \in Reply(r) :
       /\ r.m \notin Command
       /\ wire' = wire \ {r}
       /\ inbox' = Append(inbox, a)
       /\ IF r.m = "subscribe" /\ a.report # Unknown
          THEN subscribed' = TRUE /\ sent' = printer
          ELSE UNCHANGED <<subscribed, sent>>
  /\ UNCHANGED <<state, filesVars, statusVars, printer, filled, taps, events>>
-----------------------------------------------------------------------------
(* The event loop.                                                          *)

\* connected: InitPanel resets State and asks for the printer's objects
TakeReady ==
  /\ Head(inbox).of = "ready"
  /\ state' = Unknown /\ filled' = FALSE
  /\ wire' = wire \cup {Ask("objects", NoFile)}
  /\ UNCHANGED <<filesVars, statusVars>>

\* printer.objects.list: main_panel.subscribe() first, then the subscription
TakeObjects ==
  /\ Head(inbox).of = "objects"
  /\ wire' = wire \cup {Ask("list", NoFile)}
               \cup (IF Head(inbox).ok THEN {Ask("subscribe", NoFile)} ELSE {})
  /\ UNCHANGED <<state, filled, filesVars, statusVars>>

\* printer.objects.subscribe: main_panel.init(), which does not tell PrintPanel
TakeSubscription ==
  /\ Head(inbox).of = "subscribe"
  /\ state' = Merge(state, Head(inbox).report) /\ filled' = TRUE
  /\ InitPage(state')
  /\ UNCHANGED <<wire, filesVars>>

Seen_StateLast(u) == state

\* What consumers read in State while they handle the update u: State was
\* registered before the pages were made, so it has taken u already.
Seen(u) == Merge(state, u)

TakeUpdate ==
  /\ Head(inbox).of = "update"
  /\ LET u == Head(inbox).report
     IN state' = Merge(state, u) /\ StatusConsume(u, Seen(u)) /\ FilesConsume(u)
  /\ UNCHANGED <<filled, wire>>

TakeReply ==
  /\ \/ Head(inbox).of = "list" /\ TakeList(Head(inbox).files)
     \/ Head(inbox).of = "metadata" /\ TakeMetadata(Head(inbox).path, Head(inbox).ok)
  /\ UNCHANGED <<state, filled, statusVars>>

Handle ==
  /\ inbox # <<>> /\ inbox' = Tail(inbox)
  /\ TakeReady \/ TakeObjects \/ TakeSubscription \/ TakeUpdate \/ TakeReply
  /\ UNCHANGED <<farVars, taps>>
-----------------------------------------------------------------------------
(* The UI thread.                                                           *)

TapFilesPage ==
  /\ ~front
  /\ \/ (TapRow \/ TapSort \/ TapReload) /\ UNCHANGED statusVars
     \/ TapPrint /\ Raise
     \/ print_active /\ Raise /\ UNCHANGED <<wire, filesVars>>   \* handle_status
TapMini == mini /\ ~front /\ Raise /\ UNCHANGED <<wire, filesVars>>

Tap ==
  /\ taps < MaxTaps /\ taps' = taps + 1
  /\ TapFilesPage \/ TapMini \/ (TapStatusPage /\ UNCHANGED filesVars)
  /\ UNCHANGED <<state, farVars, inbox, filled>>

Next == Serve \/ Other \/ Prints \/ Link \/ SendUpdate \/ Answer \/ Handle \/ Tap
Spec == Init /\ [][Next]_vars
-----------------------------------------------------------------------------
TypeOK ==
  /\ state \in Report /\ wire \subseteq Request
  /\ FilesTypeOK /\ StatusTypeOK
  /\ {subscribed, filled} \subseteq BOOLEAN
  /\ Len(inbox) <= MaxInbox

(* No Tree* the Files page keeps points into a list that was replaced, and  *)
(* the selected file is a row of the table (print_panel.cpp:208, 352).      *)
NoDangling ==
  /\ Live(cur_dir)
  /\ \A n \in cur_file \cup row_entries : Live(n)
  /\ row_entries = {Node(gen, q) : q \in Children(listing, cur_dir.path)}

(* The details on the Files page are of the file that Print would start,    *)
(* and loaded only from that file's metadata, whatever other metadata and   *)
(* lists arrive in between (print_panel.cpp:321).                           *)
DetailIsSelected ==
  /\ cur_file = {} <=> file_panel = Select
  /\ \A n \in cur_file : /\ file_panel.of = n.path
                         /\ file_panel.loaded => n.path \in metadata

(* Once it was filled, the print page shows the file State holds and the    *)
(* small status is there while that file prints, although both are set from *)
(* State and from updates, while answers and resets come in between         *)
(* (print_status_panel.cpp:756, 777).                                       *)
PageFollowsState ==
  filled => shown = File(state) /\ (Active(state.state) => mini)

(* The confirmation on the screen is for a command, and one that was hidden *)
(* by another file's page is not left over when that page is gone: no       *)
(* command is confirmed that was asked for before (print_status_panel.cpp:  *)
(* 530, 572, 777).                                                          *)
NoStaleConfirmation ==
  /\ dialog => pending_confirmation # "none"
  /\ pending_confirmation # "none" => front

(* When nothing is under way, the Files page knows whether a print is       *)
(* running (print_panel.cpp:418; DEVELOPMENT.md:15 "`InitPanel` discovers   *)
(* printer objects and initializes the pages").                             *)
Quiet == inbox = <<>> /\ wire = {} /\ subscribed /\ sent = printer
FilesKnowsPrint == Quiet => print_active = Active(state.state)
=============================================================================
