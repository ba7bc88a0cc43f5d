---------------------------- MODULE PrintProofs -----------------------------
(***************************************************************************)
(* The Files page and the print page, for any files, any number of taps,   *)
(* other clients, restarts and lost links.                                 *)
(***************************************************************************)
EXTENDS PrintSystem, SequenceTheorems, TLAPS

\* A listing has every directory that a node of it is in.
LEMMA NodesPrefixClosed ==
  ASSUME NEW list \in SUBSET Path, NEW q \in Nodes(list), q # <<>>
  PROVE  Front(q) \in Nodes(list)
<1>1. PICK p \in list : q \in Prefixes(p)
  BY DEF Nodes
<1>2. p \in Seq(Name) /\ Len(p) \in Nat
  BY PrintAssumption, LenProperties
<1>3. PICK l \in 0 .. Len(p) : q = SubSeq(p, 1, l)
  BY <1>1 DEF Prefixes
<1>4. l # 0
  BY <1>2, <1>3, SubSeqEmpty
<1>5. Len(q) = l
  BY <1>2, <1>3, <1>4, SubSeqProperties
<1>6. Front(q) = SubSeq(p, 1, l - 1)
  BY <1>2, <1>3, <1>4, <1>5, SubSeqOfSubSeq DEF Front
<1>7. l - 1 \in 0 .. Len(p)
  BY <1>2, <1>4
<1> QED
  BY <1>6, <1>7 DEF Nodes, Prefixes

\* A node below which there is nothing is a file of the listing.
LEMMA LeafIsFile ==
  ASSUME NEW list \in SUBSET Path, NEW q \in Nodes(list), q # <<>>, IsLeaf(list, q)
  PROVE  q \in list
<1>1. PICK p \in list : q \in Prefixes(p)
  BY DEF Nodes
<1>2. p \in Seq(Name) /\ Len(p) \in Nat
  BY PrintAssumption, LenProperties
<1>3. PICK l \in 0 .. Len(p) : q = SubSeq(p, 1, l)
  BY <1>1 DEF Prefixes
<1>4. CASE l = Len(p)
  BY <1>1, <1>2, <1>3, <1>4, SubSeqFull
<1>5. CASE l # Len(p)
  <2> DEFINE c == SubSeq(p, 1, l + 1)
  <2>1. l + 1 \in 0 .. Len(p)
    BY <1>2, <1>5
  <2>2. Len(c) = l + 1 /\ c # <<>>
    BY <1>2, <2>1, SubSeqProperties
  <2>3. Front(c) = q
    BY <1>2, <1>3, <2>1, <2>2, SubSeqOfSubSeq DEF Front
  <2>4. c \in Nodes(list)
    BY <2>1 DEF Nodes, Prefixes
  <2> QED
    BY <2>2, <2>3, <2>4 DEF IsLeaf, Children
<1> QED
  BY <1>4, <1>5
-----------------------------------------------------------------------------
(* The Files page.                                                          *)

\* What the Files page keeps, whatever the other page does.
FilesInv == FilesTypeOK /\ NoDangling /\ DetailIsSelected

\* The selected file, if there is one, is a row.
LEMMA SelectedIsRow ==
  ASSUME FilesInv
  PROVE  /\ cur_file \subseteq row_entries
         /\ \A m, n \in cur_file : m = n
         /\ \A n \in row_entries : n.gen = gen /\ n.path \in Nodes(listing) /\ n.path # NoFile
         /\ \A n \in cur_file : n.path \in Path
  BY DEF FilesInv, FilesTypeOK, NoDangling, DetailIsSelected, Maybe, Live, Node, Children, NoFile

\* show_dir() leaves a table of live rows and nothing selected.
LEMMA ShowDirKeeps ==
  ASSUME NEW g \in {0, 1}, NEW list \in SUBSET Path, NEW dir \in Nodes(list),
         ShowDir(g, list, dir), gen' = g, listing' = list,
         metadata' \subseteq Path, print_active' \in BOOLEAN
  PROVE  FilesInv'
<1>1. FilesTypeOK'
  BY DEF ShowDir, FilesTypeOK, Maybe, Select, NoFile
<1>2. NoDangling'
  BY DEF ShowDir, NoDangling, Live, Node, Children
<1>3. DetailIsSelected'
  BY DEF ShowDir, DetailIsSelected
<1> QED
  BY <1>1, <1>2, <1>3 DEF FilesInv

\* A tap on a row, on "..", on an order or on Print.
LEMMA FilesTapKeeps ==
  ASSUME FilesInv, TapRow \/ TapSort \/ TapReload \/ TapPrint
  PROVE  FilesInv'
<1>0. /\ gen \in {0, 1} /\ listing \in SUBSET Path /\ metadata \subseteq Path
      /\ print_active \in BOOLEAN /\ cur_dir.path \in Nodes(listing)
  BY DEF FilesInv, FilesTypeOK, NoDangling, Live
<1>1. CASE TapRow
  <2>1. CASE \E n \in row_entries : IsLeaf(listing, n.path) /\ ShowFileDetail(n)
    <3>1. PICK n \in row_entries : IsLeaf(listing, n.path) /\ ShowFileDetail(n)
      BY <2>1
    <3>2. n.path \in listing /\ n.path # NoFile
      BY <1>0, <3>1, SelectedIsRow, LeafIsFile DEF NoFile
    <3>3. FilesTypeOK'
      BY <1>0, <1>1, <3>1, <3>2 DEF TapRow, ShowFileDetail, FilesTypeOK, Maybe
    <3>4. NoDangling'
      BY <1>1, <3>1 DEF TapRow, ShowFileDetail, NoDangling, Live, Node, FilesInv
    <3>5. DetailIsSelected'
      BY <1>1, <3>1, <3>2 DEF TapRow, ShowFileDetail, DetailIsSelected, Select
    <3> QED
      BY <3>3, <3>4, <3>5 DEF FilesInv
  <2>2. CASE \E n \in row_entries : ~IsLeaf(listing, n.path) /\ ShowDir(gen, listing, n.path)
    BY <1>0, <1>1, <2>2, SelectedIsRow, ShowDirKeeps DEF TapRow
  <2>3. CASE cur_dir.path # <<>> /\ ShowDir(gen, listing, Front(cur_dir.path))
    BY <1>0, <1>1, <2>3, NodesPrefixClosed, ShowDirKeeps DEF TapRow
  <2> QED
    BY <1>1, <2>1, <2>2, <2>3 DEF TapRow
<1>2. CASE TapSort
  BY <1>0, <1>2, ShowDirKeeps DEF TapSort
<1>3. CASE TapReload
  BY <1>3 DEF TapReload, filesVars, FilesInv, FilesTypeOK, NoDangling, DetailIsSelected, Live, Children,
              Nodes
<1>4. CASE TapPrint
  BY <1>4 DEF TapPrint, FilesInv, FilesTypeOK, NoDangling, DetailIsSelected, Live, Node, Children, Nodes
<1> QED
  BY <1>1, <1>2, <1>3, <1>4

\* A new list: the directory is looked up in it, or the root is shown.
LEMMA TakeListKeeps ==
  ASSUME FilesInv, NEW list \in SUBSET Path, TakeList(list)
  PROVE  FilesInv'
<1>1. FindPath(list, cur_dir.path) \in Nodes(list)
  BY DEF FindPath, Nodes
<1>2. gen' \in {0, 1} /\ print_active' \in BOOLEAN
  BY DEF TakeList, Active, FilesInv, FilesTypeOK
<1> QED
  BY <1>1, <1>2, ShowDirKeeps DEF TakeList

\* A reply with metadata, for the selected file or not.
LEMMA TakeMetadataKeeps ==
  ASSUME FilesInv, NEW p, NEW ok, TakeMetadata(p, ok)
  PROVE  FilesInv'
<1>1. CASE ok /\ \E n \in cur_file : n.path = p
  <2>1. p \in Path /\ p # NoFile
    BY <1>1, SelectedIsRow
  <2>2. FilesTypeOK'
    <3>1. metadata' \subseteq Path /\ file_panel' \in [of : Path \cup {NoFile}, loaded : BOOLEAN]
      <4>1. metadata' = metadata \cup {p} /\ file_panel' = [of |-> p, loaded |-> TRUE]
        BY <1>1 DEF TakeMetadata
      <4>2. metadata \subseteq Path
        BY DEF FilesInv, FilesTypeOK
      <4> QED
        BY <2>1, <4>1, <4>2
    <3>2. UNCHANGED <<gen, listing, cur_file, row_entries, print_active>>
      BY DEF TakeMetadata
    <3> QED
      BY <3>1, <3>2 DEF FilesTypeOK, FilesInv, Maybe
  <2>3. NoDangling'
    BY <1>1 DEF TakeMetadata, NoDangling, FilesInv, Live, Children, Nodes
  <2>4. DetailIsSelected'
    BY <1>1, <2>1, SelectedIsRow DEF TakeMetadata, DetailIsSelected, FilesInv, Select
  <2> QED
    BY <2>2, <2>3, <2>4 DEF FilesInv
<1>2. CASE ~(ok /\ \E n \in cur_file : n.path = p)
  BY <1>2 DEF TakeMetadata, FilesInv, FilesTypeOK, NoDangling, DetailIsSelected, Live, Children, Nodes
<1> QED
  BY <1>1, <1>2

\* An update of the print's state, and everything that is not for this page.
LEMMA FilesElseKeeps ==
  ASSUME FilesInv, (\E u : FilesConsume(u)) \/ UNCHANGED filesVars
  PROVE  FilesInv'
  BY DEF FilesConsume, Active, filesVars, FilesInv, FilesTypeOK, NoDangling, DetailIsSelected,
         Live, Children, Nodes
-----------------------------------------------------------------------------
(* The printer and the messages.                                            *)

\* A print has a file once it is under way.
PrinterStates ==
  {p \in [file : Path \cup {NoFile}, state : PrintState, paused : BOOLEAN] :
     p.state \in {"printing", "paused"} => p.file # NoFile}

\* What a message may hold; an answer reports the whole of a print, or nothing.
Message == [of : {"ready"}]
      \cup [of : {"update"}, report : Report]
      \cup [of : {"subscribe"}, report : {Unknown} \cup {AsReport(p) : p \in PrinterStates}]
      \cup [of : {"list"}, files : SUBSET Path]
      \cup [of : {"objects", "metadata"} \cup Command, path : Path \cup {NoFile}, ok : BOOLEAN]

FarInv ==
  /\ printer \in PrinterStates /\ sent \in PrinterStates
  /\ inbox \in Seq(Message) /\ Len(inbox) <= MaxInbox
  /\ wire \subseteq Request /\ subscribed \in BOOLEAN

\* What changed between two prints is a report.
LEMMA ReportsTyped ==
  ASSUME NEW p \in PrinterStates, NEW q \in PrinterStates
  PROVE  Changed(p, q) \in Report /\ AsReport(q) \in Report /\ Unknown \in Report
<1>1. /\ DOMAIN p = {"file", "state", "paused"}
      /\ q.file \in Path \cup {NoFile} /\ q.state \in PrintState /\ q.paused \in BOOLEAN
  BY DEF PrinterStates
<1>2. /\ {q.file} \in Maybe(Path \cup {NoFile}) /\ {} \in Maybe(Path \cup {NoFile})
      /\ {q.state} \in Maybe(PrintState) /\ {} \in Maybe(PrintState)
      /\ {q.paused} \in Maybe(BOOLEAN) /\ {} \in Maybe(BOOLEAN)
  BY <1>1 DEF Maybe
<1>3. Changed(p, q) = [file |-> Changed(p, q).file, state |-> Changed(p, q).state,
                       paused |-> Changed(p, q).paused]
  BY <1>1 DEF Changed
<1>4. /\ Changed(p, q).file \in {{}, {q.file}} /\ Changed(p, q).state \in {{}, {q.state}}
      /\ Changed(p, q).paused \in {{}, {q.paused}}
  BY <1>1 DEF Changed
<1>5. Changed(p, q) \in Report
  BY <1>2, <1>3, <1>4 DEF Report
<1> QED
  BY <1>2, <1>5 DEF Report, AsReport, Full, Unknown

\* The fields of a merged report are those of the new one where it has them.
LEMMA MergeFields ==
  ASSUME NEW s \in Report, NEW u \in Report
  PROVE  /\ Merge(s, u) \in Report
         /\ Merge(s, u).file = IF u.file = {} THEN s.file ELSE u.file
         /\ Merge(s, u).state = IF u.state = {} THEN s.state ELSE u.state
<1>1. DOMAIN s = {"file", "state", "paused"}
  BY DEF Report
<1>2. Merge(s, u) = [file |-> IF u.file = {} THEN s.file ELSE u.file,
                     state |-> IF u.state = {} THEN s.state ELSE u.state,
                     paused |-> IF u.paused = {} THEN s.paused ELSE u.paused]
  BY <1>1 DEF Merge
<1> QED
  BY <1>2 DEF Report

\* What a command or the printing itself makes of a print is a print.
LEMMA PrinterKeeps ==
  ASSUME printer \in PrinterStates,
         \/ \E c \in Command, f \in Path \cup {NoFile} : Effect(c, f)
         \/ Prints
         \/ printer' = Idle
         \/ UNCHANGED printer
  PROVE  printer' \in PrinterStates
<1>1. /\ printer = [file |-> printer.file, state |-> printer.state, paused |-> printer.paused]
      /\ printer.file \in Path \cup {NoFile} /\ printer.state \in PrintState
      /\ printer.paused \in BOOLEAN
      /\ printer.state \in {"printing", "paused"} => printer.file # NoFile
  BY DEF PrinterStates
<1>2. CASE \E c \in Command, f \in Path \cup {NoFile} : Effect(c, f)
  BY <1>1, <1>2 DEF Effect, PrinterStates, Idle, Busy, PrintState
<1>3. CASE Prints
  BY <1>1, <1>3 DEF Prints, PrinterStates, PrintState
<1>4. CASE printer' = Idle
  BY <1>4 DEF Idle, PrinterStates, PrintState
<1> QED
  BY <1>2, <1>3, <1>4
-----------------------------------------------------------------------------
(* The print page.                                                          *)

\* PageFollowsState with what keeps it so: the small status is there while a
\* print is known to be under way, also before the page was filled.
PageInv ==
  /\ state \in Report /\ filled \in BOOLEAN /\ StatusTypeOK
  /\ PageFollowsState
  /\ Active(state.state) => mini

\* The file a report names.
LEMMA FileOf ==
  ASSUME NEW s \in Report
  PROVE  /\ File(s) \in Path \cup {NoFile}
         /\ s.file = {} => File(s) = NoFile
         /\ \A x : s.file = {x} => File(s) = x
         /\ s.file = {} \/ \E x \in Path \cup {NoFile} : s.file = {x}
<1>1. s.file \in Maybe(Path \cup {NoFile})
  BY DEF Report
<1>2. s.file = {} \/ \E x \in Path \cup {NoFile} : s.file = {x}
  BY <1>1 DEF Maybe
<1>3. ASSUME NEW x, s.file = {x} PROVE File(s) = x
  BY <1>3 DEF File
<1>4. s.file = {} => File(s) = NoFile
  BY DEF File
<1> QED
  BY <1>2, <1>3, <1>4

\* Two reports with the same file name the same one.
LEMMA FileSame ==
  ASSUME NEW s \in Report, NEW t \in Report, s.file = t.file
  PROVE  File(s) = File(t)
  BY FileOf

\* init(): the page is filled from the answer to the subscription.
LEMMA InitPageKeeps ==
  ASSUME PageInv, NEW r \in {Unknown} \cup {AsReport(p) : p \in PrinterStates},
         state' = Merge(state, r), filled' = TRUE, InitPage(state')
  PROVE  PageInv'
<1>1. r \in Report
  BY ReportsTyped DEF Report, Unknown, Maybe
<1>2. state \in Report /\ (Active(state.state) => mini) /\ mini \in BOOLEAN
  BY DEF PageInv, StatusTypeOK
<1>3. /\ state' \in Report
      /\ state'.file = IF r.file = {} THEN state.file ELSE r.file
      /\ state'.state = IF r.state = {} THEN state.state ELSE r.state
  BY <1>1, <1>2, MergeFields
<1>4. File(state') \in Path \cup {NoFile}
  BY <1>3, FileOf
<1>5. StatusTypeOK'
  BY <1>4 DEF InitPage, StatusTypeOK, PageInv, ButtonFor, Active
<1>6. ASSUME Active(state'.state) PROVE mini'
  <2>1. mini' = (mini \/ File(state') # NoFile)
    BY <1>6 DEF InitPage, Active
  <2>2. CASE r = Unknown
    BY <1>2, <1>3, <1>6, <2>1, <2>2 DEF Unknown
  <2>3. CASE r # Unknown
    <3>1. PICK p \in PrinterStates : r = AsReport(p)
      BY <2>3
    <3>2. state'.state = {p.state} /\ state'.file = {p.file}
      BY <1>3, <3>1 DEF AsReport, Full
    <3>3. p.file # NoFile
      BY <1>6, <3>2 DEF Active, PrinterStates
    <3> QED
      BY <1>3, <2>1, <3>2, <3>3, FileOf
  <2> QED
    BY <2>2, <2>3
<1> QED
  BY <1>3, <1>5, <1>6 DEF PageInv, PageFollowsState, InitPage

\* consume(): an update, which State holds already.
LEMMA ConsumeKeeps ==
  ASSUME PageInv, NEW u \in Report, state' = Merge(state, u), filled' = filled,
         StatusConsume(u, Merge(state, u))
  PROVE  PageInv'
<1>1. state \in Report /\ mini \in BOOLEAN
  BY DEF PageInv, StatusTypeOK
<1>2. /\ state' \in Report
      /\ state'.file = IF u.file = {} THEN state.file ELSE u.file
      /\ state'.state = IF u.state = {} THEN state.state ELSE u.state
  BY <1>1, MergeFields
<1>3. u.file # {} => shown' = File(state')
  <2>1. SUFFICES ASSUME u.file # {} PROVE shown' = File(state')
    OBVIOUS
  <2>2. shown' = IF File(state') = NoFile THEN File(u) ELSE File(state')
    BY <2>1 DEF StatusConsume, NewFile
  <2> QED
    BY <1>2, <2>1, <2>2, FileSame
<1>4. u.file = {} => shown' = shown /\ File(state') = File(state)
  BY <1>1, <1>2, FileSame DEF StatusConsume, SameFile
<1>5. /\ mini' \in BOOLEAN
      /\ u.state # {} => mini' = Active(u.state)
      /\ u.state = {} /\ mini => mini'
  BY <1>1 DEF StatusConsume, Active
<1>6. /\ button' \in {"pause", "resume"} /\ enabled' \in BOOLEAN
      /\ front' \in BOOLEAN /\ dialog' \in BOOLEAN
      /\ pending_confirmation' \in {"none", "cancel", "emergency"}
  <2>1. /\ button \in {"pause", "resume"} /\ front \in BOOLEAN /\ dialog \in BOOLEAN
        /\ enabled \in BOOLEAN /\ pending_confirmation \in {"none", "cancel", "emergency"}
    BY DEF PageInv, StatusTypeOK
  <2> QED
    BY <2>1 DEF StatusConsume, NewFile, SameFile, ButtonFor
<1>7. shown' \in Path \cup {NoFile}
  BY <1>2, <1>3, <1>4, FileOf DEF PageInv, StatusTypeOK
<1>8. StatusTypeOK'
  BY <1>5, <1>6, <1>7 DEF StatusTypeOK
<1>9. Active(state'.state) => mini'
  BY <1>2, <1>5 DEF PageInv
<1> QED
  BY <1>2, <1>3, <1>4, <1>8, <1>9 DEF PageInv, PageFollowsState

\* Taps show what is there, and TakeReady empties State before the page is
\* filled again.
LEMMA PageElseKeeps ==
  ASSUME PageInv,
         \/ UNCHANGED <<state, filled>> /\ (Raise \/ TapStatusPage \/ UNCHANGED statusVars)
         \/ state' = Unknown /\ filled' = FALSE /\ UNCHANGED statusVars
  PROVE  PageInv'
<1>1. CASE UNCHANGED <<state, filled>> /\ Raise
  BY <1>1 DEF Raise, PageInv, StatusTypeOK, PageFollowsState
<1>2. CASE UNCHANGED <<state, filled>> /\ TapStatusPage
  <2>1. CASE TapBack
    BY <1>2, <2>1 DEF TapBack, PageInv, StatusTypeOK, PageFollowsState
  <2>2. CASE TapPauseResume
    BY <1>2, <2>2 DEF TapPauseResume, PageInv, StatusTypeOK, PageFollowsState
  <2>3. CASE TapConfirm
    BY <1>2, <2>3 DEF TapConfirm, PageInv, StatusTypeOK, PageFollowsState
  <2>4. CASE \E c \in {"cancel", "emergency"} : TapCommand(c)
    <3>1. /\ UNCHANGED <<shown, mini, button, enabled, front>>
          /\ pending_confirmation' \in {"none", "cancel", "emergency"}
          /\ dialog' = TRUE \/ dialog' = dialog
      BY <2>4 DEF TapCommand
    <3> QED
      BY <1>2, <3>1 DEF PageInv, StatusTypeOK, PageFollowsState
  <2> QED
    BY <1>2, <2>1, <2>2, <2>3, <2>4 DEF TapStatusPage
<1>3. CASE UNCHANGED <<state, filled>> /\ UNCHANGED statusVars
  BY <1>3 DEF statusVars, PageInv, StatusTypeOK, PageFollowsState
<1>4. CASE state' = Unknown /\ filled' = FALSE /\ UNCHANGED statusVars
  <2>1. state' \in Report /\ ~Active(state'.state)
    BY <1>4 DEF Unknown, Report, Maybe, Active
  <2> QED
    BY <1>4, <2>1 DEF statusVars, PageInv, StatusTypeOK, PageFollowsState
<1> QED
  BY <1>1, <1>2, <1>3, <1>4

\* A confirmation is raised with its command, and gone when the page is.
LEMMA ConfirmationKeeps ==
  ASSUME NoStaleConfirmation,
         \/ Raise \/ TapStatusPage \/ UNCHANGED statusVars
         \/ \E r : InitPage(r)
         \/ \E u, t : StatusConsume(u, t)
  PROVE  NoStaleConfirmation'
<1>1. CASE Raise \/ UNCHANGED statusVars \/ \E r : InitPage(r)
  BY <1>1 DEF Raise, statusVars, InitPage, NoStaleConfirmation
<1>2. CASE TapStatusPage
  BY <1>2 DEF TapStatusPage, TapBack, TapPauseResume, TapConfirm, TapCommand, NoStaleConfirmation
<1>3. CASE \E u, t : StatusConsume(u, t)
  BY <1>3 DEF StatusConsume, NewFile, SameFile, NoStaleConfirmation
<1> QED
  BY <1>1, <1>2, <1>3
-----------------------------------------------------------------------------
(* The whole.                                                               *)

PrintInv == FarInv /\ FilesInv /\ PageInv /\ NoStaleConfirmation

\* The initial states have it: nothing is selected and nothing has been told.
LEMMA InitInv == Init => PrintInv
<1> SUFFICES ASSUME Init PROVE PrintInv
  OBVIOUS
<1>1. FarInv
  <2>1. printer \in PrinterStates /\ sent \in PrinterStates
    <3>1. Idle \in PrinterStates
      BY DEF PrinterStates, Idle, PrintState
    <3>2. [file : Path, state : {"printing"}, paused : {FALSE}] \subseteq PrinterStates
      BY PrintAssumption DEF PrinterStates, PrintState, NoFile
    <3> QED
      BY <3>1, <3>2 DEF Init
  <2>2. [of |-> "ready"] \in Message
    BY DEF Message
  <2>3. inbox = <<[of |-> "ready"]>> /\ wire = {} /\ subscribed = FALSE
    BY DEF Init
  <2>4. inbox \in Seq(Message) /\ Len(inbox) <= MaxInbox
    BY <2>2, <2>3, PrintAssumption
  <2> QED
    BY <2>1, <2>3, <2>4 DEF FarInv
<1>2. FilesInv
  <2>1. /\ gen = 0 /\ listing = {} /\ metadata = {} /\ cur_dir = Node(0, <<>>) /\ cur_file = {}
        /\ row_entries = {} /\ file_panel = Select /\ print_active = FALSE
    BY DEF Init, FilesInit
  <2>2. Nodes({}) = {<<>>}
    BY DEF Nodes
  <2>3. cur_dir.gen = 0 /\ cur_dir.path = <<>>
    BY <2>1 DEF Node
  <2>4. NoDangling
    BY <2>1, <2>2, <2>3 DEF NoDangling, Live, Children
  <2>5. FilesTypeOK
    BY <2>1 DEF FilesTypeOK, Maybe, Select, NoFile
  <2>6. DetailIsSelected
    BY <2>1 DEF DetailIsSelected
  <2> QED
    BY <2>4, <2>5, <2>6 DEF FilesInv
<1>3. PageInv
  BY DEF Init, StatusInit, PageInv, StatusTypeOK, PageFollowsState, Unknown, Report, Maybe, Active
<1>4. NoStaleConfirmation
  BY DEF Init, StatusInit, NoStaleConfirmation
<1> QED
  BY <1>1, <1>2, <1>3, <1>4 DEF PrintInv

\* What is handled next is a message.
LEMMA HeadTyped ==
  ASSUME FarInv, inbox # <<>>
  PROVE  /\ Head(inbox) \in Message /\ Tail(inbox) \in Seq(Message)
         /\ Len(Tail(inbox)) <= MaxInbox
         /\ Head(inbox).of = "update" => Head(inbox).report \in Report
         /\ Head(inbox).of = "subscribe" =>
              Head(inbox).report \in {Unknown} \cup {AsReport(p) : p \in PrinterStates}
         /\ Head(inbox).of = "list" => Head(inbox).files \in SUBSET Path
<1>1. Head(inbox) \in Message /\ Tail(inbox) \in Seq(Message) /\ Len(Tail(inbox)) = Len(inbox) - 1
  BY HeadTailProperties DEF FarInv
<1>2. Len(Tail(inbox)) <= MaxInbox
  BY <1>1, PrintAssumption, LenProperties DEF FarInv
<1> HIDE DEF FarInv
<1>3. ASSUME NEW m \in Message
      PROVE  /\ m.of = "update" => m.report \in Report
             /\ m.of = "subscribe" => m.report \in {Unknown} \cup {AsReport(p) : p \in PrinterStates}
             /\ m.of = "list" => m.files \in SUBSET Path
  BY <1>3 DEF Message, Command
<1> QED
  BY <1>1, <1>2, <1>3

\* A message that is sent to a queue with room in it.
LEMMA AppendTyped ==
  ASSUME FarInv, Len(inbox) < MaxInbox, NEW m \in Message, inbox' = Append(inbox, m)
  PROVE  inbox' \in Seq(Message) /\ Len(inbox') <= MaxInbox
  BY AppendProperties, LenProperties, PrintAssumption DEF FarInv

\* What the tap handlers ask for.
LEMMA TapAsks ==
  ASSUME PrintInv, Tap
  PROVE  wire' \subseteq Request
<1>1. wire \subseteq Request /\ \A n \in cur_file : n.path \in Path
  BY SelectedIsRow DEF FarInv, PrintInv
<1>2. \A m \in Command \cup {"list", "metadata"}, p \in Path \cup {NoFile} : Ask(m, p) \in Request
  BY DEF Ask, Request
<1>3. CASE TapRow
  <2>1. \A n \in row_entries : IsLeaf(listing, n.path) => n.path \in Path
    BY SelectedIsRow, LeafIsFile DEF NoFile, FilesInv, FilesTypeOK, PrintInv
  <2> QED
    BY <1>1, <1>2, <1>3, <2>1 DEF TapRow, ShowFileDetail
<1>4. CASE TapSort \/ TapReload \/ TapPrint
  BY <1>1, <1>2, <1>4 DEF TapSort, TapReload, TapPrint, Command
<1>5. CASE UNCHANGED wire
  BY <1>1, <1>5
<1>6. CASE TapStatusPage
  <2>1. pending_confirmation \in {"none", "cancel", "emergency"} /\ button \in {"pause", "resume"}
    BY DEF PageInv, StatusTypeOK, PrintInv
  <2>2. dialog => Ask(pending_confirmation, NoFile) \in Request
    BY <1>2, <2>1 DEF Command, NoStaleConfirmation, PrintInv
  <2> QED
    BY <1>1, <1>2, <1>6, <2>1, <2>2
    DEF TapStatusPage, TapBack, TapPauseResume, TapConfirm, TapCommand, Command
<1> QED
  BY <1>3, <1>4, <1>5, <1>6 DEF Tap, TapFilesPage, TapMini

\* Moonraker and the links: nothing of the pages changes.
LEMMA FarStep ==
  ASSUME PrintInv, Serve \/ Other \/ Prints \/ Link \/ SendUpdate \/ Answer
  PROVE  FarInv'
<1> USE DEF PrintInv
<1>0. /\ printer \in PrinterStates /\ sent \in PrinterStates /\ inbox \in Seq(Message) /\ Len(inbox) <= MaxInbox
      /\ wire \subseteq Request /\ subscribed \in BOOLEAN
  BY DEF FarInv
<1>1. CASE Serve
  <2>1. PICK r \in wire : /\ r.m \in Command
                          /\ Effect(r.m, r.path) \/ UNCHANGED printer
                          /\ wire' = wire \ {r}
    BY <1>1 DEF Serve
  <2>2. r.path \in Path \cup {NoFile}
    BY <1>0 DEF Request
  <2>3. printer' \in PrinterStates
    BY <1>0, <2>1, <2>2, PrinterKeeps
  <2> QED
    BY <1>0, <1>1, <2>1, <2>3 DEF Serve, FarInv
<1>2. CASE Other
  <2>1. printer' \in PrinterStates
    BY <1>0, <1>2, PrinterKeeps DEF Other
  <2> QED
    BY <1>0, <1>2, <2>1 DEF Other, FarInv
<1>3. CASE Prints
  <2>1. printer' \in PrinterStates
    BY <1>0, <1>3, PrinterKeeps
  <2> QED
    BY <1>0, <1>3, <2>1 DEF Prints, FarInv
<1>4. CASE Link
  <2>1. [of |-> "ready"] \in Message
    BY DEF Message
  <2>2. printer' \in PrinterStates
    BY <1>0, <1>4, PrinterKeeps DEF Link
  <2>3. inbox' \in Seq(Message) /\ Len(inbox') <= MaxInbox
    <3>1. CASE inbox' = <<[of |-> "ready"]>>
      BY <2>1, <3>1, PrintAssumption
    <3>2. CASE Len(inbox) < MaxInbox /\ inbox' = Append(inbox, [of |-> "ready"])
      BY <2>1, <3>2, AppendTyped
    <3> QED
      BY <1>4, <3>1, <3>2 DEF Link
  <2> QED
    BY <1>0, <1>4, <2>2, <2>3 DEF Link, FarInv
<1>5. CASE SendUpdate
  <2> DEFINE m == [of |-> "update", report |-> Changed(sent, printer)]
  <2>1. m \in Message
    BY <1>0, ReportsTyped DEF Message
  <2>2. inbox' \in Seq(Message) /\ Len(inbox') <= MaxInbox
    BY <1>5, <2>1, AppendTyped DEF SendUpdate
  <2> QED
    BY <1>0, <1>5, <2>2 DEF SendUpdate, FarInv
<1>6. CASE Answer
  <2>1. PICK r \in wire : \E a \in Reply(r) :
          /\ r.m \notin Command /\ wire' = wire \ {r} /\ inbox' = Append(inbox, a)
          /\ IF r.m = "subscribe" /\ a.report # Unknown
             THEN subscribed' = TRUE /\ sent' = printer ELSE UNCHANGED <<subscribed, sent>>
    BY <1>6 DEF Answer
  <2>2. r \in Request /\ r.m \notin Command
    BY <1>0, <2>1
  <2>3. Reply(r) \subseteq Message
    <3>1. CASE r.m = "list"
      BY <3>1 DEF Reply, Message
    <3>2. CASE r.m = "subscribe"
      <4>1. AsReport(printer) \in {AsReport(p) : p \in PrinterStates}
        BY <1>0
      <4> QED
        BY <3>2, <4>1 DEF Reply, Message
    <3>3. CASE r.m \notin {"list", "subscribe"}
      <4>1. r.m \in {"objects", "metadata"} /\ r.path \in Path \cup {NoFile}
        BY <2>2, <3>3 DEF Request
      <4> QED
        BY <3>3, <4>1 DEF Reply, Message
    <3> QED
      BY <3>1, <3>2, <3>3
  <2>4. inbox' \in Seq(Message) /\ Len(inbox') <= MaxInbox
    BY <1>6, <2>1, <2>3, AppendTyped DEF Answer
  <2>5. sent' \in PrinterStates /\ subscribed' \in BOOLEAN
    BY <1>0, <2>1
  <2> QED
    BY <1>0, <1>6, <2>1, <2>4, <2>5 DEF Answer, FarInv
<1> QED
  BY <1>1, <1>2, <1>3, <1>4, <1>5, <1>6

\* A message is handled: one step of the event loop.
LEMMA HandleStep ==
  ASSUME PrintInv, Handle
  PROVE  PrintInv'
<1>0. /\ FarInv /\ FilesInv /\ PageInv /\ NoStaleConfirmation
      /\ inbox # <<>> /\ inbox' = Tail(inbox) /\ UNCHANGED <<printer, sent, subscribed>>
  BY DEF PrintInv, Handle, farVars
<1>1. wire \subseteq Request /\ \A m \in {"objects", "list", "subscribe"} : Ask(m, NoFile) \in Request
  BY <1>0 DEF FarInv, Ask, Request
<1>2. wire' \subseteq Request => FarInv'
  BY <1>0, HeadTyped DEF FarInv
<1>3. CASE TakeReady
  <2>1. wire' \subseteq Request
    BY <1>1, <1>3 DEF TakeReady
  <2>2. FilesInv'
    BY <1>0, <1>3, FilesElseKeeps DEF TakeReady
  <2>3. PageInv' /\ NoStaleConfirmation'
    BY <1>0, <1>3, PageElseKeeps, ConfirmationKeeps DEF TakeReady
  <2> QED
    BY <1>2, <2>1, <2>2, <2>3 DEF PrintInv
<1>4. CASE TakeObjects
  <2>1. wire' \subseteq Request
    BY <1>1, <1>4 DEF TakeObjects
  <2>2. FilesInv'
    BY <1>0, <1>4, FilesElseKeeps DEF TakeObjects
  <2>3. PageInv' /\ NoStaleConfirmation'
    BY <1>0, <1>4, PageElseKeeps, ConfirmationKeeps DEF TakeObjects
  <2> QED
    BY <1>2, <2>1, <2>2, <2>3 DEF PrintInv
<1>5. CASE TakeSubscription
  <2>1. wire' \subseteq Request /\ FilesInv'
    BY <1>0, <1>1, <1>5, FilesElseKeeps DEF TakeSubscription
  <2>2. /\ Head(inbox).report \in {Unknown} \cup {AsReport(p) : p \in PrinterStates}
        /\ state' = Merge(state, Head(inbox).report) /\ filled' = TRUE /\ InitPage(state')
    BY <1>0, <1>5, HeadTyped DEF TakeSubscription
  <2>3. PageInv'
    BY <1>0, <2>2, InitPageKeeps
  <2>4. NoStaleConfirmation'
    BY <1>0, <2>2, ConfirmationKeeps
  <2> QED
    BY <1>2, <2>1, <2>3, <2>4 DEF PrintInv
<1>6. CASE TakeUpdate
  <2> DEFINE u == Head(inbox).report
  <2>1. /\ u \in Report /\ state' = Merge(state, u) /\ StatusConsume(u, Merge(state, u))
        /\ FilesConsume(u) /\ UNCHANGED <<filled, wire>>
    BY <1>0, <1>6, HeadTyped DEF TakeUpdate, Seen
  <2> HIDE DEF u
  <2>2. PageInv'
    BY <1>0, <2>1, ConsumeKeeps
  <2>3. FilesInv' /\ NoStaleConfirmation'
    BY <1>0, <2>1, FilesElseKeeps, ConfirmationKeeps
  <2> QED
    BY <1>1, <1>2, <2>1, <2>2, <2>3 DEF PrintInv
<1>7. CASE TakeReply
  <2>1. PageInv' /\ NoStaleConfirmation'
    BY <1>0, <1>7, PageElseKeeps, ConfirmationKeeps DEF TakeReply
  <2>2. CASE Head(inbox).of = "list" /\ TakeList(Head(inbox).files)
    <3>1. FilesInv'
      BY <1>0, <2>2, HeadTyped, TakeListKeeps
    <3>2. wire' = wire
      BY <2>2 DEF TakeList
    <3> QED
      BY <1>1, <1>2, <2>1, <3>1, <3>2 DEF PrintInv
  <2>3. CASE TakeMetadata(Head(inbox).path, Head(inbox).ok)
    <3>1. FilesInv'
      BY <1>0, <2>3, TakeMetadataKeeps
    <3>2. wire' = wire
      BY <2>3 DEF TakeMetadata
    <3> QED
      BY <1>1, <1>2, <2>1, <3>1, <3>2 DEF PrintInv
  <2> QED
    BY <1>7, <2>2, <2>3 DEF TakeReply
<1> QED
  BY <1>3, <1>4, <1>5, <1>6, <1>7 DEF Handle

\* A tap on either page.
LEMMA TapStep ==
  ASSUME PrintInv, Tap
  PROVE  PrintInv'
<1>0. /\ FarInv /\ FilesInv /\ PageInv /\ NoStaleConfirmation
      /\ UNCHANGED <<state, filled, inbox, printer, sent, subscribed>>
  BY DEF PrintInv, Tap, farVars
<1>1. FarInv'
  BY <1>0, TapAsks DEF FarInv
<1>2. FilesInv'
  BY <1>0, FilesTapKeeps, FilesElseKeeps DEF Tap, TapFilesPage, TapMini
<1>3. Raise \/ TapStatusPage \/ UNCHANGED statusVars
  BY DEF Tap, TapFilesPage, TapMini
<1>4. PageInv' /\ NoStaleConfirmation'
  BY <1>0, <1>3, PageElseKeeps, ConfirmationKeeps
<1> QED
  BY <1>1, <1>2, <1>4 DEF PrintInv

\* Every step preserves it.
LEMMA PrintInvStep == PrintInv /\ [Next]_vars => PrintInv'
<1> SUFFICES ASSUME PrintInv, [Next]_vars PROVE PrintInv'
  OBVIOUS
<1>1. CASE Serve \/ Other \/ Prints \/ Link \/ SendUpdate \/ Answer
  <2>1. UNCHANGED <<state, filesVars, statusVars, filled>>
    BY <1>1 DEF Serve, Other, Prints, Link, SendUpdate, Answer
  <2>2. FilesInv' /\ PageInv' /\ NoStaleConfirmation'
    BY <2>1, FilesElseKeeps, PageElseKeeps, ConfirmationKeeps DEF PrintInv
  <2> QED
    BY <1>1, <2>2, FarStep DEF PrintInv
<1>2. CASE Handle
  BY <1>2, HandleStep
<1>3. CASE Tap
  BY <1>3, TapStep
<1>4. CASE UNCHANGED vars
  <2>1. UNCHANGED <<state, filesVars, statusVars, filled>>
    BY <1>4 DEF vars
  <2>2. FilesInv' /\ PageInv' /\ NoStaleConfirmation'
    BY <2>1, FilesElseKeeps, PageElseKeeps, ConfirmationKeeps DEF PrintInv
  <2> QED
    BY <1>4, <2>2 DEF vars, farVars, PrintInv, FarInv
<1> QED
  BY <1>1, <1>2, <1>3, <1>4 DEF Next

\* It holds in every state of every behaviour.
LEMMA PrintInvHolds == Spec => []PrintInv
  BY InitInv, PrintInvStep, PTL DEF Spec

(* The state of both pages is always of its type (the types of print_panel.h *)
(* and print_status_panel.h).                                               *)
THEOREM TypeCorrect == Spec => []TypeOK
<1>1. PrintInv => TypeOK
  BY DEF PrintInv, FarInv, FilesInv, PageInv, TypeOK
<1> QED
  BY <1>1, PrintInvHolds, PTL

(* No Tree* the Files page keeps points into a list that was replaced       *)
(* (print_panel.cpp:208, 352), whatever directories come and go.            *)
THEOREM NothingDangles == Spec => []NoDangling
<1>1. PrintInv => NoDangling
  BY DEF PrintInv, FilesInv
<1> QED
  BY <1>1, PrintInvHolds, PTL

(* The details on the Files page are of the file that Print would start    *)
(* (print_panel.cpp:321), however late other files' metadata arrive.       *)
THEOREM DetailsAreOfSelection == Spec => []DetailIsSelected
<1>1. PrintInv => DetailIsSelected
  BY DEF PrintInv, FilesInv
<1> QED
  BY <1>1, PrintInvHolds, PTL

(* The print page and the small status agree with State once they were      *)
(* filled (print_status_panel.cpp:756, 777).                                *)
THEOREM PageShowsState == Spec => []PageFollowsState
<1>1. PrintInv => PageFollowsState
  BY DEF PrintInv, PageInv
<1> QED
  BY <1>1, PrintInvHolds, PTL

(* No confirmation outlives its page (print_status_panel.cpp:530, 572).     *)
THEOREM NothingConfirmedLate == Spec => []NoStaleConfirmation
<1>1. PrintInv => NoStaleConfirmation
  BY DEF PrintInv
<1> QED
  BY <1>1, PrintInvHolds, PTL
=============================================================================
