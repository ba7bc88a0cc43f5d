----------------------------- MODULE PrintFiles -----------------------------
(***************************************************************************)
(* print_panel.cpp, tree.h and file_panel.cpp: the Files page.  Every      *)
(* handler runs under lv_lock, on the UI thread or on the event loop.      *)
(*                                                                         *)
(* A Tree* is a pair of the generation of the tree it points into and the  *)
(* node's path: the reply to a file list clears the tree and builds it     *)
(* anew.  The order of the rows is left out.                               *)
(***************************************************************************)
EXTENDS PrintTypes

VARIABLES
  gen,           \* generation of the tree, modulo 2: see NoDangling
  listing,       \* the files `root` was built from
  metadata,      \* nodes that have their metadata
  cur_dir, cur_file, row_entries,   \* Tree*; cur_file is {} for nullptr
  file_panel,    \* what the details are of, and whether they are there
  print_active
filesVars == <<gen, listing, metadata, cur_dir, cur_file, row_entries, file_panel,
               print_active>>

Node(g, p) == [gen |-> g, path |-> p]
Select == [of |-> NoFile, loaded |-> FALSE]   \* "Select a file"

FilesInit ==
  /\ gen = 0 /\ listing = {} /\ metadata = {}
  /\ cur_dir = Node(0, <<>>) /\ cur_file = {} /\ row_entries = {}
  /\ file_panel = Select
  /\ print_active = FALSE

\* show_dir, in a tree of generation g that holds the files `list`
ShowDir(g, list, dir) ==
  /\ cur_dir' = Node(g, dir)
  /\ cur_file' = {}
  /\ file_panel' = Select
  /\ row_entries' = {Node(g, q) : q \in Children(list, dir)}

\* show_file_detail
ShowFileDetail(n) ==
  /\ cur_file' = {n}
  /\ file_panel' = [of |-> n.path, loaded |-> n.path \in metadata]
  /\ wire' = IF n.path \in metadata THEN wire
             ELSE wire \cup {Ask("metadata", n.path)}
  /\ UNCHANGED <<cur_dir, row_entries>>

\* handle_file_table: a row, or ".." of a directory that is not the root
TapRow ==
  /\ \/ \E n \in row_entries :
          IF IsLeaf(listing, n.path)
          THEN ShowFileDetail(n)
          ELSE ShowDir(gen, listing, n.path) /\ UNCHANGED wire
     \/ /\ cur_dir.path # <<>>
        /\ ShowDir(gen, listing, Front(cur_dir.path))
        /\ UNCHANGED wire
  /\ UNCHANGED <<gen, listing, metadata, print_active>>

\* handle_toolbar: Newest or A-Z
TapSort ==
  /\ ShowDir(gen, listing, cur_dir.path)
  /\ UNCHANGED <<wire, gen, listing, metadata, print_active>>

TapReload ==
  /\ wire' = wire \cup {Ask("list", NoFile)}
  /\ UNCHANGED filesVars

\* handle_print, without the change to the print page
TapPrint ==
  /\ ~print_active
  /\ \E n \in cur_file : wire' = wire \cup {Ask("start", n.path)}
  /\ print_active' = TRUE
  /\ UNCHANGED <<gen, listing, metadata, cur_dir, cur_file, row_entries, file_panel>>

TakeList_KeepsDir(list) ==
  /\ gen' = 1 - gen /\ listing' = list /\ metadata' = {}
  /\ ShowDir(gen', list, cur_dir.path)
  /\ print_active' = Active(state.state)
  /\ UNCHANGED wire

\* The reply to server.files.list; without a result it empties the tree.
TakeList(list) ==
  /\ gen' = 1 - gen /\ listing' = list /\ metadata' = {}
  /\ ShowDir(gen', list, FindPath(list, cur_dir.path))
  /\ print_active' = Active(state.state)
  /\ UNCHANGED wire

TakeMetadata_Unchecked(p, ok) ==
  /\ IF ok /\ cur_file # {}
     THEN metadata' = metadata \cup {p} /\ file_panel' = [of |-> p, loaded |-> TRUE]
     ELSE UNCHANGED <<metadata, file_panel>>
  /\ UNCHANGED <<wire, gen, listing, cur_dir, cur_file, row_entries, print_active>>

\* handle_metadata: "Resolve the reply against the currently selected path"
TakeMetadata(p, ok) ==
  /\ IF ok /\ \E n \in cur_file : n.path = p
     THEN metadata' = metadata \cup {p} /\ file_panel' = [of |-> p, loaded |-> TRUE]
     ELSE UNCHANGED <<metadata, file_panel>>
  /\ UNCHANGED <<wire, gen, listing, cur_dir, cur_file, row_entries, print_active>>

\* consume
FilesConsume(u) ==
  /\ print_active' = IF u.state = {} THEN print_active ELSE Active(u.state)
  /\ UNCHANGED <<gen, listing, metadata, cur_dir, cur_file, row_entries, file_panel>>

Live(n) == n.gen = gen /\ n.path \in Nodes(listing)

FilesTypeOK ==
  /\ gen \in {0, 1} /\ listing \subseteq Path /\ metadata \subseteq Path
  /\ cur_file \in Maybe(row_entries)
  /\ file_panel \in [of : Path \cup {NoFile}, loaded : BOOLEAN]
  /\ print_active \in BOOLEAN
=============================================================================
