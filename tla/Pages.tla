-------------------------------- MODULE Pages --------------------------------
(***************************************************************************)
(* The pages of the printer, each with its own objects and its own part of *)
(* Moonraker.  They share no state, so one specification moves them one at *)
(* a time: page is the one that moves.  The variables of the Files and     *)
(* print pages keep their names, those of the others have their page's     *)
(* letter.                                                                 *)
(***************************************************************************)
EXTENDS PrintSystem

CONSTANTS
  Top, Short,                               \* see Controls
  Profile, Default, NoProfile, MaxMesh,     \* see BedMesh
  Spool, Device, Macro,
  PrintFile, NoPrint, Estimate, Layers,        \* files on the print page
  Duration, TotalLayer, Progress,           \* what the printer reports of a print
  PageTaps, PageOther, PageInbox, PageWire  \* bounds of the pages

\* Top stands for 100 percent; of the percentages, Short are those whose
\* fraction is rounded down to one less.
ASSUME NumbersAssumption == Top \in Nat /\ Short \subseteq 1 .. Top

VARIABLES page,
  cPrinter, cTold, cState, cStage, cInbox, cOther,
  cKind, cShown, cFront, cDrag, cWire, cSynced,
  bPrinter, bTold, bState, bStage, bInbox, bOther, bActive, bMesh, bMeshShown,
  bSave, bRows, bMarked, bPrompt, bName, bWire, bTaps, bWhole,
  sArchived, sActive, sSpools, sActiveId, sShow, sTable, sWire, sInbox, sLink, sTaps, sOther,
  pDevice, pDevices, pSwitch, pWire, pInbox, pLink, pKnown, pTaps, pOther,
  mDb, mSettings, mItems, mHidden, mVisible, mAlways, mShow, mWire, mSubscribing,
  mInbox, mLink, mAgreed, mTaps, mOther,
  qPrompt, qLine, qStage, qMeant, qGrouping, qInbox, qLink, qWidgets, qGroup, qShown, qWhole, qOther,
  rPrinter, rTold, rState, rStage, rInbox, rOther, rShown, rEstimated, rFile, rThumb,
  rLeft, rEta, rElapsed, rLayers, rProgress, rAsked, rAnswer, rLate

C == INSTANCE Controls WITH
  Field <- {"value"}, Printer <- [{"value"} -> 0 .. Top],
  MaxOther <- PageOther.controls, MaxInbox <- PageInbox.controls, MaxWire <- PageWire,
  printer <- cPrinter, told <- cTold, state <- cState, stage <- cStage, inbox <- cInbox,
  other <- cOther, kind <- cKind, shown <- cShown, front <- cFront, drag <- cDrag,
  wire <- cWire, synced <- cSynced

\* A profile's name is active exactly while there is a mesh.
Meshes ==
  {p \in [name : Profile \cup {NoProfile}, matrix : 0 .. MaxMesh, profiles : SUBSET Profile] :
     p.name = NoProfile <=> p.matrix = 0}

B == INSTANCE BedMesh WITH
  Field <- {"name", "matrix", "profiles"}, Printer <- Meshes,
  MaxOther <- PageOther.bedmesh, MaxInbox <- PageInbox.bedmesh, MaxTaps <- PageTaps.bedmesh,
  printer <- bPrinter, told <- bTold, state <- bState, stage <- bStage, inbox <- bInbox,
  other <- bOther, active_profile <- bActive, mesh <- bMesh, mesh_shown <- bMeshShown,
  save <- bSave, rows <- bRows, marked <- bMarked, prompt <- bPrompt, name <- bName,
  wire <- bWire, taps <- bTaps, whole <- bWhole

S == INSTANCE Spoolman WITH
  MaxTaps <- PageTaps.spoolman, MaxOther <- PageOther.spoolman,
  archived <- sArchived, active <- sActive, spools <- sSpools, active_id <- sActiveId,
  show_archived <- sShow, table <- sTable, wire <- sWire, inbox <- sInbox, link <- sLink,
  taps <- sTaps, other <- sOther

P == INSTANCE Power WITH
  MaxTaps <- PageTaps.power, MaxOther <- PageOther.power,
  device <- pDevice, devices <- pDevices, switch <- pSwitch, wire <- pWire, inbox <- pInbox,
  link <- pLink, known <- pKnown, taps <- pTaps, other <- pOther

M == INSTANCE Macros WITH
  MaxTaps <- PageTaps.macros, MaxOther <- PageOther.macros,
  db <- mDb, settings <- mSettings, items <- mItems, hidden <- mHidden, visible <- mVisible,
  always_visible <- mAlways, show_hidden <- mShow, wire <- mWire, subscribing <- mSubscribing,
  inbox <- mInbox, link <- mLink, agreed <- mAgreed, taps <- mTaps, other <- mOther

Q == INSTANCE Prompt WITH
  MaxPrompts <- PageTaps.prompt, MaxLines <- PageWire, MaxInbox <- PageInbox.prompt,
  MaxOther <- PageOther.prompt,
  prompt <- qPrompt, line <- qLine, stage <- qStage, meant <- qMeant, grouping <- qGrouping,
  inbox <- qInbox, link <- qLink, widgets <- qWidgets, button_group_cont <- qGroup,
  shown <- qShown, whole <- qWhole, other <- qOther

\* Without a file there is no print.
PrintReports ==
  {p \in [file : PrintFile \cup {NoPrint}, duration : Duration, total_layer : TotalLayer,
          progress : Progress] :
     p.file = NoPrint => {p.duration, p.total_layer, p.progress} = {0}}

R == INSTANCE PrintReadings WITH
  Field <- {"file", "duration", "total_layer", "progress"}, NoFile <- NoPrint,
  Printer <- PrintReports, MaxOther <- PageOther.readings, MaxInbox <- PageInbox.readings,
  printer <- rPrinter, told <- rTold, state <- rState, stage <- rStage, inbox <- rInbox,
  other <- rOther, shown <- rShown, estimated_time_s <- rEstimated, current_file <- rFile,
  thumbnail <- rThumb, time_left <- rLeft, mini_eta <- rEta, elapsed <- rElapsed,
  layers <- rLayers, progress <- rProgress, asked <- rAsked, answer <- rAnswer, late <- rLate

\* The pages that do not move start in one state.
PagesInit ==
  /\ page \in {"print", "controls", "bedmesh", "spoolman", "power", "macros", "prompt", "readings"}
  /\ Init /\ C!Init /\ B!Init /\ S!Init /\ P!Init /\ M!Init /\ Q!Init /\ R!Init
  /\ page # "print" => printer = Idle
  /\ page # "controls" => cKind = "fan" /\ cPrinter = [value |-> 0]
  /\ page # "bedmesh" => bPrinter = [name |-> NoProfile, matrix |-> 0, profiles |-> {}]
  /\ page # "macros" => mDb = {}
  /\ page # "readings" => rPrinter.file = NoPrint

cVars == <<cPrinter, cTold, cState, cStage, cInbox, cOther, cKind, cShown, cFront,
  cDrag, cWire, cSynced>>
bVars == <<bPrinter, bTold, bState, bStage, bInbox, bOther, bActive, bMesh,
  bMeshShown, bSave, bRows, bMarked, bPrompt, bName, bWire, bTaps, bWhole>>
sVars == <<sArchived, sActive, sSpools, sActiveId, sShow, sTable, sWire, sInbox,
  sLink, sTaps, sOther>>
pVars == <<pDevice, pDevices, pSwitch, pWire, pInbox, pLink, pKnown, pTaps, pOther>>
mVars == <<mDb, mSettings, mItems, mHidden, mVisible, mAlways, mShow, mWire,
  mSubscribing, mInbox, mLink, mAgreed, mTaps, mOther>>
qVars == <<qPrompt, qLine, qStage, qMeant, qGrouping, qInbox, qLink, qWidgets, qGroup,
  qShown, qWhole, qOther>>
rVars == <<rPrinter, rTold, rState, rStage, rInbox, rOther, rShown, rEstimated, rFile,
  rThumb, rLeft, rEta, rElapsed, rLayers, rProgress, rAsked, rAnswer, rLate>>

pagesVars == <<page, vars, cVars, bVars, sVars, pVars, mVars, qVars, rVars>>

PagesNext ==
  \/ page = "print"    /\ Next /\ UNCHANGED <<page, cVars, bVars, sVars, pVars, mVars, qVars, rVars>>
  \/ page = "controls" /\ C!Next /\ UNCHANGED <<page, vars, bVars, sVars, pVars, mVars, qVars, rVars>>
  \/ page = "bedmesh"  /\ B!Next /\ UNCHANGED <<page, vars, cVars, sVars, pVars, mVars, qVars, rVars>>
  \/ page = "spoolman" /\ S!Next /\ UNCHANGED <<page, vars, cVars, bVars, pVars, mVars, qVars, rVars>>
  \/ page = "power"    /\ P!Next /\ UNCHANGED <<page, vars, cVars, bVars, sVars, mVars, qVars, rVars>>
  \/ page = "macros"   /\ M!Next /\ UNCHANGED <<page, vars, cVars, bVars, sVars, pVars, qVars, rVars>>
  \/ page = "prompt"   /\ Q!Next /\ UNCHANGED <<page, vars, cVars, bVars, sVars, pVars, mVars, rVars>>
  \/ page = "readings" /\ R!Next /\ UNCHANGED <<page, vars, cVars, bVars, sVars, pVars, mVars, qVars>>

PagesSpec == PagesInit /\ [][PagesNext]_pagesVars
-----------------------------------------------------------------------------
\* Once all is run and reported, a page's number is the printer's.
ShownIsReported == C!ShownIsReported

\* Once all is reported, the bed mesh page shows the active mesh.
ProfileFollows == B!ProfileFollows

\* Once all is reported, the spool page marks Moonraker's active spool.
ActiveFollows == S!ActiveFollows

\* The active spool's row offers no archiving.
ActiveNotArchivable == S!ActiveNotArchivable

\* Once all is reported, the switches are where the devices are.
SwitchFollows == P!SwitchFollows

\* Once all is written, the list of macros hides what the database hides.
MacrosAgree == M!MacrosAgree

\* The dialog is the prompt Klipper shows.
DialogIsPrompt == Q!DialogIsPrompt

\* The print page's estimate, picture and times are the shown file's.
ReadingsOfFile == R!ReadingsOfFile
=============================================================================
