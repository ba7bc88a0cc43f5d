# Fre3nderScreen in TLA+

Fre3nderScreen is the touch screen of a 3D printer: an LVGL user interface in
C++ that talks to Moonraker over a WebSocket (printing) and to a management
daemon, the Core, over a local HTTP socket (updates, applications, system
information). It owns a virtual terminal next to the text consoles.

This directory holds TLA+ models of the parts of it that are hard to test, the
TLC configurations that check them on small instances, and TLAPS proofs of the
properties that matter most. Every definition is a translation of the C++ (or of
the simulators in `dev/simulator`, for the servers at the other end);
`PROJECT.json` names the lines each one stands for.

    tlc -workers 2 -config OtaWorkflow.cfg MCOtaSystem   # one of the runs below
    tlapm OtaProofs.tla                                  # one of the proof modules

Contents: [1 inventory](#1-inventory) · [2 modules](#2-modules) ·
[3 runs](#3-runs) · [4 proofs](#4-proofs) ·
[5 disagreements found](#5-disagreements-found) ·
[6 what is not modelled](#6-what-is-not-modelled) · [7 plan](#7-plan)

## 1. Inventory

### Threads and locks

| thread | runs | shares |
|---|---|---|
| UI thread (`Fre3nderScreen::loop`) | LVGL timers and event callbacks, the display handover, `poll()` of the Management pages | every panel, under `lv_lock` |
| WebSocket event loop (libhv) | `onopen`, `onclose`, `onmessage`: reply callbacks and notification consumers | the panels, under `lv_lock`, taken by each handler; the client's number and callback table, without a lock; the `State` tree, under its own lock |
| one worker thread per Management page and request | one blocking HTTP request (up to 20 s) | `result` under a mutex, the atomic `ready` |
| signal handler | nothing but three flags | the flags `release_pending`, `acquire_pending`, `stop_pending` |

### Components

For each: its state, its operations, what it talks to, what is hard about it,
and what makes it correct.

**OTA page** (`ota_panel.cpp`).
State: the last status snapshot of the Core, the chosen USB file, package and
backup targets, a preflight result, `armed` (first of two taps),
`pending_execution` (receipt due), `uncertain`, `reboot_sent`, `update_active`
with the transaction the update is bound to.
Operations: taps (refresh, choose, upload, verify, arm, confirm, Back), `poll()`,
which reads an answer and through `advance_update()` sends the next operation.
Interacts with the Core only, through its worker.
Hard: a POST is answered with a receipt, the outcome is read by later status
reads, both can be lost, and another client uses the same Core.
Correct: one operation at a time; a step only when the last one's receipt says so;
what is sent is what the user confirmed; nothing after an unclear outcome;
nothing behind a closed page; every update ends.

**Management Core** (outside the program; `dev/simulator/mock_management.py`).
State: for updates, the staged packages, the transaction and its phase; for
applications, what is installed, staged, verified and offered; one execution each.
Operations: admission of a request, the end of an execution. Its guards decide
what the pages may rely on.

**Management client** (`management_client.cpp`).
No state. Turns a request into an HTTP exchange and every failure into a status
code; 0 stands for no usable answer. Hard: 0 is returned both before anything
was sent and after.

**Worker threads** (`ota_panel.cpp`, `apps_panel.cpp`, `system_panel.cpp`).
State: `worker`, `result`, `ready`, `busy`.
Operations: `start()`/`refresh()`, the lambda, `poll()`.
Hard: the UI thread and the worker interleave at every access; `join()` blocks.
Correct: the UI never waits for the network, each request is answered once, by
its own answer.

**Display ownership and sleep** (`virtual_terminal.cpp`, `fre3nderscreen.cpp`, `main.cpp`).
State: whether the UI may write the framebuffer, the three signal flags, asleep,
panel blanked, screen saver in front, touch device enabled.
Operations: init, activate, `poll()` and the two acknowledgments, sleep and wake,
stop, self restart. Interacts with the kernel's console switch.
Hard: signals come at any time, from a user who switches to and fro; failures
throw. Correct: no drawing on a text console, no dark text console, no lost
switch, no text-console touches delivered to buttons.

**WebSocket client** (`websocket_client.cpp`).
State: the request number, the callback table, the consumers of notifications.
Operations: `send_jsonrpc` (both threads), `gcode_script`, `onmessage`.
Hard: no lock around the number and the table; replies in any order, as errors
or never. Correct: a reply reaches the callback of its own request.

**Session start and reconnect** (`init_panel.cpp`).
State: the overlay "Waiting for printer".
Operations: `connected()` discovers the printer in a chain of dependent requests,
`disconnected()` shows the overlay. Hard: replies and updates of a previous
connection or life of the printer arrive in between. Correct: a printer that is up
and stays up is shown, with its own data.

**Printer state store** (`state.cpp`, `tree.h`).
State: the merged printer objects. Operations: `reset`, `set_data`, `consume`
(merge patch of a status update), `get_data`, the selection of sensors, fans and
LEDs for the display. Hard: `get_data` returns a reference into the tree.

**Applications page** (`apps_panel.cpp`).
State: the last status snapshot, the selected app, staged package and USB file,
`armed_action` (a string, first of two taps), `polling_execution`, and the buttons
as `render_controls()` drew them last.
Operations: taps and `poll()`, as on the OTA page. Interacts with the Core through
its worker. Hard: buttons are drawn more rarely than their conditions change; the
armed string names less than what is sent; details arrive after another selection.
Correct: what goes out is what the screen offered and the first tap announced; the
details are the selected app's; an open page learns how an operation ended.

**Print selection** (`print_panel.cpp`, `file_panel.cpp`, `tree.h`).
State: a tree of files rebuilt by each list reply, pointers into it (directory,
selected file), `print_active`. Operations: enter a directory, select a file, sort,
print; list and metadata replies; file-list notifications.
Hard: replies in any order; pointers into a tree that a reply replaces; the print
is taken to run before its start is confirmed.

**Print status** (`print_status_panel.cpp`, `mini_print_status.cpp`).
State: the file shown, its metadata, time estimates, the button shown for the
print's state. Hard: metadata of an earlier file arriving late; readings that come
from reports, from `State` and from metadata must fit together. Correct: the estimate,
the picture and the layers are the shown file's.

**Prompt dialog** (`prompt_panel.cpp`).
State: the widgets drawn so far, the group that takes the next button, in front or
not. Operations: one per line of the protocol `action:prompt_begin`, `_text`,
`_button_group_start`, `_button`, `_button_group_end`, `_footer_button`, `_show`,
`_end`. Hard: lines are lost with the link. Correct: a prompt heard from its begin
is drawn as described, whatever was lost before.

**Tuning pages** (`finetune_panel.cpp`, `limits_panel.cpp`, `extruder_panel.cpp`,
`fan_panel.cpp`, `led_panel.cpp`, `homing_panel.cpp`), and the heaters of the main
page (`main_panel.cpp`, `sensor_container.cpp`, `numpad.cpp`).
State: the numbers shown, a slider that is held. Operations: each sends a gcode
script; some show the new number at once, others when it is reported. Some fill
from the discovery, some from the subscription, some from `State` when they come to
the front. Hard: reports race taps; steps start from the last report; fractions are
truncated. Correct: in the end the page shows the printer's number.

**Bed mesh** (`bedmesh_panel.cpp`).
State: the active profile, its mesh, the table of profiles, the save prompt.
Operations: clear, calibrate, load, remove, save; partial reports. Hard: a report
holds only what changed. Correct: name, mesh and list fit together.

**Spoolman** (`spoolman_panel.cpp`).
State: the spools as listed, the active one, the rows of the table with their
symbols. Operations: activate, archive, restore, sort, reload, show archived; two
replies and a notification, each of which rebuilds the table. Hard: they come in
any order, and rows are reused. Correct: the active spool is marked, and it only.

**Power** (`power_panel.cpp`).
State: a switch for each device. Operations: toggle, ask for the state. Hard: a
reply asked for earlier turns a switch back. Correct: in the end the switches are
where the devices are.

**Macros** (`macros_panel.cpp`, `macro_item.cpp`).
State: the list, what is hidden, the switch that shows it anyway. Operations: hide,
show, populate. Hard: settings and objects are asked for side by side; a write is
taken to succeed. Correct: the list hides what the database hides.

**Touch beep** (`touch_beep.cpp`).
State: the beeper's device, the timer that ends the tone. Operations: a click, the
timer, init and shutdown. Hard: handover, exit and unplugging come between tone and
timer. Correct: a tone ends.

**System page** (`system_panel.cpp`): a worker and a label. **Console**
(`console_panel.cpp`): lines in the order they come, and a text area. **Wi-Fi page**
(`wifi_panel.cpp`): a placeholder. **Fre3nderScreen preferences**
(`fre3nderscreen_panel.cpp`): sleep time, logging, Restart Screen.
**Configuration and theme** (`config.cpp`, `theme.cpp`, `utils.cpp`): JSON files.
**Menus** (`setting_panel.cpp` and others): navigation. LVGL, its drivers, the
calibration library and the assets are vendored or generated.

The hazards of all of them are listed at their lines in `PROJECT.json`
("hazards"), each with the properties that would catch it or the reason there is
none.

## 2. Modules

    OtaTypes ── OtaPanel ─┐
        └────── OtaCore ──┴─ OtaSystem ─ MCOtaSystem      refines SerialOperations
                                └─ OtaTypeProofs ─ OtaProofs ─ OtaConfirmProofs

    AppsCore ── AppsPanel ── AppsSystem ─┬─ MCApps
                                         └─ AppsProofs

    WorkerThread ─┬─ RequestWorker ─┐                         refines AsyncRequest
                  └─ SystemWorker ──┤
    ConsoleKernel ─ DisplayLoop ────┼─ MCScreen ── ScreenProofs
                    └─ MCDisplayLoop│
    TouchBeep ──────────────────────┘

    Session ─┬─ MCSession
             └─ SessionProofs

    PrintTypes ─┬─ PrintFiles ──┬─ PrintSystem ─┬─ PrintProofs
                └─ PrintStatus ─┘               ├─ MCPrint ──┐
    Feed ─┬─ Controls ──────────────────────────┤            │
          └─ BedMesh, PrintReadings ────────────┼─ Pages ─┬──┴─ MCPages
    Spoolman, Power, Macros, Prompt ────────────┘         └─ PagesProofs

`MCScreen` and `Pages` put parts that share no state side by side: a constant
variable (`part`, `page`) says which of them moves, so that one run explores each
of them in full and no product of them. `Pages` takes every page's constants as its
own, and the proofs are about it; `MCPages` gives them values. The other modules whose
names begin with `MC` hold the values of their runs.

### OTA: `OtaTypes`, `OtaPanel`, `OtaCore`, `OtaSystem`, `SerialOperations`

`OtaPanel` is `ota_panel.cpp` with the members' own names. `handle()` is one action
per button (`TapRefresh`, `TapUsbFile`, `TapPackage`, `TapChoice`, `TapUpload`,
`TapVerify`, `Arm`, `Confirm`, `Back`) and `Foreground`. `poll()` is `Poll`,
a disjunction of its branches in the order of the code: an error
(`PollError`), an answer that cannot be read (`PollMalformed`), an accepted POST
(`PollAccepted`), a status (`PollStatus`, with `advance_update()` as
`AdvanceVerified`, `AdvancePlanned`, `AdvanceStep`, `AdvanceHalt`,
`AdvanceNothing`) and the re-read of a due receipt (`PollRefresh`).

`wire` is the request the worker waits on, `answer` what it left for
`poll()`. The handover between the threads is cut finer in `RequestWorker`;
`OtaPanel` relies on what is proved there: the answer that `poll()`
takes is the one to the last request.

The buttons that exist are those `render()` draws for the current state. A package
is a model value; the version and slot a transaction was made for are one
"context" value; file names, sizes and progress are left out.
`from` (which run of the screen sent a request) and `auto` (sent by
`advance_update()`) are history that no action reads.

`OtaCore` is `SimulatedOta`: the admission checks, the transaction's phases.
The simulator finishes an operation at once; `poll()` is written for operations
that run for a while, fail or end as `unknown`, so these are added
(`Succeed`, `Fail`, `BecomeUnknown`).

`OtaSystem` composes them. `LoseAnswer` covers a lost, late or unusable answer;
a POST that was lost goes into `late`, from where the Core may take it at
any time (`HandleLate`). `WebSubmit` is another client of the Core, `Operator` a
person settling the transaction by SSH, `Restart` the screen's process ending and
starting anew, with its requests still under way.

`SerialOperations` is the promise: one operation at a time; the page reads as
quiet only when nothing of it can still run; once the outcome is unclear, nothing
more. `OtaSystem!ImplementsSerial` is the refinement, with
`Phase` (from `uncertain`, `busy`, `pending_execution`) and `Work` (operations of
this run in the Core, on the wire or lost but possibly still to come).

### Applications: `AppsCore`, `AppsPanel`, `AppsSystem`

`AppsPanel` is `apps_panel.cpp` in the same manner: `handle()` is `Back`,
`TapRefresh`, `TapSelect`, `TapDetail` and `TapAction` (`take_action()`, with
its early returns `Refused`, the first tap `Arm` and the second `Send`), `poll()` is
`PollAnswer` and `PollRefresh`. The lists of the page are drawn in `poll()` whenever
`snap` changes, so they follow from it; the buttons below them are drawn by
`render_controls()` at other times too, so what it drew last is state (`screen`), and
a tap is possible on a drawn button only. `armed` is the string of
`armed_action`: it names the app and the serial of a download, and of anything else
only the operation. `meant` is history: the whole request that the first tap
announced. `AppsCore` is `SimulatedApps`; an operation runs for a while, as
`poll()` provides for. `AppsSystem` adds lost requests and answers and another client.

### Workers: `WorkerThread`, `RequestWorker`, `SystemWorker`, `AsyncRequest`

`WorkerThread` is the thread and what it shares; `RequestWorker` is
`OtaPanel::start`/`poll` (the Applications page has the same two functions),
`SystemWorker` is `SystemPanel::refresh`/`poll`, which has no `busy`
and may drop an answer. Both are cut at every access to `ready`, `result` and
`worker`. `AsyncRequest` is what the rest of the page expects.

### Display: `ConsoleKernel`, `DisplayLoop`

`ConsoleKernel` is Linux's virtual terminal switching as the code uses it, external
to the repository. `DisplayLoop` is `main()` as a program counter: start-up with its
failures, one round of the loop (`PollStop`, `PollRelease` and
`AcknowledgeRelease`, `PollAcquire` and `AcknowledgeAcquire`, `PollNone`;
then `HandleTimers`, which is LVGL's timers with the sleep logic), `Shutdown`,
and `Restart`. Signals and touches are actions of their own between any two.
Whether the inactivity time has passed is a free choice (`goesDark`).

### Session: `Session`

`send_jsonrpc` in its three accesses (`Find`, `Insert`, `Number`), for each of the
threads `ui` and `hv`; the event loop handling one message to the end (`Dispatch`,
with `Connected`, `Disconnected`, `StatusUpdate`, `Answered` for the branches of
`onmessage`); a handler that makes requests does so one by one (`Continue`), and
its callback is erased after it returned (`Erase`). Moonraker answers in any order,
with errors while the printer is down, and sends notifications; the link and
the printer go down and come back. A reply's data is the number of the printer
life it describes. The discovery is `objects.list`, then `subscribe`;
the requests whose replies only fill a page of their own are one method, `info`.

### Print pages: `PrintTypes`, `PrintFiles`, `PrintStatus`, `PrintSystem`, `PrintReadings`

The modelled handlers of the two pages run under `lv_lock`, so each is one action.
`PrintFiles` is the Files page: `ShowDir`, `ShowFileDetail`, the taps, the replies (`TakeList`, `TakeMetadata`) and `FilesConsume`. A `Tree*` is a node's
path with the generation of the tree it points into. The generation counts modulo 2:
a pointer that outlives one rebuild shows as dangling at once, so a second
rebuild cannot hide it. `PrintStatus` is the print page: `InitPage` (`init()` with
`reset()` and `populate()`), `StatusConsume`, and the buttons with the confirmation.

`PrintSystem` adds `State` and the order of things: a message is handled to the end
(`Handle`), an update by `State` first and then by the pages (`Seen`), the discovery
in three messages (`TakeReady`, `TakeObjects`, `TakeSubscription`). The printer is external:
it loads a print and starts it a moment later, changes `print_stats` and a moment later
`is_paused`, refuses commands that come too late, takes commands of other clients.
Moonraker reports the fields that changed since its last report, and answers in any
order. Equal requests that wait at the same time count as one.

`PrintReadings` is what the print page says besides, on `Feed` (below): `Refill` is
`reset()` and `populate()`, `Consume` the reports, `TakeMetadata` the reply, and
`TimeProgress` and `MaxLayer` the functions of these names. A reading is known by the
file it is of. Metadata is answered in the order it is asked for (Moonraker looks it
up without waiting), with everything, with less, or with an error.

### The other pages: `Pages`, `Feed`, `Controls`, `BedMesh`, `Spoolman`, `Power`, `Macros`, `Prompt`

`Feed` is what a page sees of the session: the discovery in two steps, the
reply to the subscription with everything, updates with what changed since the last
one, a link that goes down and comes back. `State` takes a message first, the page in
the same step (`Receive`), as they are registered.

`Controls` is one number on any of the pages that show and set one; `kind` says on
which. The pages differ in when they learn the number (`Recreated` with the discovery,
`Subscribed`, `ReadsState` when they come to the front, and with every update), in
what they show of it (`Shows`, `Percent`) and in how it is set: a slider that is held
(`Drag`, `Release`), Off and Max (`OffMax`), and buttons that send and wait for the
report: resets (`Reset`), steps from the last report (`StepFactor`, `StepPressure`),
steps that the printer adds up itself (`StepOffset`), `Homing`, the numpad (`Enter`)
and `Extrude`. Klipper runs scripts in order and may refuse one. `BedMesh` has the
reports in parts and what the page takes from `State` (`From`); SAVE_CONFIG restarts
Klipper. Reports are merged into `State` field by field (`Over`), and the profiles of
the bed mesh one level deeper (`Merged`).

`Spoolman`, `Power` and `Macros` make requests of their own: a set of them in `wire`
that Moonraker handles in any order (one after the other for the database), a
sequence of replies and notifications in `inbox`, refusals, other clients, a lost link.
`Spoolman` keeps for each row the two symbols that taps act on. `Prompt` is Klipper
saying the lines of a dialog one by one and the panel drawing them as they come.
What a property needs to know of the past is history that no action reads
(`synced`, `whole`, `known`, `agreed`): each is reset where the screen cannot know
better, such as a change that another client makes and Moonraker does not report.

### The beeper: `TouchBeep`

The device, the timer and the tone. `works` turns false when the device is
unplugged, after which a click's write fails and closes it. `Leave` is every place
that calls `shutdown()`.

## 3. Runs

All bounds are CONSTANTS set in the `.cfg`; actions that would exceed one are
disabled, which is why deadlock is not checked: the systems may stop.

| run | what it asks | instance |
|---|---|---|
| `OtaWorkflow` | a whole update by one client, from the upload to the reboot, and that it ends | 1 package, 1 context, 9 executions, fair |
| `OtaShared` | another client intervenes, the context changes | 1 package, 2 contexts, 4 executions, 1 intervention |
| `OtaRestart` | the process restarts with a request out | 1 package, a backup target, 4 executions, 2 lives |
| `Apps` | the Applications page beside another client | 2 apps (one of them this one), 1 package, 2 serials, 2 executions, 1 intervention, 1 loss, 4 taps, fair |
| `Screen` | workers, display and beeper, each in full | 4 requests each; display and beeper finite, fair |
| `Session` | reconnects, printer restarts, sends that do not overlap | 2 lives, 2 connections, 1 tap, 12 requests, fair |
| `SessionOverlap` | sends that do overlap | 1 life, 1 connection, 1 tap: violated |
| `DisplayHasty` | an impatient user | no bound (finite): violated |
| `DisplayRestart` | Restart Screen | no bound (finite): violated |
| `Pages` | the printer's pages, each in full | see below |
| `PrintActive` | a print runs when the screen starts | 2 files, no taps, no events: violated |
| `SpoolActive` | may the active spool be archived | as `Pages`: violated |

**OtaWorkflow.** `StepsNeverRejected`: with nobody else at the Core
the page never sends a step the Core refuses, that is it neither repeats nor
anticipates one; `RebootLatched`: while a
reboot that this run asked for may still happen, the page knows it (so that no
operation is sent into it); `UpdateHasWork`: a running update has something to wait
for, so the buttons do not stay blocked; `UpdateEnds`, `ReceiptResolved`. Without a
backup choice a complete update takes fewer than the nine executions of the longest one
(verify, preflight, backup-plan, backup, confirm, write, readback,
prepare-activation, reboot). Fairness: `Poll` (the loop
calls `poll()` in every round of 5 ms), the wire (an HTTP request ends by
its timeout) and the Core (its operations end). Nothing is assumed of the
user. A Core that stays `running` for ever would keep the update active, and rightly so.

**OtaShared.** `SentAsConfirmed`: the package and context a step is sent for
are those the user confirmed and those the Core then has, if it has the same
transaction; `ConfirmationStands`: what an armed confirmation shows does not change
under the finger; `UnclearIsFinal`. One intervention is enough to put a foreign
receipt, a foreign transaction or none in place of the page's own at any moment; two
contexts are enough for "another than the confirmed one".

**OtaRestart.** `SingleFlight`, `ImplementsSerial`, and `AutoConfirmBackedUp`: the
running update confirms by itself only when the transaction holds the chosen
backups, verified. Two lives give one process whose lost requests
meet the next one's. Four executions reach verify, preflight, a plan and a backup, or
the steps of lost requests among them; the proofs cover any number.

**Apps.** `ConfirmedOnScreen`: an operation that needs a confirmation goes out only
on a button that read "Confirm", for the app, package and release drawn there;
`ConfirmedAsArmed`: and it is the one the first tap announced, although `armed_action`
names only a part of it; `DetailIsOfSelected`; `ExecutionResolved`: an open page that
shows an operation as running comes to show its end, though status reads are lost.
Two apps give one that can be updated, removed and selected beside the active one; two
serials a download offer that changes between the taps; four taps select, arm,
change and confirm. Fairness: requests return, executions end, the loop polls,
time passes.

**Screen.** Workers: `UiNeverWaits` (a `join()` finds a worker that is done),
`ImplementsAsync` with its liveness, and for the System page `ShownIsCurrent`
and `LoadingEnds`. Four requests give every order of
a finished, a dropped and a running one. Display: `NoWritesAfterRelease`,
`TextVisible`, `ReleaseAccepted`, `SleepAgrees`, `AcquireDrainsTouches`,
`SwitchCompletes` (a switch the user asked for is made); its state space is finite by
itself, since pending signals and touches are sets. The user is patient here, which
restricts the user, not the program (section 5). Beeper: `ToneEnds`. Fairness: the UI
thread completes the calls it is in, `poll()` is called again and again, the worker
runs and its request returns; the loop's own steps (it never blocks); its timers.

**Session.** `ReplyReachesOwner`;
`QuietMeansReady`: with link and printer up and nothing under way, the overlay is
gone and the data is that of this life of the printer, unmixed;
`PagesInitialized`: if link and printer stay up, the pages come. Fairness: both
threads run, Moonraker answers what it has received, and the client reconnects (libhv's
reconnect setting). Two lives and two connections are the least with data and
replies of a past session in the way; a session takes three requests, so 12 numbers
never run out. `Overlap = FALSE` is an assumption, not something the code
enforces (see section 5).

**Pages.** The values of the pages' constants stand in `MCPages`; 2.7 million states together.

| page | properties | instance |
|---|---|---|
| Files and print | `NoDangling`: the directory, the rows and the selected file are nodes of the present tree; `DetailIsSelected`: the details are those of the file that Print would start; `PageFollowsState`: the print page shows the file `State` holds, and the small status is there while it prints; `NoStaleConfirmation`: a confirmation hidden by another file's page does not outlive that page | 2 files, one in a directory, 3 taps, 1 event, 1 message in the inbox |
| readings | `ReadingsOfFile`: estimate, picture, times, layers and progress are the shown file's and the printer's, once its metadata has come; before that, none or the shown file's unless another file's reply came late | 2 files, 3 durations, 2 events |
| numbers | `ShownIsReported`: once all is run and reported, the page shows the printer's number, or its truncation | 9 kinds of page, numbers 0 to 3, one of them truncated, 2 scripts, 2 events |
| bed mesh | `ProfileFollows`: name, Save, mesh and list fit the printer's, after a report with the name | 2 profiles, 2 meshes, 2 taps, 1 event |
| spools | `ActiveFollows`: the active spool is Moonraker's, and its row and no other is marked | 2 spools, 2 taps, 2 events |
| power | `SwitchFollows`: a switch is where its device is | 2 devices, 3 taps, 2 events |
| macros | `MacrosAgree`: the list hides what the database hides | 2 macros, 3 taps, 2 events |
| prompt | `DialogIsPrompt`: the dialog is the prompt Klipper shows, once it was heard from its begin | 2 prompts of 2 lines, 1 lost link |

An event is an act of another client, a refusal, a lost link or a restart. Three taps
select a file, enter a directory and select the other one while the first one's
metadata is out; on the other pages two or three taps put one request in front of
another's answer. One message in the inbox already comes between any two taps, and holds
what was true when it was sent. Two prompts are the least for a dialog that inherits
from the one before. There is no liveness here: a refused or lost request has no
callback or is ignored, and the page waits for the user or the next report.

Each property has a mutant in `PROJECT.json`: a plausible bug in one definition
under which TLC finds the property violated in the same run.

## 4. Proofs

| module | theorem | for every value of |
|---|---|---|
| `OtaTypeProofs` | `TypeCorrect` | packages, contexts, targets, bounds |
| `OtaProofs` | `Invariant`, `SingleFlightHolds`, `UpdateHasWorkHolds`, `Refinement`, `UnclearIsFinalHolds`, `NothingSentWhileClosedHolds` | the same |
| `OtaConfirmProofs` | `RebootIsLatched`, `RequestsAreConfirmed`, `ConfirmedBackedUp`, `ConfirmationHolds`, `StepsAreAdmitted` | the same |
| `ScreenProofs` | `WorkerInvariant`, `NeverWaits`, `CurrentAnswer`, `SafeRefinement`; `SystemInvariant`, `RefreshNeverWaits`, `SystemShowsCurrent` | number of requests |
| `SessionProofs` | `SessionInvariant`, `OwnReplies`, `QuietIsReady` (for `~Overlap`) | requests, lives, connections |
| `ScreenProofs` | `DisplayInvariant`, `NoWrites`, `TextStaysVisible`, `ReleaseIsAccepted`, `SleepStaysAgreed`, `TouchesAreDrained` (for `Patient`) | finite model; the proof is independent of TLC |
| `PrintProofs` | `TypeCorrect`, `NothingDangles`, `DetailsAreOfSelection`, `PageShowsState`, `NothingConfirmedLate` | files, taps, other clients, messages |
| `AppsProofs` | `TypeCorrect`, `DetailsMatch`, `AnnouncedIsSent`, `ConfirmIsRead` | applications, packages, releases, bounds |
| `PagesProofs` | `DialogRight`, `SwitchesRight`, `MacrosRight`, `ActiveRight`, `MeshRight`, `NumberRight`, `ReadingsRight` | prompts, devices, macros, spools, profiles, numbers, files, taps, messages |

Every invariant that a passing run checks is the subject of a theorem.

**OTA.** `SingleFlight` is not inductive: nothing in it says why the page does not
send while a lost operation may still run. `IInv` adds it. `WireMatches` ties a
request, its answer and `busy` together. `WorkAccounted`, the core, says that
whatever of this run may still be carried out is known to the page in one of three
ways: it is the receipt due (`pending_execution`), the answer just arriving names it,
or the page is about to be, or is, `uncertain`. `NoPostBeside` says that in each of
these cases no POST is out; `StatusNotAhead` that a status read with an execution
finished is not older than its end, without which a stale snapshot could clear the
receipt of an operation that still runs; `NoFutureLife` keeps the runs
apart; `FlagMatchesOperation` links the workflow flags to the operation
submitted, from which `UpdateHasWork` follows. The step proofs are split
in three lemmas: `poll()`, the taps, and the environment. For the refinement, each
of these is classified: a step either leaves the abstract state, submits one
operation while none is outstanding (`StaysOrSends`), or ends one
(`EnvironmentRefines`). The action properties follow from the same classification.

`ConfirmInv` adds to it what the user's confirmation rests on, with any number of other
clients, lost requests and restarts. `TxInv`: a transaction that was read (`Known`) is
the Core's with the same package, context and backups, or is gone, because a
transaction is named after the execution that made it and executions only count up;
the update is bound to one that was read, so the request on the wire is too.
`RebootInv`: while a reboot is on the wire none is with the Core (`RebootOut`), a receipt
due is of this run's last execution, and nothing of this run is lost while one is
due; so `reboot_sent` is cleared only by a refusal or failure of that very reboot.
`ArmedInv`: the confirmation is up only with the page open, no request out and no receipt
due, which leaves `poll()` nothing to read. What poll() does with a status is
summarised as `NothingSent` or `SendCase` (`StatusRead`).

`AdmitInv` is for `StepsNeverRejected`: a page without competitors must know the Core
well enough for every step it sends to be admitted. `CoreSound` and `CheckedHeld` hold
whoever asks: a transaction's package is at the Core, an activation belongs to a
transaction, and a package that was checked has not gone since. The rest
(`PageCurrent`) is for a Core that only this run of the screen asks (`Alone`): what the
page has read is older than the last execution, or is the Core's transaction and
activation as they are (`UpToDate`); and when the page knows of no operation under
way, nor has lost one (`Settled`), it has read the last. What it sends of its own
accord follows from what it read last, so it is admitted. A package the user picks from
an old list is another matter: its check may be refused, and the property says so.

**Workers.** `WorkerInv` says for each position of the UI thread what the worker has
done: in `poll()` after the exchange it has exited, in `start()` it is joined already;
and that the answer in `result` is that of `asked`. The refinement maps each UI step
to `Ask`, `Deliver` or nothing. That every request is answered (`WF` of
`Deliver`) is checked by TLC only. `SystemInv` is its counterpart for the System page,
whose `refresh()` may find a worker that has finished and not been collected: `ready`
means that the worker has stored its answer and that the answer is that of the last
question, and nothing older is left in `result`.

**Session.** `SessionInv` says that a number lives in one place at a time
(with Moonraker, in the inbox, or done: `NumbersDistinct`), that numbers from `id` on
are free except for the one request being made (`NumbersFresh`), and that
the table entry of a number is its request's (`ReplyReachesOwner`). The proof
needs that the two threads are not inside `send_jsonrpc` together; the run
`SessionOverlap` shows what happens otherwise.

`QuietMeansReady` says of a quiet moment what must be so; the invariant says for any
moment how it will come about. While link and printer are up (`Discovery`), either the
message that starts the last discovery still waits, with nothing but messages
of this life behind it (`StartDue`); or it has been handled (`Discovering`): no
message or data of another life is left, and the list of objects is under way, or is
there with the subscription under way, or both are there and the overlay is gone. A
request is `UnderWay` from the handler's list through `send_jsonrpc` and Moonraker to
the inbox. That it is not lost on the way is `SendGoesOn`, where `NumbersFresh` shows
that the number is free, and that its reply is not dropped is `RepliesExact`: its entry
is still in the table when it arrives, which `ReplyReachesOwner` leaves open.

**Display.** `DisplayInv` says who owns the framebuffer at each position of the
loop, and that a pending release means a switch is waiting, which is where the
patient user enters: only then are a release and an acquisition never
pending at once.

**Files and print.** Two lemmas are about the tree: a listing has every directory that a
node of it is in (`NodesPrefixClosed`, for "..") and a node with nothing below it is a
file (`LeafIsFile`, for what Print may ask for). `FilesInv` is then inductive by itself:
`show_dir()` leaves a live table and no selection in whatever tree it is called with,
and everything else leaves the tree alone. `PageFollowsState` needs one fact more
(`PageInv`): the small status is there while a print is under way also before the page
was filled, because an answer to the subscription without a print leaves the
small status as it was; and of a print under way the file is known (`PrinterStates`), so that an
answer with one shows it.

**Applications.** `Drawn` says that the buttons on the screen are about the present
selection and, while something is armed, that a button reads "Confirm" exactly if it is
the armed one; `Announced` that what is armed is what the first tap announced and that
its app and package may have gone since, but no other has taken their place. A
second tap needs a drawn button, and a button on an app or package that has gone is not
drawn (`SecondTap`); the rest is that each way to change the selection redraws
the page or drops what is armed. The confirmation string holds the app of a download
only, so none of this could be read off the comparison in `take_action()`.

**The other pages.** Their properties are about a moment when nothing is under way,
and say nothing of how one gets there. The invariants all have one form: the page will
be right, because the last of the waiting messages that has a say is right, or because
none has a say and the page is right already. A message that arrives has the last
word (the lemmas `...Append`), one that is handled either had it or leaves it to another
(`...Tail`). What differs is what has a say. For `Prompt` it is every line, so
`PromptInv` draws all the waiting ones ahead (`Drawing`). For `Power` it is a reply that
names the device, or a toggle that Moonraker has yet to handle (`SetRight`). For
`Macros` it is a write on its way to the database, which will make it agree with the
page. For `Spoolman` it is the last word on the active spool, or a notification after
which the page asks again (`ActiveTold`); `TableInv` ties the rows to what the page
takes for active. On `Feed` it is the last report with the field (`Fresh`): `MeshInv`
needs it for name and mesh, while a merged list of profiles only grows; `ControlInv`
needs besides that a slider shows what the user set before any report does, so
that the page agrees with the printer as the scripts on their way will leave it
(`Agrees`), and that the subscription's reply comes first (`ControlOrder`); `ReadingInv`,
which of the metadata replies on their way is for the file on the page.

The assumptions on constants are named and stand in the modules that declare them
(`OtaAssumption`, `AppsAssumption`, `WorkerAssumption`, `SessionAssumption`,
`PrintAssumption`, `NumbersAssumption`); TLC evaluates them in the runs.
`NumbersAssumption` (in `Pages`): numbers go from 0 to `Top`, and the percentages that
are truncated (`Short`) are above 0, so that one less is a number too.

**Only model-checked:** all liveness (`UpdateEnds`, `ReceiptResolved`,
`ExecutionResolved`, `LoadingEnds`, `PagesInitialized`, `SwitchCompletes`, `ToneEnds`,
the fairness part of `ImplementsAsync`), since TLAPS is used here without reasoning
about `ENABLED`. The five violations are TLC's counterexamples. `SelfRestart` and the
other violated properties have no theorem, being false.

## 5. Disagreements found

1. **`DisplayHasty`** violates `NoWritesAfterRelease`, the words of
   `virtual_terminal.cpp:71`. A user returns to the UI and leaves again before the
   loop has acknowledged the return: `acknowledge(true)` ends the waiting switch to
   the text console and sets `active`; the loop then draws over that console until its
   next `poll()`. The proofs hold for a user who does not do so.
2. **`DisplayRestart`** violates `SelfRestart`. The program that Restart Screen
   executes in the same process calls `setsid()` again, which fails for a session
   leader; `init()` throws and the screen exits instead of restarting. A
   service manager would hide this; none is part of the repository.
3. **`SessionOverlap`** violates `QuietMeansReady`. `send_jsonrpc` drops a
   request whose number has a callback already. When a tap is between `insert` and
   `id++` while `connected()` runs on the event loop, the number is taken,
   `printer.objects.list` is never sent, and the pages stay uninitialised until the
   next connection. `DEVELOPMENT.md:15` says that `InitPanel` discovers the objects
   and initialises the pages.

4. **`PrintActive`** violates `FilesKnowsPrint`. The Files page reads whether a print
   runs when its list arrives. `InitPanel` asks for the list before it subscribes, so
   usually `State` does not know yet, and the reply to the subscription is passed
   to the print page only. A screen that starts during a print offers Print and not
Status until the print's state changes or the list is reloaded.
5. **`SpoolActive`** violates `ActiveNotArchivable`, the comment of
   `spoolman_panel.cpp:192`. `populate_spools()` writes no symbol into column 7
   of the active spool's row, but neither removes the one that is there: a spool that
   becomes active keeps the archive symbol, and a tap on it archives the spool.

The models also show behaviour that no document of the repository speaks about:

- *Applications.* After Back and a reopening whose status read fails, the page may
  keep "Status refreshes automatically." (`apps_panel.cpp:483`) until the user
  refreshes, since nothing polls. A confirmation stays armed across Back. An
  acknowledgement names no execution, so it acknowledges whichever is unknown.
- *Numbers.* A fan or LED page that is open during a reconnect shows 0% until the
  next report; fine tuning, homing and extruder pages stay as they were. A limit
  that is changed and reset between two reports is not reported. `int(v * 100)` is one
  too small for some fractions, and from there a step of +1 asks for the number that is
  set already. Two steps within one report send the same number. An update moves a
  slider under the finger.
- *Bed mesh.* A report without the profile's name disables Save and is not shown.
  A merged `State` keeps profiles that have been removed. The row of Y limits shows
  those of X (`bedmesh_panel.cpp:503`).
- *Spools.* No active spool (`null`) and an empty list are passed over: what was shown
  stays. Sorting expects names and vendors that `populate_spools()` allows to be absent.
- *Power.* A refused toggle leaves the switch turned until the page is opened again.
- *Macros.* A macro hidden between the two replies of a reconnect is shown
  again; the page's switch and the new items disagree after one; a refused write is
  not undone.
- *Prompts.* A dialog whose end was lost stays. Lines of a prompt whose begin was
  lost are added to the one before.
- *Print.* A start that is refused leaves Print disabled (`print_panel.cpp:309`);
  metadata of the file before is taken, and its estimate and picture stay when the
  shown file's metadata has none (`print_status_panel.cpp:723`); layers in all are the
  file's of before until its metadata comes, and those that the print itself reports
  are shown only in the report that names them (`print_status_panel.cpp:1000`); the
  picture is never shown when the first thumbnail is the best one, whose width stays 0
  (`utils.cpp:46`); a page filled
  between two reports can keep the wrong one of Pause and Resume
  (`print_status_panel.cpp:684`).

## 6. What is not modelled

`PROJECT.json` lists each component with its status. Vendored code, assets, file and
network I/O, layout and wording are out of scope: no property is about them, and they
are most of the lines (fonts and icons are C arrays; a page's constructor is layout).
The console, the Wi-Fi page, the configuration and the theme have no state whose
order of changes matters. In the modelled parts:

- memory-level data races (the callback table and the request number as C++
  objects, the references `State::get_data` hands out, the spools' map) are undefined
  behaviour; the models have the outcomes of whole accesses only. So is the
  pointer that the numpad's callback keeps to a sensor of before a reconnect;
- `NotifyConsumer` registration and method callbacks of the WebSocket client;
- a connection attempt that fails (it calls `disconnected()` once more);
- on the print pages: the order of rows, the current layer, and temperatures, speeds
  and fans, which show the last report;
- a restart of the screen on the Applications page, and a USB stick that comes or goes;
- on the pages of numbers: the position that moves lead to, the length and speed of an
  extrusion, whether the filament macros exist, the emergency stop prompt;
- the selection of sensors, fans and LEDs from the list of objects;
- loading of theme and calibration at start-up;
- numbers wrap after 2^32 requests and ticks, which no bounded run reaches.

## 7. Plan

Done: OTA, applications, workers, display and beeper, session, print pages, the
other pages. Next, most important first:

1. Proofs: an abstract specification of a page that copies what Moonraker told it last,
   and the pages on `Feed` shown to implement it.
2. Proofs: which parts of `SessionInv` survive sends that overlap.
3. The pure helpers (selection of sensors, fans and LEDs, console history, sorting) as
   functions over bounded inputs.
