# Buster Claw: a verification project

Buster Claw is a desktop application (an Elixir/Phoenix server in a Tauri shell)
that lets coding agents work for its owner: mail from trusted senders becomes
items of a queue, a *shift* works the queue with headless agents, chats run agent
turns, and a controlled browser carries out flows.  Two kinds of concurrency make
it hard.  The server runs as OTP processes over one SQLite database, and almost
nothing is a transaction: a function reads a row in one statement and writes it in
a later one, while HTTP requests, LiveViews, timers and monitored children do the
same.  The window keeps copies: LiveView hooks, a native shell and the server hold
the same tabs, panels, notes, files and webviews, tell each other of changes over
ordered streams, and act on what they saw last.  That is what these modules are about.

Contents: [Inventory](#inventory) - [Modules](#modules) - [Runs](#runs) -
[Bounds](#bounds) - [Fairness](#fairness) - [Proofs](#proofs) -
[What the code does otherwise than it says](#what-the-code-does-otherwise-than-it-says) -
[Hazards without a property](#hazards-without-a-property) -
[Not modelled](#not-modelled) - [Plan](#plan)

To check: `tlc -workers 2 -config Queue.cfg MCDispatch.tla` and so on for the
runs below; `tlapm OrchestrationProofs.tla`, `DispatcherProofs.tla`, `ChatProofs.tla`,
`WorkspaceProofs.tla`, `BrowserProofs.tla`, `NoteProofs.tla`, `DeskProofs.tla` and
`ListLemmas.tla` for the proofs.

## Inventory

State, operations and hard behaviour of each part (paths under
`src/lib/buster_claw/` in the first table).

| Part | State | Operations | Interaction | Hard behaviour | What makes it correct |
|---|---|---|---|---|---|
| Dispatch queue (`dispatch.ex`, `commands/dispatch.ex`) | table `dispatch_items` | enqueue, claim, strategy, mark running, done/block, reply, reclaim | called by every CLI request, the pump, the projector | statements interleave; updates by id with a struct read earlier; global reclaim | a claim is never stolen; a settled item does not return; nothing in flight is stranded |
| Shifts (`orchestration.ex`, `duty.ex`, `commands/orchestration.ex`) | tables `shifts`, `shift_assignments`, the STOP file | start, stop, stand down, staff, unstaff | operators, ticker, pump | start and stop are several statements; the STOP file is outside the database | one active shift per starter; STOP ends every shift |
| Orchestrator (`orchestrator.ex`) | failure counter | tick | reads shift and STOP file, calls `stop_shift` | a tick that raises | trips exactly at its threshold |
| Dispatcher (`dispatcher.ex`, `swarm/coordinator.ex`, `swarm.ex`) | run reference, cooldown | decide, start, take report or `:DOWN`, budget brake | reads queue, shifts and STOP file; spawns a monitored child whose agent is again a caller of the queue | decision and action are apart; report and `:DOWN`; swarm charged on completion | cap, one run at a time, no stranded item, brake drains, work is served |
| DispatchProjector (`dispatch_projector.ex`) | none (files) | reclaim on boot, render | subscribes to queue events | files lag the table | files equal the table when quiet |
| Uptime (`orchestration/uptime.ex`) | the `caffeinate` port | engage, release | subscribes to shift events | missed events, port death | engaged while a shift is active |
| Chat (`agent/chat.ex`, `agent/deliveries.ex`) | per conversation: status, queue, run token; ledger of deliveries | send, steer, barge, interrupt, remove, reorder, reset, recover | transports, LiveView, ledger | late events of an ended turn, timeouts, crash between ledger and transport | a message is run at most once and not forgotten |
| Chat transports (`agent/chat_transport/*`) | one handle per conversation | start turn, steer, interrupt, decode | chat, ports, app servers | three wire protocols | events belong to the turn that caused them |
| App servers (`agent/codex_app_server.ex`, `agent/open_code_server.ex`) | pending requests, threads, connection | request, event routing, reconnect | many chats over one connection | connection loss with requests pending | each request is answered once |
| Browser pool (`browser_control/pool.ex`, `session.ex`) | sessions, owners | checkout, checkin, reap | agent runs, commands | owner or engine dies while checked out | a session has one owner, the limit holds, none leaks |
| Agent mode (`browser_control/agent_mode.ex`) | run state, step | step, pause, take over, confirm, stop | session, screencast, LiveView | operator takes over between observe and act | nothing acts while the operator holds the page |
| Bridge (`browser/bridge.ex`, `assets/js/hooks/browser.js`) | pending refs, timers | request, answer, expire | a broadcast to every shell, a POST back | late, lost and second answers; reloads | one answer per caller, "ok" only of what was done, every call returns |
| Notifications (`notifications/scheduler.ex`) | table of reminders | arm, fire, recur | PubSub | restart between fire and re-arm | fires once per occurrence |
| Mail and calendar sync (`mailman.ex`, `google/*_sync.ex`) | cursors | poll, enqueue | Google, queue | partial failure, expired cursor | each message enqueued once and none lost |
| Clinch (`clinch.ex`, `clinch/rekey.ex`) | keys, encrypted rows | encrypt, rekey | keychain | crash half way through a rekey | every row stays readable |
| Sentinel and Pending (`sentinel.ex`, `sentinel/pending.ex`) | held actions | hold, approve, deny, expire | commands, LiveView | approval racing expiry | an approval is used once |
| Rate limiter (`rate_limiter.ex`) | counters | hit, sweep | every request | window boundary | bound per window |
| Notes, library, memory, finance, pockets, skills, settings, contacts, calendar | rows and files | single statements | commands, web | none between steps | - |
| Commands, CLI | none of their own | parse, authorize | all of the above | - | - |

The window (paths under `src/assets/js/`, `web/` is `src/lib/buster_claw_web/`, `tauri/`
is `src/desktop/tauri/src/`):

| Part | State | Operations | Interaction | Hard behaviour | What makes it correct |
|---|---|---|---|---|---|
| App tabs (`hooks/tab_*.js`, `lib/tab_layout.js`, `lib/tabs.js`, `app_tabs.ex`) | the list in localStorage; the agent's pending request | visit, close, reorder, join, separate, swap; request, answer, expire | the strip, the browser chrome and the agent all rewrite one list | plans that expire half way and are undone; closes that wait for a confirmation | no page falls out of the strip; a request ends as its caller was told |
| Workbench (`hooks/workbench*.js`, `web/work_areas.ex`, `web/workbench_*.ex`) | panels per area, focus, revision; the page's copy | open, close, focus, select, drag, resize | optimistic page, answering LiveView | arrangements that arrive during a drag | the page catches up; a drag changes only what it was made on; no shell without a pane |
| Terminal (`hooks/terminal.js`, `tauri/terminal.rs`) | session id per key, listeners, shells | mount, unmount, close, reload, exit | awaits on the native side | a view that ends in the middle of its mount | closed sessions have no shell; the startup command is typed once |
| Paint filter (`lib/ansi.js`) | what is held back | write, switch | terminal output | sequences cut anywhere | the screen shows the stream |
| Composer (`hooks/composer.js`, `hooks/chat*.js`, `lib/attachments.js`, `web/live/status/*`) | text, delivery, chips, uploads, queue | type, submit, drop, upload, drag, Escape | page, LiveView, conversation | verdicts on what was seen last | files and messages go where they were meant; the cap holds |
| Voice (`hooks/voice.js`, `tauri/voice.rs`) | toggle, voice, queue, generation | speak, stop, choose, audition | page, native commands, worker thread | a stop in two steps beside the worker | lines in order, none from before a stop |
| Notes (`hooks/note_editor.js`, `lib/note_*.js`, `web/live/notes_component.ex`, `notes.ex`) | file, revision, draft, textarea, surface, selection | type, command, tick, autosave, reload, overwrite | page, LiveView, other writers | saves in flight while the draft and the file go on | at rest the editor tells the truth; commands keep the words |
| Browser chrome (`chrome.js`, `tauri/browser/*.rs`) | tabs, webviews, recency, saved session | open, switch, close, navigate, save, restore, evict | strip, native side, saved session | commands and callbacks cross; webviews are evicted | both sides agree; private stays private |
| Address and find bar (`lib/chrome_bar.js`) | row, suggestions, find text and count | type, choose, find | two services, four timers | replies in any order | no answer to an older question |
| Browser pane (`hooks/browser.js`, `web/live/browse_live.ex`) | surface, frames, native visibility | mount, patch, sync, hide | LiveView patches, native side | patches and frames after the page changed | the surface is where the page has a place for it |

The repository's heart is the unattended loop: a shift, a queue, a pump, a brake.
It runs without anybody watching, so it is modelled first and proved.  The
conversation and its delivery ledger, where a person waits for answers, come second,
and then what is on the window, which is most of the code.

## Modules

**`Dispatch`** is the queue.  `item` is the table (`absent` is a row not inserted
yet; rows are numbered in the order of `inserted_at, id`).  A command is one
process, so a command that reads a row and later writes it takes two steps, with
the row it read in `request[c]`: `ClaimRead`/`ClaimSwap` are the two statements of
`claim_next`, `StrategyRead`/`StrategyWrite` are `dispatch_strategy` (the guard of
`set_strategy` looks at the struct, the update at the id), `MarkRead`/`MarkRunning`
are the pump's choice of a swarm row and `mark_running`.  `Finish` is one step
because nothing it writes depends on what it read.  `ReclaimOrphans` is the single
update of `reclaim_orphans`.  `QueueSpec` lets the pump's part happen at any time.

**`Orchestration`** is everything about shifts.  `call[p]` is the program counter
and the local variables of the process `p` inside `start_shift`, `stop_shift` or
`start_shift_assignment`, one value per database statement or file operation:

| Code | Actions |
|---|---|
| `shift_start`, `go_on_duty` -> `start_shift` | `ClearKillSwitch`, `ReadActives`, `Supersede` (once per shift read), `InsertShift` |
| `stop_shift` (from `shift_stop`, `stand_down`, ticker, budget) | `StopRead`, `StopWrite` |
| `stand_down` | `StandDown` (latch), then `stop_shift` |
| somebody creates the STOP file | `TouchStop` |
| `start_shift_assignment` | `StaffRead`, `StopDuplicates`, `InsertAssignment` |
| `stop_shift_assignment` | `StopAssignment` |
| `Orchestrator.handle_info(:tick)` | `Tick`, `TickRaises` |
| `trip_budget_brake` | `BudgetBrake` |
| the application restarts | `RestartCalls` |

`started_at` has a resolution of one second and `active_shift` orders by it, so
`ActiveShift` is a set: any active shift of the latest second may be the one
returned.  `starter` is history (who inserted the row) and guards nothing.

**`Dispatcher`** EXTENDS both and is the system.  `choice` separates `maybe_run`'s
decision from what it does about it; `run` is the monitored child and the message
it leaves in the mailbox.  `MaybeRun` is `DecideSingle`, `DecideSwarm` or
`TripBudgetBrake`; `StartRun` charges and spawns; `StartSwarmRun` marks and spawns;
`RunReports`/`RunCrashes` are the child's end; `RunDone`/`RunDown` are the handlers.
An agent of a run is a caller of the queue that acts only while the run lives.
`spent` is history: the agent runs that were really made for a shift.

The composition replaces the free steps of the two components (`MarkRead`,
`BudgetBrake`, `ReclaimOrphans`) by the pump's own, and `WorksTheQueue` and
`WorksTheShifts` say that this is no more than each component allows: every
behaviour of `Dispatcher!Spec` is one of `Dispatch!QueueSpec` (the pump's choice
of a swarm row seen as its request) and of `Orchestration!ShiftSpec`.

**`Chat`** is one conversation, by itself: it shares nothing with the unattended
loop.  `row` is the ledger (`Deliveries`), `queue` and `chat` are the state of the
process, `proc` the agent processes it spawned with the messages they left in its
mailbox.  A handler runs alone, so it is one action, except where it hands a message
to an agent before it writes the ledger: `pc` says how far it got, and `Crash` may come
in between.

| Code | Actions |
|---|---|
| `submit` while idle -> `start_run` | `SubmitIdle`, `StartTurn`, `CommitStart` or `StartFails` |
| `submit` while running | `SubmitRunning` |
| `submit` with `:steer` (`AimSteer` is the operator sending it) | `SteerWritten` and `CommitSteer`, `SteerMissed`, `SteerRefused` |
| `dispatch_next` | `DispatchNext`, then as a start |
| a `result` event, an exit | `HandleResult`, `HandleExit` |
| `:run_timeout` | `TimerFires`, `HandleTimeout` |
| `interrupt`, `barge`, `remove_queued`, `reorder_queue`, `reset` | `Interrupt`, `Barge`, `RemoveQueued`, `ReorderQueue`, `Reset` |
| the process dies; `init` -> `recover_queue` | `Crash` |
| the agent's process (external) | `ProcReads`, `ProcFinishes`, `ProcExits` |

A turn is named by the message that started it and a process by the message it was
spawned for, which stands for `turn_ref`, the run token and the port at once.  A line
written to a duplex process is taken into the turn it is working on, or starts one:
the process decides when it reads.  `ran`, `torn`, `dropped` and `reordered` are
history.

**The window.**  Each of the following modules is one part with everything it exchanges
with its other half; the two halves are joined by sequences (LiveView's channel and
the native commands keep their order) or by sets (fetches and timers do not).

| Module | State | Actions and what they stand for |
|---|---|---|
| `AppTabs` | `tabs`, `layout`: localStorage; `closing`, `leaving`: what waits; `request`, `waiting`, `told`: an agent's request on its way through the page | the operator's `Visit` ... `CloseSplitPane`; `RequestTabs`, `OnTabRequest`, `Fulfill`, `Expire`, `OnReply` are the five hops of a request.  The plans are pure operators (`JoinPlan`, `SeparatePlan`, `SwapPlan`) |
| `Workbench` | `desk` is the LiveView's, `seen` and `pendingState` the page's; `up`, `down` between | `HandleEvent` answers each event with the whole arrangement (`put_state`); `ReceiveState` applies it, keeps it for later or ends the drag.  Area numbers are never reused (`next`), and `Arrangement` is what `put_state` sends |
| `Terminal` | `view[v].at` is the await `mounted()` is at | one action per continuation (`FontsReady`, `Attach`, `Attached`, ...), `abortMount` at the start of each |
| `TerminalPaint` | `whole`, `screen`, `pending` | `WriteTerminal` with any chunk, `SetBackground` |
| `Composer` | the page's fields, `wire`, the LiveView's `pending` and `refusal`, the conversation's queue | `Keydown`, `ClickPrimary`, `SubmitFrame`; `Offer`, `UploadDone`, `AttachPaths`; `ChatSend` with the gate, the start and its failure |
| `Voice` | the page's choice, `calls`, the worker | `StopSpeaking` and `ClearQueue` are the two statements of `stop_speaking`; `WorkerPops`, `WorkerSpawns`, `WorkerPolls` the worker's |
| `NoteDraft` | `disk`, `server`, `pane`, `events`, `patches` | a text is the set of edits it holds, so an edit that is lost shows; `Reconcile` is `check_revision`.  `dropped` is history: the notes whose editor was closed during the pause of its autosave |
| `NoteMarkdown`, `NoteCommands` | text and selection | the tokenizer and the commands translated as functions of characters: here the characters are what the property is about.  The tokenizer is a recursive function over the texts up to a length |
| `BrowserChrome` | the strip's tabs; `live`, `mru`, `active` of the native side; `commands`, `callbacks` | `ShowTab` with `Evictions`; `RestoreTabs` |
| `ChromeBar` | mode, fields, timers, `replies` | every reply and timer is an action of its own |
| `BrowserPane` | the hook's references, `frame`, `settle`, `invokes`, `webviews` | `Patch` is `updated()`, `Sync` the animation frame |
| `BrowserBridge` | `pending`, `timers`, `handler[shell][call]`, `posts` | `Ask`, `Fulfill`, `Expire`; `LookAround`, `Act`, `ActFails`, `RefuseHere` in each shell; `LosePost`, `Leave`, `MountShell` |

`Lists` holds the helpers on sequences that several of these use (adding, removing, keeping
what a predicate picks), written so that they can be reasoned about.
`MCDispatch`, `MCOrchestration`, `MCDispatcher` and `MCChat` give the constants values.
`MCWorkspace`, `MCDesk`, `MCBrowser` and `MCLive` check several parts that share no
state in one run: `subject`, chosen at the start, is the part that moves, and the others
keep an initial state.  So a behaviour of the run is a behaviour of one part, and the
state space is their sum and not their product.
A definition marked *mutant* is a plausible bug of the definition under it, and
is used by nothing in the model.

## Runs

| Run | Configuration | Properties | Question |
|---|---|---|---|
| `queue` | `Queue.cfg` | `NoClaimIsStolen`, `SettledStaysOutOfTheQueue` | do interleaved commands, marks, reclaims and restarts respect holders and endings? |
| `shifts` | `Shifts.cfg` | `OneActivePerStarter`, `StopEndsEveryShift` | what do overlapping starts leave active, and does STOP end all of it? |
| `pump` | `Pump.cfg` | `TypeOK`, `WithinCap`, `Serialized`, `RunningIsAttended` | the types of queue, shifts and pump, the budget, one run at a time, no stranded swarm item |
| `live` | `Live.cfg` | `BrakeDrains`, `WorkIsServed`, `CrashRequeues`, `WorksTheQueue`, `WorksTheShifts`; `AnswersStand`, `EveryCallReturns` | does the brake drain the system, is work served, does crashed work come back, does the whole implement its parts?  And of the bridge: is what a caller hears true, final, and certain to come? |
| `conversation` | `Conversation.cfg` | `ChatTypeOK`, `OneBusyProcess`, `NothingIsLost`, `RunsOnce`, `LedgerKeepsOrder`, `TurnsEndForCause`, `QueueMoves` | one process at work, no message lost, run twice or out of order, no turn ended by a stale message, the queue moves |
| `workspace` | `Workspace.cfg` | `WorkspaceTypeOK`, `LayoutKeepsPages`, `RequestsEndAsTold`, `PagesAndShellsFollow`, `DragsApplyToWhatWasShown`, `ClosedShellsEnd`, `PaintsTheStream` | do tabs, panels and shells survive what the operator, an agent and the page do at once? |
| `desk` | `Desk.cfg` | `DeskTypeOK`, `NothingGoesAstray`, `SpokenAsAsked`, `SaveSettles`, `ViewIsTheText`, `CommandsKeepTheWords` | do files, messages, spoken lines and notes end up as the person meant them? |
| `browser` | `Browser.cfg` | `BrowserTypeOK`, `BothSidesAgree`, `PrivateTabsKeepTheirPromise`, `SurfaceFollowsThePage`, `RowFitsTheFields` | do strip, webviews, saved session and page agree? |
| `reclaim_others` | `ReclaimOthers.cfg` | `ReclaimTakesOnlyTheDeadRuns` | violated |
| `swarm_crash_budget` | `SwarmCrashBudget.cfg` | `SpentWithinCap` | violated |
| `resent_after_crash` | `ResentAfterCrash.cfg` | `ResumesOnlyUnsent` | violated |
| `overwritten_note` | `Overwritten.cfg` | `OutsideEditsSurvive` | violated |

Several properties are conjunctions of named parts, each defined and explained where it
stands: `SpokenAsAsked` is `HeardInOrder`, `OffMeansSilent`, `AuditionsDoNotPileUp` and
`NothingStaleWaits`; `PagesAndShellsFollow` is `PageCatchesUp` and `GonePanesHaveNoShell`;
and so on.  The type invariants of the window's parts are checked together, and carry what
a well-formed state is: no page with two tabs, no panel in two areas, no listener of an
unmounted view, at most five files (one in the instance), at most `MaxLive` webviews.

The deadlock check is on for `queue`, `shifts`, `pump`, `conversation` and their
violations: in every reachable state somebody can move.  It is off for `live`,
`workspace`, `desk`, `browser` and `overwritten_note`, where a part stops at its bounds
(every call asked and answered, every edit typed) as the program does when nobody uses it.

## Bounds

* `Queue.cfg`: three rows and two callers, so that the oldest, the newest and one
  between differ and two callers hold different rows while the pump reclaims.
  Callers are symmetric (safety only).
* `Shifts.cfg`: two operators and two rows of the shifts table: both starts
  overlap each other, `stand_down`, the ticker and the budget brake; one restart
  (`MaxRestarts`), `MaxFailures = 1`; one assignment, staffed by either.
  A start is not begun when no row is left for it.  `started_at` goes up by at most
  one between rows: only equal or later matters.
* `Pump.cfg`: two rows, one shift, the run's agent, a cap of three and swarms of a
  planner and one sub-run: single runs, a swarm that fits and one that does not
  both occur.
* `Live.cfg`: for the pump one row, one shift that may be attended or not, the run's
  agent, cap two, one restart, under fairness; for the bridge two calls of either kind, a
  desktop shell and a plain one, two pages left.
* `Conversation.cfg`: three messages, so that one runs, one waits and a third is
  steered ahead of it; both Claude transports, chosen anew whenever none is at hand;
  one crash or reopening at any point.  Messages are submitted in the order of their
  numbers: the order of the ledger matters, so there is no symmetry.

* `Workspace.cfg`: tabs with two work areas, three actions of the operator and the agent
  from three starting lists (one holds a retired page, one a joined tab): a join or a
  separation and one change before and after it; an area opened or closed under a plan.  The
  workbench: three area numbers of which each is used once (so that one area is closed and
  another opened; `Areas` is a bound, as the code counts on), areas of two panels, two panels
  and two terminals, three layout changes, so that a drag begins, another panel comes, and
  the drop arrives late; one message under way
  in each direction besides the one being handled.  Two mounts of a terminal over three
  shells: every shell an overlapping pair may start, and one after a reload.  The paint
  filter over every stream of five tokens (the longest colour sequence with one parameter
  and a text) in chunks of one to three.
* `Desk.cfg`: the composer with a cap of one file, two files, three messages and one
  event under way (`MaxWire`; with two the part alone takes over ten minutes, and finds
  nothing more): a file too many, a queue of two to drag, a conversation shown again.  Two
  voices, one of them not installed, three lines and two stops.  Two notes, two edits,
  three clicks (away from a note during its pause, to the other, and back) and one save chord.  Nine notes chosen for the tokenizer's branches (nested,
  unclosed and touching marks, a joined block, a table-like link, an indented heading, the
  empty note) with every selection and two commands or ticks in a row, the first selection
  being free (`Select` comes before the first command: later selections are those that the
  commands leave).
* `Browser.cfg`: one live webview and three tabs, so that each switch evicts; a saved
  session of two tabs or none; three actions of the user.  The bar: two queries, five keys,
  two replies under way.  The pane: five patches and two animation frames.

`spent` saturates at `Cap + 1`.  These bounds are for TLC only: the theorems have
no bound on rows, shifts, callers, cap, swarm size, messages, crashes, shells, views, panels,
areas, voices, lines, notes, edits, files, tabs, layouts, live webviews, addresses, saved sessions,
the length of a stream or of a note, or events under way.

## Fairness

`ShiftFairness`: a call that was begun is carried on (weak fairness of
`Continue(p)`), and the ticker ticks (`Process.send_after` at the end of every
tick).  `Fairness` of the pump: its decision is taken when it can be (the tick is
re-armed at every tick, `schedule_tick`), its handlers run, the cooldown is a
clock, and a run ends because `run_timeout_ms` bounds it.  No fairness is assumed of any
operator, caller, agent or of the restart: nobody has to claim, start or stop
anything.  `TickRaises` has no fairness, and it may happen between any two ticks.

`Fairness` of `Chat`: the process goes on with its handler or takes some message of
its mailbox, in any order (a process that is not blocked is scheduled; the calls it
makes inside a handler are short), and the timer of a running turn fires
(`Process.send_after` in `start_run`).  Nothing is assumed of the agents: they may
hang, and of the operator: nobody has to submit or stop anything.  So `QueueMoves`
rests on the timeout alone when an agent hangs.  It excepts messages that a restart
leaves on deck of an idle process: `init` recovers the queue and does not dispatch it.

`FairBridgeSpec` of `BrowserBridge`: the timer of a call fires (`Process.send_after` in the
handler that takes it).  Nothing is assumed of shells, of their handlers or of the posts:
`EveryCallReturns` holds with no shell at all.  `LiveFairness` is these assumptions, each of
the part that moves.  The other runs of the window check safety only.

## Proofs

`tlapm` checks, with no assumption but the named ones on the constants
(`ItemsAssumption`, `CallersAssumption`, `ShiftsAssumption`, `ProcsAssumption`,
`BoundsAssumption`, `AgentsAssumption`, `BudgetAssumption`, `KindsAssumption`,
`MessagesAssumption`, `NoneAssumption`, `ReloadsAssumption`, `PaneBounds`,
`NoShellAssumption`, `AreasAssumption`, `CapacityAssumption`, `HomeAssumption`,
`NothingAssumption`, `LinesAssumption`, `NotesAssumption`, `EditsAssumption`,
`PagesAssumption`, `ChromeBounds`, `SessionsAssumption`, `ComposerBounds`, `TabsAssumption`,
`PaintAssumption`, `PressesAssumption`, `NoteTextsAssumption`: bounds that are natural numbers, sets of natural numbers, names that
differ from what they name the lack of, a positive cap of sub-runs, of panels and of live
webviews, at least one transport, a first area, sessions that are lists of addresses, notes made of
characters):

* `OrchestrationProofs`: `ShiftTypeCorrect` and `AtMostOneActivePerStarter`.
  `OneActivePerStarter` is not inductive: between `ReadActives` and `InsertShift` a
  start relies on what it read.  `StartCoversItsOwn` says that whatever the process
  itself left active is in the set it still has to complete; nobody else can add
  to it, since only a process inserts shifts of its own, and that it stays so while
  others end shifts is `EndingKeepsStarterInv`.  `OnlyOperatorsStart` types the
  starter.
* `DispatcherProofs`, first part, the queue by itself: `QueueTypeCorrect`, `ClaimsAreNotStolen`
  and `SettledIsNotRequeued`.  The two action properties need the type invariant only;
  `StepIsFair` is what every step satisfies.
* `DispatcherProofs`, second part, the pump: `PumpInv` is inductive.  `WithinCap` alone is not: `OwedFits`
  adds that a decided run and a swarm not yet charged still fit under the cap, and
  `ChargesAShift` that a swarm costs at most its planner and its sub-runs.
  `Serialized` is what lets the other parts be preserved: it makes a start find no
  run, so that the row marked running is the only one (`RunningIsAttended`) and
  nothing is owed twice.  `SwarmRowExists` is needed for the refinement only: the
  row a swarm settles was not absent.  From `PumpInv`: `TypeCorrect`, `CapHolds`,
  `RunsAreSerialized`, `NoItemIsStranded`, and the two refinements
  `QueueImplemented` and `ShiftsImplemented`, which carry the theorems of the
  queue and of the shifts to the whole system.
* `BrowserProofs`, first part, the bridge: `BridgeTypeCorrect` (it holds exactly the refs
  whose callers wait) and `AnswersAreTrueAndStand`, for any calls, shells and reloads.  That
  "ok" means done is not inductive alone: a post outlives its page, so `PostsAreTrue` says it
  of every result on its way.  That the first answer stands rests on the type invariant: whoever
  was told is not pending, and `ReplyTellsWhoWaits` is what `reply_and_drop` does with that.
* `BrowserProofs`, second part, the pane: `PaneTypeCorrect` and `SurfaceFollowsAlways`, for any
  patches, visits and resizes.  The property speaks of rest only; the invariant says it of every
  moment by looking at what is still on its way: `EndsHidden` (the last invocation, or what is
  shown when none is left, is a "hide" wherever the surface does not belong) and `EndsShown`
  (where there is an element the last one shows it, or a frame will).  A "bounds" shows nothing
  that was never opened, hence `OpenedIsThere`; `HookKnows` is why a patch under the mirror that
  sends no "hide" needs none.
* `BrowserProofs`, third part, the strip and its webviews: `BothSidesAlwaysAgree`,
  `PrivateTabsAlwaysKeep` and `ChromeTypeCorrect`, for any tabs, addresses, saved sessions and
  number of live webviews.  Neither side sees the other, so `ChromeInv` says what the two streams
  between them will come to: the commands close what the strip has let go, and make a tab before
  anything else is done with it (`CommandsFit`); the last one that shows a tab shows the active
  one (`PointerFits`); what the callbacks say last of a tab is what its webview is (`DimsFit`);
  and no suspension of a private tab is on its way (`PrivateFits`).  The third does not hold of a
  strip that has lost a webview (`unborn`, see below), and is claimed only without one; the
  promise to private tabs holds also then.  A step of the strip puts commands behind the others
  (`SentFits`, `SentDims`, `SentPrivate`, `SentPointer`), a step of the native side takes the first
  (`TakenFits`, `TakenPointer`) and puts callbacks behind the others (`EndsKept`, `EndsSet`).
  That the eviction keeps to MAX_LIVE_TABS is a count, `FewComeFirst`: of the places of a list
  those with fewer than b before them are at most b.  `ChromeInv` also has every live webview in
  the list of recent tabs, so that the defensive branch of `live_by_recency` never runs, and the
  model leaves it out.
* `BrowserProofs`, fourth part, the row under the toolbar: `BarTypeCorrect` and
  `RowAlwaysFitsTheFields`, for any texts, keys and answers under way.  An answer with the latest
  number answers the latest question (`AnswersKnowTheirQuestion`); a label that counts another
  text than the field's has a recount waiting, or an answer for the field's text under way
  (`RecountIsComing`: the property alone is not inductive, since a count that is dropped leaves
  the old label).  `BrowserTypesCorrect` is the run's type invariant, of strip, row and pane.
* `ChatProofs`, first part: `OneBusyProcessAlways`, from the inductive `ProcInv`.  A process that
  is at work or has work is the one at hand (`Attached`); a start gives work to another
  one only when that one is dead or was forgotten, so between turns there must be no
  one-shot process at hand (`FreshOneShot`), the only end that keeps a transport must
  come from a duplex process (`ResultsAreDuplex`, `PortMatches`), and an exit must mean
  a dead process (`ExitedIsDead`).  `Quieter` is what every step but a start does to the
  processes.
* `ChatProofs`, second part, the ledger: `ChatTypeCorrect`,
  `NothingIsEverLost`, `RunsOnceAlways`, `LedgerAlwaysKeepsOrder` and
  `TurnsAlwaysEndForCause`, from the inductive `ConversationInv`, for any number of messages
  (there may be infinitely many) and of crashes.  `NothingIsLost` and `RunsOnce` fail as they
  stand inside a handler: it takes a message off deck, hands it over, and writes the row
  afterwards.  `PcKnows` says what the handler holds at each of these points: a message
  that is owed, is no longer on deck, and has or has not been run; `OnDeckIsOwed`
  and `RunsAreTold` say that otherwise queue, ledger and history agree.  `front_position` and
  `next_position` look at the smallest and the largest position, which exist because
  finitely many messages were recorded (`RowsShape`).  What an insertion, a removal, a move
  or the recovery does to an ascending queue are the lemmas `Appended`, `Pushed`,
  `Popped`, `Removed` and `Listed`.
* `WorkspaceProofs`, first part, the terminals: `TermTypeCorrect` and `ClosedShellsAlwaysEnd`
  from `TerminalInv`, for any number of views and shells.  A view may be closed, or end, at
  every await of `mounted()`, and two mounts may overlap, so the property needs what
  each view knows and hears at each await (`ViewsInStep`), that an id is given up only for a
  shell that no longer lives (`IdsAreKept`), and that a close that comes before the id is
  carried out when the id comes (`ClosedAreEnded`).  That a shell gets its startup command once
  needs who still owes it (`CommandsAreOwed`): two views never owe it to the same shell.
* `WorkspaceProofs`, second part, the work areas: `PagesAndShellsAlwaysFollow`,
  `DragsAlwaysApply` and `WorkTypeCorrect`, for any panels, areas, capacity and number
  of events under way.  `WorkInv` joins the shape of the state, `ShellsKept` (a close names only
  shells that were ended before it was sent) and `LayoutKept`, which is about revisions: they
  grow along what is on its way down (`RevisionsGrow`), one revision names one layout
  (`RevisionNamesLayout`), what waits on the page and the drag belong to the arrangement that
  is shown (`HeldIsOfThis`, `DragIsOfThis`), an event tells the layout it was made on
  (`EventsTell`), the page differs from an arrangement that was issued only by the order the
  drag made (`SeenIsPermuted`, `SeenIsRight`), and the last arrangement on its way is the
  LiveView's own (`LastIsDesk`, `CaughtUp`).  Together: an event the LiveView takes as current
  was made on the layout it has.  `DeskKept` adds for the type invariant that no panel stands
  twice and no area is over its capacity; for a reorder this is a count (`SameKeysApart`: an
  order of the same length over the same panels has none twice either).
* `DeskProofs`, first part, the spoken replies: `VoiceTypeCorrect` and `SpokenAlwaysAsAsked`, for
  any voices, lines and stops.  `stop_speaking` is two statements with the worker beside them, so
  `VoiceInv` follows a line from the page through the native calls and the queue to the worker
  (`LinesInStep`: each comes before all that are behind it), and says for each line that must not
  be heard which stop is still to come (`StopFollowsReplies` with the voice off,
  `AuditionsFollowStops` for a second audition).
* `DeskProofs`, second part, the note: `NoteTypeCorrect` and `DraftsAlwaysSettle`, for any notes,
  edits and clicks.  `SaveSettles` speaks of an editor at rest.  The invariant says what brings
  it there: the last patch on its way shows what the server has (`PaneCatchesUp`), an
  announcement of a draft is followed by its save unless the editor was closed in its pause
  (`DirtyIsFollowed`), a save clears it (`DirtyIsCleared`), and as long as nobody else writes
  the draft is in the file, on its way there, or waits for the timer (`NotYetOpen`,
  `OpenAlone`, `DraftIsOnItsWay`).
* `WorkspaceProofs`, third part, the strip: `TabsTypeCorrect`, `LayoutAlwaysKeepsPages` and
  `RequestsAlwaysEndAsTold`, for any pages, lists, requests and writes of another window.  That a
  layout keeps the pages is a fact about each plan (`JoinPlan`, `SeparatePlan`, `SwapPlan`) and then
  one about time, since a plan is made of one list and finished over another: `TabsInv` joins what a
  well-formed strip is (`StripOK`), what the other window may have written (`WindowOK`) and what a
  request on its way promises (`RequestOK`): the plan it carries keeps the pages of the list it was
  made of, and what its caller was told is what became of it.  `RollbackLosesNothing` was once said
  of the list in storage; the proof showed that this is false outside the run's bounds (a confirmed
  close from before a question may write a list that still has the duty page, while duty is off), so
  it now speaks of what the strip shows.
* `WorkspaceProofs`, fourth part, the paint filter: `PaintTypeCorrect` and
  `AlwaysPaintsTheStream`, for every stream, cut anywhere.  `StripPaint` is a recursive function,
  whose solution is shown to exist and to be the only one by induction on the length
  (`StripPaintIs`); then that filtering loses no text (`AllFilterWell`) and that a stream may be
  filtered in two parts wherever no sequence is cut (`AllGoOn`).  The invariant `PaintInv` adds what the screen
  has so far of the filtered whole (`FilteredSoFar`).  `WorkspaceTypeCorrect` (by `WorkspaceParts`: the
  part chosen moves as its own specification says, the others rest) joins the four parts.
* `DeskProofs`, third part, the composer: `ComposerTypeCorrect` and `NothingEverGoesAstray`, for
  any files, messages, caps and events under way.  A file is at each moment in one place: chosen, on
  the wire, staged with the LiveView, in a queued message or refused; `ComposerInv` says this of
  the form (`FormOK`), of what is under way in each direction (`WireOK`), of the queue (`QueueOK`) and
  of files and the cap (`FilesOK`).
* `NoteProofs`, the text of a note: `CommandsTypeCorrect`, `ViewIsAlwaysTheText` and
  `WordsAreAlwaysKept`, for every text, selection and sequence of commands.  `ViewIsTheText` has two halves.
  *The segments rebuild the line*: lines put back together are the text (`PutTogether`, `StartsAre`);
  the tokenizer is a recursive function over texts up to a length, so it is shown that such a
  function exists for every length and that two of them agree (`TokenizersExist`, `TokenizersAgree`,
  `InlineIs`), and then, by induction on the length, that its segments give the line back, with
  what each delimiter matches staying in the text (`InlineGivesBack`, `MatchFits`).
  *The buttons tell what a press does*: the tokenizer that decorates a line and the parser that the commands
  use recognise the same markers (`TwoParsersAgree`), from what each says of the runs of blanks,
  digits and marks a line begins with.  That the commands leave a text and a selection inside it
  (`CommandsFit`, `ToggleKeepsTheLine`) makes `CommandsInv` inductive.
  *The commands keep the words*: the words of a text are those of its parts in turn (`WordsJoin`),
  and no marker holds one (`StripIsCut`, `NewMarkIsMute`).  So an inline command keeps them with
  the three branches it has (`InlineKeepsWords`); a block command keeps them line by line
  (`LineKeepsWords`, `RewrittenWords`), and the caret, which belongs to a character, keeps the words
  before it (`RemapKeepsWords`, `MovedKeepsWords`, `BlockKeepsWords`).  That a tick leaves every line
  its kind needs that the text is read back as the lines it was made of (`ReadBack`) and that a
  task is no fence, whatever its box holds (`TaskIsNoFence`, `TickedRuns`, `TickedKinds`): one line
  that became a fence would turn all that follow into code.
* `DeskProofs`, at the end: `DeskTypeCorrect` and `DeskCorrect`, the four parts together (`DeskParts`).
* `ListLemmas`: induction over the natural numbers for a set of them (`ByInduction`, through the least
  number that is missing: the library's own theorem takes an operator, which the provers cannot
  instantiate), what appending, removing, inserting, filtering, cutting, folding and
  flattening do to what a list holds and to its holding nothing twice.

Model-checked only:

* the liveness properties `StopEndsEveryShift`, `QueueMoves`, `BrakeDrains`, `WorkIsServed`,
  `CrashRequeues` and `EveryCallReturns` (liveness and ENABLED are out of the prover's reach), and
  the violations.

## What the code does otherwise than it says

Four have a run that TLC ends with a counterexample; the quotations are in `PROJECT.json`.

* `reclaim_others`: the `:DOWN` handler requeues what a terminal agent had claimed;
  the comment calls the global reclaim safe.
* `swarm_crash_budget`: a swarm that goes down is charged nothing, and is retried:
  the real runs pass the cap.
* `resent_after_crash`: no code writes the status `sending` that recovery looks for, so
  a message that was handed over just before a crash is still `pending` and runs again.
  `RunsOnce` says that this is the only way a message runs twice.
* `overwritten_note`: a save carries no revision, so one in flight while the server adopts
  a newer file is taken as based on it, and writes over what another editor wrote.

The others are in the models, and have no run of their own:

* `dispatch.ex:181`: the conditional update of `claim_next` does not repeat the strategy, so
  a claim may take a row that has become a swarm's.
* `dispatcher.ex:140`: a run can start after `stand_down` has latched, because the kill switch
  was read before.
* `agent/chat.ex:38-40, 457`: a steer sent to one turn is written into the next, if that has
  started by the time the process takes the call, which carries no turn.
* `agent/chat_transport/claude_duplex.ex:103`: the duplex transport spawns its process before
  it refuses a line that is too large, and the error drops the handle.  The process has nothing
  to do, which is why `OneBusyProcess` holds.
* `web/live/status/chat_attachments.ex:187-188`: a refusal is state that "blocks the next send
  until it is dismissed"; a refusal still on its way when the message is sent blocks nothing.
* `web/live/status/chat_attachments.ex:388-390`: a chip shown again after a reopening may belong
  to a message that is already queued.
* `tauri/voice.rs:7-9`: a line the worker has taken, and not yet begun, when a stop comes takes
  the new generation and is spoken in full.
* `hooks/terminal.js:15-17`: two mounts of one key that overlap each start a shell.
* `hooks/tab_strip.js:124-125`: a subpage of Settings that was joined keeps a pane of its own
  beside the Settings tab.
* `chrome.js:129-130`: the tab that was active when the session was saved is not the one
  restored, when it was private or the restoring meets a tab opened meanwhile.
* `tauri/browser/mod.rs:161-162`: a tab whose creation overtakes a close may be without a webview.
* `browser/bridge.ex:16-17`: a timeout is no sign that no browser is there: a lost post or a
  slow page ends the same way, and the command may have been carried out.
* `web/live/browse_live.ex:187-192`: a run that ends while its page is not shown hands nothing back.
* `lib/chrome_bar.js:121-122`: "a newer keystroke owns the bar" only once its timer has fired: until
  then the chips of the older text appear.
* `lib/note_commands.js:14-16`: "every action toggles", but bold pressed with the caret inside bold
  text inserts an empty mark, and links, rules and fences are only inserted.
* `lib/note_commands.js:262-264`: a click on a box moves the caret to the start of its line.

## Hazards without a property

Each is true of the code, and in the model unless said otherwise; no document states what
should happen instead, so there is no property.

* Orchestrator: the ticker and the budget brake decide for one shift and stop the one that is
  active by then (`orchestrator.ex:110`, `dispatcher.ex:195`).  Staffing twice leaves two
  rows, and one inserted after the stop stays (`orchestration.ex:330-332`).
* Queue: the reply is mailed before the row is finished (`commands/dispatch.ex:145`, not
  modelled); the newest swarm row goes first (`dispatch.ex:56`); a run that times out requeues
  nothing (`dispatcher.ex:493`); the fridge file lags (`dispatch_projector.ex:42`, not modelled).
* Conversation: a steer read after the agent had finished starts a turn whose result ends the
  next one (`agent/chat.ex:1139`); recovered messages wait on deck (442); a removed message comes
  back with a restart (491); agents outlive their pipes (`agent_runner.ex:267`, not modelled).
* Tabs: a confirmed close writes the list from before the question (`hooks/tab_close_confirm.js`);
  a reload between a plan's save and its answer keeps a plan reported as failed
  (`hooks/tab_layout.js:22-36`); "current" may join an area that a joined tab holds already.
* Workbench: a terminal put into an area after its closing looked its terminals up keeps its
  shell (`hooks/workbench_areas.js:58-65`); a divider pressed and not moved leaves the arrangement
  that waited (`hooks/workbench.js:125`).
* Paint filter: a chunk that ends with ESC lets the rest of the sequence pass (`lib/ansi.js:28-36`).
* Composer: the text is cleared also when the gate turns the message away
  (`hooks/composer.js:37`); an upload that ends after the operator chose another conversation is
  staged there (`web/live/status_live.ex:132`); removing a chip of a queued message deletes its
  file; a late Escape cuts the next turn (`hooks/chat.js:16`).
* Notes: overwriting after a conflict writes the server's text, without the last keystrokes
  (`web/live/notes_component.ex:322`); italic on a selected bold word demotes it
  (`lib/note_commands.js:114`); a typed fence leaves the lines under it undecorated until the next
  render (`hooks/note_editor.js:240`, not modelled); an editor that is closed during the pause of
  its autosave takes the save with it, and its `note_dirty`, which names no note, may reach the note
  chosen next and call it "unsaved" until its next save (`hooks/note_editor.js:92`).  `UnsavedPasses`
  says that this is the only way "unsaved" stays.
* Browser: a failed read of the session lets the next save overwrite it (`chrome.js:94`); restoring
  while the first tab is private loads a saved page there (113); saves may be stored out of order
  (76, not modelled); a window opened by a private tab is an ordinary tab (353); the timer of a
  typed path fires after Enter (489); the blur timer takes the focus from the find field
  (`lib/chrome_bar.js:155`); a failed `browser_open` is not tried again (`hooks/browser.js:206`, not
  modelled).
* Bridge: two desktop shells both carry a request out, and a plain one answers "desktop app
  required" while the desktop acts; a restart of the bridge forgets the shells (not modelled); the
  guard at `hooks/browser.js:41` reads fields of the other hook and never holds.

## Not modelled

In the unattended loop: a database statement that raises (the hazard of
`record_outcome` is listed), provenance and trust flags, `done_count` and
`failed_count`, texts, the role and source filters of a claim, the reply mail, the
`mark_running` error branch (its only cause is an invalid changeset), the
projector's files.  The reads of one decision of the pump (shift, STOP file, queue)
are one step; what follows the decision is apart from it.

In `Chat`: a ledger that cannot be written (every function of `Deliveries` then
returns nil and the conversation goes on without it), conversations opened without a
ledger, the Codex and opencode transports, attachments, the transcript, cost, session
ids and thread bindings.  A process ends with its port: what an agent does after its
conversation crashed and closed its pipes is not in the repository.  True of the code,
in the model, and contradicted by no document: a message removed from the queue, or
wiped by a reset, has its row left as it was and comes back with a restart; recovered
messages wait for the next submission; a steer written just after the agent had
finished starts a turn there, whose result ends the next turn early.

In the window: drawing, labels, sizes, query parameters and animation; downloads, zoom and
history of the browser; the arithmetic of DOM ranges between text and surface (the commands are
checked on texts and offsets); folders and search of the notes; the transcript's window of
messages.  A native command that fails is modelled where the code handles it (a voice that does
not speak, an action of the bridge) and not elsewhere.

Of the application: the parts of the inventory without a module.  Library, memory, finance,
pockets, skills, settings, contacts and calendar are single statements with no protocol between
steps; the remaining page scripts draw; the CLI and the commands parse and authorize.

## Plan

In this order; each with its MC module, runs and mutants.

Done: `Dispatch`, `Orchestration`, `Dispatcher` and their proofs; `Chat` and the theorems of
its process and of its ledger; the window, from `AppTabs` to `BrowserBridge`, and the
theorems of all its parts: every invariant and every action property of a passing run
is a theorem.

1. `Chat`: an abstract specification, a mailbox in which each message is run at most
   once unless a crash tears it, and the refinement; a ledger write that fails.
2. `AppServer`: one connection, many threads; requests pending when it drops.
3. `BrowserPool` (checkout, owner and engine death) and `AgentMode` (takeover
   between observing and acting), composed.
4. `GmailSync` with the queue: cursor, partial failure, one item per message;
   `Notifications`: one firing per occurrence over a restart.
5. `Rekey`, `Pending`, `RateLimiter`, `Uptime`.
6. A raising database in `Dispatcher` (the pump restarts with its child alive).

Theorems after these: the refinement of a mailbox by `Chat`; a bound on the duplicate
assignments that two overlapping staffings leave; the pool's ownership invariant; the cursor
invariant of `GmailSync`.
