# waldoctl: a TLA+ model of the control-interface library

waldoctl is the Python package through which a robot cell's front end ("Waldo
Commander"), its plug-ins and its robot backends meet. Much of it is abstract
interfaces and plain data. This project models the part that has behaviour of
its own: skills, their cancellation and the commands they send, the table that
says what kind each command is, proposed edits and the diffs they carry, open
programs, listener channels, the setup of a cell and its cameras, synchronous
tools, a tool's telemetry, the passes of a dry run, worlds of shapes, and the
values (recordings, tick records, discovered plug-ins, rotations, snapshots,
signals, wrapped clients) that other code computes with. Paths below are relative to `src/src/waldoctl/`.

## The system

| Component | State it keeps | Operations | Interacts with |
|---|---|---|---|
| skills, `skills.py` | `_Execution`: cancelled, closed, stop_task; active invocation and observers in context variables | `async_call`, reads and calls through `_Guard`, `check`, `stop`, `report_progress` | asyncio tasks, timeouts and cancellation; the robot client; observers |
| programs, `programs.py` | source, saved source, pending edits, log, tabs | `propose`, `approve`, `reject`, `find`, `append`; `parse_unified_diff`, `_apply_unified_diff` | NiceGUI bindings that run inside an assignment; MCP clients that retry |
| notify, `notify.py` | two copy-on-write listener tuples | add, remove and notify, on two channels | every view; callbacks re-enter it |
| setup, `setup.py`; cameras, `camera.py` | immutable snapshots the host replaces | `with_*`, `without`, `frame_matrix`, `resolve`, `relative_pose`, `validate`, `world_pose` | planners, calibration, storage |
| recordings, `recordings.py` | immutable demonstrations | validation, `gaps`, `select`, `require_continuous` | status stream, replay |
| tick records, `ticks.py` | columns and blocks | `row_at`, `block_at`, `align_rows`, `following_error` | dry runs, playback |
| dry run, `dry_run_state.py`, `dry_run.py` | result fields, two revisions, playback | host assignments, `predicted_current` | host's simulation passes |
| robot status, `robot_status.py` | arrays and time series written in place | `set_deg`, `push`, `get_series_if_dirty`, `clear` | status loop, charts |
| shapes, `shapes.py`; worlds, `world.py` | immutable shapes, attachment epoch | `attach`, `detach`, `attachments_valid`, `pose_matrix`, codec | controller's world |
| discovery, `discovery.py`; tools, `tools.py`, `robot.py` | tools composed once per robot | listings, `discover_skills`, `ToolsCollection`, `ComposedToolsSpec` | installed packages |
| client and command table, `client.py`, `commands.py` | one marker per method | `command`, `command_table`, `unclassified` | wrappers that preview or step a program; the controller's queue, behind a link that loses messages |
| preview clients and requirements, `dry_run.py`, `skills.py` | none | `is_dry_run`, `missing_from` | guards and wrappers that forward attributes |
| synchronous tools, `sync_tools.py`, `tools.py` | one wrapper class per tool class, registered with its bases | `make_sync_tool`, attribute forwarding | threads of programs; backends' tool classes |
| signals, `signals.py` | none | `decode`, `encode` | the controller's I/O vector |
| execution speed, errors, record values, commander locator | small values and caches | validation, lookup | all of the above |

What is hard in it: several asyncio tasks share one guarded client, and a
cancellation, a timeout, a swallowed exception and the end of the invocation
may fall between any two suspension points; UI code re-enters `approve()` and
the notify loops from inside; calibrations and taught poses are used against a
later snapshot than the one they were made with; listings come in an order no
one controls; and several pure algorithms (diffs, row alignment, gaps, angle
extraction) have boundaries that examples miss. Correctness, per component:

- skills: no client operation after a cancellation, a stop request or the end;
  a cancelled root never reports success; the arm is stopped only on a real
  cancellation, and then the stop is reported; every invocation reports its end.
- commands: after a confirmed stop nothing of a cancelled skill moves the arm or
  is on its way, but for what the guard could not call back; a wrapper that
  follows the command table knows what is pending, though replies are lost.
- clients: a preview is told from a live client, and a requirement from an
  unmet one, through any wrappers.
- synchronous tools: a stand-in is an instance of what its tool is, and no
  coroutine of the tool comes back un-awaited, whichever threads wrap it.
- programs: a diff changes just the lines its hunks name; a retry queues
  nothing twice; each edit is applied or rejected once and none gets lost; an
  open program that shows no unsaved edits is what its file contains.
- notify: after a round every listener has seen the latest change.
- setup and cameras: everything stays rooted; what hangs on a frame moves with
  it as one body; a camera never answers from a place it is not in.
- telemetry: a sample that landed reaches a chart. Dry run: the run is compared
  with its own plan only. Worlds: an attachment counts only in the context it was
  declared for.
- values: what is computed agrees with its definition at every boundary, and no
  credential gets into a snapshot.

## Modules

| Module | Models | Correspondence |
|---|---|---|
| `SkillExecution` | `skills.py` on one asyncio loop | One variable for each field of `_Execution` and for what asyncio keeps (where a coroutine is, its open frames, `cancelling()`). `Invoke`, `Return`, `LeaveCancelled`, `LeaveFailed` are the parts of `async_call` between suspension points; `CallOp`, `BeginOp`, `OpReturns`, `OpRaises` are a guarded call; `KeepWaiting`, `StopAbandoned`, `StopAnswered`, `StopReply` are `_Execution.stop`. `EnterTimeout`, `Expire`, `LeaveTimeout`, `Spawn`, `Cancel` are asyncio, as the code uses it. |
| `SkillLifecycle` | what one execution promises | abstract; `SkillExecution` implements it (`ImplementsLifecycle`) |
| `UnifiedDiff` | `parse_unified_diff`, `_apply_unified_diff`, `_split_lines`, `start_index` | A diff is a sequence of classified lines, a text a sequence of lines with terminators; the parser and the cursor are folds. `Fits`, `Replaced`, `Undo`, `DiffOf` are reference definitions without a cursor. |
| `PatchedTexts` | any text and any diff | a text is given, a diff arrives line by line; states what `UnifiedDiff` promises of them |
| `EditFlow` | `EditFlow` and `Program.source` | `approve()` is two actions, since bindings run inside its assignment of `source`: `Approve` opens a call on the stack `approving`, `FinishApprove` drops the edit, `AbortApprove` is an exception from a binding. |
| `ChangeNotifier` | `ChangeNotifierMixin` | `rounds` is the stack of running notify loops, each with its snapshot of the listeners and its position |
| `CellSetup` | `SetupSnapshot`, `Frame`, `Pose`, `CameraCalibration` | Each `with_*` and `without` is one action guarded by `__post_init__`; teaching is `relative_pose` followed by `with_pose`. Measuring and storing a calibration are two actions: the setup may change in between. Transforms are an abstract group. |
| `Demonstrations`, `TickRecords`, `PluginDiscovery`, `EulerPoses` | `recordings.py`; `ticks.py`; `discovery.py`, `discover_skills`, tool collections; the matrices of `setup.py` and `shapes.py` | operators only: these parts keep no state |
| `RecordValues` | `snapshot_value` | A value is a graph of nodes, so that objects may be shared or contain themselves. The recursion of `visit` is a function of the levels that may still be entered; each operator passes on how many visits remain (`nonlocal remaining`). A copy is the set of routes that are shown in it, and its mark of truncation. |
| `Signals` | `DigitalSignal` | operators only; `Vectors` and `WriteIO` are the `io()` and `write_io()` of a backend. `Decodable` and `Encodable` are what `decode` and `encode` let pass, `Stray` any value that is neither a level nor a boolean. |
| `SkillGates` | `is_dry_run`, `Requires.missing_from`, the start of `async_call` | A client is a sequence: the backend's client, then the wrappers and guards around it; `Attr` is `getattr` on it. |
| `Subjects` | the subjects of these seven | builds one recording, program run, listing, rotation, set of signals, wrapped client or nested value part by part, and states what is computed from it |
| `TelemetrySeries` | `ToolTimeSeries` | One action per method. The clock is `time.time()`, which may be set to any time. |
| `DryRunPasses` | the two records of `DryRun` and their revisions | `PredictedCurrent` is the library's property; the passes that fill the records are the host's, as the comments at `dry_run_state.py:239` describe them |
| `ShapeWorlds` | `Shape.attach`, `detach`, `ShapeWorld`, `world.py` | One action per method, and those of the controller (`set_shapes`, `shapes`, a change of context). `WorldFromDict` is applied to what `WorldToDict` wrote. |
| `CommandTable` | `commands.py` and every marker in `client.py` | A class is a function from names to markers, an MRO a sequence of them; the sections follow the file. |
| `SkillCommands` | executions of `SkillLifecycle` that send commands | `Operate` is the guard letting an operation begin; what it then sends (`Send`) may be lost, refused, answered late or not awaited. `AskStop` and `Settle` are `_Execution.stop` seen from the link. The controller follows the return codes and the completion that `RobotClient` asks of it (`client.py:43`-`68`), the wrapper follows `command_table()`. |
| `SyncTools` | `sync_tools.py` and the tool classes | `LookUp`, `RegisterWith` and `Keep` are the three parts of `_wrapper_for` between which another thread may run; the registry of `ABCMeta` is the set `registered`. |
| `ProgramTabs` | `Program.is_dirty`, `mark_saved`, `ProgramTabs` | The lookups are the library's; `open`, `new`, `close`, `switch`, `save` and `reload` are the host's and do what their docstrings ask. A save is two actions, since the write takes time. |
| `HostParts` | composes `Subjects`, `TelemetrySeries`, `DryRunPasses`, `ShapeWorlds`, `ProgramTabs`, `ChangeNotifier`, `SyncTools`, `SkillCommands` | these share no state, so a behaviour exercises one of them, the one `subject` names |
| `FoldLemmas` | lemmas | numbers, finite sets and the folds of the community modules; the proofs build on it |
| `SkillExecutionProofs`, `SkillCommandsProofs`, `UnifiedDiffProofs`, `EditFlowProofs`, `CellSetupProofs`, `SubjectsProofs`, `HostPartsProofs` | theorems | each about the module it is named after; `UnifiedDiffProofs` is about `PatchedTexts`, and `HostPartsProofs` about `HostParts` and the parts it composes |
| `MC*` | instances for TLC | |

`EditFlow` extends `UnifiedDiff`, so an approval applies a real diff to a real
text. `SkillExecution` instantiates `SkillLifecycle` with a refinement mapping.
`SkillCommands` extends it, so what is proved of the detailed skills
reaches the arm: `SkillExecution` implements `SkillLifecycle`, and the commands
of any implementation of that are those of `SkillCommands`. `ChangeNotifier`'s
`Change` is `ProgramLog.append`. The other components meet only in host code.

Definitions whose comment begins with "Fault" are wrong versions of the
definition that follows them (a dropped guard, an off-by-one, a missing latch).
No specification uses them. Put in place of the right one, each makes TLC
refute the property it belongs to, which shows that the property watches that
code.

### What the models leave out

- Skills: a body is anything that calls the client, nested skills, timeouts
  and helper tasks, in any order. What else it may do is a set of habits, so
  that a run can say which of them it admits: `swallow` (catch its
  CancelledError), `touch` (use the guard while an exception unwinds), `absorb`
  (a client coroutine that ends normally although cancelled), `self` (cancel
  the task one runs in). A body that calls `task.uncancel()` is left out.
  Progress values, observers' own exceptions (the code
  logs them) and the fields of events are left out.
- Edits: ids are numbered in the order of queueing (`uuid4` in the code). A
  text is lines and terminators, and a line is a word.
- Setup: parameters, signals and TCP records refer to nothing and are left out.
  A tool's TCP is a transform; the flange is arbitrary wherever `world_pose` is
  asked. Finite-number and name checks are left out.
- Values: type checks of single numbers; columns of a tick record beyond one
  joint; rotations other than by quarter turns, hence rounding, which at the very
  boundary of a row or a gap is left out too, since times are whole ticks; panel
  classes that lack metadata, which are not told apart from those that cannot
  be loaded. In snapshots, two keys of a mapping
  that begin with the same 128 characters (the last one is kept), numbers and
  strings that are shortened by themselves, and arrays that are too large. A
  list may be longer than `MaxItems`, a mapping not: one of more than 256
  entries of which some are redacted, which costs nothing, loses the rest
  without a mark.
- Commands: arguments, and jogs and servo streams, which never queue. Requests
  arrive in the order they were sent; a controller that runs commands in
  parallel, or out of order, is left out. `pause`, `resume` and the execution
  speed do not change what is queued.
- Programs: file names and creation times; nobody but the host writes the files.
- Synchronous tools: what a verb does, and tool classes that are registered by
  hand. A class body is the names it declares and which of them are coroutines.
- Clients: members that a wrapper adds or hides; wrappers forward all.
- Telemetry: position and current are the number of the push that brought them.
  `LatestWasDrawn` says that a sample reaches a chart, not that it reaches each:
  the dirty flag is one for all of them.
- Worlds: kind, dimensions, margin and pose of a shape, which are checked and
  passed on, and the installation layer, which is alike in all worlds.

## Runs

| Run | Shows |
|---|---|
| `SkillTasks` | One task, a root and a nested skill, two cancellations, every habit and every answer to the stop request; or two tasks that share a guard, of which one may outlive the invocation. `CancelNeverSuccess`: a cancelled root never completes, even if its body swallows the cancellation. `CancelledReportsStop`: its cancelled event follows the stop's answer. `NoOpAfterStop`: no operation begins after a cancellation, stop or close, also behind the guard's `sleep(0)`. `StickyCancellation`: nothing completes after it. `ImplementsLifecycle`: each step is one of `SkillLifecycle` or none. |
| `SkillTimeouts` | Timeouts around calls and nested skills, with fairness. `StopOnlyWhenAsked`: a timeout inside a skill does not stop the arm. `EndIsReported`: an ended invocation said so. `StopIsReported`: a requested stop leads to the end, however often the root is cancelled meanwhile. |
| `SkillTimeoutTouch` | Finding: a body that uses the guard while its own timeout unwinds has the arm stopped (`docs/skills.md:79` says a timeout never does). |
| `SkillTornStop` | Finding: a CancelledError out of the stop request itself ends the invocation without a report. |
| `DiffLines` | Every text of up to two lines and every diff of up to four. A patch that is accepted replaces just the blocks its hunks name (`PatchIsExact`), can be undone, and zero-context diffs of all pairs of texts lead from one to the other (`DiffsInvert`); blank lines behind the last hunk are no context, and the final newline is kept (`EndsKept`). |
| `EditBindings` | Proposals, retries, typing and decisions, also from bindings inside `approve()`. `NoTwins`, `DecidedOnce`, `EveryEditAccounted`; the latter two while no binding decides an edit or raises. |
| `EditReentrant` | Finding: a binding on `source` that decides another edit makes `approve()` drop the wrong one. |
| `CellSetup` | Every order of edits, teachings, calibrations, tool and device changes. `FramesRooted`, `TaughtPosesFollow`, `FramesMoveRigidly`, `CamerasWhereMeasured`, `UnrelatedEditsKeepCameras`. |
| `FrameRemoval` | Finding: a frame that only a camera refers to can be removed (`docs/setup.md:32` says it is refused). |
| `HostParts` (values) | `ReplayTruthful`, `SpansReplayable`: what a recording says of its losses, its rate and its spans is true of it. `RowsMatched`: a row is shown at its time, and against the same command's row of the plan. `SkillsUnambiguous`: the skills found depend neither on the order of the entry points nor on broken ones. `PluginsShown`: the panels and tools shown are those their names load; no panel id is shown twice, and that of a working panel whose name nobody else has is shown; native tools come first, and a key finds the tool that is listed with it. `OrientationKept`. `SnapshotsTruthful`: a snapshot shows nothing behind the name of a credential, and what it does not show it says it left out. `SignalsSeparate`: an output reads back as written and touches no other channel, an input is not written, and of all vectors up to one level too long, with strays in them, only those of the controller are decoded. `ClientsSeenThrough`: previews and requirements are recognised through any stack of wrappers and running guards, and a finished skill runs nothing. |
| `HostParts` (parts) | `LatestWasDrawn`: with several charts on one dirty flag, a sample that landed is in a chart or still marked. `PredictionAnswersPlan`: however late the passes of several edits land, the run on show is of the plan on show. `StaleAttachmentsRefused`: an attached shape in a world out of a file, or one declared in another context than the world was read in, makes `attachments_valid` false. `EveryListenerCurrent`, `CalledOncePerRound`: callbacks that add, remove, change, notify and raise. `CleanIsOnDisk`: a program without unsaved edits is what its file contains, unless it was typed into while it was written. `SyncStandsIn`: whichever threads wrap tools. `ArmAtRest`, `PreviewAgrees`: commands of skills, of other clients and of a backend of its own, over a link that loses requests and replies. |
| `PanelNames` | Finding: of two panels with one entry-point name, a broken one hides the other, though "one broken plugin must not prevent others from loading" (`discovery.py:162`). |
| `DryRunGuard` | Finding: `is_dry_run` answers True for the guarded client of a live robot once its skill has ended, because the guard's refusal is a `RuntimeError` like that of a tool that is not selected yet. |

Six of the runs are expected to end in a violation; the quoted lines of the
docs or docstrings are in `PROJECT.json`.

### Bounds

Two invocations give a root and a nested skill, or two roots in turn; two tasks
give everything one may do behind the other's back, since `check` and the latch
are about one guard; two cancellations allow one during the wait for the
stop's answer; `MaxDepth` bounds the calls and timeouts open in a task, enough
for a timeout inside a nested call inside a timeout. The action constraint of
`SkillTasks` makes the bounds smaller once there is a second task: each is then
cancelled once, with two calls or timeouts open, and no body swallows a
cancellation or cancels its own task. The theorems cover the rest.
Three edits are one more than one approval and a concurrent proposal need;
nesting two is a decision inside a decision. Three callbacks let one be removed
and one added while the third, which may raise, is being called; a round inside
a round is the deepest that their snapshots tell apart.
Two lines and four diff lines include two adjacent hunks, an overlap, an
insertion at either end and a truncated hunk. Two frames make chains and
cycles, two poses a relation, two devices and two TCPs of one tool a stale
binding; the transforms are the six symmetries of a triangle, the smallest
group in which the order of a product matters. Recordings of three samples have
two intervals, so spans keep or lose a gap; three commands put a block between
two others; three providers are the case that two do not show. A nested
value has up to three nodes, each of which may refer to any before it and a
container to itself; under a budget of four visits, three levels and two items
of a list of three, each of the limits is the one that cuts some value short. Two charts and a buffer of two samples, on a clock of five times, cover a
full buffer, an eviction between two draws and a clock that is set back. Three
revisions with two passes at once let a pass of the first edit land after a pass
of the third was launched. Two names, one shape per layer and two contexts
suffice, since attachments are judged one shape at a time.
One execution with one user, two requests on the link and two commands suffice
for a command that is overtaken by the stop, lost with its reply, or sent
behind it; other executions are what `Intervene` is, and the theorem covers any
number. Of the methods, `teleport` discards, `estimate_payload` queues without
an index, and the backend's own command is once marked as it should be and once
in a way that `command` refuses. Two threads and three wrapper classes allow one
class to be made twice; of the three tool classes one overrides a verb, one a
subclass's attribute, one has a coroutine no wrapper declares. Two files, three
programs and two tabs let a program be closed while it is written and its file
be opened again. Four layers are a backend's client and three wrappers or
guards; two signals on at most three lines are an input and an output, or two
neighbours.

`SYMMETRY` in `CellSetup` permutes frames, poses and devices, which no
definition distinguishes; that instance has no liveness property.
`CHECK_DEADLOCK FALSE` stands where the system may come to rest: all
invocations have ended, every edit is decided, a bound is reached.

### Fairness

Only `SkillTimeouts` uses it. Assumed is what asyncio and the code's two-second
deadline guarantee: an unwinding exception propagates (`WF` of `Unwind`), a
thrown CancelledError reaches its suspended task, the coroutine that awaits the
stop request runs again once that ended, and the request ends, since
`request_stop` is under `asyncio.wait_for` with two seconds (`SF`, because
other tasks' turns disable these steps in between). Nothing is assumed of
bodies or of the client's coroutines, which may hang.

## Proofs

| Theorem | Says | Rests on |
|---|---|---|
| `SkillExecutionProofs!TypeCorrect` | `TypeOK`, any tasks, invocations, habits and bounds | one lemma per group of actions; stack lemmas `PopStack`, `PushStack`, `ExpireStack` |
| `SkillExecutionProofs!NoOperationAfterStop` | `NoOpAfterStop` | `LatchInv`: `TypeOK`, a stop request never exists without its latch (`StopLatched`), and a task suspended in a guarded call has a guard (`GuardHeld`). The code's check reads the latch and the closed flag only; the invariant is why that covers the stop request. |
| `SkillExecutionProofs!CancellationIsSticky` | `StickyCancellation` | `LatchInv`: the step that would complete passes `check`, which reads the latch |
| `SkillExecutionProofs!CancelledReports` | `CancelledReportsStop` | `LatchInv`, and the stop request's answer, once there, stays |
| `SkillExecutionProofs!CancelledNeverSucceeds` | `CancelNeverSuccess` | `CallInv`: an open call is of a started invocation (`FramesHeld`) and in one place (`CalledOnce`), a task in `stop()` is there for its innermost call (`StopsAtRoot`), contexts name what has started (`Known`), and a root's guard is closed just when its call is over (`EndsClosed`). Beside it `AskedCancels`: what asked a root to end stays visible until its call is left, in `cancelling()` or as an expired timeout below the call, also when the body swallows the CancelledError. |
| `SkillExecutionProofs!EndsAreReported` | `EndIsReported` | `CallInv`, if the stop request's own task is never cancelled (`"torn" \notin StopOutcomes`). `SkillTornStop` is what happens otherwise. |
| `SkillExecutionProofs!StopsOnlyWhenAsked` | `StopOnlyWhenAsked` | `TaskFacts`, under `Careful`: bodies do not touch the guard while unwinding, absorb or swallow a cancellation, and one that cancels its own task has no helper tasks. While a CancelledError unwinds, each root call around it was then asked to end, or a timeout above it has expired and takes the error back (`AllTold`). TLC refutes the property with `touch` (the finding `SkillTimeoutTouch`), `absorb` or `swallow` in one task, and with `self` beside a helper task: the helper latches the nested execution it works for, and what leaves that stops the one around it. |
| `SkillExecutionProofs!LifecycleImplemented` | `ImplementsLifecycle`: `SkillExecution` implements `SkillLifecycle` | `CallInv`; one lemma per action, that it maps to an action of the lifecycle or to none |
| `SkillCommandsProofs!ArmComesToRest` | `ArmAtRest`, any executions, users, calls, markers and lengths of link and queue | `RestInv`: a stop is on the link, or confirmed, only of an execution that asked for it; from then on whoever may still send is late or waits for a reply (`OthersWait`); and behind the stop on the link are only the late (`BehindStop`). So a stop that arrives empties the queue, and only commands of the late can follow. |
| `SkillCommandsProofs!WrapperAgrees` | `PreviewAgrees`, any subset of the methods of `client.py`, and any command of a backend's own that `command` accepts | `PreviewInv`: the backend's command was one that `command` accepts, and an index was told only for a command the controller had queued; that what `command_table()` says of each method is what the controller does with it, method by method |
| `UnifiedDiffProofs!PatchReplacesBlocks` | `PatchIsExact`, any text, diff and words | The states of each fold (`FoldSteps`). While a hunk's body is applied, it went through exactly if the old side so far stands at the cursor, and then the new side so far is what was written (`BodyApplied`); while the hunks are applied, the cursor is behind the last one's block and the text so far is their pieces joined (`HunksFit`, `PiecesJoined`). `StartIsBegin`: the insertion rule of `start_index` is the place of an empty block. |
| `UnifiedDiffProofs!EndsLeaveNoTrace` | `EndsKept`, any text, diff and words | the parser reads line by line (`ParsedLast`) and stands still at a blank line behind a complete hunk (`BlankIgnored`); `JoinEnds`, about the joined text's last line |
| `UnifiedDiffProofs!DiffsLeadThereAndBack` | `DiffsInvert`, any texts and diff | Each reversed hunk stands where the growth of those before it moved it (`ShiftAddsUp`), fits there (`UndoneHunks`), and the pieces put back are stretches of the old text (`TakenBack`). The other way: what a diff cuts out lies between a common prefix and a common suffix (`DiffCuts`), the patch that says so parses into that one hunk (`SaidParses`), and the hunk applies (`OneHunkApplied`). |
| `EditFlowProofs!TypeCorrect`, `RetryQueuesNothing` | `TypeOK`, `NoTwins` | `FlowInv`, the two together: bindings that propose inside `approve()` are why the sequence `approve()` slices is not the one it searched |
| `EditFlowProofs!EditsAccounted`, `DecisionsAreFinal` | `EveryEditAccounted`, `DecidedOnce` | `FlowInv` with `AccountInv` while nothing meddled: the edit of an open `approve()` is still at the index that call remembers and already counts as decided, all others are pending and undecided or gone and decided once. The property itself is only about the time between calls and is not inductive. |
| `CellSetupProofs!TypeCorrect` | `TypeOK` | `SetupInv` |
| `CellSetupProofs!TaughtStay` | `TaughtPosesFollow`: a taught pose resolves to where it was taught, moved by what its frame moved since | `TaughtInv`: the stored values are where the pose was taught, seen from its frame of then; then the group laws |
| `CellSetupProofs!CamerasTruthful` | `CamerasWhereMeasured` | `MeasuredInv`: a stored or a pending calibration, composed with the transform it was bound to, gives where the camera was |
| `CellSetupProofs!FramesStayRooted` | `FramesRooted` | `TreeInv`: what `__post_init__` accepted, of finitely many frames. `frame_matrix` walks up without a visit to the same frame twice; a smallest set of unvisited frames from which it reaches WRF without a parent chain would contain a smaller one. |
| `CellSetupProofs!FramesMove` | `FramesMoveRigidly` | `TreeInv`; `FrameOnParent`: a frame is its parent's matrix times its own values, however much of the walk's budget is used; `MovesAsOne` for what is below the moved frame, `SameAbove` for the rest |
| `CellSetupProofs!CamerasKept` | `UnrelatedEditsKeepCameras` | `TreeInv` and `SameAbove`: the matrix of a frame depends on the frames above it only |
| `SubjectsProofs!SignalsKeptApart` | `SignalsSeparate`, banks of any size, and `OthersRefused`: of all sequences, of any length, only the controller's vectors are decoded | `SubjectOK`: what a subject of each kind consists of, whatever its length; `VectorsDecoded`: what `decode` lets pass is a vector of the controller's; `BitRead`: a signal reads one bit of its own bank, never the E-stop's |
| `SubjectsProofs!ClientsAnswerThrough` | `ClientsSeenThrough`, any stack of wrappers and guards and any features | `SubjectOK`; `AttrThrough`: an attribute is the backend client's, unless a guard around it is shut |
| `SubjectsProofs!SpansMayBeReplayed` | `SpansReplayable`, recordings of any length and any indices | `SubjectOK`; `SpanShape`, `GapsAreTorn`: the gaps of a span are those intervals of the whole that are torn, shifted |
| `SubjectsProofs!ReplayMayBeTrusted` | `ReplayTruthful`, recordings of any length | `SubjectOK`. The publications each gap stands for are disjoint sets (`LostApart`) that together are all that were not recorded (`LostTogether`), and the sum of their sizes is the size of their union in whatever order it is taken (`SumOfParts`). A continuous recording is counted up interval by interval (`CountUp`). |
| `SubjectsProofs!RowsAreMatched` | `RowsMatched`, any trajectory and tick period | the blocks of rows laid behind one another (`Laid`); the rows counted as cells, since the fold's sum is the cardinality of disjoint sets (`PartsAddUp`); each row's own alignment (`RowAligned`) |
| `SubjectsProofs!SkillsAreUnambiguous` | `SkillsUnambiguous`, any entry points | `Sorted` is a rearrangement, by pigeonhole on the ranks (`SortedRearranged`); what is found depends only on the set of positions taken, any of which may have been the last (`TakenInAnyOrder`) |
| `SubjectsProofs!PluginsAreShown` | `PluginsShown`, any entry points and any native tools with keys of their own | `ListByName` puts the listed entries in order of name (`ListedByName`); then the states of the three loops over the listing (`PanelsListed`, `ToolsListed`, `ToolsFree`), and what a key or a name finds where keys and names differ (`KeyFinds`, `NameLoads`) |
| `SubjectsProofs!PosesKeepOrientation` | `OrientationKept`, all three quarter turns | a rotation written out in the sines and cosines of its turns (`ThreeTurns`, `PoseForm`); the angle of a sine and a cosine has them (`AngleFound`); where roll and yaw turn about one axis, the one angle chosen is their sum or difference (`UprightKept`) |
| `SubjectsProofs!SnapshotsTellTheTruth` | `SnapshotsTruthful`, values of any shape and any budget, depth and item limit | The rows of the table of copies follow from one another (`LevelsExist`). Row by row: what is shown are open routes (`CopiesHonest`), and a copy without a mark shows all of them (`CopiesComplete`): an item either adds its routes, or is redacted, or sets the mark, and the mark stays (`ItemSteps`). |
| `HostPartsProofs!LatestDrawn` | `LatestWasDrawn`, any number of charts, any buffer and any clock | `SeriesInv`: the property, which is inductive here, beside the domain of `drawn` |
| `HostPartsProofs!PredictionsAnswer` | `PredictionAnswersPlan`, any programs, edits and passes | `PassesInv`: a record or a pass of the newest revision is of the program as it is, none is newer, and two records of one revision are of one program |
| `HostPartsProofs!StaleRefused` | `StaleAttachmentsRefused` | `WorldInv`: the world a client holds has the context it was read in, a file none, and every shape anywhere is one its constructor lets pass, so that none is attached for context zero |
| `HostPartsProofs!OncePerRound`, `ListenersCurrent` | `CalledOncePerRound`, `EveryListenerCurrent`, any callbacks and depth of rounds | `NotifierInv`: a listener that is out of date is still to be called by the innermost loop, while nothing raised: a change in a callback starts a loop over all listeners |
| `HostPartsProofs!CleanTabsOnDisk` | `CleanIsOnDisk`, any files, programs and sources | `TabsInv`: one tab per id (`IdsDiffer`) and per file (`PathsDiffer`), one save at a time per program and per file (`WritersAlone`), and what a program has as saved is what its file contains (`SavedIsOnDisk`) |
| `HostPartsProofs!StandInsAnswer` | `SyncStandsIn`, any tool classes and threads | `SyncInv`: a wrapper class in the cache or in use is registered with the bases of the tool class it stands for and no other (`StandsFor`); one being made will be, and nobody else has it yet (`MadeFor`, `NobodyElse`). Hypotheses: an override of a coroutine is a coroutine (`OverridesAgree`) and no tool is both an electric and a pneumatic gripper (`OneGripper`). The code leaves the first to the type checker; of a tool of both kinds it gives the electric verbs only. |
| `HostPartsProofs!EveryPartItself` | `HostSpec` implies the specification of each part with state of its own | a step of one part leaves the variables of the others alone |
| `HostPartsProofs!HostKeepsPromises` | all invariants of the run `HostParts` but `SyncStandsIn`, of the parts side by side | `EveryPartItself` and the theorems above. For values: a host either builds one, as `Subjects` does, or exercises a part, and then nothing is said of values (`ApartPromises`). `SyncStandsIn` follows from `EveryPartItself` under the hypotheses of `StandInsAnswer`. |

The action properties follow from the invariant before and after the step. Most
properties are not inductive by themselves, since they speak only of some
moments (the end of an invocation, a round that is over, the time between two
calls) and the invariant is what keeps them prepared in between.

Recursion is handled without induction theorems: the recursive function is a
choice of one that satisfies its equation, so the proofs first show that there
is one, by a least counterexample (`LeastNumber`, `SmallestSubset`) by a table
in closed form (`TakenApart`), or by one whose rows follow from one another
(`LevelsExist`), and then reason with the equation. Folds over
sequences are treated alike, once and for all (`FoldExists`), and unfolded into
the states they go through (`FoldSteps`). For this `frame_matrix` recurs on the
set of unvisited frames alone, `RemoveListener` is stated by the order it keeps,
and the visits of a nested value recur on the levels left instead of on the
value.

Only `StopIsReported` is model-checked and not proved: liveness under fairness is
outside the prover's reach. The safety it rests on is proved (`EndsAreReported`,
`CancelledReports`). What TLC refutes, the six findings, is of course not proved
either.

Assumptions: the named `ASSUME`s of the modules. They say that bounds are
natural numbers, that habits and outcomes are among those listed, that WRF and
TCP are no frames of the user, that the calls are methods of `client.py` or the
backend's own with markers that `command` accepts, that a class's bases are
classes and its body names what it defines, and that the transforms are a group
(identity, inverse, associativity), which holds for rigid transforms up to
rounding. TLC evaluates all of them. The host's passes and the controller are
taken to be as the library's comments describe them.

## Where code and docs disagree

Besides the six findings above, these are known and have no run yet:

- `docs/setup.md:20` describes rotations as Rz·Ry·Rx about fixed axes;
  `setup.py:59` and its docstring compute Rx·Ry·Rz. `EulerPoses` follows the code,
  and `shapes.py:394` uses the other convention.
- `programs.py:258` promises the final-newline state; a text whose newline-less
  last line is replaced by an empty line ends in a newline afterwards.
  `EndsKept` excludes that case.
- `programs.py:227` counts a hunk's lines against its header only in sum: a hunk
  may take more old lines than announced.
- `robot_status.py:99` measures the time since the last sample on the wall clock.
  Once that is set back, `push` drops every sample until the clock has caught up,
  though `robot_status.py:88` says it does so only if one landed less than
  `min_interval_s` ago, and `robot_status.py:73` that pushes are unconditional.
- `programs.py:375`: a binding on `source` that raises leaves the edit pending
  although its diff was applied; `programs.py:364` says "then drop it".
- `programs.py:432` has the host call `mark_saved` "after a successful disk
  write"; what was typed during the write then counts as saved. `CleanIsOnDisk`
  leaves such programs out until they are saved or reloaded again.
- `signals.py:47` refuses "a different layout" of the I/O vector, of which
  `decode` compares the total length only: two banks of other sizes with the
  same sum pass.

## Not modelled

- What the methods of `client.py` and `tools.py` do: they are abstract, and only
  their kind, their return codes and what they do to the queue are modelled.
  `joints.py` and most of `robot.py` are abstract properties.
- Plain data: `status.py`, `settings.py`, `scene.py`, `panels.py`, `results.py`,
  `types.py`; `robot_status.py` beside `ToolTimeSeries`, `dry_run_state.py`
  beside its two records, execution and recording state in `programs.py`: fields
  the host assigns.
- `errors.py`: a value class and its messages. `execution.py`: one readback that
  is validated when it is made; its transitions are the controller's.
- `_commander.py` and `__init__.py`: one module variable, and the exported names.

## Plan

Done: skills, diffs, edits, notify, setup and cameras, values, the parts a host
drives, commands, synchronous tools and program tabs, in this order, as the
hazards come; and the proofs of all safety properties the passing runs check.
Next:

1. `StatusRate` (`robot_status.py`), playback (`dry_run_state.py`) with the tick
   records it indexes, and `resolve_variant_tcp` (`tools.py`).
2. Skills: observers that raise or cancel, `discover_skills` joined to
   invocation.
3. Proofs: `StopOnlyWhenAsked` with a helper task beside a body that cancels its
   own task, as far as TLC confirms it.
