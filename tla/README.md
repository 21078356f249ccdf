# BetterNTE in TLA+

BetterNTE automates a game: it captures the game's window, finds pictures and
text in it, and sends keys and clicks. What it does is written in JavaScript
*scripts* and in *flows*, graphs of steps that run scripts. The program is a set
of Rust crates (`src/crates/`) and a Tauri client.

This directory models the part of it that is hard to test: what happens when
hotkeys, commands of the client, the capture loop and running flows start, stop,
enable, reload and call scripts at the same time, when inputs fail, time out or
lose their caller, when the engine is stopped and reconfigured while it captures
and records, when scripts share one context with its caches and its storage, and
what the parser lets through to the flow executor.

Eight modules model the code, two are abstract specifications, the rest hold
proofs:

| Module | Component | Code |
|---|---|---|
| `ScriptRuntime` | registry of scripts, the one task slot, cancellation, triggers | `betternte-script/src/runtime.rs`, `quickjs/script.rs` |
| `TaskSlot` | what the task slot promises; `ScriptRuntime` and `EngineControl` refine it | `runtime.rs:290-302`, `:437-457` |
| `CtxBridge` | how JavaScript waits for async `ctx` methods; jobs | `betternte-script/src/quickjs/bridge.rs` |
| `EngineControl` | who may start and stop what: the engine's lock, flows, their executor and progress | `betternte-engine/src/{lib,task_groups,scripts,flow_runner}.rs`, `betternte-runtime/src/executor.rs`, `betternte-client/src-tauri/src/` |
| `InputPipeline` | how an input reaches the game: mutex, queue, failover, backends, binding | `betternte-input/src/{queue,queued_controller,failover,recording_controller,win32}.rs`, `betternte-engine/src/{script_ctx,capture}.rs` |
| `SerialWorker` | what an input pipeline promises; `InputPipeline` refines it | `queue.rs:1-6`, `queued_controller.rs:17-21` |
| `EngineLifecycle` | start, stop, set_config, the capture loop, the replay recorder | `betternte-engine/src/{lib,capture,replay_recorder}.rs` |
| `FlowParser` | loading, validating, saving and deleting flows, the search for cycles, task groups | `betternte-runtime/src/parser.rs`, `betternte-engine/src/task_groups.rs` |
| `FlowExecution` (extends `FlowParser`) | running a loaded flow, nested flows | `betternte-runtime/src/executor.rs`, `step_handlers.rs`, `variables.rs`, `betternte-engine/src/flow_runner.rs` |
| `ScriptContext` | the context all scripts share: scope, frames, caches, OCR, storage | `betternte-engine/src/script_ctx.rs`, `betternte-script/src/runtime.rs` |
| `ScriptRuntimeProofs` | theorems about `ScriptRuntime` | |
| `BridgeProofs` | theorems about `CtxBridge` | |
| `EngineProofs` | theorems about `EngineControl` | |
| `FlowProofs`, `RunProofs` | lemmas about `FlowParser`, theorems about `FlowExecution` | |
| `LifecycleProofs` | theorems about `EngineLifecycle` | |
| `InputProofs` | theorems about `InputPipeline`, and that it refines `SerialWorker` | |
| `ContextProofs` | theorems about `ScriptContext` | |

`MC*.tla` give the modules their instances, `MC*_<run>.cfg` are the runs.

## The system

### Components

| Component | State it keeps | Operations | What is hard | What makes it correct |
|---|---|---|---|---|
| Script runtime (`runtime.rs`) | `scripts` (RwLock), `active_task`, `active_cancel` | load, reload, enable, disable, start_task, stop_task, call_library, tick_triggers, shutdown | every operation may run on another thread; entries are taken out while JavaScript runs; hooks run under the lock | one task at a time, the slot is given back, no script is lost, a stop is final, no hook on a stale entry |
| Script instance (`quickjs/script.rs`) | the instance's cancellation token | start, stop, onCapture, hooks | start resets the token others cancel | a cancelled task leaves |
| ctx bridge (`quickjs/bridge.rs`) | the bridge thread and its channel, the nesting depth, jobs | `__invoke`, post*, jobWait, jobCancel, jobGc, shutdown_bridge | calls nest through libraries; callers leave; threads end | each caller is answered once; no call waits for its own thread; jobs settle |
| Engine (`betternte-engine`) | flow_executor, flow_progress, runtime, contexts, capture loop | start, stop, pause, run_script, run_flow, stop_flow, stop_all, enable_trigger, reload | a flow's task outlives the guard it was started under | the executor and the progress are those of the flow that runs; a stop ends it |
| Flow executor (`betternte-runtime`) | current step, cancelled flag, variables | run, cancel | retries, timeouts, nested flows | a cancelled flow ends |
| Client (`betternte-client/src-tauri`) | the engine behind a tokio RwLock | hotkeys, commands | fair queue, guards kept across awaits, 500 ms timeouts for commands only | no deadlock, the emergency stop acts |
| Engine lifecycle (`lib.rs`, `capture.rs`) | state, config, capture_stop/join, replay_stop/join, the loop's own copies | start, stop, set_config, capture_loop | a loop may outlive the 3 s of the join; a loop copies the configuration; black frames change the method | one loop and one recorder the engine can tell; the loop runs the set configuration; it comes to tick |
| Flow parser (`parser.rs`) | the search's path and marks; the engine's `flows_store` | parse, validate, detect_cycles, parse_group; save_flow, delete_flow | any order of steps, aliases that repeat; `save_flow` goes past it | no cycle let through, none invented |
| Input pipeline (`betternte-input`) | bounded queue, failover state, held keys | submit, run_with_failover, bind, drop | callers are dropped, attempts time out, two backends, a new pipeline beside an old one | inputs in order and once per backend; who pressed a key releases it; the fallback is earned; calls return |
| Script context (`script_ctx.rs`) | template directory, design resolution, frames, caches, OCR engine, cancel flag | ctx methods | one for all scripts; each field has a lock of its own | a call works on its own frame; a script finds its scope again after a library; its storage is its own (it is not: `storage`) |
| Playback, loaders, watcher, capture backends, vision, overlay, notifications, helpers | files, native handles | I/O and numerical code | | not modelled |

### How they interact

A hotkey or a command takes the engine's `RwLock` (`read_engine`,
`write_engine`; hotkeys take it directly) and calls the `Engine`. `run_script`
awaits `ScriptRuntime::start_task` with the read guard held. `run_flow` needs the
write guard, spawns a task and returns; the task runs `FlowExecutor::run`, whose
script steps call `enable_script` and `start_task` of the same runtime, without
the engine's lock. The capture loop calls `tick_triggers`. JavaScript calls
`ctx.*`, which goes through the bridge to the script context; `ctx.call` and
`ctx.runScript` come back to the runtime from there. A stop sets the shared
context's flag and cancels the token in `active_cancel`; JavaScript sees either
between two continuations, and while it waits for the bridge.

An input method of the context takes the mutex of `input_controller` and awaits
the pipeline behind it: a recording wrapper, a queue with a worker if there is a
rate limit, failover, and one or two backends. Binding a window puts a new
pipeline there. `Engine::start` binds, spawns the capture loop and, in record
mode, the recorder, which reads the event bus and whose session the loop's
`RecordingScreenCapture` saves frames to; `Engine::stop` ends both.
Loading and saving fill `flows_store`, of which `run_flow` takes a copy.

## ScriptRuntime

One action is the code between two acquisitions of a lock. `pc[c]` says where
caller `c` is, `key[c]` the name it resolved, `held[c]` the entry that it has
taken out of `scripts`. `mapLock` is the caller that keeps the registry's write
lock while a hook runs under it (`enable_script`, `disable_script`, the end of
`reload_single_script`); `taskLock` is the one that keeps `active_task`'s, which
`stop_task` holds while it takes `active_cancel`'s (`StopLock`, `StopClear`). An
entry is what cancellation and enabling tell apart:
`enabled`, `cancelled` (the flag of its instance's token), `active` (whether
`active_cancel` holds a clone of that token, wherever the entry is by now).
`tickTodo`, `tick` and `tickOut` are the locals of `tick_triggers`. Two history
variables are read by properties only: `stopped` (a `stop_task` has emptied the
slot by force) and `gone` (scripts never loaded, or dropped by a failing
`on_enable`, a dropped future, a panic or shutdown).

| Operation | Actions |
|---|---|
| load_from_dirs | `LoadDirs` |
| reload_single_script | `ReloadSnapshot`, `ReloadSwap`, `ReloadEnter`, `ReloadHook` |
| enable_script, disable_script | `EnableResolve`, `EnableEnter`, `EnableToken`, `EnableHook`; `DisableResolve`, `DisableEnter`, `DisableHook` |
| start_task | `StartResolve`, `StartClaim`, `StartTake`, `StartPutLibrary`, `StartToken`, `StartReset`, `StartEnable`, `RunEnds`, `RunCancelled`, `StartClear`, `StartPut`, `StartRelease`, `StartDropped` |
| stop_task | `StopRequest`, `StopToken`, `StopName`, `StopTake`, `StopPut`, `StopLock`, `StopClear` |
| call_library | `LibResolve`, `LibTake`, `LibReturns`, `LibPut` |
| tick_triggers | `TickCollect`, `TickTake`, `TickCapture`, `TickJoin` |
| shutdown | `ShutdownList`, `ShutdownTake`, `ShutdownDrop`, `ShutdownDone` |

`StartDropped` is the timeout of a flow's step, which drops the future of
`start_task` at an await. It cannot fire while JavaScript runs, because that
blocks its thread.

Runs:

- `tasks` (114,435 states): two threads start, stop, disable, reload and load a
  task and a trigger, so that hooks keep the registry's lock while others wait
  for it, and a stop keeps `active_task`'s. `OneTaskUnlessStopped`, `SlotOwned`,
  `StopSticks`, and under fairness `CallsReturn` and `CancelledTaskEnds`.
- `triggers` (1.8 million states up to symmetry of the callers): a trigger and a
  library, enabled, disabled, ticked, called, started, reloaded and shut down by
  two flow threads and the capture loop. `TypeOK`, `HookUnderLock`, `NeverLost`.

`SlotOwned` leaves out what the code loses (`MayOrphan`): a slot that names a
trigger, whose failing `on_enable` leaves `start_task` by `?`, and any slot where
a flow's future may be dropped. `NeverLost` excuses such entries by `gone`; it
says that an entry of the name is left, not which instance. `HookUnderLock` says
that `enable_script` and `disable_script` find the flag as they have checked it;
the `on_enable` that ends a reload does not look at it (runtime.rs:210-212).

## CtxBridge

A *frame* is JavaScript that is running: a script's on its own thread, or a
library's on whatever thread the `ctx.call` runs. `inv[f]` is where the frame's
`__invoke` is; `depth` is `INVOKE_SYNC_DEPTH`; `queue[b]`, `busy[b]` and `dead`
are the bridge threads, `nested[f]` what f's nested thread executes, `host[l]`
the thread library l runs on. A request whose caller has left keeps `from =
None`. A job is followed from the post to the end (`job`, `task`, `taskOn`).

A method is one that returns; what it computes is left out. `ctx.runScript` is
left out: from a task it is refused, since the slot is taken. A frame's jobs are
represented by one.

What scripts there are, what they call and what may end a bridge thread is
`plan`, chosen at the start. Runs: `bridge` (122,428 states) with five plans:
two scripts that share a library while methods panic and the bridge is shut
down; a script that posts a job and calls a library while methods panic; a
script and its job with panics and shutdowns, two bridge threads at most; a
library that posts, from a nested call; and a script whose post is nested when
another script's call is on its way.
`orphan`: see Findings.

A job posted by a nested call has no task left as soon as the call returns, and
who waits for it waits for ever (`WaitsInVain`; see Known disagreements).
`ScriptCallsReturn` says that nothing else holds up a script: it ends its call
or its wait, or it or a library waits in vain. `JobsHaveTasks` leaves those jobs
out. A frame that waits in vain has no step, so `bridge` does not check for
deadlock.

## EngineControl

`readers`, `writer` and `waiting` are tokio's RwLock: first come, first served.
Commands leave the queue after 500 ms (`GiveUp`), hotkeys do not. `pc` is where
a client is inside its operation; the three parts of `stop_all` and `stop_flow`
are steps of their own, in the order of the code, since the lock lets several
readers in and a flow's task takes no part in it. `executor`, `progress` and
`progressLock` are `flow_executor`, the status in `flow_progress`, and the write
guard that a run keeps from its report to the clearing of the executor. `at[r]`
and `tries[r]` are the task of run r. `start_task` and `stop_task` are one step
each (`Start`, `StopScript`): their interleavings are in `ScriptRuntime`.

Runs: `flows` (88,400 states), a hotkey and a command client with two flows and
a retry; `starved`, see Findings.

## InputPipeline

`turn` is the mutex of `input_controller` (tokio's, first come, first served):
its holder, then who waits. A pipeline is known by the bind that made it; what
is `installed` gets the calls, an older one may still drain. `queue[p]` and
`exec[p]` are the commands of its channel and the one it executes, with the
backend of the attempt, how far it is and which backends it was tried on;
`from` becomes None when the caller's future is dropped, which an action
(`Dropped`) may do at any await. `active` and `failures` are `FailoverState`.
A key is down by `SendInput` (foreground) or by a posted message (background).

| Operation | Actions |
|---|---|
| an input method of ctx | `Call`, `NoController`, `RunsItself`, `Submit`, `Returns`, `Dropped` |
| the worker | `WorkerTakes`, `WorkerPanics`, `Retire` |
| run_with_failover | `FirstBackend` (probe or active), `SendEvent` / `AttemptSucceeds`, `EventFails` and `TimesOut` / `AttemptFails` |
| Win32Input | `Press`, `Release`, and `ReleaseHeld` for its `Drop` |
| bind_script_ctx_hwnd | `AskBind`, `Bind` |

Abstractions: the clock of `next_probe_at` is a choice, so the primary may be
probed or not; the rate limit's sleep is that `WorkerTakes` happens at any time;
the primary works in the foreground and the fallback in the background
(input_mode auto); the event of one call of the Win32 API is atomic; a bind that
fails changes nothing; what a pipeline counted is forgotten when it is gone. A
press or click of a message is posted without looking at the outcome, so only a
foreground event can fail; a timeout can only cut an attempt where it awaits.

`Serial` is the refinement: with `pending` mapped to the queues and `running` to
the command in execution, every step is a step of `SerialWorker` or changes
neither. What becomes of the caller, which backend is active and how often an
attempt is repeated does not show.

Runs: `input` (123,676 states): one caller that is dropped at any await and
calls again, two binds, with and without queue and fallback. `halfpressed`, see
Findings. One caller, because callers differ in nothing and the mutex lets one
in at a time: the engine's bind contends for it, and the commands left behind by
the same caller are what another caller would have queued. Two callers take more
than three minutes.

## EngineLifecycle

A command holds the engine's write guard, so `op` is the one that runs and where
it is. Loops and recorders are known by the start that spawned them. `capture`
and `recorder` are the start whose channel and handle the engine holds (0 is
None). `overran`, a history variable, is the loops that the join has left alone.
A session is known by its name, as its directory is: `disk[n]` is the frames in
the directory of name n and what its manifest says of them. A recorder that
starts writes the manifest anew (`Recorded`) and numbers its frames from 1, over
those of an earlier session of that name; `FramesCounted` is therefore about
sessions with a name of their own (`OwnsName`).

| Operation | Actions |
|---|---|
| start | `StartBegin`, `StartFails`, `StartRuns` |
| stop | `StopBegin`, `StopJoins`, `StopTasks`, `StopFinishes` |
| set_config | `SetConfig`; with a restart it goes on through stop and start |
| capture_loop | `LoopOpens`, `LoopWarmsUp`, `LoopCaptures`, `LoopHandles`, `LoopTicks`, `LoopStops` |
| the recorder's task | `RecordMeta`, `RecordEvents`, `RecordFails`, `RecordFinalises`, `Publish` |

A window is which capture methods work on it and which give a black frame. A
black frame makes the loop look for another method of the whitelist
(`LoopHandles`); the new engine takes the place of the old one with its
recording wrapper, so nothing more is saved. `LoopComesToTick` is limited to
windows on which at most one method is black: on others BitBlt and
DwmSharedSurface take turns for ever and no trigger is ticked. `StopJoins` may
come before the loop has ended, because it waits for 3 s at most.

Run: `lifecycle` (300,840 states), with two session names of which two starts
may use the same. The number of starts is bounded, so it does not check for
deadlock.

## FlowParser and FlowExecution

`files` are the files of the subscriptions still to be read, in any order; `doc`
and `flow` the one in hand. `path`, `at` and `visited` are the stack, the
iterators and the map of `dfs`; `steps` is an IndexMap in the author's order,
here any choice among the steps not visited. A task group is expanded step by
step (`InsertStep`), where a repeated alias replaces the earlier step, as
`IndexMap::insert` does. `unchecked` is the flows of the store that `save_flow`
has put there and no load has replaced: it writes what it is given, neither
validated nor searched (`SaveFlow`). `save_task_group` goes through
`parse_group` first (`SaveGroup`).

`frame[1..depth]` are the executors, one for each nested flow: where it is, the
current step, failed attempts, the variables, and `seen`, a history of the steps
left since the last jump to an `on_error` target. A condition is the set of
values of the variables that satisfy it; a step's handler gives a value, fails,
or nests. `lib` is the copy of the flows that `run_flow` took.

| Operation | Actions |
|---|---|
| load_flows, load_task_groups | `LoadFlows`, `ReadFile`, `Keep`, `SkipFile`, `LoadEnds` |
| parse_group | `InsertStep`, `GroupExpanded` |
| detect_cycles, dfs | `VisitStep`, `VisitTarget`, `PassTarget`, `FindCycle`, `LeaveStep`, `FlowAccepted` |
| save_flow, save_task_group, delete_flow | `SaveFlow`, `SaveGroup`, `DeleteFlow` |
| run_flow, stop_flow | `RunFlow`, `StopFlow` |
| run | `SeesCancel`, `Completes`, `StepMissing`, `Interrupts`, `BeginsStep`, `Proceed` |
| execute_step_with_retry | `InputSucceeds`, `SetSucceeds`, `ScriptSucceeds`, `Nests`, `NestedSucceeds`, `Retries`, `ErrorJumps`, `StepFails` |

`run_flow` runs what is in the store, so a saved flow with a cycle is run, too.
`KeptFlowsAcyclic` is about the flows that came through the parser,
`NoStepTwice` about frames whose flow is acyclic, wherever it is from, and
`RunEnds` leaves out a run that stays in a cyclic one. `StoppedRunEnds` holds for
those as well: the loop looks at the cancel flag between two steps.

A step's timeout takes effect where something awaits. `Stuck` is where nothing
does: JavaScript runs inside the poll (script.rs:394-420), as long as it likes.
The two liveness properties are stated for runs whose scripts come back again
and again (`AllComesBack`).

Run: `flowrun` (100,738 states): up to two of five files are loaded, and flows
saved, among them a cycle that the entry does not reach, a flow that runs itself,
one with a target that is not there and a group with a repeated alias; their
flows run, nested up to three deep, with a retry, an interrupt, a branch and
on_error jumps in a circle, while others are loaded and saved.

## ScriptContext

`dir` and `res` are `template_dir` and `design_resolution`, the *scope* in which
a script's templates, coordinates, recognised text and storage are looked up.
The runtime sets it before JavaScript runs; `call_library` keeps what it finds
(`saved`), sets the library's and restores. Each is a mutex of its own, so every
access is a step. `stack[s]` is whose code runs on the thread of script s: its
own, then the libraries it is in. `clean[s]`, a history variable, says that
nobody else has set the scope since s was started.

A frame is known by its number and a picture by its frame and its size;
`keys[n]` is the `frame_key` of frame n. A frame that a script captures has a
number of its own for a key. One of the capture loop has sequence 0 and its key
is made of the millisecond and of its width and height, which two frames may
share (script_ctx.rs:565-572), or is a replay's number: any of `LoopKey`. The
caches look up by key, so `VisionOfFrame` says that a call works on a frame of
the key it asked for, and on that very frame unless another has its key.
`shared` is the frame of the capture loop, `cached` the last one that a script
captured, `decoded` the two caches of decoded frames by size, `words` the OCR
results with their tags. `call[s]` is the locals of the ctx call that s is in.
`plan` is what the scripts that are installed do, chosen at the start.

| Operation | Actions |
|---|---|
| start_task, enable_script, disable_script, tick_triggers | `StartTask`, `EnableScript`, `DisableScript`, `TickTrigger`; `SetDir`, `SetRes`, `End` |
| call_library | `CallLibrary`, `KeepRes`, `SetDir`, `SetRes`, `LeaveLibrary`, `RestoreDir`, `RestoreRes` |
| reload_single_script | `Reload`, `ReloadSetsDir`, `ReloadSetsRes`, `ReloadEnables` |
| update_shared_frame, get_cached_core_frame, do_capture_core | `Publish`, `AskVision`, `TakeShared`, `TakeCached`, `Grab`, `Store` |
| get_decoded_frame_for_vision, get_decoded_mat_for_vision | `Decode`, `Insert` |
| templates, colors, waits | `Match`, `Colors`, `WaitAgain` |
| ocr, ocr_all | `Batch`, `LockEngine`, `ReadAlone`, `OcrReads`, `OcrAllReads` |
| storage_get, storage_set, storage_delete | `AskStorage`, `Load`, `Path`, `Write` |

The registry is there as far as it keeps a script from running twice and hooks
from running together; the rest of it is in `ScriptRuntime`. The task slot is
left out: a stopped task may still run when the next one starts.

Runs: `context` (2.8 million states): a task and a trigger that read text, that
match, or that store; a task that goes through two libraries, one inside the
other; and one that stores from a library while the trigger is ticked and
reloaded. `storage`: see Findings.

## Bounds

| Bound | Value | Why it is enough |
|---|---|---|
| callers of the runtime | 2, and the capture loop | every race of the code is between two holders of one entry or of the slot; the theorems hold for any number |
| scripts | 2 | one that is worked on and one that gets in its way, of the two kinds that differ most for the run |
| `MaxBridge` | 2 | the thread before and after a shutdown |
| `MaxQueue` | 1 or 2 | one call waits behind the one that runs |
| `MaxRuns` | 2 (1 where one flow shows it) | a run and its successor |
| `Retries` | 1 (0 in `starved`) | one attempt after the first |
| `MaxPipes` | 2 (1 in `halfpressed`) | a pipeline that drains and its successor |
| `Capacity`, `Threshold` | 1, 2 | a full queue; a failure that does not yet switch and one that does |
| `MaxStarts` | 2 | a loop that outlives its stop and the next one |
| `MaxShots` | 2 (0 in `storage`) | a frame that is in the caches and one that takes its place |
| `LoopKey` | one key | the loop's frames share it, and a script's second capture has the same number |
| `Name` | 2 | a session beside another and one that follows in its directory |
| `MaxFrames` | 1 | a frame saved or not; the properties do not count further |
| `MaxFiles` | 2 | the two flows that can call each other |
| `MaxDepth` | 3 | a flow that runs itself has room to do it; the code has no bound, and at the bound of the model the step waits for its timeout |
| steps of a flow | 3 | a branch, a join and a circle the entry is not on; the theorems hold for any number |

## Fairness

- `ScriptRuntime`: strong fairness of a caller's own steps. tokio's RwLock
  queues its waiters in order, so a lock that is free again and again is got.
  Nothing is assumed of a task's script: it may run for ever, and it need not
  come to where it looks at its token, which is between two jobs of JavaScript
  (script.rs:414) and not in `jobWait` (bridge.rs:682) or a nested call
  (bridge.rs:852). `CancelledTaskEnds` therefore has that as its premise: a
  script that looks again and again leaves.
- `CtxBridge`: threads and tasks are scheduled, methods and libraries return
  (a library's return competes with its further calls, hence strong fairness).
- `EngineControl`: tasks are scheduled and cancelled scripts leave (`FairSpec`);
  `ReturnSpec` adds that scripts end by themselves. `flows` needs that: `starved`
  is what happens without.
- `InputPipeline`: attempts end, at the latest by their timeout; the worker, the
  callers and the engine go on. Nothing is assumed about success, and a caller
  is never obliged to call or to be dropped.
- `EngineLifecycle`: a command goes on (finding the window or not), a loop takes
  its steps but for `LoopTicks`, since a hook may never return; a capture
  succeeds in the end on a method that works.
- `FlowExecution`: files are read, the executor takes its turns, and an attempt
  that is not `Stuck` again and again ends, by its timeout if by nothing else.
  Nothing says that it succeeds, so retries and on_error jumps may go on; that
  scripts come back is the premise of `RunEnds` and `StoppedRunEnds`.

## Findings

Each is a run that TLC must find violated.

1. `orphan`: bridge.rs:232 says that nested invokes must not wait on the bridge
   thread. When a script is cancelled while a library works for it, the depth
   returns to 0 and the library's next call is queued at its own thread. That it
   takes such a script is the theorem `BridgeDeadlockNeedsAbandon`.
2. `starved`: a script started by hotkey keeps the engine's read guard, a task
   group's hotkey waits for the write guard without a timeout (hotkeys.rs:262),
   and the emergency stop waits behind it.
3. `halfpressed`: win32.rs:966 says that a swipe always releases its button. A
   move that fails in the middle leaves the loop by `?` (win32.rs:960), past the
   release. (The drop of the controller releases it, which `SentKeysOwned` shows.)
4. `storage`: docs/scripting-guide_EN.md:427 says that what a script stores is
   in its own directory. `storage_set` takes the path from the shared template
   directory once to read and once more to write (script_ctx.rs:927, :937); a
   script that is enabled in between has set another. What was read from the
   one is then written over the other.

### Known disagreements without a run

Met while modelling; the models contain the behaviour, no run asks for it.

- docs/scripting-guide_EN.md:192 says that `stop()` is called when the user
  stops a script. `stop_task` looks for it in the registry (runtime.rs:440),
  where the entry of a running task never is.
- docs/scripting-guide_EN.md:205 says that `onCapture` is called each frame.
  `enable_script` leaves the trigger's token in `active_cancel`
  (runtime.rs:251); the next `stop_task` cancels it, and the trigger, still
  enabled, never captures again.
- A job posted by a nested call is a task of a runtime that is dropped at once
  (bridge.rs:849); it stays pending, and `jobWait` never ends (bridge.rs:40 and
  :676 say otherwise). `ScriptCallsReturn` has it as its exemption.
- `stop_flow` stops the script before it cancels the executor
  (task_groups.rs:353); a retry in between starts it again with a token that
  nobody has cancelled, and neither the stop nor a timeout ends it.
- A flow that `save_flow` stores (task_groups.rs:530-550) is neither validated nor
  searched: one with a cycle is kept and run, until the next load refuses it.
- Two frames of the capture loop may have one `frame_key` (script_ctx.rs:565-572):
  512 ms apart and one pixel apart in height, for instance. The caches then give
  the one for the other. A replay's frames number themselves from 1, as those do
  that a script captures.
- Two starts that record with one `session_name` share a directory
  (replay_recorder.rs:220, :261, :267): the second zeroes the manifest, writes over
  the first frames and appends to the timeline.
- A failing `on_enable` in `start_task` (runtime.rs:347), or a flow's timeout there,
  loses the script's entry and leaves the slot taken until the next `stop_task`.
- docs/scripting-guide_EN.md:417 shows `ctx.runScript` in a script; from a
  running task it is always refused, because the slot is taken (runtime.rs:294).
- After a black frame the loop's new engine has no `RecordingScreenCapture`
  (capture.rs:944), so the session goes on without pictures.
- If no capture method works the loop ends by itself and the state stays Running.
- The runner's script steps give no output (flow_runner.rs), so a mapped result
  is always null, though docs/scripting-guide_EN.md maps `$result`.
- `persist: true` is never persisted: `persist_dir` is None on every path.
- The example flow of docs/scripting-guide_EN.md:720 goes back to its start and
  is refused as circular.
- `max_depth` of the parser (parser.rs:13) is read nowhere: what bounds a flow
  that runs itself is the timeout of its steps.
- An `interrupt` transition is looked at once before its step, not during it
  (docs/scripting-guide_EN.md:778: every frame).
- Two steps of a task group with the same alias are one step, and those between
  them are skipped; an empty group loads and its run fails at step "".
- A hot reload calls `load_task_groups` and then `load_flows`
  (commands/engine.rs:112-113), which empties `flows_store` and reads the copies
  of groups that `persist_legacy_flow_if_needed` wrote once
  (task_groups.rs:508): an edited group runs its old steps until a restart.
- In replay mode the loop makes a `ReplayPngScreenCapture` (capture.rs:852) and
  never calls its `start()`, without which `capture()` fails (capture.rs:116):
  no frame comes and no trigger is ticked, which capture.rs:812 says of the loop.
- `tick_triggers` and `disable_script` set no scope: a trigger's JavaScript
  looks for templates and storage wherever the last script has set them.
- `ocr` filters the picture by the text color and then answers from results kept
  for the frame without regard to the color (script_ctx.rs:1568, :1583).
- `ocr_all` tags its results with the design resolution that is set when it is
  done (script_ctx.rs:1746), not with the one it decoded for.
- `capture(true)` renews `frame_cache`, but what reads a frame looks into
  `shared_frame` first, which is never emptied when the loop stops
  (docs/scripting-guide_EN.md:239: a forced capture refreshes the cache).
- `getColor` reads the frame as captured (script_ctx.rs:1760), though
  docs/scripting-guide.md:484 says that all vision works on the scaled frame.
- Two scripts that store at once into one file lose a key: nothing spans the
  read and the write, and a file read half-written counts as empty.

## What is proved

For every value of the constants, from the named assumptions of the modules
(`KindAssumption`, `CallerAssumption`, `NullAssumption`; and the assumptions of
`CtxBridge`, `EngineControl`, `FlowParser`, `FlowExecution`, `EngineLifecycle`,
`InputPipeline` and `ScriptContext`):

| Theorem | Says |
|---|---|
| `TypeInvariant` | the inductive invariant `TypeInv` of `ScriptRuntime` |
| `TypeCorrect` | `Spec => []TypeOK` |
| `HooksExclusive` | `Spec => []HookUnderLock` |
| `OneTask` | `Spec => []OneTaskUnlessStopped` |
| `SlotNotOrphaned` | `Spec => []SlotOwned`: where no future is dropped, of slots that name no trigger |
| `StopIsFinal` | `Spec => StopSticks` |
| `NothingLost` | `Spec => []NeverLost` |
| `RuntimeHasTaskSlot` | `Spec => Slot`: `ScriptRuntime` implements `TaskSlot` |
| `BridgeInvariant` | the inductive invariant `BridgeInv` of `CtxBridge` |
| `BridgeTypes` | `Spec => []TypeOK` |
| `BridgeAnswersOnce` | `Spec => []WaitsForOneRequest` |
| `BridgeJobsHaveTasks` | `Spec => []JobsHaveTasks` |
| `BridgeJobsSettle` | `Spec => JobSettles` |
| `BridgeServesOne` | `Spec => []OneLiveCaller`: one caller waits for the bridge |
| `BridgeHostsLibraries` | `Spec => []LibrariesHosted`: a library runs where its `ctx.call` is executed |
| `BridgeDeadlockNeedsAbandon` | `NoBridgeDeadlock`, if no caller ever leaves its call |
| `EngineInvariant` | the inductive invariant `EngineInv` of `EngineControl` |
| `EngineTypes` | `Spec => []TypeOK` |
| `EngineStoresLiveRun` | `Spec => []LiveRunIsStored` |
| `EngineShowsLiveRun` | `Spec => []RunningIsLive` |
| `EngineIsGuarded` | `Spec => []Guarded`: an operation has the guard it asked for |
| `EngineStartsUncancelled` | `Spec => []StartsUncancelled`: no run is cancelled before it is spawned |
| `EngineHasTaskSlot` | `Spec => Slot`: `EngineControl` implements `TaskSlot` |
| `FlowsInvariant` | the inductive invariant `FlowInv` of `FlowExecution` |
| `FlowTypes` | `Spec => []TypeOK` |
| `FlowsStayAcyclic` | `Spec => []KeptFlowsAcyclic`: of the flows that came through the parser |
| `RefusalsAreEarned` | `Spec => []CyclesAreReal` |
| `StepsRunOnce` | `Spec => []NoStepTwice`: in frames whose flow is acyclic |
| `LifecycleInvariant` | the inductive invariant `LifeInv` of `EngineLifecycle` |
| `LifecycleTypes` | `Spec => []TypeOK` |
| `SessionsAreTold` | `Spec => []OneSession` |
| `ConfigTakesEffect` | `Spec => []LoopRunsConfig` |
| `ManifestsCount` | `Spec => []FramesCounted`: of sessions with a name of their own |
| `InputInvariant` | the inductive invariant `PipeInv` of `InputPipeline` |
| `InputTypes` | `Spec => []TypeOK` |
| `WaitersAnswered` | `Spec => []WaiterHasCommand` |
| `KeysAreAsked` | `Spec => []KeysAsAsked` |
| `KeysHaveOwners` | `Spec => []SentKeysOwned` |
| `FallbacksAreEarned` | `Spec => []FallbackEarned` |
| `TriedOnce` | `Spec => []OncePerBackend` |
| `PipesAreSerial` | `Spec => Serial`: `InputPipeline` implements `SerialWorker` |
| `CtxInvariant` | the inductive invariant `CtxInv` of `ScriptContext` |
| `ContextTypes` | `Spec => []TypeOK` |
| `VisionsMatch` | `Spec => []VisionOfFrame`: up to frames with the same key |
| `ScopesKept` | `Spec => []ScopeIsOwn` |

**Scripts.** `TypeOK` and `HookUnderLock` are not inductive alone: a hook that
returns writes to the entry under its key, so the invariant must say who has a
key (`KeyWhere`), who has an entry in hand (`HeldWhere`) and that a hook's entry
is still there. `TypeInv` is their conjunction; `ScriptRuntimeProofs` has one
lemma per operation. `active_cancel` is shared, and the steps that write it
change every entry: the lemmas `DetachKeeps`, `CancelKeeps` and `AttachKeeps`
say once that they move none. `OneTask` and `SlotNotOrphaned` follow from a case
split into claim, release and the rest (`SlotCases`). `SlotNotOrphaned` needs
the extra invariant that only a trigger is in `start_task`'s `on_enable`.
`NothingLost` needs `TodoNotOut`: a name that a tick still has to take is not
already out.

**The slot.** `EngineControl` takes `start_task` and `stop_task` for one step
each. That this is fair to the slot is a pair of theorems about one abstract
specification: `TaskSlot` knows a claim, a release, a worker that leaves the
slot behind, and a stop by force, and both modules refine it (`Slot`), with the
callers between claim and release, or the clients and flows whose script runs,
as its workers. Each step of either is one of these four or does not show. The
cancellation tokens are not part of it. Both are theorems only; TLC finds no
error either with `PROPERTIES Slot` in `tasks`, `triggers` (without the
symmetry) and `flows`.

**Bridge.** `WaitsForOneRequest` counts requests, and a count says little about
the step before: `BridgeInv` says instead in how many places a frame's request
is (`OnePlace`), that it is in one exactly while the frame waits (`SentRight`),
and that a nested thread's frame does not (`NestedRight`); `DepthRight`, that
the depth is the number of calls in flight, keeps a frame that has left from
being counted. `JobRight` says what a post still to run and a task still to run
or to end allow the job's status to be; a task that ends finds `running`, or
what `jobCancel` and `jobGc` have made of it. From the depth follows that one
caller at a time waits for a bridge thread (`OneLiveCaller`), and from the
places that a library runs where its `ctx.call` is executed
(`LibrariesHosted`). As long as every request still has its caller
(`CallersStay`), the two exclude that a library waits for its own thread:
`BridgeDeadlockNeedsAbandon` says that `orphan` (see Findings) needs a script
that is cancelled in its call.

**Engine.** The lock comes first: `LockRight` says that who waits does so once,
for the guard of its operation and with none in hand, and that who neither
waits nor is idle has its guard (`Guarded` is what follows for the operations).
A stop and a `run_flow` therefore exclude each other in the middle, which is
why no fresh run is cancelled (`StartsUncancelled`), though neither looks at
what the other does. `RunsRight` ties the runs to `started` and to the guard of
`flow_progress`; `OneRun` is what holds until something is stopped: a live run
is in the executor and shown until it reports, and a client that starts a flow
finds none alive. `LiveRunIsStored` needs that last part, since `MayStart` looks
at the progress and the slot and never at the tasks.

**Flows.** Acyclic means that every non-empty set of steps has a member none of
whose transitions stays in the set, which needs no paths and no recursion.
`ParserInv` says of the search that its path is a walk through the steps it is
in, that what it is done with is closed under transitions and acyclic, and that
the transitions passed at every step of the path lead to done steps: when the
search leaves a step, the done ones and this one are acyclic again
(`AcyclicGrows`). For a group it says that of any set of steps the one inserted
last leaves it, whatever aliases were replaced. A load or `save_task_group` takes
its flow out of `unchecked`, `save_flow` puts its own in; of the others the store
holds acyclic ones. `RunInv` says of a frame that every step left has a transition
into the steps left or to the current one (`Sound`), whatever the flow; were the
current step among them, they would be a set that no member leaves, which an
acyclic flow does not have.

**Lifecycle.** A property of loops and recorders of every start needs the
invariant to say whose they are: `SessionsApart` (a start of the future has
neither; one of the past has been told to stop), `HandlesMatch` (the handles the
engine holds are those of the running start, and the loop copied what the engine
had then) and `StopInOrder` (a stop tells the loop before the recorder, and goes
on when the loop has ended or `overran` names it). Only a loop that still goes
can add a frame, so the manifest that the recorder writes after it counts them
all. `NamesRight` says which starts have a session and that only a session's loop
saves frames; `DiskRight`, that a directory which one session has to itself holds
what that has saved.

**Input.** `KeysAsAsked` and `OncePerBackend` depend on where an attempt is, so
`AttemptCounted` says for each pipeline what has been tried, that the fallback
is tried only when it is active, and that the counter is the streak of failures
as long as the primary is active. `CommandsOwned` says who waits: the holder of
the mutex, with one command; when the pipeline is replaced nobody waits.
`PipesAlive` ties what a pipeline has left to do to its being up. The refinement
has a lemma per step that `SerialWorker` sees (`SubmitIsSeen`, `StartIsSeen`,
`EndIsSeen`, `PanicIsSeen`), and `AbandonIsNotSeen` for the one that changes
commands without changing inputs.

**Context.** `ScopeIsOwn` speaks of where a script works; the invariant also
says what it finds on the way there. `KeptRight` says that what each library has
kept is the scope of the caller below it in the stack, `PlaceRight` which half
of the scope is set or restored between the two mutexes, `SeenRight` that a
call's image, tag and paths are of the scope that is still set; all three hold
as long as the script's history is `clean`, for a stack of any depth.
`CallRight` says where a call has a frame and an image, whatever the history,
and that the image is of a frame with the key of the one taken; `CachesRight`
says the same of what the caches hold. Nothing is assumed of the keys: that the
image is of that very frame is what follows where its key is alone. `OthersKeep`
says once that a step of one script leaves what is right about another, or is in
that one's history; `TurnKeeps` reduces a step inside a call to the locals of
the call, `PlaceKeeps` one between calls to the stack and the scope, and
`AsideKeeps` those of a reload and the capture loop to the types.

Only model-checked: liveness (`CallsReturn`, `CancelledTaskEnds`,
`ScriptCallsReturn`, `CancelledRunEnds`, `InputsReturn`, `CommandsReturn`,
`LoopComesToTick`, `RunEnds`, `StoppedRunEnds`), which the prover cannot do.
Every other property that a run expects to hold is a theorem.

## Not modelled

- Hooks that call back into the runtime under its lock.
- The ctx methods for windows, HTTP, files, plugins and notifications, and the
  stack of manifest permissions: I/O behind a check. What a template match or a
  recognition computes.
- The hot reload of files by the watcher, and the files that saving and deleting
  flows and task groups write and remove. What the order of a reload does is under
  Known disagreements.
- The clock and the sizes that make a loop frame's key: any key of `LoopKey`.
- Two `init_engine` commands at once, and the `ConfigStore` beside the engine's
  own copy of the configuration.
- The bus's own capacity: a lagging recorder gets one `Lagged` for what it
  missed, which `RecordEvents` stands for.
- Conditions Template, Ocr, Color, Hotkey and Script: stubs in the code that are
  never met; `handle_trigger`, `trigger.rs` and `sandbox.rs` are not reached
  from the engine.
- Manifests, permissions and plugins, loaders, playback and verification,
  capture backends, vision, overlay, notifications, helpers: I/O, parsing and
  numerical code without shared state. They are most of the repository's lines,
  which is why the map covers a small share of them.

`PROJECT.json` lists each with its reason, and under `hazards` what of it could
go wrong.

## Plan

Done: all modules above.

1. `ScriptRuntime`: hooks that call `ctx.call` under the registry's lock,
   composed with `CtxBridge`.
2. `FlowParser`: the copies of groups on disk across a hot reload.

## Running it

`tlc -config MCScriptRuntime_tasks.cfg MCScriptRuntime` checks a run,
`tlapm ScriptRuntimeProofs.tla` a module's proofs.
