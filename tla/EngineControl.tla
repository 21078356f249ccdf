---------------------------- MODULE EngineControl ----------------------------
(***************************************************************************)
(* How scripts and flows are started and stopped from the outside: hotkeys *)
(* and commands of the client take the engine's RwLock and call run_script,*)
(* run_flow, stop_flow, stop_task or stop_all; a flow then runs in a task  *)
(* of its own, outside that lock, and shares flow_progress, flow_executor  *)
(* and the script slot with them                                           *)
(* (crates/betternte-engine/src/{lib,task_groups,scripts,flow_runner}.rs,  *)
(* crates/betternte-runtime/src/executor.rs,                               *)
(* crates/betternte-client/src-tauri/src/{lib,hotkeys}.rs, commands/).     *)
(*                                                                         *)
(* start_task and stop_task are one step each here; ScriptRuntime has      *)
(* their interleavings.                                                    *)
(***************************************************************************)
EXTENDS Naturals, Sequences, SequencesExt

CONSTANTS
    Client,    \* the hotkeys and commands that call the engine
    Hotkey,    \* those that wait for the engine without a timeout
    Api,       \* who calls what: pairs of a client and an operation
    MaxRuns,   \* bound: flows started in a behaviour
    Retries,   \* max_retries of a step
    None

Run   == 1..MaxRuns
Owner == Client \cup Run      \* who can have a script running

ASSUME ClientAssumption == Hotkey \subseteq Client /\ Client \cap Run = {}
ASSUME BoundAssumption == MaxRuns \in Nat \ {0} /\ Retries \in Nat
ASSUME NoneAssumption == None \notin Owner

VARIABLES
    readers, writer,   \* who holds the engine's lock
    waiting,           \* its queue: [who, mode], first come first served
    pc,                \* where each client is
    active,            \* active_task: who owns the slot
    token,             \* active_cancel: whose script it cancels
    scriptCancel,      \* the token of the script each owner runs
    ctxCancel,         \* the cancel flag of the shared ScriptContext
    executor,          \* flow_executor
    progress,          \* the status in flow_progress
    progressLock,      \* the run that keeps flow_progress's write lock
    started,           \* the newest run
    at,                \* where the task of each run is
    tries,             \* retries of the step it executes
    cancelled,         \* cancelled: the flag of each run's FlowExecutor
    stopped            \* history: a stop has emptied the script slot

lock     == <<readers, writer, waiting>>
runtime  == <<active, token, scriptCancel, ctxCancel, stopped>>
flow     == <<executor, progress, progressLock, started>>
runs     == <<at, tries, cancelled>>
vars     == <<lock, pc, runtime, flow, runs>>

Operations == {"script", "stopTask", "stopAll", "stopFlow", "toggle", "flow"}
Mode(op) == IF op = "flow" THEN "w" ELSE "r"
Waits == {[who |-> c, mode |-> m] : c \in Client, m \in {"r", "w"}}
Label == {"idle", "running", "allProgress", "allExecutor", "flowExecutor",
          "flowProgress", "store", "init"} \cup Operations

Init ==
    /\ readers = {} /\ writer = None /\ waiting = <<>>
    /\ pc = [c \in Client |-> "idle"]
    /\ active = None /\ token = None /\ ctxCancel = FALSE /\ stopped = FALSE
    /\ scriptCancel = [o \in Owner |-> FALSE]
    /\ executor = None /\ progress = "none" /\ progressLock = None
    /\ started = 0
    /\ at = [r \in Run |-> "none"] /\ tries = [r \in Run |-> 0]
    /\ cancelled = [r \in Run |-> FALSE]

-----------------------------------------------------------------------------
(* The engine's lock: tokio's RwLock serves its waiters in order, so a     *)
(* reader that comes after a waiting writer waits behind it.               *)

Goto(c, l) == pc' = [pc EXCEPT ![c] = l]

Ask(c) ==
    /\ pc[c] = "idle"
    /\ \E op \in {x \in Operations : <<c, x>> \in Api} :
        /\ Goto(c, op)
        /\ waiting' = Append(waiting, [who |-> c, mode |-> Mode(op)])
    /\ UNCHANGED <<readers, writer, runtime, flow, runs>>

MayEnter(w) == writer = None /\ (w.mode = "w" => readers = {})

Enter(c) ==
    /\ waiting # <<>> /\ Head(waiting).who = c /\ MayEnter(Head(waiting))
    /\ waiting' = Tail(waiting)
    /\ IF Head(waiting).mode = "w"
         THEN writer' = c /\ UNCHANGED readers
         ELSE readers' = readers \cup {c} /\ UNCHANGED writer
    /\ UNCHANGED <<pc, runtime, flow, runs>>

\* read_engine and write_engine give up after 500 ms; hotkeys do not.
GiveUp(c) ==
    /\ c \notin Hotkey
    /\ \E i \in DOMAIN waiting :
        waiting[i].who = c /\ waiting' = RemoveAt(waiting, i)
    /\ Goto(c, "idle")
    /\ UNCHANGED <<readers, writer, runtime, flow, runs>>

\* The guard is dropped when the operation returns.
Leave(c) ==
    /\ readers' = readers \ {c}
    /\ writer' = IF writer = c THEN None ELSE writer
    /\ Goto(c, "idle")
    /\ UNCHANGED waiting

Queued(c) == \E i \in DOMAIN waiting : waiting[i].who = c
In(c, op) == pc[c] = op /\ ~Queued(c)

-----------------------------------------------------------------------------
(* The script slot: start_task and stop_task *)

Start(o) ==
    /\ active = None
    /\ active' = o /\ token' = o
    /\ scriptCancel' = [scriptCancel EXCEPT ![o] = FALSE]
    /\ ctxCancel' = FALSE
    /\ UNCHANGED stopped

\* The slot is emptied whoever owns it by now; the token of a script that
\* does not run is reset before it runs again and counts as not cancelled.
End(o) ==
    /\ active' = None /\ token' = None
    /\ scriptCancel' = [scriptCancel EXCEPT ![o] = FALSE]
    /\ UNCHANGED <<ctxCancel, stopped>>

StopScript ==
    /\ scriptCancel' = [o \in Owner |-> o = token \/ scriptCancel[o]]
    /\ active' = None /\ token' = None /\ ctxCancel' = TRUE
    /\ stopped' = TRUE

(* run_script: the guard is kept for as long as the script runs.           *)
ScriptStart(c) ==
    /\ In(c, "script")
    /\ \/ Start(c) /\ Goto(c, "running") /\ UNCHANGED lock
       \/ Leave(c) /\ UNCHANGED runtime    \* a task runs, or no such script
    /\ UNCHANGED <<flow, runs>>

(* stop_task, from its command or from the hotkey of a running script.     *)
StopTask(c) ==
    /\ In(c, "stopTask")
    /\ StopScript /\ Leave(c)
    /\ UNCHANGED <<flow, runs>>

-----------------------------------------------------------------------------
(* stop_all and stop_flow: the script first, then, in different orders,    *)
(* the progress and the executor.                                          *)

StopAllScript(c) ==
    /\ In(c, "stopAll")
    /\ StopScript /\ Goto(c, "allProgress")
    /\ UNCHANGED <<lock, flow, runs>>

MarkCancelled ==
    /\ progressLock = None
    /\ progress' = IF progress = "Running" THEN "Cancelled" ELSE progress
    /\ UNCHANGED <<executor, progressLock, started>>

CancelExecutor ==
    /\ cancelled' = [r \in Run |-> r = executor \/ cancelled[r]]
    /\ UNCHANGED <<at, tries>>

StopAllProgress(c) ==
    /\ pc[c] = "allProgress"
    /\ MarkCancelled /\ Goto(c, "allExecutor")
    /\ UNCHANGED <<lock, runtime, runs>>

StopAllExecutor(c) ==
    /\ pc[c] = "allExecutor"
    /\ CancelExecutor /\ Leave(c)
    /\ UNCHANGED <<runtime, flow>>

StopFlowScript(c) ==
    /\ In(c, "stopFlow")
    /\ StopScript /\ Goto(c, "flowExecutor")
    /\ UNCHANGED <<lock, flow, runs>>

StopFlowExecutor(c) ==
    /\ pc[c] = "flowExecutor"
    /\ CancelExecutor /\ Goto(c, "flowProgress")
    /\ UNCHANGED <<lock, runtime, flow>>

StopFlowProgress(c) ==
    /\ pc[c] = "flowProgress"
    /\ MarkCancelled /\ Leave(c)
    /\ UNCHANGED <<runtime, runs>>

-----------------------------------------------------------------------------
(* run_flow, under the write guard *)

\* No task and no flow is running.
MayStart == active = None /\ progressLock = None /\ progress # "Running"

FlowCheck(c) ==
    /\ In(c, "flow")
    /\ \/ MayStart /\ started < MaxRuns /\ Goto(c, "store") /\ UNCHANGED lock
       \/ Leave(c)          \* something runs, no such flow, or no window
    /\ UNCHANGED <<runtime, flow, runs>>

FlowStore(c) ==
    /\ pc[c] = "store"
    /\ started' = started + 1
    /\ executor' = started + 1
    /\ Goto(c, "init")
    /\ UNCHANGED <<lock, runtime, progress, progressLock, runs>>

\* The progress is initialised and the task that runs the flow is spawned.
FlowInit(c) ==
    /\ pc[c] = "init" /\ progressLock = None
    /\ progress' = "Running"
    /\ at' = [at EXCEPT ![started] = "loop"]
    /\ Leave(c)
    /\ UNCHANGED <<runtime, executor, progressLock, started, tries, cancelled>>

KeepGuard(c) == readers                                    \* mutant
DropGuard(c) == readers \ {c}

\* A task group's hotkey stops the group if it is the flow that runs, and
\* otherwise exchanges its read guard for a write guard to start it.
Toggle(c) ==
    /\ In(c, "toggle") /\ progressLock = None
    /\ \/ /\ progress = "Running" /\ Goto(c, "stopFlow")
          /\ UNCHANGED lock
       \/ /\ readers' = DropGuard(c)
          /\ waiting' = Append(waiting, [who |-> c, mode |-> "w"])
          /\ Goto(c, "flow") /\ UNCHANGED writer
    /\ UNCHANGED <<runtime, flow, runs>>

-----------------------------------------------------------------------------
(* The task of a run: FlowExecutor::run, then the report.  Which step is   *)
(* current is left out: an interrupt transition changes nothing here.      *)

MayGoOnAlways(r) == TRUE                                   \* mutant
MayGoOn(r) == ~cancelled[r]

Put(r, l, n) == /\ at' = [at EXCEPT ![r] = l]
                /\ tries' = [tries EXCEPT ![r] = n]
                /\ UNCHANGED cancelled

LoopStep(r) ==
    /\ at[r] = "loop" /\ MayGoOn(r)
    /\ Put(r, "attempt", 0)
    /\ UNCHANGED <<lock, pc, runtime, flow>>

\* The flow has no more steps, or a step or a condition cannot be evaluated.
LoopEnds(r) ==
    /\ at[r] = "loop" /\ MayGoOn(r)
    /\ \E l \in {"Completed", "Failed"} : Put(r, l, 0)
    /\ UNCHANGED <<lock, pc, runtime, flow>>

LoopCancelled(r) ==
    /\ at[r] = "loop" /\ cancelled[r]
    /\ Put(r, "Failed", 0)
    /\ UNCHANGED <<lock, pc, runtime, flow>>

MayRetryOnceMore(r) == tries[r] <= Retries                 \* mutant
MayRetry(r) == tries[r] < Retries

\* An attempt succeeds, or fails or times out: it is tried again without a
\* look at the cancel flag.  After the last one the flow fails, or goes on
\* with the step on_error names, as after a success.
Attempted(r) ==
    \/ Put(r, "loop", 0)
    \/ MayRetry(r) /\ Put(r, "attempt", tries[r] + 1)
    \/ ~MayRetry(r) /\ Put(r, "Failed", 0)

StepEnds(r) ==
    /\ at[r] = "attempt"
    /\ Attempted(r)
    /\ UNCHANGED <<lock, pc, runtime, flow>>

\* A script step, when the slot is free.
StepScript(r) ==
    /\ at[r] = "attempt"
    /\ Start(r)
    /\ Put(r, "script", tries[r])
    /\ UNCHANGED <<lock, pc, flow>>

HoldNone(r) == None                                        \* mutant
Hold(r) == r

CancelReported(r) == IF cancelled[r] THEN progress ELSE at[r]    \* mutant
Outcome(r) == at[r]

\* The outcome is written under flow_progress's lock ...
Report(r) ==
    /\ at[r] \in {"Completed", "Failed"} /\ progressLock = None
    /\ progress' = Outcome(r)
    /\ progressLock' = Hold(r)
    /\ Put(r, "clear", 0)
    /\ UNCHANGED <<lock, pc, runtime, executor, started>>

\* ... which is kept until flow_executor is emptied, whoever is in it.
Clear(r) ==
    /\ at[r] = "clear"
    /\ executor' = None /\ progressLock' = None
    /\ Put(r, "done", 0)
    /\ UNCHANGED <<lock, pc, runtime, progress, started>>

\* The script of o ends.
ScriptEnds(o) ==
    /\ End(o)
    /\ \/ o \in Client /\ pc[o] = "running" /\ Leave(o) /\ UNCHANGED runs
       \/ o \in Run /\ at[o] = "script" /\ Attempted(o) /\ UNCHANGED <<lock, pc>>
    /\ UNCHANGED flow

ScriptCancelled(o) == (scriptCancel[o] \/ ctxCancel) /\ ScriptEnds(o)

-----------------------------------------------------------------------------
ClientStep(c) ==
    \/ Enter(c) \/ ScriptStart(c) \/ StopTask(c) \/ Toggle(c)
    \/ StopAllScript(c) \/ StopAllProgress(c) \/ StopAllExecutor(c)
    \/ StopFlowScript(c) \/ StopFlowExecutor(c) \/ StopFlowProgress(c)
    \/ FlowCheck(c) \/ FlowStore(c) \/ FlowInit(c)
RunStep(r) == LoopStep(r) \/ LoopEnds(r) \/ LoopCancelled(r) \/ StepEnds(r)
              \/ StepScript(r) \/ Report(r) \/ Clear(r)

Next ==
    \/ \E c \in Client : Ask(c) \/ GiveUp(c) \/ ClientStep(c)
    \/ \E r \in Run : RunStep(r)
    \/ \E o \in Owner : ScriptEnds(o)

Spec == Init /\ [][Next]_vars

\* tokio runs every task that can go on; a cancelled script leaves.  That a
\* script ends by itself is assumed only in ReturnSpec.
FairSpec ==
    /\ Spec
    /\ \A c \in Client : WF_vars(ClientStep(c))
    /\ \A r \in Run : WF_vars(RunStep(r))
    /\ \A o \in Owner : WF_vars(ScriptCancelled(o))
ReturnSpec == FairSpec /\ \A o \in Owner : WF_vars(ScriptEnds(o))

-----------------------------------------------------------------------------
(* Properties *)

\* Every variable keeps its type; a step is retried max_retries times at
\* most, with a script in its attempts or not (executor.rs:344).
TypeOK ==
    /\ readers \subseteq Client /\ writer \in Client \cup {None}
    /\ waiting \in Seq(Waits) /\ pc \in [Client -> Label]
    /\ active \in Owner \cup {None} /\ token \in Owner \cup {None}
    /\ scriptCancel \in [Owner -> BOOLEAN] /\ ctxCancel \in BOOLEAN
    /\ executor \in Run \cup {None} /\ progressLock \in Run \cup {None}
    /\ progress \in {"none", "Running", "Completed", "Failed", "Cancelled"}
    /\ started \in 0..MaxRuns /\ stopped \in BOOLEAN
    /\ at \in [Run -> {"none", "loop", "attempt", "script", "Completed",
                       "Failed", "clear", "done"}]
    /\ tries \in [Run -> 0..Retries] /\ cancelled \in [Run -> BOOLEAN]

Live(r) == at[r] \notin {"none", "done"}

\* As long as nothing was stopped, one flow runs at a time and it is the one
\* that a stop would cancel: a report never empties the executor of the flow
\* that follows (task_groups.rs:268-312).
LiveRunIsStored == ~stopped => \A r \in Run : Live(r) => executor = r

\* "Running" is never left behind: it is shown only while the newest flow
\* still has its outcome to report, else no flow could start again.
RunningIsLive == progress = "Running" => started > 0 /\ Live(started)

\* A cancelled flow ends once its steps and its scripts do.
CancelledRunEnds == \A r \in Run : cancelled[r] ~> at[r] = "done"

\* No operation waits for ever for the engine, the progress or the executor,
\* if scripts return.
CallsReturn == \A c \in Client : pc[c] # "idle" ~> pc[c] = "idle"

\* docs/development.md:401: stop_all is the emergency stop of all running
\* tasks.  Its hotkey gets to stop_all, whatever else waits for the engine.
EmergencyStopActs ==
    \A c \in Client : pc[c] = "stopAll" ~> pc[c] # "stopAll"

\* The slot is the one that TaskSlot specifies, as it is in ScriptRuntime:
\* scripts of clients and of flows take it in turns (runtime.rs:290-302).
Working ==
    [o \in Owner |-> IF (o \in Client /\ pc[o] = "running")
                         \/ (o \in Run /\ at[o] = "script")
                       THEN o ELSE None]
Tasks == INSTANCE TaskSlot WITH
    Worker <- Owner, Task <- Owner, task <- active, work <- Working,
    forced <- stopped
Slot == Tasks!Spec
=============================================================================
