------------------------------ MODULE CtxBridge ------------------------------
(***************************************************************************)
(* How JavaScript calls an async ctx method and waits for it               *)
(* (crates/betternte-script/src/quickjs/bridge.rs): __invoke counts how    *)
(* many calls are in flight; the first goes to the one bridge thread and   *)
(* polls its script's token while it waits, a deeper one runs on a thread  *)
(* of its own.  ctx.call runs a library's JavaScript where the call runs,  *)
(* and that JavaScript invokes again.  post* methods start a job, a task   *)
(* of the runtime of the thread that ran the post.                         *)
(*                                                                         *)
(* A frame is JavaScript that is running: a script's, on its own thread,   *)
(* or a library's, on the thread of the ctx.call that it serves.           *)
(***************************************************************************)
EXTENDS Naturals, Sequences, FiniteSets

CONSTANTS
    Caller,      \* the scripts whose JavaScript runs on its own thread
    Library,     \* the libraries that ctx.call can run
    Plans,       \* which scripts run, which libraries they call, which
                 \* frames post a job, and what may end a bridge thread
    MaxBridge,   \* bound: bridge threads started in a behaviour
    MaxQueue,    \* bound: calls queued at a bridge thread
    None

Frame  == Caller \cup Library
Bridge == 1..MaxBridge
Server == Bridge \cup Frame    \* a frame's name stands for its nested thread
Work   == {"method", "post"} \cup Library

\* A request in a bridge's channel; from is None once its caller has left.
Requests == [from : Frame \cup {None}, work : Work]

ASSUME FrameAssumption ==
    /\ Plans \subseteq [runs : SUBSET Caller, calls : SUBSET Library,
                         posts : SUBSET Frame,
                         faults : SUBSET {"panic", "shutdown"}]
    /\ IsFiniteSet(Frame)
    /\ Caller \cap Library = {}
    /\ None \notin Frame /\ None \notin Bridge /\ None \notin Work
    /\ None \notin Requests
    /\ Bridge \cap Frame = {} /\ {"method", "post"} \cap Library = {}
ASSUME BoundAssumption == MaxBridge \in Nat \ {0} /\ MaxQueue \in Nat \ {0}

VARIABLES
    depth,     \* INVOKE_SYNC_DEPTH
    bridge,    \* the bridge thread BRIDGE names, or None
    started,   \* bridge threads started so far
    queue,     \* queue[b]: the channel of bridge thread b
    busy,      \* busy[b]: the request bridge thread b executes, or None
    dead,      \* bridge threads that have ended
    inv,       \* inv[f]: where the __invoke of frame f is
    nested,    \* nested[f]: what f's nested thread executes, or None
    host,      \* host[l]: the server library l runs on, or None
    cancelled, \* cancelled[c]: the token of c's script
    job,       \* job[f]: the status of the job f posted
    task,      \* task[f]: the tokio task of that job
    taskOn,    \* taskOn[f]: the bridge thread whose runtime owns it
    waits,     \* the frames inside ctx.jobWait
    plan       \* what the scripts of this behaviour are

threads == <<bridge, started, queue, busy, dead>>
calls   == <<depth, inv, nested, host>>
jobs    == <<job, task, taskOn>>
vars    == <<threads, calls, cancelled, jobs, waits, plan>>

Terminal == {"done", "failed", "cancelled"}

Init ==
    /\ depth = 0
    /\ bridge = None /\ started = 0 /\ dead = {}
    /\ queue = [b \in Bridge |-> <<>>] /\ busy = [b \in Bridge |-> None]
    /\ inv = [f \in Frame |-> "none"] /\ nested = [f \in Frame |-> None]
    /\ host = [l \in Library |-> None]
    /\ cancelled = [c \in Caller |-> FALSE]
    /\ job = [f \in Frame |-> "none"] /\ task = [f \in Frame |-> "none"]
    /\ taskOn = [f \in Frame |-> None] /\ waits = {}
    /\ plan \in Plans

-----------------------------------------------------------------------------
(* invoke_ctx_method_sync *)

\* f's JavaScript is running and not inside a blocking call.
Running(f) == /\ \/ f \in plan.runs
                 \/ f \in Library /\ host[f] # None
              /\ inv[f] = "none" /\ f \notin waits

\* The one job of f that is followed; its id is created when the post runs.
Ask(f, w) ==
    /\ w = "post" => f \in plan.posts /\ job[f] = "none"
    /\ w \in Library => w \in plan.calls
    /\ job' = IF w = "post" THEN [job EXCEPT ![f] = "asked"] ELSE job
    /\ UNCHANGED <<task, taskOn>>

\* Server s takes up work w: call_library runs l's JavaScript on s, unless
\* l is already out of the registry.
TakeUp(s, w) ==
    host' = [l \in Library |-> IF l = w /\ host[l] = None THEN s ELSE host[l]]
\* The method has its result: the library's JavaScript returned, or it was
\* refused because it was running elsewhere.
Done(s, w) == w \in Library => host[w] # s

NestsFrom == 1     \* a deeper call gets a thread of its own

InvokeNested(f, w) ==
    /\ Running(f) /\ Ask(f, w)
    /\ depth + 1 > NestsFrom
    /\ depth' = depth + 1
    /\ inv' = [inv EXCEPT ![f] = "nested"]
    /\ nested' = [nested EXCEPT ![f] = w]
    /\ TakeUp(f, w)
    /\ UNCHANGED <<threads, cancelled, waits, plan>>

\* get_bridge_sender starts a thread where there is none.  Once the thread
\* BRIDGE names has ended the call fails at once, which changes nothing.
InvokeOnBridge(f, w) ==
    LET b == IF bridge = None THEN started + 1 ELSE bridge IN
    /\ Running(f) /\ Ask(f, w)
    /\ depth + 1 <= NestsFrom
    /\ b \in Bridge \ dead /\ Len(queue[b]) < MaxQueue
    /\ depth' = depth + 1
    /\ inv' = [inv EXCEPT ![f] = "sent"]
    /\ bridge' = b
    /\ started' = IF bridge = None THEN b ELSE started
    /\ queue' = [queue EXCEPT ![b] = Append(@, [from |-> f, work |-> w])]
    /\ UNCHANGED <<busy, dead, nested, host, cancelled, waits, plan>>

\* The guard of the depth is dropped when the call returns.
Return(f) ==
    /\ inv[f] = "answered"
    /\ inv' = [inv EXCEPT ![f] = "none"]
    /\ depth' = depth - 1
    /\ UNCHANGED <<threads, nested, host, cancelled, jobs, waits, plan>>

Forget(r, c) == IF r # None /\ r.from = c THEN [r EXCEPT !.from = None] ELSE r
ForgetAll(c) ==
    /\ queue' = [b \in Bridge |->
                   [i \in DOMAIN queue[b] |-> Forget(queue[b][i], c)]]
    /\ busy' = [b \in Bridge |-> Forget(busy[b], c)]

AbandonCounted(c) ==                                       \* mutant
    /\ cancelled[c] /\ inv[c] = "sent"
    /\ inv' = [inv EXCEPT ![c] = "none"]
    /\ ForgetAll(c)
    /\ UNCHANGED <<depth, bridge, started, dead, nested, host, cancelled, jobs,
                   waits, plan>>
\* The poll of the token: the caller leaves, its request stays.
Abandon(c) ==
    /\ cancelled[c] /\ inv[c] = "sent"
    /\ inv' = [inv EXCEPT ![c] = "none"]
    /\ depth' = depth - 1
    /\ ForgetAll(c)
    /\ UNCHANGED <<bridge, started, dead, nested, host, cancelled, jobs, waits,
                   plan>>

-----------------------------------------------------------------------------
(* The bridge thread, the nested threads, the libraries *)

BridgeTakes(b) ==
    /\ busy[b] = None /\ queue[b] # <<>>
    /\ busy' = [busy EXCEPT ![b] = Head(queue[b])]
    /\ queue' = [queue EXCEPT ![b] = Tail(@)]
    /\ TakeUp(b, Head(queue[b]).work)
    /\ UNCHANGED <<bridge, started, dead, depth, inv, nested, cancelled, jobs,
                   waits, plan>>

\* JobManager::create and spawn, where the post runs.
PostOnBridge(f, b) ==
    /\ job' = [job EXCEPT ![f] = "pending"]
    /\ task' = [task EXCEPT ![f] = "new"]
    /\ taskOn' = [taskOn EXCEPT ![f] = b]
\* On a nested thread block_on returns before the new task is polled, and
\* dropping the runtime drops the task.
PostNested(f) ==
    job' = [job EXCEPT ![f] = "pending"] /\ UNCHANGED <<task, taskOn>>

\* The answer to a caller that has left goes nowhere.
BridgeFinishes(b) ==
    /\ busy[b] # None /\ Done(b, busy[b].work)
    /\ busy' = [busy EXCEPT ![b] = None]
    /\ inv' = [f \in Frame |-> IF f = busy[b].from THEN "answered" ELSE inv[f]]
    /\ IF busy[b].work = "post" /\ busy[b].from # None
         THEN PostOnBridge(busy[b].from, b) ELSE UNCHANGED jobs
    /\ UNCHANGED <<bridge, started, queue, dead, depth, nested, host,
                   cancelled, waits, plan>>

NestedFinishes(f) ==
    /\ nested[f] # None /\ Done(f, nested[f])
    /\ nested' = [nested EXCEPT ![f] = None]
    /\ inv' = [inv EXCEPT ![f] = "answered"]
    /\ IF nested[f] = "post" THEN PostNested(f) ELSE UNCHANGED jobs
    /\ UNCHANGED <<threads, depth, host, cancelled, waits, plan>>

LibraryReturns(l) ==
    /\ host[l] # None /\ Running(l)
    /\ host' = [host EXCEPT ![l] = None]
    /\ UNCHANGED <<threads, depth, inv, nested, cancelled, jobs, waits, plan>>

DropAllTasks(b) == task' = [f \in Frame |-> "none"]         \* mutant
\* The tasks of the runtime that a thread owned end with it.
DropTasks(b) ==
    task' = [f \in Frame |-> IF taskOn[f] = b THEN "none" ELSE task[f]]

\* The frames that wait for bridge thread b.
Waiters(b) ==
    {r.from : r \in {queue[b][i] : i \in DOMAIN queue[b]}
                      \cup ({busy[b]} \ {None})} \ {None}

StrandedHead(b) == {busy[b].from} \ {None}                 \* mutant
\* Whose channel is disconnected when thread b unwinds.
Stranded(b) == Waiters(b)

\* A panic in a method unwinds the thread; whoever waits sees its channel
\* disconnected.
BridgePanics(b) ==
    /\ "panic" \in plan.faults /\ busy[b] # None /\ busy[b].work = "method"
    /\ dead' = dead \cup {b}
    /\ busy' = [busy EXCEPT ![b] = None]
    /\ queue' = [queue EXCEPT ![b] = <<>>]
    /\ inv' = [f \in Frame |-> IF f \in Stranded(b) THEN "answered" ELSE inv[f]]
    /\ DropTasks(b)
    /\ UNCHANGED <<bridge, started, depth, nested, host, cancelled, job, taskOn,
                   waits, plan>>

\* shutdown_bridge drops the sender; the thread drains its channel and ends.
ShutdownBridge ==
    /\ "shutdown" \in plan.faults /\ bridge # None
    /\ bridge' = None
    /\ UNCHANGED <<started, queue, busy, dead, calls, cancelled, jobs, waits,
                   plan>>

MayExitBusy(b) == busy[b] = None                           \* mutant
MayExit(b) == busy[b] = None /\ queue[b] = <<>>

BridgeExits(b) ==
    /\ b <= started /\ b # bridge /\ b \notin dead /\ MayExit(b)
    /\ dead' = dead \cup {b}
    /\ queue' = [queue EXCEPT ![b] = <<>>]
    /\ DropTasks(b)
    /\ UNCHANGED <<bridge, started, busy, calls, cancelled, job, taskOn, waits,
                   plan>>

-----------------------------------------------------------------------------
(* Scripts are stopped and started again; jobs *)

StopScript(c) ==
    /\ c \in plan.runs /\ ~cancelled[c]
    /\ cancelled' = [cancelled EXCEPT ![c] = TRUE]
    /\ UNCHANGED <<threads, calls, jobs, waits, plan>>

StartScript(c) ==
    /\ cancelled[c] /\ Running(c)
    /\ cancelled' = [cancelled EXCEPT ![c] = FALSE]
    /\ UNCHANGED <<threads, calls, jobs, waits, plan>>

\* A job that was cancelled before its task starts does not run.
TaskStarts(f) ==
    /\ task[f] = "new"
    /\ IF job[f] = "cancelled"
         THEN task' = [task EXCEPT ![f] = "none"] /\ UNCHANGED job
         ELSE /\ task' = [task EXCEPT ![f] = "work"]
              /\ job' = IF job[f] = "gone" THEN job
                                          ELSE [job EXCEPT ![f] = "running"]
    /\ UNCHANGED <<threads, calls, cancelled, taskOn, waits, plan>>

OutcomeAlways(f) == {"done", "failed"}                     \* mutant
\* What the end of f's task makes of its job: a cancelled job stays so.
Outcome(f) == IF job[f] \in {"cancelled", "gone"} THEN {job[f]}
                                                  ELSE {"done", "failed"}

TaskEnds(f) ==
    /\ task[f] = "work"
    /\ task' = [task EXCEPT ![f] = "none"]
    /\ \E st \in Outcome(f) : job' = [job EXCEPT ![f] = st]
    /\ UNCHANGED <<threads, calls, cancelled, taskOn, waits, plan>>

JobCancel(f) ==
    /\ Running(f) /\ job[f] \in {"pending", "running"}
    /\ job' = [job EXCEPT ![f] = "cancelled"]
    /\ UNCHANGED <<threads, calls, cancelled, task, taskOn, waits, plan>>

JobGc(f) ==
    /\ Running(f) /\ job[f] \in Terminal
    /\ job' = [job EXCEPT ![f] = "gone"]
    /\ UNCHANGED <<threads, calls, cancelled, task, taskOn, waits, plan>>

JobWait(f) ==
    /\ Running(f) /\ job[f] \notin {"none", "asked"}
    /\ waits' = waits \cup {f}
    /\ UNCHANGED <<threads, calls, cancelled, jobs, plan>>

JobWaitEnds(f) ==
    /\ f \in waits /\ job[f] \in Terminal \cup {"gone"}
    /\ waits' = waits \ {f}
    /\ UNCHANGED <<threads, calls, cancelled, jobs, plan>>

-----------------------------------------------------------------------------
Serve(s) ==
    \/ s \in Bridge /\ (BridgeTakes(s) \/ BridgeFinishes(s) \/ BridgeExits(s))
    \/ s \in Frame /\ NestedFinishes(s)
FrameStep(f) == Return(f) \/ (f \in Caller /\ Abandon(f)) \/ JobWaitEnds(f)
TaskStep(f) == TaskStarts(f) \/ TaskEnds(f)

Next ==
    \/ \E f \in Frame, w \in Work : InvokeNested(f, w) \/ InvokeOnBridge(f, w)
    \/ \E s \in Server : Serve(s)
    \/ \E b \in Bridge : BridgePanics(b)
    \/ \E l \in Library : LibraryReturns(l)
    \/ \E f \in Frame :
        FrameStep(f) \/ TaskStep(f) \/ JobCancel(f) \/ JobGc(f) \/ JobWait(f)
    \/ \E c \in Caller : StopScript(c) \/ StartScript(c)
    \/ ShutdownBridge

Spec == Init /\ [][Next]_vars

\* Threads and tasks are scheduled, ctx methods and libraries return.
Fairness ==
    /\ \A s \in Server : WF_vars(Serve(s))
    /\ \A f \in Frame : WF_vars(FrameStep(f)) /\ WF_vars(TaskStep(f))
    /\ \A l \in Library : SF_vars(LibraryReturns(l))
FairSpec == Spec /\ Fairness

-----------------------------------------------------------------------------
(* Properties *)

\* Every variable keeps its type, and the depth counts frames: it neither
\* leaks nor underflows (bridge.rs:234-242).
TypeOK ==
    /\ depth \in 0..Cardinality(Frame)
    /\ bridge \in Bridge \cup {None} /\ started \in 0..MaxBridge
    /\ \A b \in Bridge : /\ Len(queue[b]) <= MaxQueue
                         /\ \A i \in DOMAIN queue[b] : queue[b][i] \in Requests
    /\ busy \in [Bridge -> Requests \cup {None}] /\ dead \subseteq Bridge
    /\ inv \in [Frame -> {"none", "sent", "nested", "answered"}]
    /\ nested \in [Frame -> Work \cup {None}]
    /\ host \in [Library -> Server \cup {None}]
    /\ cancelled \in [Caller -> BOOLEAN]
    /\ job \in [Frame -> {"none", "asked", "pending", "running", "gone"}
                            \cup Terminal]
    /\ task \in [Frame -> {"none", "new", "work"}]
    /\ taskOn \in [Frame -> Bridge \cup {None}] /\ waits \subseteq Frame
    /\ plan \in Plans

\* A caller that waits for the bridge waits for exactly one request that is
\* still queued or executing: no reply is waited for that nobody will send,
\* whatever shuts the bridge down, and no stale reply is taken for a new one.
WaitsForOneRequest ==
    \A f \in Frame :
        LET at == {b \in Bridge : f \in Waiters(b)}
        IN  /\ inv[f] = "sent" <=> at # {}
            /\ Cardinality(at) <= 1

\* A wait that nobody ends: a job is not settled and has no task, because the
\* runtime that it was spawned on is gone.  jobWait asks for the status only
\* (bridge.rs:682), and "spawns it as a tokio task" (bridge.rs:40) does not
\* say on which.
WaitsInVain(f) ==
    f \in waits /\ job[f] \in {"pending", "running"} /\ task[f] = "none"

\* No script waits for ever in __invoke or in jobWait, whatever is cancelled,
\* panics or is shut down, unless it or a library waits in vain for a job.
Waiting(c) == inv[c] # "none" \/ c \in waits
ScriptCallsReturn ==
    \A c \in Caller :
        Waiting(c) ~> ~Waiting(c) \/ \E f \in Library \cup {c} : WaitsInVain(f)

\* A settled job keeps its status: a result that arrives after jobCancel
\* does not turn it into a finished one.
JobSettles ==
    [][\A f \in Frame : job[f] \in Terminal => job'[f] \in {job[f], "gone"}]_vars

\* A job that is not settled has a task that will settle it, as long as the
\* bridge thread that the post ran on lives.  A job with no such thread was
\* posted by a nested call: its task died with the call's own runtime.
JobsHaveTasks ==
    \A f \in Frame :
        job[f] \in {"pending", "running"} /\ taskOn[f] \notin dead \cup {None}
            => task[f] # "none"

\* "Nested invokes must not wait on that same thread or we deadlock"
\* (bridge.rs:232): no call waits on the thread that it runs on.
NoBridgeDeadlock ==
    \A l \in Library : inv[l] = "sent" =>
        \A b \in Bridge : host[l] = b =>
            \A i \in DOMAIN queue[b] : queue[b][i].from # l
=============================================================================
