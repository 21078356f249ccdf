---------------------------- MODULE InputPipeline ----------------------------
(***************************************************************************)
(* How an input of a script reaches the game.  The ScriptContext keeps one *)
(* controller behind a mutex; binding a window builds a new pipeline       *)
(*     Recording( Queued?( Failover( primary, fallback? ) ) )              *)
(* and puts it there, while the queue of the one before may still drain    *)
(* (crates/betternte-input/src/{queue,queued_controller,failover,          *)
(* recording_controller,win32}.rs, crates/betternte-engine/src/            *)
(* {script_ctx,capture}.rs).                                               *)
(*                                                                         *)
(* A caller is whoever runs a ctx method; its future may be dropped at any *)
(* await, by jobCancel, a step's timeout or the end of the bridge.         *)
(***************************************************************************)
EXTENDS Naturals, Sequences, SequencesExt

CONSTANTS
    Caller,     \* tasks that call the input methods of ctx
    Engine,     \* the engine, when it binds a window
    Key,        \* keys and mouse buttons
    Op,         \* the inputs that are made: a subset of Inputs
    Configs,    \* what a pipeline may be: <<with a queue, with a fallback>>
    MaxPipes,   \* bound: windows bound in a behaviour
    Capacity,   \* the queue's capacity
    Threshold,  \* input_fail_threshold
    None

Pipe    == 1..MaxPipes
Backend == {"primary", "fallback"}
Inputs  == {"click", "down", "up", "tap", "swipe"}

ASSUME ActorAssumption == Engine \notin Caller /\ None \notin Caller
ASSUME InputAssumption ==
    Op \subseteq Inputs /\ Configs \subseteq BOOLEAN \X BOOLEAN
ASSUME NumberAssumption ==
    /\ MaxPipes \in Nat \ {0} /\ Capacity \in Nat \ {0}
    /\ Threshold \in Nat \ {0}

VARIABLES
    turn,       \* the mutex of input_controller: its holder, then who waits
    pc,         \* where each caller is
    installed,  \* the pipeline in input_controller, 0 if none yet
    queued,     \* whether each pipeline has a queue (input_rate_limit > 0)
    backup,     \* whether it has a fallback
    alive,      \* "none", "up", "panicked" (its worker has) or "gone"
    queue,      \* its commands: [from, op, key], from None once dropped
    exec,       \* what it executes: a command and how far it is
    active, failures,   \* FailoverState; next_probe_at is set with fallback
    held,       \* held_keys and held_buttons of its foreground backend
    down,       \* what is down: keys pressed by SendInput or by a message
    presser,    \* history: whose SendInput pressed each key last
    streak,     \* history: failures of the primary since its last success
    fault,      \* history: an attempt failed, timed out or was cut off
    asked,      \* history: keys that completed inputs leave down, till then
    half        \* history: a swipe left by ? without releasing its button

callers  == <<turn, pc>>
binding  == <<installed, queued, backup>>
failover == <<active, failures>>
keys     == <<held, down, presser>>
history  == <<streak, asked, fault, half>>
vars     == <<callers, binding, alive, queue, exec, failover, keys, history>>

Command == [from : Caller \cup {None}, op : Op, key : Key]
Execution == [cmd : Command, on : Backend, next : 1..4, pressed : BOOLEAN,
              tried : Seq(Backend)]

ASSUME NoneAssumption == None \notin Execution \cup [op : Op, key : Key]

\* What an input does to its key, one step for every event it sends.
Events(op) ==
    CASE op = "click" -> <<"touch">>
      [] op = "down"  -> <<"press">>
      [] op = "up"    -> <<"release">>
      [] op = "tap"   -> <<"press", "release">>
      [] op = "swipe" -> <<"touch", "press", "touch", "release">>

\* With input_mode auto, the primary works in the foreground and the fallback
\* in the background.
Way(b) == IF b = "primary" THEN "sent" ELSE "posted"

Init ==
    /\ turn = <<>>
    /\ pc = [c \in Caller |-> "idle"]
    /\ installed = 0
    /\ queued = [p \in Pipe |-> FALSE] /\ backup = [p \in Pipe |-> FALSE]
    /\ alive = [p \in Pipe |-> "none"]
    /\ queue = [p \in Pipe |-> <<>>] /\ exec = [p \in Pipe |-> None]
    /\ active = [p \in Pipe |-> "primary"]
    /\ failures = [p \in Pipe |-> 0]
    /\ held = [p \in Pipe |-> {}] /\ down = {}
    /\ presser = [k \in Key |-> 0]
    /\ streak = [p \in Pipe |-> 0] /\ asked = {} /\ fault = FALSE
    /\ half = FALSE

-----------------------------------------------------------------------------
(* Win32Input *)

Press(p, b, k) ==
    /\ down' = down \cup {<<Way(b), k>>}
    /\ IF b = "primary"
         THEN /\ held' = [held EXCEPT ![p] = @ \cup {k}]
              /\ presser' = [presser EXCEPT ![k] = p]
         ELSE UNCHANGED <<held, presser>>

Release(p, b, k) ==
    /\ down' = down \ {<<Way(b), k>>}
    /\ IF b = "primary"
         THEN /\ held' = [held EXCEPT ![p] = @ \ {k}]
              /\ presser' = [presser EXCEPT ![k] = 0]
         ELSE UNCHANGED <<held, presser>>

Send(p, b, event, k) ==
    CASE event = "press"   -> Press(p, b, k)
      [] event = "release" -> Release(p, b, k)
      [] OTHER             -> UNCHANGED keys

ReleaseHeldNot(p) == UNCHANGED <<keys, failover, streak>>  \* mutant
\* Drop: what the foreground backend has pressed and not released goes up;
\* nothing of the pipeline is left.
ReleaseHeld(p) ==
    /\ down' = down \ ({"sent"} \X held[p])
    /\ held' = [held EXCEPT ![p] = {}]
    /\ active' = [active EXCEPT ![p] = "primary"]
    /\ failures' = [failures EXCEPT ![p] = 0]
    /\ streak' = [streak EXCEPT ![p] = 0]
    /\ presser' = [k \in Key |-> IF k \in held[p] THEN 0 ELSE presser[k]]

-----------------------------------------------------------------------------
(* Failover: run_with_failover starts an attempt, which ends by success,   *)
(* by an error of the backend or by its timeout.                           *)

Attempt(cmd, b) == [cmd |-> cmd, on |-> b, next |-> 1, pressed |-> FALSE,
                    tried |-> <<b>>]

\* should_probe_primary, else current_active: on the fallback it depends on
\* the time whether the primary is probed first.
FirstBackend(p) == IF active[p] = "fallback" THEN Backend ELSE {active[p]}

Begin(p, cmd) ==
    \E b \in FirstBackend(p) : exec' = [exec EXCEPT ![p] = Attempt(cmd, b)]

Probing(p) == active[p] = "fallback" /\ exec[p].on = "primary"

\* The command once more, on the other backend.
NextAttempt(e, b) == [Attempt(e.cmd, b) EXCEPT !.tried = Append(e.tried, b)]

Again(p, b) == exec' = [exec EXCEPT ![p] = NextAttempt(exec[p], b)]

\* The command is done: the worker takes the next one, the caller goes on.
Done(p) ==
    LET c == exec[p].cmd.from IN
    /\ exec' = [exec EXCEPT ![p] = None]
    /\ pc' = IF c = None THEN pc ELSE [pc EXCEPT ![c] = "record"]
    /\ UNCHANGED turn

\* mark_primary_success
MarkNoSuccess(p) == UNCHANGED failures                     \* mutant
MarkSuccess(p) == failures' = [failures EXCEPT ![p] = 0]

AttemptSucceeds(p) ==
    /\ CASE Probing(p) ->
              /\ active' = [active EXCEPT ![p] = "primary"]
              /\ failures' = [failures EXCEPT ![p] = 0]
         [] ~Probing(p) /\ active[p] = "primary" ->
              MarkSuccess(p) /\ UNCHANGED active
         [] OTHER -> UNCHANGED failover
    /\ streak' = IF exec[p].on = "primary" THEN [streak EXCEPT ![p] = 0]
                                           ELSE streak
    /\ Done(p)

Fault == fault' = TRUE /\ asked' = {}

\* After a failed probe the command runs on the active backend.
AfterProbePrimary(p) == "primary"                          \* mutant
AfterProbe(p) == active[p]

\* mark_primary_failure: the primary may still fail.
StaysOneMore(p) == failures[p] < Threshold                 \* mutant
Stays(p) == failures[p] + 1 < Threshold

AttemptFails(p) ==
    /\ streak' = IF exec[p].on = "primary"
                   THEN [streak EXCEPT ![p] = IF @ < Threshold THEN @ + 1 ELSE @]
                   ELSE streak
    /\ Fault
    /\ CASE Probing(p) ->
              /\ Again(p, AfterProbe(p))
              /\ UNCHANGED <<failover, callers>>
         [] active[p] = "fallback" /\ ~Probing(p) ->
              Done(p) /\ UNCHANGED failover
         [] active[p] = "primary" /\ ~backup[p] ->
              Done(p) /\ UNCHANGED failover
         [] active[p] = "primary" /\ backup[p] /\ Stays(p) ->
              /\ failures' = [failures EXCEPT ![p] = @ + 1]
              /\ Done(p) /\ UNCHANGED active
         [] OTHER ->
              /\ active' = [active EXCEPT ![p] = "fallback"]
              /\ failures' = [failures EXCEPT ![p] = 0]
              /\ Again(p, "fallback")
              /\ UNCHANGED callers

\* The keys that the events of an input leave down.
Leaves(cmd, ks) ==
    IF cmd.op = "down" THEN ks \cup {cmd.key}
    ELSE IF cmd.op = "click" THEN ks ELSE ks \ {cmd.key}

After(e, event) ==
    [e EXCEPT !.next = @ + 1, !.pressed = @ \/ event = "press"]

\* The next event of the attempt; the last one completes it.
SendEvent(p) ==
    /\ exec[p] # None
    /\ LET e  == exec[p]
           es == Events(e.cmd.op)
       IN /\ Send(p, e.on, es[e.next], e.cmd.key)
          /\ IF e.next < Len(es)
               THEN /\ exec' = [exec EXCEPT ![p] = After(e, es[e.next])]
                    /\ UNCHANGED <<callers, failover, history>>
               ELSE /\ AttemptSucceeds(p)
                    /\ asked' = IF fault THEN {} ELSE Leaves(e.cmd, asked)
                    /\ UNCHANGED <<fault, half>>
    /\ UNCHANGED <<binding, alive, queue>>

GivesUpPressed(e) ==
    e.cmd.op = "swipe" /\ e.pressed /\ Events(e.cmd.op)[e.next] # "release"

\* The target window does not come to the foreground: ? leaves the input.
\* A message to a window is posted without looking at the outcome.
EventFails(p) ==
    /\ exec[p] # None /\ Way(exec[p].on) = "sent"
    /\ AttemptFails(p)
    /\ half' = (half \/ GivesUpPressed(exec[p]))
    /\ UNCHANGED <<binding, alive, queue, keys>>

\* tokio's timeout drops the attempt where it awaits: before any event in
\* the foreground, between two events in the background.
Awaits(e) == Way(e.on) = "sent" \/ e.next > 1

TimesOut(p) ==
    /\ exec[p] # None /\ Awaits(exec[p])
    /\ AttemptFails(p)
    /\ UNCHANGED <<binding, alive, queue, keys, half>>

-----------------------------------------------------------------------------
(* InputQueue: the worker runs one command after the other, whether its    *)
(* caller still waits or not.                                              *)

RestKept(q) == q                                           \* mutant
Rest(q) == Tail(q)

WorkerTakes(p) ==
    /\ queued[p] /\ alive[p] = "up"
    /\ exec[p] = None /\ queue[p] # <<>>
    /\ Begin(p, Head(queue[p]))
    /\ queue' = [queue EXCEPT ![p] = Rest(@)]
    /\ UNCHANGED <<callers, binding, alive, failover, keys, history>>

WaitsOn(c, p) == pc[c] = "reply" /\ installed = p

Fail(cs) == [c \in Caller |-> IF c \in cs THEN "record" ELSE pc[c]]

\* An input that overflows (delta * 120, x2 - x1 in a debug build) panics:
\* the worker unwinds, its channel closes and the callers are told.
WorkerPanics(p) ==
    /\ queued[p] /\ exec[p] # None
    /\ alive' = [alive EXCEPT ![p] = "panicked"]
    /\ exec' = [exec EXCEPT ![p] = None]
    /\ queue' = [queue EXCEPT ![p] = <<>>]
    /\ pc' = Fail({c \in Caller : WaitsOn(c, p)})
    /\ Fault
    /\ UNCHANGED <<turn, binding, failover, keys, streak, half>>

\* The last sender is gone and the queue is empty: the worker ends, and
\* with it the last reference to the backends.
Retire(p) ==
    /\ queued[p] /\ alive[p] \in {"up", "panicked"} /\ installed # p
    /\ exec[p] = None /\ queue[p] = <<>>
    /\ alive' = [alive EXCEPT ![p] = "gone"]
    /\ backup' = [backup EXCEPT ![p] = FALSE]
    /\ ReleaseHeld(p)
    /\ UNCHANGED <<callers, installed, queued, queue, exec, asked, fault, half>>

-----------------------------------------------------------------------------
(* The callers: ctx methods under the mutex of input_controller *)

\* What the caller asks for.
Input(c) == {[from |-> c, op |-> op, key |-> k] : op \in Op, k \in Key}

Holds(a) == turn # <<>> /\ Head(turn) = a
Goto(c, l) == pc' = [pc EXCEPT ![c] = l]
Vacate(a) == \E i \in DOMAIN turn : turn[i] = a /\ turn' = RemoveAt(turn, i)

Call(c) ==
    /\ pc[c] = "idle"
    /\ Goto(c, "lock") /\ turn' = Append(turn, c)
    /\ UNCHANGED <<binding, alive, queue, exec, failover, keys, history>>

\* Without a controller the method logs and returns.
NoController(c) ==
    /\ pc[c] = "lock" /\ Holds(c) /\ installed = 0
    /\ Goto(c, "idle") /\ Vacate(c)
    /\ UNCHANGED <<binding, alive, queue, exec, failover, keys, history>>

\* Without a queue the caller itself runs the input.
RunsItself(c) ==
    /\ pc[c] = "lock" /\ Holds(c) /\ installed # 0 /\ ~queued[installed]
    /\ \E cmd \in Input(c) : Begin(installed, cmd)
    /\ Goto(c, "reply")
    /\ UNCHANGED <<turn, binding, alive, queue, failover, keys, history>>

RoomForNone(p) == Len(queue[p]) + 1 < Capacity             \* mutant
Room(p) == Len(queue[p]) < Capacity

\* submit: waits for room in the channel; a closed channel refuses.
Submit(c) ==
    /\ pc[c] = "lock" /\ Holds(c) /\ installed # 0 /\ queued[installed]
    /\ IF alive[installed] = "panicked"
         THEN Goto(c, "record") /\ UNCHANGED queue
         ELSE /\ Room(installed)
              /\ \E cmd \in Input(c) :
                    queue' = [queue EXCEPT ![installed] = Append(@, cmd)]
              /\ Goto(c, "reply")
    /\ UNCHANGED <<turn, binding, alive, exec, failover, keys, history>>

\* The recording controller has emitted the event, the guard is dropped.
Returns(c) ==
    /\ pc[c] = "record"
    /\ Goto(c, "idle") /\ Vacate(c)
    /\ UNCHANGED <<binding, alive, queue, exec, failover, keys, history>>

Orphan(cmd, c) == IF cmd.from = c THEN [cmd EXCEPT !.from = None] ELSE cmd

OrphanExec(e, c) ==
    IF e # None /\ e.cmd.from = c THEN [e EXCEPT !.cmd.from = None] ELSE e

AbandonCut(c) ==                                           \* mutant
    /\ queue' = [p \in Pipe |->
                    [i \in DOMAIN queue[p] |-> Orphan(queue[p][i], c)]]
    /\ exec' = [p \in Pipe |-> IF exec[p] # None /\ exec[p].cmd.from = c
                                 THEN None ELSE exec[p]]
\* What is left of c's command in a pipeline with a queue: it executes.
Abandon(c) ==
    /\ queue' = [p \in Pipe |->
                    [i \in DOMAIN queue[p] |-> Orphan(queue[p][i], c)]]
    /\ exec' = [p \in Pipe |-> OrphanExec(exec[p], c)]

\* The future of the call is dropped: without a queue the input stops
\* where it is, and the timeout around it is dropped with it.
Dropped(c) ==
    /\ pc[c] # "idle"
    /\ Goto(c, "idle") /\ Vacate(c)
    /\ IF pc[c] = "reply" /\ ~queued[installed]
         THEN /\ Awaits(exec[installed])
              /\ exec' = [exec EXCEPT ![installed] = None]
              /\ Fault /\ UNCHANGED queue
         ELSE Abandon(c) /\ UNCHANGED <<fault, asked>>
    /\ UNCHANGED <<binding, alive, failover, keys, streak, half>>

-----------------------------------------------------------------------------
(* The engine: bind_script_ctx_hwnd *)

AskBind ==
    /\ installed < MaxPipes /\ Engine \notin {turn[i] : i \in DOMAIN turn}
    /\ turn' = Append(turn, Engine)
    /\ UNCHANGED <<pc, binding, alive, queue, exec, failover, keys,
                   history>>

\* set_input_controller: the old pipeline is dropped, at once unless a queue
\* keeps it.
Bind ==
    /\ Holds(Engine) /\ Vacate(Engine) /\ installed < MaxPipes
    /\ LET old == installed
           new == installed + 1
       IN /\ installed' = new
          /\ \E config \in Configs :
                /\ queued' = [queued EXCEPT ![new] = config[1]]
                /\ backup' = [backup EXCEPT ![new] = config[2]]
          /\ IF old # 0 /\ ~queued[old]
               THEN /\ alive' = [alive EXCEPT ![new] = "up", ![old] = "gone"]
                    /\ ReleaseHeld(old)
               ELSE /\ alive' = [alive EXCEPT ![new] = "up"]
                    /\ UNCHANGED <<keys, failover, streak>>
    /\ UNCHANGED <<pc, queue, exec, asked, fault, half>>

-----------------------------------------------------------------------------
Advance(p) == SendEvent(p) \/ EventFails(p) \/ TimesOut(p)

CallerStep(c) == NoController(c) \/ RunsItself(c) \/ Submit(c) \/ Returns(c)

Next ==
    \/ \E c \in Caller : Call(c) \/ CallerStep(c) \/ Dropped(c)
    \/ \E p \in Pipe : Advance(p) \/ WorkerTakes(p) \/ WorkerPanics(p)
                          \/ Retire(p)
    \/ AskBind \/ Bind

Spec == Init /\ [][Next]_vars

\* Attempts end (by their timeout at the latest), the worker and the callers
\* go on, and who holds the mutex leaves it.
Fairness ==
    /\ \A c \in Caller : WF_vars(CallerStep(c))
    /\ \A p \in Pipe : WF_vars(Advance(p)) /\ WF_vars(WorkerTakes(p))
                          /\ WF_vars(Retire(p))
    /\ WF_vars(Bind)

FairSpec == Spec /\ Fairness

-----------------------------------------------------------------------------
(* Properties *)

Stages == {"idle", "lock", "reply", "record"}

\* Every variable keeps its type; a queue holds at most Capacity commands,
\* failures stay below the threshold.
TypeOK ==
    /\ turn \in Seq(Caller \cup {Engine})
    /\ pc \in [Caller -> Stages]
    /\ installed \in 0..MaxPipes
    /\ queued \in [Pipe -> BOOLEAN] /\ backup \in [Pipe -> BOOLEAN]
    /\ alive \in [Pipe -> {"none", "up", "panicked", "gone"}]
    /\ queue \in [Pipe -> Seq(Command)]
    /\ \A p \in Pipe : Len(queue[p]) <= Capacity
    /\ exec \in [Pipe -> Execution \cup {None}]
    /\ active \in [Pipe -> Backend] /\ failures \in [Pipe -> 0..(Threshold - 1)]
    /\ held \in [Pipe -> SUBSET Key]
    /\ down \subseteq {"sent", "posted"} \X Key
    /\ presser \in [Key -> 0..MaxPipes]
    /\ streak \in [Pipe -> 0..Threshold] /\ fault \in BOOLEAN

\* A caller that waits for a reply has its command in the installed
\* pipeline, in its queue or in execution, once; nobody else's answer can
\* come to it (the mutex is kept while the call lasts, queue.rs:102-124).
WaiterHasCommand ==
    \A c \in Caller :
        LET mine == {i \in DOMAIN queue[installed] :
                        queue[installed][i].from = c}
            runs == exec[installed] # None /\ exec[installed].cmd.from = c
        IN pc[c] = "reply" =>
            /\ installed # 0 /\ Holds(c)
            /\ IF runs THEN mine = {} ELSE \E i \in DOMAIN queue[installed] : mine = {i}

\* A key stays down only if a completed input left it down or an input
\* that presses it is under way, as long as no attempt failed, timed out or
\* was cut off: in particular, a dropped caller leaves no key down if its
\* input went through the queue (queue.rs:73-91).
KeysAsAsked ==
    ~fault => \A w \in {"sent", "posted"}, k \in Key :
        <<w, k>> \in down =>
            \/ k \in asked
            \/ \E p \in Pipe : exec[p] # None /\ exec[p].cmd.key = k
                                  /\ exec[p].pressed /\ Way(exec[p].on) = w

\* A key that SendInput pressed and that is still down is known to a live
\* controller, whose end will release it: no swap of controllers leaves a
\* key stuck (win32.rs:1107-1114).
SentKeysOwned ==
    \A k \in Key : <<"sent", k>> \in down =>
        /\ presser[k] # 0
        /\ alive[presser[k]] \in {"up", "panicked"}
        /\ k \in held[presser[k]]

\* The fallback is active only after Threshold failures of the primary in
\* a row, with no success in between (failover.rs:240-256).
FallbackEarned ==
    \A p \in Pipe : active[p] = "fallback" => backup[p] /\ streak[p] = Threshold

\* No input runs twice on the same backend: not after a failed probe, and
\* not when the backends are switched while it runs (failover.rs:194-262).
OncePerBackend ==
    \A p \in Pipe : exec[p] # None => IsInjective(exec[p].tried)

\* Each pipeline does what SerialWorker promises: its inputs run one at a
\* time, in order and once each, whatever becomes of their callers and of
\* the backends (queue.rs:73-91).
What(cmd) == [op |-> cmd.op, key |-> cmd.key]
Pending == [p \in Pipe |-> [i \in DOMAIN queue[p] |-> What(queue[p][i])]]
Running ==
    [p \in Pipe |-> IF exec[p] = None THEN None ELSE What(exec[p].cmd)]
Workers == INSTANCE SerialWorker WITH
    Worker <- Pipe, Task <- [op : Op, key : Key], Idle <- None,
    pending <- Pending, running <- Running
Serial == Workers!Spec

\* Every input call returns (or its future is dropped): attempts time out,
\* the worker drains, a panic of the worker answers who waits, and nobody
\* keeps the mutex.
InputsReturn == \A c \in Caller : pc[c] # "idle" ~> pc[c] = "idle"

\* win32.rs:966 "Always release the button - even when cancelled - to avoid
\* leaving the game in a half-pressed state": no swipe that is not timed out
\* or cut off leaves its button down.
SwipeReleases == ~half
=============================================================================
