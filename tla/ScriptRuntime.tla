---------------------------- MODULE ScriptRuntime ----------------------------
(***************************************************************************)
(* The script runtime (crates/betternte-script/src/runtime.rs): a registry *)
(* of loaded scripts behind one lock, the slot that says which task runs,  *)
(* the cancellation flags, and every operation that other threads call on  *)
(* them at once.                                                           *)
(*                                                                         *)
(* An operation that runs JavaScript for long takes the script's entry out *)
(* of the registry, runs it without the lock and puts it back; a hook that *)
(* runs under the lock keeps mapLock until it returns.  One action is the  *)
(* code between two acquisitions of a lock.  The lock of active_cancel is  *)
(* not a variable: nobody waits for anything while it has its guard.       *)
(***************************************************************************)
EXTENDS FiniteSets

CONSTANTS
    Script,      \* script ids (keys of the registry)
    Kind,        \* Kind[s]: the script_type of s's manifest
    Caller,      \* the threads that call the runtime's operations
    FlowCaller,  \* the callers whose call a flow step's timeout may drop
    Api,         \* the operations that are called
    NoScript, NoEntry, NoCaller

Operations == {"start", "stop", "enable", "disable", "reload", "load",
               "library", "tick", "shutdown"}

ASSUME KindAssumption == Kind \in [Script -> {"Task", "Trigger", "Library"}]
ASSUME CallerAssumption == FlowCaller \subseteq Caller

\* A LoadedScript: enabled, the flag of its instance's cancellation token,
\* and whether active_cancel holds a clone of that token.
Entry == [enabled : BOOLEAN, cancelled : BOOLEAN, active : BOOLEAN]
Fresh == [enabled |-> FALSE, cancelled |-> FALSE, active |-> FALSE]

ASSUME NullAssumption ==
    NoScript \notin Script /\ NoEntry \notin Entry /\ NoCaller \notin Caller

VARIABLES
    scripts,      \* the registry: id -> LoadedScript, or NoEntry
    mapLock,      \* the caller that keeps the registry's write lock
    activeTask,   \* active_task
    taskLock,     \* the caller that keeps active_task's write lock
    ctxCancel,    \* the cancel flag of the one shared ScriptContext
    pc, key, held,             \* where each caller is, its script, its entry
    tickTodo, tick, tickOut,   \* tick_triggers: names left, entries, results
    doomed,                    \* names shutdown has still to destroy
    gone,         \* history: ids never loaded, or dropped with no way back
    stopped       \* history: a stop_task has emptied the slot

registry == <<scripts, mapLock>>
slot     == <<activeTask, taskLock, stopped>>
ticker   == <<tickTodo, tick, tickOut>>
vars     == <<registry, slot, ctxCancel, pc, key, held, ticker, doomed, gone>>

\* From the claim of the slot to its release in start_task.
InSlot == {"take", "unclaim", "putlib", "token", "reset", "enable", "run",
           "clear", "put", "release"}
\* Where a hook runs under the registry's write lock.
InHook == {"e_token", "e_hook", "d_hook", "r_hook"}

Label == {"idle", "claim", "s_token", "s_name", "s_take", "s_hook", "s_clear",
          "s_both", "e_enter", "d_enter", "r_swap", "r_enter", "l_take", "l_run",
          "l_put", "x_list", "x_drop"} \cup InSlot \cup InHook

-----------------------------------------------------------------------------
Goto(c, l) == /\ pc' = [pc EXCEPT ![c] = l]
              /\ key' = [key EXCEPT ![c] = IF l = "idle" THEN NoScript ELSE @]
Hold(c, e) == held' = [held EXCEPT ![c] = e]
Store(s, e) == scripts' = [scripts EXCEPT ![s] = e]
Present(s) == scripts[s] # NoEntry
Unlocked == mapLock = NoCaller
TaskUnlocked == taskLock = NoCaller

\* The entry in c's hands dies, and its script is gone from the runtime.
Drop(c) ==
    /\ Hold(c, NoEntry)
    /\ gone' = IF held[c] = NoEntry THEN gone ELSE gone \cup {key[c]}

\* c calls operation op on script s.
Call(c, op, s, l) ==
    /\ pc[c] = "idle" /\ op \in Api
    /\ key' = [key EXCEPT ![c] = s]
    /\ pc' = [pc EXCEPT ![c] = l]

\* What a store to active_cancel, and cancelling the token it holds, do to
\* the entries of f: the token is shared with the instance it came from.
Detach(f) ==
    [x \in DOMAIN f |-> IF f[x] = NoEntry THEN NoEntry
                         ELSE [f[x] EXCEPT !.active = FALSE]]
CancelActive(f) ==
    [x \in DOMAIN f |-> IF f[x] = NoEntry THEN NoEntry
                         ELSE [f[x] EXCEPT !.cancelled = @ \/ f[x].active]]
\* active_cancel becomes the token of f's entry x, or None.
Attach(f, x) == [Detach(f) EXCEPT ![x].active = TRUE]
DetachAll == scripts' = Detach(scripts) /\ held' = Detach(held)
             /\ tick' = Detach(tick)

Init ==
    /\ scripts = [s \in Script |-> NoEntry] /\ mapLock = NoCaller
    /\ activeTask = NoScript /\ taskLock = NoCaller /\ stopped = FALSE
    /\ ctxCancel = FALSE
    /\ pc = [c \in Caller |-> "idle"] /\ key = [c \in Caller |-> NoScript]
    /\ held = [c \in Caller |-> NoEntry]
    /\ tickTodo = {} /\ tick = [s \in Script |-> NoEntry]
    /\ tickOut = [s \in Script |-> "none"]
    /\ doomed = {} /\ gone = Script

-----------------------------------------------------------------------------
(* load_from_dirs: insert a fresh, disabled entry for every script that is *)
(* found and loads, over whatever was there.                               *)
LoadDirs(c) ==
    /\ pc[c] = "idle" /\ "load" \in Api /\ Unlocked
    /\ \E S \in SUBSET Script :
        /\ scripts' = [s \in Script |-> IF s \in S THEN Fresh ELSE scripts[s]]
        /\ gone' = gone \ S
    /\ UNCHANGED <<mapLock, slot, ctxCancel, pc, key, held, ticker, doomed>>

(* reload_single_script: a snapshot under the read lock and a fresh        *)
(* instance loaded without it, the swap, then on_enable for a trigger that *)
(* was enabled with parameters.                                            *)
ReloadSnapshot(c) ==
    /\ Unlocked
    /\ \E s \in Script :
        /\ Call(c, "reload", s, "r_swap")
        /\ Present(s)
        /\ Hold(c, [Fresh EXCEPT !.enabled = scripts[s].enabled])
    /\ UNCHANGED <<registry, slot, ctxCancel, ticker, doomed, gone>>

ReloadSwap(c) ==
    /\ pc[c] = "r_swap" /\ Unlocked
    /\ IF Present(key[c]) THEN Store(key[c], held[c])
                          ELSE UNCHANGED scripts
    /\ \/ held[c].enabled /\ Goto(c, "r_enter")
       \/ Goto(c, "idle")      \* not enabled, or enabled without parameters
    /\ Hold(c, NoEntry)
    /\ UNCHANGED <<mapLock, slot, ctxCancel, ticker, doomed, gone>>

ReloadEnter(c) ==
    /\ pc[c] = "r_enter" /\ Unlocked
    /\ IF Present(key[c]) THEN mapLock' = c /\ Goto(c, "r_hook")
                          ELSE UNCHANGED mapLock /\ Goto(c, "idle")
    /\ UNCHANGED <<scripts, slot, ctxCancel, held, ticker, doomed, gone>>

ReloadHook(c) ==
    /\ pc[c] = "r_hook"
    /\ mapLock' = NoCaller /\ Goto(c, "idle")
    /\ UNCHANGED <<scripts, slot, ctxCancel, held, ticker, doomed, gone>>

-----------------------------------------------------------------------------
(* enable_script: on_enable runs under the write lock, after the slot's    *)
(* token has been overwritten by this script's.                            *)
EnableResolve(c) ==
    /\ Unlocked
    /\ \E s \in Script : Call(c, "enable", s, "e_enter") /\ Present(s)
    /\ UNCHANGED <<registry, slot, ctxCancel, held, ticker, doomed, gone>>

MayEnableTwice(s) == Present(s)                            \* mutant
MayEnable(s) == Present(s) /\ ~scripts[s].enabled

EnableEnter(c) ==
    /\ pc[c] = "e_enter" /\ Unlocked
    /\ IF MayEnable(key[c])
         THEN mapLock' = c /\ Goto(c, "e_token")
         ELSE UNCHANGED mapLock /\ Goto(c, "idle")
    /\ UNCHANGED <<scripts, slot, ctxCancel, held, ticker, doomed, gone>>

EnableToken(c) ==
    /\ pc[c] = "e_token"
    /\ scripts' = Attach(scripts, key[c])
    /\ held' = Detach(held) /\ tick' = Detach(tick)
    /\ Goto(c, "e_hook")
    /\ UNCHANGED <<mapLock, slot, ctxCancel, tickTodo, tickOut, doomed, gone>>

EnableHook(c) ==
    /\ pc[c] = "e_hook"
    /\ \/ Store(key[c], [scripts[key[c]] EXCEPT !.enabled = TRUE])
       \/ UNCHANGED scripts                          \* on_enable failed
    /\ mapLock' = NoCaller /\ Goto(c, "idle")
    /\ UNCHANGED <<slot, ctxCancel, held, ticker, doomed, gone>>

(* disable_script: on_disable runs under the write lock too.               *)
DisableResolve(c) ==
    /\ Unlocked
    /\ \E s \in Script : Call(c, "disable", s, "d_enter") /\ Present(s)
    /\ UNCHANGED <<registry, slot, ctxCancel, held, ticker, doomed, gone>>

DisableEnter(c) ==
    /\ pc[c] = "d_enter" /\ Unlocked
    /\ IF Present(key[c]) /\ scripts[key[c]].enabled
         THEN mapLock' = c /\ Goto(c, "d_hook")
         ELSE UNCHANGED mapLock /\ Goto(c, "idle")
    /\ UNCHANGED <<scripts, slot, ctxCancel, held, ticker, doomed, gone>>

DisableHook(c) ==
    /\ pc[c] = "d_hook"
    /\ \/ Store(key[c], [scripts[key[c]] EXCEPT !.enabled = FALSE])
       \/ UNCHANGED scripts                          \* on_disable failed
    /\ mapLock' = NoCaller /\ Goto(c, "idle")
    /\ UNCHANGED <<slot, ctxCancel, held, ticker, doomed, gone>>

-----------------------------------------------------------------------------
(* start_task *)
StartResolve(c) ==
    /\ Unlocked
    /\ \E s \in Script : Call(c, "start", s, "claim") /\ Present(s)
    /\ UNCHANGED <<registry, slot, ctxCancel, held, ticker, doomed, gone>>

SlotUnchecked == TRUE                                      \* mutant
SlotFree == activeTask = NoScript

StartClaim(c) ==
    /\ pc[c] = "claim" /\ TaskUnlocked
    /\ IF SlotFree
         THEN activeTask' = key[c] /\ Goto(c, "take")
         ELSE UNCHANGED activeTask /\ Goto(c, "idle")
    /\ UNCHANGED <<registry, taskLock, stopped, ctxCancel, held, ticker,
                   doomed, gone>>

AfterTake(s) == CASE ~Present(s) -> "unclaim"
                  [] Present(s) /\ Kind[s] = "Library" -> "putlib"
                  [] OTHER -> "token"

StartTake(c) ==
    /\ pc[c] = "take" /\ Unlocked
    /\ Hold(c, scripts[key[c]])
    /\ Store(key[c], NoEntry)
    /\ Goto(c, AfterTake(key[c]))
    /\ UNCHANGED <<mapLock, slot, ctxCancel, ticker, doomed, gone>>

\* Put a library that was asked to run as a task back.
StartPutLibrary(c) ==
    /\ pc[c] = "putlib" /\ Unlocked
    /\ Store(key[c], held[c]) /\ Hold(c, NoEntry)
    /\ Goto(c, "unclaim")
    /\ UNCHANGED <<mapLock, slot, ctxCancel, ticker, doomed, gone>>

StartToken(c) ==
    /\ pc[c] = "token"
    /\ held' = Attach(held, c)
    /\ scripts' = Detach(scripts) /\ tick' = Detach(tick)
    /\ Goto(c, IF Kind[key[c]] = "Trigger" THEN "enable" ELSE "reset")
    /\ UNCHANGED <<mapLock, slot, ctxCancel, tickTodo, tickOut, doomed, gone>>

ResetTokens(c) ==                                          \* mutant
    held' = [d \in Caller |-> IF held[d] = NoEntry THEN NoEntry
                               ELSE [held[d] EXCEPT !.cancelled = FALSE]]
ResetToken(c) == Hold(c, [held[c] EXCEPT !.cancelled = FALSE])

\* Script::start resets the instance's token and the shared context's flag.
StartReset(c) ==
    /\ pc[c] = "reset"
    /\ ResetToken(c)
    /\ ctxCancel' = FALSE
    /\ Goto(c, "run")
    /\ UNCHANGED <<registry, slot, ticker, doomed, gone>>

\* A trigger run as a task is enabled first; the ? operator of a failing
\* on_enable leaves start_task with the entry dropped and the slot taken.
StartEnable(c) ==
    /\ pc[c] = "enable"
    /\ \/ /\ Hold(c, [held[c] EXCEPT !.enabled = TRUE]) /\ Goto(c, "run")
          /\ UNCHANGED gone
       \/ Goto(c, "idle") /\ Drop(c)
    /\ UNCHANGED <<registry, slot, ctxCancel, ticker, doomed>>

\* The script ends by itself, with or without an error ...
RunEnds(c) ==
    /\ pc[c] = "run"
    /\ Goto(c, "clear")
    /\ UNCHANGED <<registry, slot, ctxCancel, held, ticker, doomed, gone>>

SeesContextOnly(c) == ctxCancel /\ Kind[key[c]] = "Task"   \* mutant
SeesCancel(c) == held[c].cancelled \/ (ctxCancel /\ Kind[key[c]] = "Task")

\* ... or between two of its continuations sees that it was cancelled.
RunCancelled(c) ==
    /\ pc[c] = "run"
    /\ SeesCancel(c)
    /\ Goto(c, "clear")
    /\ UNCHANGED <<registry, slot, ctxCancel, held, ticker, doomed, gone>>

StartClear(c) ==
    /\ pc[c] = "clear"
    /\ DetachAll
    /\ Goto(c, "put")
    /\ UNCHANGED <<mapLock, slot, ctxCancel, tickTodo, tickOut, doomed, gone>>

StartPut(c) ==
    /\ pc[c] = "put" /\ Unlocked
    /\ Store(key[c], held[c]) /\ Hold(c, NoEntry)
    /\ Goto(c, "release")
    /\ UNCHANGED <<mapLock, slot, ctxCancel, ticker, doomed, gone>>

StartReleaseFound(c) ==                                    \* mutant
    /\ pc[c] \in {"release", "unclaim"} /\ TaskUnlocked
    /\ activeTask' = IF pc[c] = "release" THEN NoScript ELSE activeTask
    /\ Goto(c, "idle")
    /\ UNCHANGED <<registry, taskLock, stopped, ctxCancel, held, ticker,
                   doomed, gone>>

StartRelease(c) ==
    /\ pc[c] \in {"release", "unclaim"} /\ TaskUnlocked
    /\ activeTask' = NoScript
    /\ Goto(c, "idle")
    /\ UNCHANGED <<registry, taskLock, stopped, ctxCancel, held, ticker,
                   doomed, gone>>

\* A flow step's timeout drops the future of start_task while it waits for
\* a lock: the entry it holds dies with it and the slot keeps its claim.
StartDropped(c) ==
    /\ c \in FlowCaller
    /\ pc[c] \in {"take", "unclaim", "putlib", "token", "clear", "put",
                  "release"}
    /\ Goto(c, "idle") /\ Drop(c)
    /\ UNCHANGED <<registry, slot, ctxCancel, ticker, doomed>>

-----------------------------------------------------------------------------
(* stop_task *)
StopRequest(c) ==
    /\ Call(c, "stop", NoScript, "s_token")
    /\ ctxCancel' = TRUE
    /\ UNCHANGED <<registry, slot, held, ticker, doomed, gone>>

\* Cancel the token in active_cancel, wherever its instance is by now.
StopToken(c) ==
    /\ pc[c] = "s_token"
    /\ scripts' = CancelActive(scripts) /\ held' = CancelActive(held)
    /\ tick' = CancelActive(tick)
    /\ Goto(c, "s_name")
    /\ UNCHANGED <<mapLock, slot, ctxCancel, tickTodo, tickOut, doomed, gone>>

KeepRead(c) == taskLock' = c                               \* mutant
\* The name is bound by a statement of its own, so that no guard lives on.
DropRead(c) == UNCHANGED taskLock

StopName(c) ==
    /\ pc[c] = "s_name" /\ TaskUnlocked
    /\ key' = [key EXCEPT ![c] = activeTask]
    /\ pc' = [pc EXCEPT ![c] = IF activeTask = NoScript THEN "s_clear"
                                                        ELSE "s_take"]
    /\ DropRead(c)
    /\ UNCHANGED <<registry, activeTask, stopped, ctxCancel, held, ticker,
                   doomed, gone>>

\* Script::stop cancels the instance it is called on before its hook runs.
StopTake(c) ==
    /\ pc[c] = "s_take" /\ Unlocked
    /\ Hold(c, IF Present(key[c])
                 THEN [scripts[key[c]] EXCEPT !.cancelled = TRUE] ELSE NoEntry)
    /\ Store(key[c], NoEntry)
    /\ Goto(c, IF Present(key[c]) THEN "s_hook" ELSE "s_clear")
    /\ UNCHANGED <<mapLock, slot, ctxCancel, ticker, doomed, gone>>

StopPut(c) ==
    /\ pc[c] = "s_hook" /\ Unlocked
    /\ Store(key[c], held[c]) /\ Hold(c, NoEntry)
    /\ Goto(c, "s_clear")
    /\ UNCHANGED <<mapLock, slot, ctxCancel, ticker, doomed, gone>>

\* active_task's guard is kept until active_cancel is emptied, too ...
StopLock(c) ==
    /\ pc[c] = "s_clear" /\ TaskUnlocked
    /\ taskLock' = c /\ Goto(c, "s_both")
    /\ UNCHANGED <<registry, activeTask, stopped, ctxCancel, held, ticker,
                   doomed, gone>>

\* ... and both are emptied whoever owns them by now.
StopClear(c) ==
    /\ pc[c] = "s_both"
    /\ activeTask' = NoScript /\ DetachAll
    /\ taskLock' = NoCaller
    /\ stopped' = TRUE
    /\ Goto(c, "idle")
    /\ UNCHANGED <<mapLock, ctxCancel, tickTodo, tickOut, doomed, gone>>

-----------------------------------------------------------------------------
(* call_library *)
LibResolve(c) ==
    /\ Unlocked
    /\ \E s \in Script : Call(c, "library", s, "l_take") /\ Present(s)
    /\ UNCHANGED <<registry, slot, ctxCancel, held, ticker, doomed, gone>>

AfterLibTakeGone(s) ==                                     \* mutant
    IF Present(s) /\ Kind[s] = "Library" THEN "l_run" ELSE "l_put"
AfterLibTakeKept(s) ==                                     \* mutant
    IF Present(s) /\ Kind[s] = "Library" THEN "l_run" ELSE "idle"
AfterLibTake(s) == CASE ~Present(s) -> "idle"
                     [] Present(s) /\ Kind[s] # "Library" -> "l_put"
                     [] OTHER -> "l_run"

LibTake(c) ==
    /\ pc[c] = "l_take" /\ Unlocked
    /\ Hold(c, scripts[key[c]])
    /\ Store(key[c], NoEntry)
    /\ Goto(c, AfterLibTake(key[c]))
    /\ UNCHANGED <<mapLock, slot, ctxCancel, ticker, doomed, gone>>

LibReturns(c) ==
    /\ pc[c] = "l_run"
    /\ Goto(c, "l_put")
    /\ UNCHANGED <<registry, slot, ctxCancel, held, ticker, doomed, gone>>

LibPut(c) ==
    /\ pc[c] = "l_put" /\ Unlocked
    /\ Store(key[c], held[c]) /\ Hold(c, NoEntry)
    /\ Goto(c, "idle")
    /\ UNCHANGED <<mapLock, slot, ctxCancel, ticker, doomed, gone>>

-----------------------------------------------------------------------------
(* tick_triggers: the capture loop's only call, so ticks do not overlap.   *)
(* The names are collected under the read lock; each entry is taken later. *)
Ticking == tickTodo # {} \/ \E s \in Script : tick[s] # NoEntry

TickCollect ==
    /\ "tick" \in Api /\ ~Ticking /\ Unlocked
    /\ tickTodo' = {s \in Script : Present(s) /\ scripts[s].enabled
                                    /\ Kind[s] = "Trigger"}
    /\ UNCHANGED <<registry, slot, ctxCancel, pc, key, held, tick, tickOut, doomed,
                   gone>>

TickTake(s) ==
    /\ s \in tickTodo /\ Unlocked
    /\ tickTodo' = tickTodo \ {s}
    /\ tick' = [tick EXCEPT ![s] = scripts[s]]
    /\ tickOut' = [tickOut EXCEPT ![s] = "none"]
    /\ Store(s, NoEntry)
    /\ UNCHANGED <<mapLock, slot, ctxCancel, pc, key, held, doomed, gone>>

\* on_capture returns at once on a cancelled token; else the hook may
\* succeed, fail or panic.
TickCapture(s) ==
    /\ tick[s] # NoEntry /\ tickOut[s] = "none"
    /\ \E r \in IF tick[s].cancelled THEN {"ok"}
                                           ELSE {"ok", "error", "panic"} :
        tickOut' = [tickOut EXCEPT ![s] = r]
    /\ UNCHANGED <<registry, slot, ctxCancel, pc, key, held, tickTodo, tick,
                   doomed, gone>>

\* The results are joined once every entry is out; an error disables the
\* trigger, a panic loses it.
TickJoin(s) ==
    /\ tickTodo = {} /\ tick[s] # NoEntry /\ tickOut[s] # "none"
    /\ tick' = [tick EXCEPT ![s] = NoEntry]
    /\ tickOut' = [tickOut EXCEPT ![s] = "none"]
    /\ \/ /\ tickOut[s] = "panic"
          /\ gone' = gone \cup {s} /\ UNCHANGED scripts
       \/ /\ tickOut[s] # "panic" /\ Unlocked
          /\ Store(s, IF tickOut[s] = "error"
                        THEN [tick[s] EXCEPT !.enabled = FALSE] ELSE tick[s])
          /\ UNCHANGED gone
    /\ UNCHANGED <<mapLock, slot, ctxCancel, pc, key, held, tickTodo, doomed>>

-----------------------------------------------------------------------------
(* shutdown: Engine::stop calls it with the engine borrowed mutably, so it *)
(* never runs twice at once.  Entries that are out escape it.              *)
ShutdownList(c) ==
    /\ Call(c, "shutdown", NoScript, "x_list") /\ Unlocked
    /\ \A d \in Caller : pc[d] \notin {"x_list", "x_drop"}
    /\ doomed' = {s \in Script : Present(s)}
    /\ UNCHANGED <<registry, slot, ctxCancel, held, ticker, gone>>

ShutdownTake(c) ==
    /\ pc[c] = "x_list" /\ Unlocked
    /\ \E s \in doomed :
        /\ doomed' = doomed \ {s}
        /\ key' = [key EXCEPT ![c] = s]
        /\ Hold(c, scripts[s]) /\ Store(s, NoEntry)
        /\ pc' = [pc EXCEPT ![c] = IF Present(s) THEN "x_drop" ELSE "x_list"]
    /\ UNCHANGED <<mapLock, slot, ctxCancel, ticker, gone>>

\* on_disable and destroy, then the entry is dropped.
ShutdownDrop(c) ==
    /\ pc[c] = "x_drop"
    /\ Goto(c, "x_list") /\ Drop(c)
    /\ UNCHANGED <<registry, slot, ctxCancel, ticker, doomed>>

ShutdownDone(c) ==
    /\ pc[c] = "x_list" /\ doomed = {}
    /\ Goto(c, "idle")
    /\ UNCHANGED <<registry, slot, ctxCancel, held, ticker, doomed, gone>>

-----------------------------------------------------------------------------
\* What a caller does once inside an operation, scripts' own running aside.
Proceed(c) ==
    \/ ReloadSwap(c) \/ ReloadEnter(c) \/ ReloadHook(c)
    \/ EnableEnter(c) \/ EnableToken(c) \/ EnableHook(c)
    \/ DisableEnter(c) \/ DisableHook(c)
    \/ StartClaim(c) \/ StartTake(c) \/ StartPutLibrary(c) \/ StartToken(c)
    \/ StartReset(c) \/ StartEnable(c) \/ StartClear(c)
    \/ StartPut(c) \/ StartRelease(c)
    \/ StopToken(c) \/ StopName(c) \/ StopTake(c) \/ StopPut(c)
    \/ StopLock(c) \/ StopClear(c)
    \/ LibTake(c) \/ LibReturns(c) \/ LibPut(c)
    \/ ShutdownTake(c) \/ ShutdownDrop(c) \/ ShutdownDone(c)

Begin(c) ==
    \/ LoadDirs(c) \/ ReloadSnapshot(c) \/ EnableResolve(c)
    \/ DisableResolve(c) \/ StartResolve(c) \/ StopRequest(c) \/ LibResolve(c)
    \/ ShutdownList(c)

\* How a running task's script, or a dropped future, comes to its end.
Leave(c) == RunEnds(c) \/ RunCancelled(c) \/ StartDropped(c)

TickStep(s) == TickTake(s) \/ TickCapture(s) \/ TickJoin(s)

Next ==
    \/ \E c \in Caller :
        Begin(c) \/ Proceed(c) \/ Leave(c)
    \/ TickCollect
    \/ \E s \in Script : TickStep(s)

Spec == Init /\ [][Next]_vars

\* tokio's RwLock queues its waiters in order, so a caller that waits for a
\* lock gets it if the lock is free again and again; hooks and libraries
\* return, a hook that calls back into the registry aside (see the README).
\* A task script is assumed neither to end by itself nor to come to a place
\* where it looks at its token.
Fairness ==
    /\ \A c \in Caller : SF_vars(Proceed(c))
    /\ \A s \in Script : SF_vars(TickStep(s))

FairSpec == Spec /\ Fairness

-----------------------------------------------------------------------------
(* Properties *)

\* Where a caller has an entry in its hands, as the code has it in a local.
Holding == {"token", "reset", "enable", "run", "clear", "put", "putlib",
            "s_hook", "l_run", "l_put", "x_drop", "r_swap"}
HeldWhere == \A c \in Caller : held[c] # NoEntry <=> pc[c] \in Holding

\* The types of the variables; NoEntry stands for a missing key of the
\* HashMap (runtime.rs:15-28).
Typed ==
    /\ scripts \in [Script -> Entry \cup {NoEntry}]
    /\ mapLock \in Caller \cup {NoCaller}
    /\ activeTask \in Script \cup {NoScript}
    /\ taskLock \in Caller \cup {NoCaller}
    /\ stopped \in BOOLEAN /\ ctxCancel \in BOOLEAN
    /\ pc \in [Caller -> Label]
    /\ key \in [Caller -> Script \cup {NoScript}]
    /\ held \in [Caller -> Entry \cup {NoEntry}]
    /\ tickTodo \subseteq Script
    /\ tick \in [Script -> Entry \cup {NoEntry}]
    /\ tickOut \in [Script -> {"none", "ok", "error", "panic"}]
    /\ doomed \subseteq Script /\ gone \subseteq Script

\* Every variable keeps its type, and an operation that goes on with an entry
\* has one: whatever the others took or loaded meanwhile, none runs a script,
\* or puts back an entry, that its own remove did not find.
TypeOK == Typed /\ HeldWhere

\* The registry's write lock is kept across a step exactly by a caller
\* inside a hook, and the entry that its hook runs on is still there.  What
\* enable_script and disable_script have checked still holds: no trigger is
\* enabled by them that is enabled, or disabled that is not.  Of the on_enable
\* that ends a reload no such thing holds: it does not look at the flag.
HookUnderLock ==
    \A c \in Caller :
        /\ mapLock = c <=> pc[c] \in InHook
        /\ pc[c] \in InHook => key[c] \in Script /\ Present(key[c])
        /\ pc[c] \in {"e_token", "e_hook"} => ~scripts[key[c]].enabled
        /\ pc[c] = "d_hook" => scripts[key[c]].enabled

\* A loaded script is never lost: unless it was dropped for a known reason
\* (gone), it is in the registry or with someone who will put it back.
NeverLost ==
    \A s \in Script \ gone :
        \/ Present(s)
        \/ tick[s] # NoEntry
        \/ \E c \in Caller : /\ key[c] = s /\ held[c] # NoEntry
                             /\ pc[c] # "r_swap"

\* "Atomic check-and-set" (runtime.rs:294): until a stop_task empties the
\* slot by force, at most one caller is between claiming and releasing it,
\* and the slot names its script.
OneTaskUnlessStopped ==
    ~stopped => \A c \in Caller : pc[c] \in InSlot =>
                    /\ activeTask = key[c]
                    /\ \A d \in Caller : pc[d] \in InSlot => c = d

\* The slot never outlives its task: it names a script that some caller is
\* running, except after a failing on_enable of the trigger that it names, or
\* after a dropped future.
MayOrphan(s) == FlowCaller # {} \/ Kind[s] = "Trigger"
SlotOwned ==
    activeTask # NoScript /\ ~MayOrphan(activeTask) =>
        \E c \in Caller : pc[c] \in InSlot /\ key[c] = activeTask

\* A stop that reached the token of a running task is never undone: no other
\* start, reload or load clears it while the task runs (script.rs:370).
StopSticks ==
    [][\A c \in Caller :
         pc[c] = "run" /\ pc'[c] = "run" /\ held[c].cancelled
            => held'[c].cancelled]_vars

\* Every call comes back, whatever the others do, unless it is running a
\* script that goes on: hooks keep the registry's lock while others wait for
\* it, stop_task keeps active_task's, and nobody waits for what it keeps.
CallsReturn ==
    \A c \in Caller : pc[c] \notin {"idle", "run"} ~> pc[c] \in {"idle", "run"}

\* A task whose token is cancelled leaves the runtime, if its script comes
\* again and again to where it looks at the token.  That it does is not the
\* runtime's to say: it looks between two jobs of the script (script.rs:414),
\* and neither in jobWait (bridge.rs:682) nor in a nested call (bridge.rs:852).
CancelledTaskEnds ==
    \A c \in Caller :
        SF_vars(RunCancelled(c)) =>
            (pc[c] = "run" /\ held[c].cancelled ~> pc[c] = "idle")

\* The slot is the one that TaskSlot specifies: start_task's claim and release
\* and stop_task's clearing are single steps of it, and what comes between
\* does not show (runtime.rs:290-413).
Working == [c \in Caller |-> IF pc[c] \in InSlot THEN key[c] ELSE NoScript]
Tasks == INSTANCE TaskSlot WITH
    Worker <- Caller, Task <- Script, None <- NoScript,
    task <- activeTask, work <- Working, forced <- stopped
Slot == Tasks!Spec
=============================================================================
