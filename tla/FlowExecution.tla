---------------------------- MODULE FlowExecution ----------------------------
(***************************************************************************)
(* Running a loaded flow: run_flow takes it from the flows that are loaded *)
(* and FlowExecutor::run executes it step by step                          *)
(* (crates/betternte-runtime/src/executor.rs, with the step handlers, and  *)
(* flow_runner.rs of the engine for nested flows).                         *)
(*                                                                         *)
(* A nested flow has an executor and variables of its own: executors are a *)
(* stack of frames.  Loading goes on beside a run, which works on the copy *)
(* of the flows that it took.                                              *)
(***************************************************************************)
EXTENDS FlowParser

CONSTANTS
    MaxDepth,   \* bound: frames
    Over        \* current_step: None, no more steps

ASSUME DepthAssumption == MaxDepth \in Nat \ {0}
ASSUME OverAssumption == Over \notin StepId \cup {None}

VARIABLES
    depth,      \* frames in use
    frame,      \* the executors
    lib,        \* the copy of flows_store
    cancelled   \* the flag of the first executor, the one that is stored

running == <<depth, frame, lib, cancelled>>
vars    == <<loading, running>>

Frame == [flow : Flow, pc : {"off", "top", "work", "ok", "failed"},
          step : StepId \cup {None, Over},
          tries : Nat,                  \* attempts of the step that failed
          value : Value,                \* the variables
          seen : SUBSET StepId]         \* history: steps left by a transition

NoFrame == [flow |-> NoFlow, pc |-> "off", step |-> Over, tries |-> 0,
            value |-> Null, seen |-> {}]

NoLib == [i \in FlowId |-> None]

\* new_with_custom and the first lines of run: the defaults are loaded; no
\* persist_dir is given, so nothing else is.
NewFrame(f) == [NoFrame EXCEPT !.flow = f, !.pc = "top", !.step = f.entry,
                               !.value = f.default]

Init ==
    /\ LoadInit
    /\ depth = 0 /\ frame = [d \in 1..MaxDepth |-> NoFrame]
    /\ lib = NoLib /\ cancelled = FALSE

-----------------------------------------------------------------------------
(* run_flow and stop_flow *)

\* run_flow needs the engine's write guard, and so does a load.
RunFlow(i) ==
    /\ pc = "idle" /\ depth = 0 /\ store[i] # None
    /\ depth' = 1 /\ frame' = [frame EXCEPT ![1] = NewFrame(store[i])]
    /\ lib' = store
    /\ UNCHANGED cancelled

StopFlow ==
    /\ depth # 0 /\ ~cancelled
    /\ cancelled' = TRUE
    /\ UNCHANGED <<depth, frame, lib>>

\* Frame d ends; the caller of a nested flow is still to take its result.
EndFrame(d, how) ==
    IF d = 1
      THEN /\ depth' = 0 /\ frame' = [e \in 1..MaxDepth |-> NoFrame]
           /\ lib' = NoLib /\ cancelled' = FALSE
      ELSE /\ frame' = [frame EXCEPT ![d] = [NoFrame EXCEPT !.pc = how]]
           /\ UNCHANGED <<depth, lib, cancelled>>

-----------------------------------------------------------------------------
(* The head of the loop *)

AtTop(d)  == depth = d /\ frame[d].pc = "top"

\* mutant: a jump to an on_error target goes past the check.
MustStopSeen(d) == d = 1 /\ cancelled /\ frame[d].seen # {}
\* stop_flow only has the first executor.
MustStop(d) == d = 1 /\ cancelled

SeesCancel(d) == AtTop(d) /\ MustStop(d) /\ EndFrame(d, "failed")

GoesOn(d) == AtTop(d) /\ ~MustStop(d)

\* persist() has no directory to write to.
Completes(d) == GoesOn(d) /\ frame[d].step = Over /\ EndFrame(d, "ok")

StepMissing(d) ==
    /\ GoesOn(d)
    /\ frame[d].step \notin frame[d].flow.steps \cup {Over}
    /\ EndFrame(d, "failed")

Trans(d) == frame[d].flow.trans[frame[d].step]

\* Stable sort by priority, and the first that holds.
IsFirst(k, ks, t) ==
    /\ k \in ks
    /\ \A j \in ks : \/ t[j].priority < t[k].priority
                     \/ t[j].priority = t[k].priority /\ k <= j

Interrupting(d) ==
    {k \in DOMAIN Trans(d) :
        Trans(d)[k].interrupt /\ frame[d].value \in Trans(d)[k].holds}

OnStep(d) == GoesOn(d) /\ frame[d].step \in frame[d].flow.steps

\* check_interrupt_transitions, once before the step and not during it.
Interrupts(d) ==
    /\ OnStep(d)
    /\ \E k \in Interrupting(d) :
        /\ IsFirst(k, Interrupting(d), Trans(d))
        /\ frame' = [frame EXCEPT ![d].step = Trans(d)[k].target,
                                  ![d].seen = @ \cup {frame[d].step}]
    /\ UNCHANGED <<depth, lib, cancelled>>

BeginsStep(d) ==
    /\ OnStep(d) /\ Interrupting(d) = {}
    /\ frame' = [frame EXCEPT ![d].pc = "work", ![d].tries = 0]
    /\ UNCHANGED <<depth, lib, cancelled>>

-----------------------------------------------------------------------------
(* execute_step_with_retry *)

Working(d) == d <= depth /\ frame[d].pc = "work"
Doing(d)   == frame[d].flow.work[frame[d].step]

Holding(d, v) == {k \in DOMAIN Trans(d) : v \in Trans(d)[k].holds}

AfterLastStays(d, v) == {frame[d].step}  \* mutant
AfterLast(d, v) == {Over}

\* find_next_step, with the variables that the step left.
NextSteps(d, v) ==
    {Trans(d)[k].target :
        k \in {j \in Holding(d, v) : IsFirst(j, Holding(d, v), Trans(d))}}
    \cup (IF Holding(d, v) = {} THEN AfterLast(d, v) ELSE {})

\* The rest of the iteration after a success.
Proceed(d, v) ==
    /\ \E s \in NextSteps(d, v) :
        frame' = [e \in 1..MaxDepth |->
            IF e = d THEN [frame[d] EXCEPT !.step = s, !.pc = "top",
                             !.tries = 0, !.value = v,
                             !.seen = @ \cup {frame[d].step}]
            ELSE IF e > d THEN NoFrame ELSE frame[e]]
    /\ depth' = d
    /\ UNCHANGED <<lib, cancelled>>

\* The runner gives no output for a script or a flow, whatever they return,
\* and a missing output is written as null.
Written(d) == IF Doing(d).output THEN Null ELSE frame[d].value

InputSucceeds(d) ==
    /\ depth = d /\ Working(d) /\ Doing(d).kind = "input"
    /\ Proceed(d, frame[d].value)

SetSucceeds(d) ==
    /\ depth = d /\ Working(d) /\ Doing(d).kind = "set"
    /\ Proceed(d, Doing(d).arg)

ScriptSucceeds(d) ==
    /\ depth = d /\ Working(d) /\ Doing(d).kind = "script"
    /\ Proceed(d, Written(d))

\* run_flow or run_group of the runner: nothing bounds the nesting.
Nests(d) ==
    /\ depth = d /\ Working(d) /\ Doing(d).kind = "flow"
    /\ lib[Doing(d).arg] # None /\ d < MaxDepth
    /\ depth' = d + 1
    /\ frame' = [frame EXCEPT ![d + 1] = NewFrame(lib[Doing(d).arg])]
    /\ UNCHANGED <<lib, cancelled>>

NestedSucceeds(d) ==
    /\ depth = d + 1 /\ Working(d) /\ frame[d + 1].pc = "ok"
    /\ Proceed(d, Written(d))

\* An attempt fails by itself, or as its nested flow does, or its time is up
\* and the frames above are dropped.
Fails(d) == Working(d) /\ (depth = d + 1 => frame[d + 1].pc # "ok")

TriesLeftAlways(d) == TRUE  \* mutant
TriesLeft(d) == frame[d].tries < Doing(d).retries

CutOne(d, f) ==  \* mutant
    /\ frame' = [frame EXCEPT ![d] = f]
    /\ depth' = d
    /\ UNCHANGED <<lib, cancelled>>
Cut(d, f) ==
    /\ frame' = [e \in 1..MaxDepth |->
                    IF e = d THEN f ELSE IF e > d THEN NoFrame ELSE frame[e]]
    /\ depth' = d
    /\ UNCHANGED <<lib, cancelled>>

\* The retry does not look at the flag.
Retries(d) ==
    /\ Fails(d) /\ TriesLeft(d)
    /\ Cut(d, [frame[d] EXCEPT !.tries =
                  IF @ < Doing(d).retries THEN @ + 1 ELSE @])

OnError(d) == frame[d].flow.onError[frame[d].step]

ErrorJumps(d) ==
    /\ Fails(d) /\ ~TriesLeft(d) /\ OnError(d) # None
    /\ Cut(d, [frame[d] EXCEPT !.step = OnError(d), !.pc = "top",
                               !.tries = 0, !.seen = {}])

StepFails(d) ==
    /\ Fails(d) /\ ~TriesLeft(d) /\ OnError(d) = None
    /\ IF d = 1 THEN EndFrame(1, "failed")
                ELSE Cut(d, [NoFrame EXCEPT !.pc = "failed"])

-----------------------------------------------------------------------------

LoopHead(d) == SeesCancel(d) \/ Completes(d) \/ StepMissing(d) \/ Interrupts(d)

AttemptEnds(d) ==
    \/ InputSucceeds(d) \/ SetSucceeds(d) \/ ScriptSucceeds(d)
    \/ NestedSucceeds(d)
    \/ Retries(d) \/ ErrorJumps(d) \/ StepFails(d)

Run(d) == LoopHead(d) \/ BeginsStep(d) \/ Nests(d) \/ AttemptEnds(d)

RunNext ==
    \/ \E i \in FlowId : RunFlow(i)
    \/ StopFlow
    \/ \E d \in 1..MaxDepth : Run(d)

Next ==
    \/ LoadNext /\ UNCHANGED running
    \/ RunNext /\ UNCHANGED loading

Spec == Init /\ [][Next]_vars

\* Frames that nothing takes the executor out of: JavaScript runs inside the
\* poll, which no timeout interrupts, and flows below the bound are not seen.
Stuck ==
    /\ depth # 0 /\ Working(depth)
    /\ \/ Doing(depth).kind = "script"
       \/ /\ Doing(depth).kind = "flow" /\ depth = MaxDepth
          /\ lib[Doing(depth).arg] # None

\* Files are read and the executor takes its turns.  An attempt comes to an
\* end, by its timeout if by nothing else: at the next await after its time
\* is up, and there is none while the executor is stuck.
FairSpec ==
    /\ Spec
    /\ WF_vars(LoadStep /\ UNCHANGED running)
    /\ \A d \in 1..MaxDepth :
        /\ WF_vars((LoopHead(d) \/ BeginsStep(d)) /\ UNCHANGED loading)
        /\ SF_vars(AttemptEnds(d) /\ ~Stuck /\ UNCHANGED loading)

-----------------------------------------------------------------------------
(* Properties *)

\* Every variable keeps its type, the parser's included, and nothing is left
\* of an executor whose caller has gone on.
TypeOK ==
    /\ LoadTypeOK
    /\ depth \in 0..MaxDepth
    /\ frame \in [1..MaxDepth -> Frame]
    /\ \A d \in depth + 1..MaxDepth : frame[d] = NoFrame
    /\ lib \in [FlowId -> Flow \cup {None}] /\ cancelled \in BOOLEAN

\* Between two jumps to an on_error target, a flow without a cycle comes to no
\* step again: whatever its conditions, interrupts and retries, also while the
\* flows are loaded anew.  One with a cycle is run just as well, see SaveFlow.
NoStepTwice ==
    \A d \in 1..depth :
        Acyclic(frame[d].flow) => frame[d].step \notin frame[d].seen

\* Scripts, and the flows below the bound, come back.
AllComesBack == []<>~Stuck

\* A run ends by itself, with flows that run themselves, too: unless its steps
\* fail over and over into on_error targets, or it is in a flow with a cycle
\* for good.  This is if its scripts come back; nothing makes them.
RunEnds ==
    AllComesBack =>
        \/ []<>(depth = 0)
        \/ []<><<\E d \in 1..MaxDepth : ErrorJumps(d)>>_vars
        \/ <>[](\E d \in 1..depth : ~Acyclic(frame[d].flow))

\* A stopped run ends, at the latest when the time of its step is up, also if
\* its steps go on failing into each other or in a cycle.  Again if its
\* scripts come back: one that a retry starts after stop_task has seen to the
\* token, and before executor.cancel, is not told to.
StoppedRunEnds == AllComesBack => (cancelled ~> depth = 0)
=============================================================================
