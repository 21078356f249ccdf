------------------------------ MODULE RunProofs -------------------------------
(***************************************************************************)
(* Running flows: the invariant of FlowExecution, and the theorems about   *)
(* flows.                                                                  *)
(***************************************************************************)
EXTENDS FlowProofs

-----------------------------------------------------------------------------
(* The invariant *)

\* A frame that is where its steps have brought it: from every step that it
\* has left there is a transition to another such step or to the current one.
\* This is why the current step cannot be among them if there is no cycle:
\* the set of the steps that were left would be one that a walk never gets
\* out of.
Sound(f) ==
    /\ f \in Frame
    /\ f.seen \subseteq f.flow.steps
    /\ f.pc = "work" => f.step \in f.flow.steps
    /\ Acyclic(f.flow) => f.step \notin f.seen
    /\ f.step \in StepId =>
        \A x \in f.seen : Targets(f.flow, x) \cap (f.seen \cup {f.step}) # {}

\* The executors' part of TypeOK, with every frame sound.
RunInv ==
    /\ depth \in 0..MaxDepth /\ cancelled \in BOOLEAN
    /\ frame \in [1..MaxDepth -> Frame]
    /\ \A d \in 1..MaxDepth : Sound(frame[d])
    /\ \A d \in depth + 1..MaxDepth : frame[d] = NoFrame
    /\ lib \in [FlowId -> Flow \cup {None}]

FlowInv == ParserInv /\ RunInv

-----------------------------------------------------------------------------
(* Frames *)

\* A frame that is off, one that has ended, and a new one are sound.
LEMMA NewFrameSound ==
    /\ Sound(NoFrame)
    /\ \A how \in {"ok", "failed"} : Sound([NoFrame EXCEPT !.pc = how])
    /\ \A f \in Flow : Sound(NewFrame(f))
<1>1. Null \in Value  BY ValueAssumption
<1>2. NoFrame \in Frame  BY <1>1, NoFlowType DEF NoFrame, Frame
<1>3. Sound(NoFrame)  BY <1>2, NoFlowType DEF Sound, NoFrame
<1>4. ASSUME NEW how \in {"ok", "failed"}
      PROVE  Sound([NoFrame EXCEPT !.pc = how])
  <2>1. PICK g : g = [NoFrame EXCEPT !.pc = how]  OBVIOUS
  <2>2. g \in Frame  BY <1>2, <2>1 DEF Frame
  <2>3. g.flow = NoFlow /\ g.seen = {} /\ g.pc # "work"
    BY <2>1 DEF NoFrame
  <2>4. Sound(g)  BY <2>2, <2>3, NoFlowType DEF Sound
  <2> QED  BY <2>1, <2>4
<1>5. ASSUME NEW f \in Flow PROVE Sound(NewFrame(f))
  <2>1. PICK g : g = NewFrame(f)  OBVIOUS
  <2>2. f.entry \in StepId \cup {None, Over} /\ f.default \in Value
    BY DEF Flow
  <2>3. /\ g = [NoFrame EXCEPT !.flow = f, !.pc = "top", !.step = f.entry,
                               !.value = f.default]
        /\ g.flow = f /\ g.seen = {} /\ g.pc = "top"
    BY <2>1 DEF NewFrame, NoFrame
  <2>4. g \in Frame  BY <1>2, <2>2, <2>3 DEF Frame
  <2>5. Sound(g)  BY <1>5, <2>3, <2>4 DEF Sound
  <2> QED  BY <2>1, <2>5
<1> QED  BY <1>3, <1>4, <1>5

\* A sound frame that leaves its step along a transition is sound.
LEMMA MovedSound ==
    ASSUME NEW f, Sound(f), f.step \in f.flow.steps, NEW g \in Frame,
           g.flow = f.flow, g.seen = f.seen \cup {f.step}, g.pc # "work",
           g.step \in Targets(f.flow, f.step) \cup {Over}
    PROVE  Sound(g)
<1>1. f \in Frame /\ f.flow \in Flow /\ f.flow.steps \subseteq StepId
  BY DEF Sound, Frame, Flow
<1>2. g.seen \subseteq f.flow.steps  BY DEF Sound
<1>3. CASE g.step = Over
  BY <1>1, <1>2, <1>3, OverAssumption DEF Sound
<1>4. CASE g.step \in Targets(f.flow, f.step)
  <2>1. \A x \in f.seen : Targets(f.flow, x) \cap g.seen # {}
    BY <1>1 DEF Sound
  <2>2. Acyclic(f.flow) => g.step \notin g.seen
    <3> SUFFICES ASSUME Acyclic(f.flow), g.step \in g.seen PROVE FALSE
      OBVIOUS
    <3>1. \A x \in g.seen : Targets(f.flow, x) \cap g.seen # {}
      BY <1>4, <2>1
    <3>2. g.seen # {}  OBVIOUS
    <3> QED  BY <1>2, <3>1, <3>2 DEF Acyclic, AcyclicIn
  <2>3. \A x \in g.seen : Targets(f.flow, x) \cap (g.seen \cup {g.step}) # {}
    BY <1>4, <2>1
  <2> QED  BY <1>2, <2>2, <2>3 DEF Sound
<1> QED  BY <1>3, <1>4

\* What is to show of a step that changes the frames.
LEMMA FramesInv ==
    ASSUME RunInv, lib' \in {lib, NoLib}, cancelled' \in BOOLEAN,
           NEW n \in 0..MaxDepth, depth' = n,
           NEW g, frame' = [e \in 1..MaxDepth |-> g[e]],
           \A e \in 1..MaxDepth : Sound(g[e]),
           \A e \in n + 1..MaxDepth : g[e] = NoFrame
    PROVE  RunInv'
<1>1. MaxDepth \in Nat  BY DepthAssumption
<1>2. \A e \in 1..MaxDepth : frame'[e] = g[e]  OBVIOUS
<1>3. \A e \in 1..MaxDepth : g[e] \in Frame  BY DEF Sound
<1>4. frame' \in [1..MaxDepth -> Frame]  BY <1>3
<1>5. \A e \in n + 1..MaxDepth : e \in 1..MaxDepth  BY <1>1
<1>6. /\ \A d \in 1..MaxDepth : Sound(frame'[d])
      /\ \A d \in depth' + 1..MaxDepth : frame'[d] = NoFrame
  BY <1>2, <1>5
<1>7. lib' \in [FlowId -> Flow \cup {None}]
  BY DEF RunInv, NoLib
<1> QED  BY <1>4, <1>6, <1>7 DEF RunInv

\* A step that changes one frame.
LEMMA SetFrameInv ==
    ASSUME RunInv, UNCHANGED <<depth, lib, cancelled>>,
           NEW d \in 1..depth, NEW f, Sound(f), frame' = [frame EXCEPT ![d] = f]
    PROVE  RunInv'
<1>1. /\ depth \in 0..MaxDepth /\ cancelled \in BOOLEAN
      /\ frame \in [1..MaxDepth -> Frame] /\ MaxDepth \in Nat
      /\ \A e \in 1..MaxDepth : Sound(frame[e])
      /\ \A e \in depth + 1..MaxDepth : frame[e] = NoFrame
  BY DepthAssumption DEF RunInv
<1>2. PICK g : g = [e \in 1..MaxDepth |-> IF e = d THEN f ELSE frame[e]]
  OBVIOUS
<1>3. \A e \in 1..MaxDepth : g[e] = IF e = d THEN f ELSE frame[e]
  BY <1>2
<1>4. frame' = [e \in 1..MaxDepth |-> g[e]]  BY <1>1, <1>2, <1>3
<1>5. \A e \in depth + 1..MaxDepth : e \in 1..MaxDepth /\ e # d  BY <1>1
<1>6. /\ \A e \in 1..MaxDepth : Sound(g[e])
      /\ \A e \in depth + 1..MaxDepth : g[e] = NoFrame
  BY <1>1, <1>3, <1>5
<1> QED  BY <1>1, <1>4, <1>6, FramesInv

\* A step that changes one frame and drops those above it.
LEMMA CutInv ==
    ASSUME RunInv, NEW d \in 1..MaxDepth, NEW f, Sound(f), Cut(d, f)
    PROVE  RunInv'
<1>1. /\ cancelled \in BOOLEAN /\ MaxDepth \in Nat
      /\ \A e \in 1..MaxDepth : Sound(frame[e])
  BY DepthAssumption DEF RunInv
<1>2. PICK g : g = [e \in 1..MaxDepth |-> IF e = d THEN f ELSE
                                    IF e > d THEN NoFrame ELSE frame[e]]
  OBVIOUS
<1>3. \A e \in 1..MaxDepth :
        g[e] = IF e = d THEN f ELSE IF e > d THEN NoFrame ELSE frame[e]
  BY <1>2
<1>4. /\ frame' = [e \in 1..MaxDepth |-> g[e]]
      /\ depth' = d /\ UNCHANGED <<lib, cancelled>>
  BY <1>2, <1>3 DEF Cut
<1>5. \A e \in d + 1..MaxDepth : e \in 1..MaxDepth /\ e > d  BY <1>1
<1>6. /\ \A e \in 1..MaxDepth : Sound(g[e])
      /\ \A e \in d + 1..MaxDepth : g[e] = NoFrame
  BY <1>1, <1>3, <1>5, NewFrameSound
<1> QED  BY <1>1, <1>4, <1>6, FramesInv

\* A frame that ends.
LEMMA EndFrameInv ==
    ASSUME RunInv, NEW d \in 1..MaxDepth, d = 1 \/ d = depth,
           NEW how \in {"ok", "failed"}, EndFrame(d, how)
    PROVE  RunInv'
<1>1. CASE d = 1
  <2>1. /\ depth' = 0 /\ cancelled' \in BOOLEAN /\ lib' = NoLib
        /\ frame' = [e \in 1..MaxDepth |-> NoFrame]
    BY <1>1 DEF EndFrame
  <2>2. PICK g : g = [e \in 1..MaxDepth |-> NoFrame]  OBVIOUS
  <2>3. \A e \in 1..MaxDepth : g[e] = NoFrame  BY <2>2
  <2>4. frame' = [e \in 1..MaxDepth |-> g[e]]  BY <2>1, <2>2, <2>3
  <2>5. \A e \in 0 + 1..MaxDepth : e \in 1..MaxDepth  BY DepthAssumption
  <2>6. 0 \in 0..MaxDepth  BY DepthAssumption
  <2> QED  BY <2>1, <2>3, <2>4, <2>5, <2>6, NewFrameSound, FramesInv
<1>2. CASE d # 1
  <2>1. /\ frame' = [frame EXCEPT ![d] = [NoFrame EXCEPT !.pc = how]]
        /\ UNCHANGED <<depth, lib, cancelled>>
    BY <1>2 DEF EndFrame
  <2>2. d \in 1..depth  BY <1>2 DEF RunInv
  <2> QED  BY <2>1, <2>2, NewFrameSound, SetFrameInv
<1> QED  BY <1>1, <1>2
-----------------------------------------------------------------------------
(* One lemma per kind of step *)

\* A frame with its step on a transition.
LEMMA TransType ==
    ASSUME RunInv, NEW d \in 1..MaxDepth,
           frame[d].step \in frame[d].flow.steps
    PROVE  /\ frame[d] \in Frame /\ frame[d].step \in StepId
           /\ Trans(d) \in Seq(Transition)
           /\ \A k \in DOMAIN Trans(d) :
                /\ Trans(d)[k].target \in StepId
                /\ Trans(d)[k].target
                        \in Targets(frame[d].flow, frame[d].step)
<1>1. frame[d] \in Frame  BY DEF RunInv
<1>2. frame[d].flow \in Flow /\ frame[d].step \in StepId
  BY <1>1 DEF Frame, Flow
<1>3. \A k \in DOMAIN Trans(d) : Trans(d)[k].target
                                \in Targets(frame[d].flow, frame[d].step)
  BY DEF Trans, Targets
<1>4. Targets(frame[d].flow, frame[d].step) \subseteq StepId
  BY <1>2, TargetsType
<1>5. Trans(d) \in Seq(Transition)  BY <1>2, TargetsType DEF Trans
<1> QED  BY <1>1, <1>2, <1>3, <1>4, <1>5

\* A success goes on along a transition, or comes to the end.
LEMMA ProceedInv ==
    ASSUME RunInv, NEW d \in 1..MaxDepth, Working(d), NEW v \in Value,
           Proceed(d, v)
    PROVE  RunInv'
<1>1. frame[d].step \in frame[d].flow.steps /\ Sound(frame[d])
  BY DEF Working, RunInv, Sound
<1>2. PICK s \in NextSteps(d, v) :
        frame' = [e \in 1..MaxDepth |->
            IF e = d THEN [frame[d] EXCEPT !.step = s, !.pc = "top",
                             !.tries = 0, !.value = v,
                             !.seen = @ \cup {frame[d].step}]
            ELSE IF e > d THEN NoFrame ELSE frame[e]]
  BY DEF Proceed
<1>3. s \in Targets(frame[d].flow, frame[d].step) \cup {Over}
      /\ s \in StepId \cup {Over}
  <2>1. CASE s \in AfterLast(d, v)  BY <2>1 DEF AfterLast
  <2>2. CASE s \notin AfterLast(d, v)
    <3>1. PICK k \in Holding(d, v) : s = Trans(d)[k].target
      BY <2>2 DEF NextSteps
    <3>2. k \in DOMAIN Trans(d)  BY <3>1 DEF Holding
    <3> QED  BY <1>1, <3>1, <3>2, TransType
  <2> QED  BY <2>1, <2>2
<1>4. PICK g : g = [frame[d] EXCEPT !.step = s, !.pc = "top",
                        !.tries = 0, !.value = v,
                        !.seen = @ \cup {frame[d].step}]
  OBVIOUS
<1>5. frame[d] \in Frame /\ frame[d].step \in StepId  BY <1>1, TransType
<1>6. /\ g \in Frame /\ g.flow = frame[d].flow /\ g.step = s /\ g.pc = "top"
      /\ g.seen = frame[d].seen \cup {frame[d].step}
  BY <1>3, <1>4, <1>5 DEF Frame
<1>7. Sound(g)  BY <1>1, <1>3, <1>6, MovedSound
<1>8. Cut(d, g)  BY <1>2, <1>4 DEF Cut, Proceed
<1> QED  BY <1>7, <1>8, CutInv

\* So does an interrupt.
LEMMA InterruptsInv ==
    ASSUME RunInv, NEW d \in 1..MaxDepth, Interrupts(d)
    PROVE  RunInv'
<1>1. /\ depth = d /\ frame[d].pc = "top" /\ Sound(frame[d])
      /\ frame[d].step \in frame[d].flow.steps
      /\ UNCHANGED <<depth, lib, cancelled>>
  BY DEF Interrupts, OnStep, GoesOn, AtTop, RunInv
<1>2. PICK k \in Interrupting(d) :
        frame' = [frame EXCEPT ![d].step = Trans(d)[k].target,
                               ![d].seen = @ \cup {frame[d].step}]
  BY DEF Interrupts
<1>3. k \in DOMAIN Trans(d)  BY DEF Interrupting
<1>4. PICK t : t = Trans(d)[k].target  OBVIOUS
<1>5. /\ frame[d] \in Frame /\ frame[d].step \in StepId /\ t \in StepId
      /\ t \in Targets(frame[d].flow, frame[d].step)
  BY <1>1, <1>3, <1>4, TransType
<1>6. PICK g : g = [frame[d] EXCEPT !.step = t,
                                   !.seen = @ \cup {frame[d].step}]
  OBVIOUS
<1>7. /\ g \in Frame /\ g.flow = frame[d].flow /\ g.step = t /\ g.pc = "top"
      /\ g.seen = frame[d].seen \cup {frame[d].step}
  BY <1>1, <1>5, <1>6 DEF Frame
<1>8. Sound(g)  BY <1>1, <1>5, <1>7, MovedSound
<1>9. frame' = [frame EXCEPT ![d] = g]
  BY <1>2, <1>4, <1>6 DEF RunInv
<1>10. d \in 1..depth  BY <1>1
<1> QED  BY <1>1, <1>8, <1>9, <1>10, SetFrameInv

\* An attempt begins, at a step of the flow.
LEMMA BeginsStepInv ==
    ASSUME RunInv, NEW d \in 1..MaxDepth, BeginsStep(d)
    PROVE  RunInv'
<1>1. /\ depth = d /\ frame[d].step \in frame[d].flow.steps
      /\ UNCHANGED <<depth, lib, cancelled>>
      /\ frame' = [frame EXCEPT ![d].pc = "work", ![d].tries = 0]
      /\ Sound(frame[d])
  BY DEF BeginsStep, OnStep, GoesOn, AtTop, RunInv
<1>2. PICK g : g = [frame[d] EXCEPT !.pc = "work", !.tries = 0]  OBVIOUS
<1>3. /\ g \in Frame /\ g.flow = frame[d].flow /\ g.step = frame[d].step
      /\ g.seen = frame[d].seen
  BY <1>1, <1>2 DEF Sound, Frame
<1>4. Sound(g)  BY <1>1, <1>3 DEF Sound
<1>5. frame' = [frame EXCEPT ![d] = g]  BY <1>1, <1>2 DEF RunInv
<1>6. d \in 1..depth  BY <1>1
<1> QED  BY <1>1, <1>4, <1>5, <1>6, SetFrameInv

\* A nested flow gets a frame of its own.
LEMMA NestsInv ==
    ASSUME RunInv, NEW d \in 1..MaxDepth, Nests(d)
    PROVE  RunInv'
<1>1. /\ depth = d /\ d < MaxDepth /\ frame[d].pc = "work"
      /\ lib[Doing(d).arg] # None /\ Doing(d).kind = "flow"
      /\ UNCHANGED <<lib, cancelled>> /\ depth' = d + 1
      /\ frame' = [frame EXCEPT ![d + 1] = NewFrame(lib[Doing(d).arg])]
  BY DEF Nests, Working
<1>2. Sound(frame[d])  BY DEF RunInv
<1>3. frame[d].step \in frame[d].flow.steps  BY <1>1, <1>2 DEF Sound
<1>4. Doing(d) \in Work
  <2>1. frame[d].flow \in Flow /\ frame[d].step \in StepId
    BY <1>2, <1>3 DEF Sound, Frame, Flow
  <2> QED  BY <2>1 DEF Doing, Flow
<1>5. Doing(d).arg \in FlowId  BY <1>1, <1>4, WorkAssumption
<1>6. PICK f : f = lib[Doing(d).arg]  OBVIOUS
<1>7. f \in Flow  BY <1>1, <1>5, <1>6 DEF RunInv
<1>8. Sound(NewFrame(f))  BY <1>7, NewFrameSound
<1>9. /\ cancelled \in BOOLEAN /\ MaxDepth \in Nat /\ d + 1 \in 0..MaxDepth
      /\ frame \in [1..MaxDepth -> Frame]
      /\ \A e \in 1..MaxDepth : Sound(frame[e])
      /\ \A e \in d + 1..MaxDepth : frame[e] = NoFrame
  BY <1>1, DepthAssumption DEF RunInv
<1>10. PICK g : g = [e \in 1..MaxDepth |->
                        IF e = d + 1 THEN NewFrame(f) ELSE frame[e]]
  OBVIOUS
<1>11. \A e \in 1..MaxDepth :
        g[e] = IF e = d + 1 THEN NewFrame(f) ELSE frame[e]
  BY <1>10
<1>12. frame' = [e \in 1..MaxDepth |-> g[e]]
  BY <1>1, <1>6, <1>9, <1>10, <1>11
<1>13. \A e \in (d + 1) + 1..MaxDepth :
        e \in 1..MaxDepth /\ e # d + 1 /\ e \in d + 1..MaxDepth
  BY <1>9
<1>14. /\ \A e \in 1..MaxDepth : Sound(g[e])
       /\ \A e \in (d + 1) + 1..MaxDepth : g[e] = NoFrame
  BY <1>8, <1>9, <1>11, <1>13
<1> QED  BY <1>1, <1>9, <1>12, <1>14, FramesInv

\* A retry is at the same step, and a jump to an on_error target starts anew.
LEMMA FailureInv ==
    ASSUME RunInv, NEW d \in 1..MaxDepth,
           Retries(d) \/ ErrorJumps(d) \/ StepFails(d)
    PROVE  RunInv'
<1>1. /\ Sound(frame[d]) /\ frame[d] \in Frame
      /\ frame[d].step \in frame[d].flow.steps
  BY DEF Retries, ErrorJumps, StepFails, Fails, Working, RunInv, Sound
<1>2. frame[d].flow \in Flow /\ frame[d].step \in StepId
  BY <1>1 DEF Frame, Flow
<1>3. CASE Retries(d)
  <2>1. Doing(d) \in Work  BY <1>2 DEF Doing, Flow
  <2>2. Doing(d).retries \in Nat /\ frame[d].tries \in Nat
    BY <1>1, <2>1, WorkAssumption DEF Frame
  <2>3. PICK n \in Nat : n = IF frame[d].tries < Doing(d).retries
                             THEN frame[d].tries + 1 ELSE frame[d].tries
    BY <2>2
  <2>4. PICK g : g = [frame[d] EXCEPT !.tries = n]  OBVIOUS
  <2>5. /\ g \in Frame /\ g.flow = frame[d].flow /\ g.step = frame[d].step
        /\ g.seen = frame[d].seen
    BY <1>1, <2>4 DEF Frame
  <2>6. Sound(g)  BY <1>1, <2>5 DEF Sound
  <2>7. g = [frame[d] EXCEPT !.tries =
                IF @ < Doing(d).retries THEN @ + 1 ELSE @]
    BY <1>1, <2>3, <2>4 DEF Frame
  <2>8. Cut(d, g)  BY <1>3, <2>7 DEF Retries
  <2> QED  BY <2>6, <2>8, CutInv
<1>4. CASE ErrorJumps(d)
  <2>1. OnError(d) \in StepId  BY <1>2, <1>4 DEF ErrorJumps, OnError, Flow
  <2>2. PICK g : g = [frame[d] EXCEPT !.step = OnError(d), !.pc = "top",
                                     !.tries = 0, !.seen = {}]
    OBVIOUS
  <2>3. /\ g \in Frame /\ g.flow = frame[d].flow /\ g.pc = "top"
        /\ g.seen = {}
    BY <1>1, <2>1, <2>2 DEF Frame
  <2>4. Sound(g)  BY <1>1, <2>3 DEF Sound
  <2>5. Cut(d, g)  BY <1>4, <2>2 DEF ErrorJumps
  <2> QED  BY <2>4, <2>5, CutInv
<1>5. CASE StepFails(d)
  <2>1. CASE d = 1
    <3>1. EndFrame(d, "failed")  BY <1>5, <2>1 DEF StepFails
    <3> QED  BY <2>1, <3>1, EndFrameInv
  <2>2. CASE d # 1
    <3>1. Cut(d, [NoFrame EXCEPT !.pc = "failed"])
      BY <1>5, <2>2 DEF StepFails
    <3>2. Sound([NoFrame EXCEPT !.pc = "failed"])  BY NewFrameSound
    <3> QED  BY <3>1, <3>2, CutInv
  <2> QED  BY <2>1, <2>2
<1> QED  BY <1>3, <1>4, <1>5

\* What a frame does at the head of its loop, and when an attempt succeeds.
LEMMA RunStepInv ==
    ASSUME RunInv, NEW d \in 1..MaxDepth, Run(d)
    PROVE  RunInv'
<1>1. CASE SeesCancel(d) \/ Completes(d) \/ StepMissing(d)
  <2>1. d = depth
    BY <1>1 DEF SeesCancel, Completes, StepMissing, GoesOn, AtTop
  <2>2. EndFrame(d, "ok") \/ EndFrame(d, "failed")
    BY <1>1 DEF SeesCancel, Completes, StepMissing
  <2> QED  BY <2>1, <2>2, EndFrameInv
<1>2. CASE InputSucceeds(d) \/ SetSucceeds(d) \/ ScriptSucceeds(d)
            \/ NestedSucceeds(d)
  <2>1. Working(d) /\ Sound(frame[d])
    BY <1>2 DEF InputSucceeds, SetSucceeds, ScriptSucceeds, NestedSucceeds,
               RunInv
  <2>2. frame[d].value \in Value /\ Doing(d) \in Work
    <3>1. frame[d] \in Frame /\ frame[d].step \in frame[d].flow.steps
      BY <2>1 DEF Working, Sound
    <3>2. frame[d].flow \in Flow /\ frame[d].step \in StepId
      BY <3>1 DEF Frame, Flow
    <3> QED  BY <3>1, <3>2 DEF Doing, Frame, Flow
  <2>3. Written(d) \in Value  BY <2>2, ValueAssumption DEF Written
  <2>4. SetSucceeds(d) => Doing(d).arg \in Value
    BY <2>2, WorkAssumption DEF SetSucceeds
  <2>5. \E v \in Value : Proceed(d, v)
    BY <1>2, <2>2, <2>3, <2>4
    DEF InputSucceeds, SetSucceeds, ScriptSucceeds, NestedSucceeds
  <2> QED  BY <2>1, <2>5, ProceedInv
<1>3. CASE Interrupts(d)  BY <1>3, InterruptsInv
<1>4. CASE BeginsStep(d)  BY <1>4, BeginsStepInv
<1>5. CASE Nests(d)  BY <1>5, NestsInv
<1>6. CASE Retries(d) \/ ErrorJumps(d) \/ StepFails(d)
  BY <1>6, FailureInv
<1> QED  BY <1>1, <1>2, <1>3, <1>4, <1>5, <1>6 DEF Run, LoopHead, AttemptEnds

\* A run begins with a flow of the store and a copy of it.
LEMMA RunFlowInv ==
    ASSUME FlowInv, NEW i \in FlowId, RunFlow(i)
    PROVE  RunInv'
<1>1. /\ store[i] # None /\ depth = 0 /\ depth' = 1
      /\ frame' = [frame EXCEPT ![1] = NewFrame(store[i])]
      /\ lib' = store /\ UNCHANGED cancelled
  BY DEF RunFlow
<1>2. store \in [FlowId -> Flow \cup {None}]
  BY DEF FlowInv, ParserInv, LoadTypeOK
<1>3. PICK f \in Flow : f = store[i]
  BY <1>1, <1>2
<1>4. Sound(NewFrame(f))  BY <1>3, NewFrameSound
<1>5. /\ cancelled' \in BOOLEAN /\ depth' \in 0..MaxDepth
      /\ frame \in [1..MaxDepth -> Frame]
      /\ \A d \in 1..MaxDepth : Sound(frame[d])
      /\ \A d \in 0 + 1..MaxDepth : frame[d] = NoFrame
  BY <1>1, DepthAssumption DEF FlowInv, RunInv
<1>6. PICK g : g = NewFrame(f)  OBVIOUS
<1>7. Sound(g) /\ g \in Frame  BY <1>4, <1>6 DEF Sound
<1>8. frame' = [frame EXCEPT ![1] = g]  BY <1>1, <1>3, <1>6
<1>9. frame' \in [1..MaxDepth -> Frame]  BY <1>5, <1>7, <1>8
<1>10. \A d \in 1..MaxDepth : Sound(frame'[d])  BY <1>5, <1>7, <1>8
<1>11. \A d \in depth' + 1..MaxDepth : frame'[d] = NoFrame
  <2>1. \A d \in 1 + 1..MaxDepth : d # 1 /\ d \in 0 + 1..MaxDepth
            /\ d \in 1..MaxDepth
    BY DepthAssumption
  <2> QED  BY <1>1, <1>5, <1>8, <2>1
<1> QED  BY <1>1, <1>2, <1>5, <1>9, <1>10, <1>11 DEF RunInv

\* Raising the flag changes nothing else, and so does a load.
LEMMA RunKeeps ==
    ASSUME RunInv, UNCHANGED <<depth, frame, lib>>, cancelled' \in BOOLEAN
    PROVE  RunInv'
BY DEF RunInv

-----------------------------------------------------------------------------
(* The theorems *)

\* The invariant is inductive.
THEOREM FlowsInvariant == Spec => []FlowInv
<1>1. Init => FlowInv
  <2> SUFFICES ASSUME Init PROVE FlowInv  OBVIOUS
  <2>1. ParserInv  BY LoadInitInv DEF Init
  <2>2. frame = [d \in 1..MaxDepth |-> NoFrame]  BY DEF Init
  <2>3. \A d \in 1..MaxDepth : frame[d] = NoFrame  BY <2>2
  <2>4. NoFrame \in Frame  BY NewFrameSound DEF Sound
  <2>5. frame \in [1..MaxDepth -> Frame]  BY <2>2, <2>4
  <2>6. \A d \in 0 + 1..MaxDepth : d \in 1..MaxDepth  BY DepthAssumption
  <2>7. RunInv
    <3>1. /\ depth = 0 /\ 0 \in 0..MaxDepth /\ cancelled = FALSE
          /\ lib = [i \in FlowId |-> None]
      BY DepthAssumption DEF Init, NoLib
    <3>2. \A i \in FlowId : lib[i] = None  BY <3>1
    <3>3. lib \in [FlowId -> Flow \cup {None}]  BY <3>1
    <3>4. \A d \in 1..MaxDepth : Sound(frame[d])  BY <2>3, NewFrameSound
    <3>5. \A d \in depth + 1..MaxDepth : frame[d] = NoFrame
      BY <2>3, <2>6, <3>1
    <3> QED  BY <2>5, <3>1, <3>2, <3>3, <3>4, <3>5 DEF RunInv
  <2> QED  BY <2>1, <2>7 DEF FlowInv
<1>2. FlowInv /\ [Next]_vars => FlowInv'
  <2> SUFFICES ASSUME FlowInv, [Next]_vars PROVE FlowInv'  OBVIOUS
  <2>1. CASE LoadNext /\ UNCHANGED running
    <3>1. ParserInv'  BY <2>1, LoadNextInv DEF FlowInv
    <3>2. RunInv'  BY <2>1, RunKeeps DEF FlowInv, running, RunInv
    <3> QED  BY <3>1, <3>2 DEF FlowInv
  <2>2. CASE RunNext /\ UNCHANGED loading
    <3>1. ParserInv'  BY <2>2, LoadStutters DEF FlowInv
    <3>2. CASE StopFlow
      <4>1. RunInv'  BY <3>2, RunKeeps DEF StopFlow, FlowInv
      <4> QED  BY <3>1, <4>1 DEF FlowInv
    <3>3. CASE \E i \in FlowId : RunFlow(i)
      BY <3>1, <3>3, RunFlowInv DEF FlowInv
    <3>4. CASE \E d \in 1..MaxDepth : Run(d)
      BY <3>1, <3>4, RunStepInv DEF FlowInv
    <3> QED  BY <2>2, <3>2, <3>3, <3>4 DEF RunNext
  <2>3. CASE UNCHANGED vars
    <3>1. ParserInv'  BY <2>3, LoadStutters DEF FlowInv, vars
    <3>2. RunInv'  BY <2>3, RunKeeps DEF FlowInv, vars, running, RunInv
    <3> QED  BY <3>1, <3>2 DEF FlowInv
  <2> QED  BY <2>1, <2>2, <2>3 DEF Next
<1> QED  BY <1>1, <1>2, PTL DEF Spec

\* Every variable keeps its type, and nothing is left of an executor whose
\* caller has gone on: load_flows, FlowParser and FlowExecutor together.
THEOREM FlowTypes == Spec => []TypeOK
<1>1. FlowInv => TypeOK  BY DEF FlowInv, ParserInv, RunInv, TypeOK
<1> QED  BY <1>1, FlowsInvariant, PTL

\* detect_cycles lets no cycle through, whatever order it takes, and the
\* expansion of a task group makes none: whatever is kept of them, until
\* save_flow puts something else in its place.
THEOREM FlowsStayAcyclic == Spec => []KeptFlowsAcyclic
<1>1. FlowInv => KeptFlowsAcyclic  BY DEF FlowInv, ParserInv
<1> QED  BY <1>1, FlowsInvariant, PTL

\* And what detect_cycles refuses has the cycle that it reports.
THEOREM RefusalsAreEarned == Spec => []CyclesAreReal
<1>1. FlowInv => CyclesAreReal  BY DEF FlowInv, ParserInv
<1> QED  BY <1>1, FlowsInvariant, PTL

\* FlowExecutor::run comes to no step of a flow without a cycle twice between
\* two jumps to an on_error target, in any frame, wherever the flow is from.
THEOREM StepsRunOnce == Spec => []NoStepTwice
<1>1. FlowInv => NoStepTwice
  <2>1. RunInv => \A d \in 1..depth : d \in 1..MaxDepth
    BY DepthAssumption DEF RunInv
  <2> QED  BY <2>1 DEF FlowInv, RunInv, Sound, NoStepTwice
<1> QED  BY <1>1, FlowsInvariant, PTL
=============================================================================
