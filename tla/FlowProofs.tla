------------------------------ MODULE FlowProofs ------------------------------
(***************************************************************************)
(* What loads has no cycle, and what has none is run without coming to a   *)
(* step twice: FlowParser's search and expansion, and FlowExecution.       *)
(***************************************************************************)
EXTENDS FlowExecution, TLAPS

-----------------------------------------------------------------------------
(* Types *)

\* The empty flow that an expansion starts from is one, and has no cycle.
LEMMA NoFlowType == NoFlow \in Flow /\ Acyclic(NoFlow)
<1>1. AnyWork \in Work  BY WorkAssumption DEF AnyWork
<1>2. NoFlow \in Flow  BY <1>1, ValueAssumption DEF NoFlow, Flow
<1>3. Acyclic(NoFlow)  BY DEF Acyclic, AcyclicIn, NoFlow
<1> QED  BY <1>2, <1>3

\* A transition of a flow leads to a step's name.
LEMMA TargetsType ==
    ASSUME NEW f \in Flow, NEW s \in StepId
    PROVE  /\ f.trans[s] \in Seq(Transition)
           /\ \A k \in DOMAIN f.trans[s] : f.trans[s][k] \in Transition
           /\ Targets(f, s) \subseteq StepId
<1>1. f.trans[s] \in Seq(Transition)  BY DEF Flow
<1>2. \A k \in DOMAIN f.trans[s] : f.trans[s][k] \in Transition  BY <1>1
<1> QED  BY <1>1, <1>2 DEF Targets, Transition

\* The types of the variables that only the parser writes.
LEMMA IdleType ==
    ASSUME NEW next \in {"idle", "load"}, Idle(next)
    PROVE  /\ doc' \in Doc \cup {None} /\ pc' = next
           /\ flow' \in Flow /\ inserted' \in Nat /\ path' \in Seq(StepId)
           /\ at' \in [StepId -> Nat \ {0}] /\ visited' \in [StepId -> 0..2]
BY NoFlowType DEF Idle

\* The flow that an expansion builds.
LEMMA InsertType ==
    ASSUME LoadTypeOK, doc \in Doc, doc.kind = "group",
           NEW i \in 1..Len(doc.steps)
    PROVE  /\ doc.steps \in Seq(GroupStep)
           /\ Insert(i) \in Flow /\ ToNext(i) \in Seq(Transition)
           /\ Insert(i).steps = flow.steps \cup {doc.steps[i].alias}
           /\ Insert(i).trans = [flow.trans EXCEPT
                                    ![doc.steps[i].alias] = ToNext(i)]
<1>1. doc.steps \in Seq(GroupStep)  BY DocAssumption
<1>2. doc.steps[i] \in GroupStep  BY <1>1
<1>3. doc.steps[i].alias \in StepId /\ doc.steps[i].work \in Work
  BY <1>2 DEF GroupStep
<1>4. ToNext(i) \in Seq(Transition)
  <2>1. CASE i < Len(doc.steps)
    <3>1. doc.steps[i + 1] \in GroupStep  BY <1>1, <2>1
    <3>2. [target |-> doc.steps[i + 1].alias, holds |-> Value,
           priority |-> 0, interrupt |-> FALSE] \in Transition
      BY <3>1 DEF GroupStep, Transition
    <3> QED  BY <2>1, <3>2 DEF ToNext
  <2>2. CASE ~(i < Len(doc.steps))  BY <2>2 DEF ToNext
  <2> QED  BY <2>1, <2>2
<1>5. flow \in Flow  BY DEF LoadTypeOK
<1>6. Insert(i) = [flow EXCEPT !.steps = @ \cup {doc.steps[i].alias},
                        !.trans = [flow.trans EXCEPT
                                    ![doc.steps[i].alias] = ToNext(i)],
                        !.work = [flow.work EXCEPT
                                    ![doc.steps[i].alias] = doc.steps[i].work]]
  BY <1>5 DEF Insert, Flow
<1>7. /\ [flow.trans EXCEPT ![doc.steps[i].alias] = ToNext(i)]
                \in [StepId -> Seq(Transition)]
      /\ [flow.work EXCEPT ![doc.steps[i].alias] = doc.steps[i].work]
                \in [StepId -> Work]
      /\ flow.steps \cup {doc.steps[i].alias} \in SUBSET StepId
  BY <1>3, <1>4, <1>5 DEF Flow
<1>8. Insert(i) \in Flow  BY <1>5, <1>6, <1>7 DEF Flow
<1> QED  BY <1>1, <1>4, <1>5, <1>6, <1>8 DEF Flow

-----------------------------------------------------------------------------
(* Sets of steps without a cycle *)

\* A step whose targets are all in a set that is closed and has no cycle can
\* be added to it: this is what the search does when it leaves a step.
LEMMA AcyclicGrows ==
    ASSUME NEW f, NEW S, NEW s, s \notin S, AcyclicIn(f, S),
           Targets(f, s) \subseteq S, \A x \in S : Targets(f, x) \subseteq S
    PROVE  AcyclicIn(f, S \cup {s})
<1> SUFFICES ASSUME NEW T \in SUBSET (S \cup {s}), T # {}
             PROVE  \E x \in T : Targets(f, x) \cap T = {}
  BY DEF AcyclicIn
<1>1. CASE T \ {s} = {}
  <2>1. T = {s}  BY <1>1
  <2> QED  BY <2>1
<1>2. CASE T \ {s} # {}
  <2>1. T \ {s} \in SUBSET S  OBVIOUS
  <2>2. PICK x \in T \ {s} : Targets(f, x) \cap (T \ {s}) = {}
    BY <1>2, <2>1 DEF AcyclicIn
  <2>3. s \notin Targets(f, x)  BY <2>1
  <2> QED  BY <2>2, <2>3
<1> QED  BY <1>1, <1>2

-----------------------------------------------------------------------------
(* The parser's invariant *)

\* Between files nothing is left of the last one.
RestInv ==
    pc \in {"idle", "load", "refused", "expand"} =>
        /\ path = <<>> /\ at = [s \in StepId |-> 1]
        /\ visited = [s \in StepId |-> 0]
        /\ pc \notin {"refused", "expand"} => inserted = 0
        /\ pc \in {"refused", "expand"} => doc \in Doc

\* The loop of parse_group: the flow is about the steps inserted so far, each
\* of them goes on from its last place, and of any set of names that it has
\* a part of one is the last to be inserted.
Place(s, i) ==
    /\ doc.steps[i].alias = s /\ flow.trans[s] = ToNext(i)
    /\ \A j \in i + 1..inserted : doc.steps[j].alias # s
LastOf(T, m) ==
    /\ doc.steps[m].alias \in T
    /\ \A j \in m + 1..inserted : doc.steps[j].alias \notin T
GroupInv ==
    pc = "expand" =>
        /\ doc.kind = "group" /\ inserted \in 0..Len(doc.steps)
        /\ \A s \in flow.steps : \E i \in 1..inserted : Place(s, i)
        /\ \A T \in SUBSET StepId : T \cap flow.steps # {} =>
                \E m \in 1..inserted : LastOf(T, m)

\* The search: the path is what it is in, all it has left behind is closed
\* and has no cycle, and it has looked at the transitions before the current.
Done == {s \in StepId : visited[s] = 2}
PathInv ==
    /\ \A s \in StepId : visited[s] = 1 <=> \E i \in 1..Len(path) : path[i] = s
    /\ \A i, j \in 1..Len(path) : path[i] = path[j] => i = j
    /\ \A i \in 1..Len(path) - 1 :
        /\ at[path[i]] \in DOMAIN flow.trans[path[i]]
        /\ flow.trans[path[i]][at[path[i]]].target = path[i + 1]
DoneInv ==
    /\ \A s \in Done : Targets(flow, s) \subseteq Done
    /\ AcyclicIn(flow, Done)
    /\ \A s \in StepId : visited[s] = 0 => at[s] = 1
    /\ \A s \in StepId : visited[s] = 1 =>
        \A k \in DOMAIN flow.trans[s] :
            k < at[s] => flow.trans[s][k].target \in Done
SearchInv ==
    pc = "search" =>
        /\ doc \in Doc /\ WellFormed(flow)
        /\ \A s \in StepId : visited[s] # 0 => s \in flow.steps
        /\ PathInv /\ DoneInv

ParserInv ==
    /\ LoadTypeOK /\ RestInv /\ GroupInv /\ SearchInv
    /\ pc \in {"refused", "cycle"} => doc \in Doc
    /\ KeptFlowsAcyclic /\ CyclesAreReal

\* Nothing is in hand between files.
LEMMA IdleInv ==
    ASSUME NEW next \in {"idle", "load"}, Idle(next),
           store' \in [FlowId -> Flow \cup {None}], files' \subseteq Doc,
           unchecked' \subseteq FlowId,
           KeptFlowsAcyclic'
    PROVE  ParserInv'
<1>1. LoadTypeOK'  BY IdleType DEF LoadTypeOK
<1>2. pc' = next  BY DEF Idle
<1>3. RestInv'  BY <1>2 DEF RestInv, Idle
<1> QED
  BY <1>1, <1>2, <1>3 DEF ParserInv, GroupInv, SearchInv, CyclesAreReal

\* Nothing is loaded at first.
LEMMA LoadInitInv == LoadInit => ParserInv
<1> SUFFICES ASSUME LoadInit PROVE ParserInv  OBVIOUS
<1>1. LoadTypeOK  BY NoFlowType DEF LoadInit, LoadTypeOK
<1>2. RestInv  BY DEF LoadInit, RestInv
<1>3. KeptFlowsAcyclic  BY DEF LoadInit, KeptFlowsAcyclic
<1> QED  BY <1>1, <1>2, <1>3
           DEF LoadInit, ParserInv, GroupInv, SearchInv, CyclesAreReal

\* A load begins with an empty store.
LEMMA LoadFlowsInv == ParserInv /\ LoadFlows => ParserInv'
<1> SUFFICES ASSUME ParserInv, LoadFlows PROVE ParserInv'  OBVIOUS
<1>1. /\ store' = [i \in FlowId |-> None] /\ files' \subseteq Doc
      /\ Idle("load") /\ unchecked' = {}
  BY DEF LoadFlows
<1>2. KeptFlowsAcyclic'  BY <1>1 DEF KeptFlowsAcyclic
<1> QED  BY <1>1, <1>2, IdleInv

\* A file that is refused leaves the store as it is.
LEMMA SkipInv == ParserInv /\ (SkipFile \/ LoadEnds) => ParserInv'
<1> SUFFICES ASSUME ParserInv, SkipFile \/ LoadEnds PROVE ParserInv'
  OBVIOUS
<1>1. UNCHANGED <<store, unchecked, files>> /\ (Idle("load") \/ Idle("idle"))
  BY DEF SkipFile, LoadEnds
<1>2. KeptFlowsAcyclic'  BY <1>1 DEF KeptFlowsAcyclic, ParserInv
<1>3. store' \in [FlowId -> Flow \cup {None}] /\ files' \subseteq Doc
      /\ unchecked' \subseteq FlowId
  BY <1>1 DEF ParserInv, LoadTypeOK
<1> QED  BY <1>1, <1>2, <1>3, IdleInv

\* A flow without a cycle may be kept.
LEMMA KeepInv ==
    ASSUME ParserInv, doc \in Doc, NEW f \in Flow, Acyclic(f),
           Keep(f)
    PROVE  ParserInv'
<1>1. doc.id \in FlowId  BY DocAssumption
<1>2. /\ store' = [store EXCEPT ![doc.id] = f] /\ Idle("load")
      /\ files' = files /\ unchecked' = unchecked \ {doc.id}
  BY DEF Keep
<1>3. store' \in [FlowId -> Flow \cup {None}] /\ unchecked' \subseteq FlowId
  BY <1>1, <1>2 DEF ParserInv, LoadTypeOK
<1>4. KeptFlowsAcyclic'
  BY <1>1, <1>2 DEF ParserInv, LoadTypeOK, KeptFlowsAcyclic
<1> QED  BY <1>2, <1>3, <1>4, IdleInv DEF ParserInv, LoadTypeOK

\* A file is read into a parser at rest.
LEMMA ReadFileInv == ParserInv /\ ReadFile => ParserInv'
<1> SUFFICES ASSUME ParserInv, ReadFile PROVE ParserInv'  OBVIOUS
<1> USE DEF ParserInv
<1>1. PICK d \in files : /\ files' = files \ {d} /\ doc' = d
                         /\ flow' = IF d.kind = "flow" THEN d.flow ELSE NoFlow
                         /\ pc' = IF d.kind = "group" THEN "expand"
                                  ELSE IF WellFormed(d.flow) THEN "search"
                                       ELSE "refused"
  BY DEF ReadFile
<1>2. UNCHANGED <<store, unchecked, inserted, path, at, visited>>  BY DEF ReadFile
<1>3. d \in Doc /\ (d.kind = "group" => d.kind # "flow")
      /\ (d.kind # "group" => d.kind = "flow" /\ d.flow \in Flow)
  BY DocAssumption DEF LoadTypeOK
<1>4. pc = "load" /\ path = <<>> /\ inserted = 0
      /\ visited = [s \in StepId |-> 0] /\ at = [s \in StepId |-> 1]
  BY DEF ReadFile, RestInv
<1>5. flow' \in Flow  BY <1>1, <1>3, NoFlowType
<1>6. LoadTypeOK'  BY <1>1, <1>2, <1>3, <1>5 DEF LoadTypeOK
<1>7. RestInv'  BY <1>1, <1>2, <1>3, <1>4 DEF RestInv
<1>8. GroupInv'
  <2>1. CASE d.kind = "group"
    <3>1. flow'.steps = {}  BY <1>1, <1>3, <2>1 DEF NoFlow
    <3>2. Len(d.steps) \in Nat  BY <1>3, <2>1, DocAssumption
    <3> QED  BY <1>1, <1>2, <1>4, <2>1, <3>1, <3>2 DEF GroupInv
  <2> QED  BY <1>1, <2>1 DEF GroupInv
<1>9. SearchInv'
  <2> SUFFICES ASSUME pc' = "search" PROVE SearchInv'  BY DEF SearchInv
  <2>1. WellFormed(flow')  BY <1>1, <1>3
  <2>2. /\ \A s \in StepId : visited'[s] = 0
        /\ path' = <<>>
    BY <1>2, <1>4
  <2>3. PathInv'  BY <2>2 DEF PathInv
  <2>4. Done' = {}  BY <2>2 DEF Done
  <2>5. DoneInv'  BY <1>2, <1>4, <2>2, <2>4 DEF DoneInv, AcyclicIn
  <2> QED  BY <1>1, <1>3, <2>1, <2>2, <2>3, <2>5 DEF SearchInv, WellFormed
<1>10. KeptFlowsAcyclic' /\ CyclesAreReal' /\ doc' \in Doc
  BY <1>1, <1>2, <1>3 DEF KeptFlowsAcyclic, CyclesAreReal
<1> QED  BY <1>6, <1>7, <1>8, <1>9, <1>10

\* parse_group: one step more, which may be a name that is there already.
LEMMA InsertInv == ParserInv /\ InsertStep => ParserInv'
<1> SUFFICES ASSUME ParserInv, InsertStep PROVE ParserInv'  OBVIOUS
<1> USE DEF ParserInv
<1>0. PICK n : n = inserted + 1  OBVIOUS
<1>a. PICK a : a = doc.steps[n].alias  OBVIOUS
<1>1. /\ pc = "expand" /\ doc \in Doc /\ doc.kind = "group"
      /\ n \in 1..Len(doc.steps) /\ inserted \in Nat
      /\ doc.steps \in Seq(GroupStep)
  <2>1. pc = "expand" /\ doc \in Doc /\ doc.kind = "group"
        /\ inserted \in 0..Len(doc.steps) /\ inserted < Len(doc.steps)
    BY DEF InsertStep, GroupInv, RestInv
  <2> QED  BY <1>0, <2>1, DocAssumption
<1>2. UNCHANGED <<store, unchecked, files, doc, pc, path, at, visited>>
      /\ inserted' = n /\ flow' = Insert(n)
  BY <1>0 DEF InsertStep
<1>3. /\ flow' \in Flow
      /\ flow'.steps = flow.steps \cup {a}
      /\ flow'.trans = [flow.trans EXCEPT ![a] = ToNext(n)]
      /\ a \in StepId
  <2>1. doc.steps[n] \in GroupStep  BY <1>1
  <2>2. a \in StepId  BY <1>a, <2>1 DEF GroupStep
  <2> QED  BY <1>a, <1>1, <1>2, <2>2, InsertType
<1>4. flow.trans \in [StepId -> Seq(Transition)] /\ flow.steps \subseteq StepId
  BY DEF LoadTypeOK, Flow
<1>5. LoadTypeOK'  BY <1>1, <1>2, <1>3 DEF LoadTypeOK
<1>6. RestInv'  BY <1>1, <1>2 DEF RestInv
<1>7. \A i : ToNext(i)' = ToNext(i)  BY <1>2 DEF ToNext
<1>8. ASSUME NEW s \in flow'.steps PROVE \E i \in 1..inserted' : Place(s, i)'
  <2>1. CASE s = a
    <3>1. Place(s, n)'  BY <1>0, <1>a, <1>1, <1>2, <1>3, <1>4, <1>7, <2>1 DEF Place
    <3> QED  BY <1>0, <1>1, <1>2, <3>1
  <2>2. CASE s # a
    <3>1. PICK i \in 1..inserted : Place(s, i)
      BY <1>1, <1>3, <2>2 DEF GroupInv
    <3>2. flow'.trans[s] = flow.trans[s]  BY <1>3, <1>4, <2>2
    <3>3. Place(s, i)'  BY <1>0, <1>a, <1>1, <1>2, <1>7, <2>2, <3>1, <3>2 DEF Place
    <3> QED  BY <1>0, <1>1, <1>2, <3>1, <3>3
  <2> QED  BY <2>1, <2>2
<1>9. ASSUME NEW T \in SUBSET StepId, T \cap flow'.steps # {}
      PROVE  \E m \in 1..inserted' : LastOf(T, m)'
  <2>1. CASE a \in T
    <3>1. LastOf(T, n)'  BY <1>a, <1>1, <1>2, <2>1 DEF LastOf
    <3> QED  BY <1>0, <1>1, <1>2, <3>1
  <2>2. CASE a \notin T
    <3>1. PICK m \in 1..inserted : LastOf(T, m)
      BY <1>1, <1>3, <1>9, <2>2 DEF GroupInv
    <3>2. LastOf(T, m)'  BY <1>0, <1>a, <1>1, <1>2, <2>2, <3>1 DEF LastOf
    <3> QED  BY <1>0, <1>1, <1>2, <3>1, <3>2
  <2> QED  BY <2>1, <2>2
<1>10. GroupInv'  BY <1>1, <1>2, <1>8, <1>9 DEF GroupInv
<1>11. KeptFlowsAcyclic' /\ SearchInv' /\ CyclesAreReal'
  BY <1>1, <1>2 DEF KeptFlowsAcyclic, SearchInv, CyclesAreReal
<1> QED  BY <1>1, <1>2, <1>5, <1>6, <1>10, <1>11

\* The last step of a set goes on to the one after it, which is outside.
LEMMA ExpansionAcyclic ==
    ASSUME ParserInv, pc = "expand", inserted = Len(doc.steps)
    PROVE  Acyclic(flow)
<1> SUFFICES ASSUME NEW T \in SUBSET flow.steps, T # {}
             PROVE  \E s \in T : Targets(flow, s) \cap T = {}
  BY DEF Acyclic, AcyclicIn
<1>1. doc.steps \in Seq(GroupStep) /\ flow \in Flow /\ T \in SUBSET StepId
  BY DocAssumption DEF ParserInv, RestInv, GroupInv, LoadTypeOK, Flow
<1>2. PICK m \in 1..inserted : LastOf(T, m)
  BY <1>1 DEF ParserInv, GroupInv
<1> DEFINE s == doc.steps[m].alias
<1>3. s \in T  BY <1>2 DEF LastOf
<1>4. PICK i \in 1..inserted : Place(s, i)
  BY <1>3 DEF ParserInv, GroupInv
<1>5. i = m
  <2>1. ~(i < m)  BY <1>2, <1>4 DEF Place
  <2>2. ~(m < i)  BY <1>2, <1>3, <1>4 DEF Place, LastOf
  <2> QED  BY <2>1, <2>2
<1>6. flow.trans[s] = ToNext(m)  BY <1>4, <1>5 DEF Place
<1>7. CASE m < Len(doc.steps)
  <2>1. Targets(flow, s) = {doc.steps[m + 1].alias}
    BY <1>6, <1>7 DEF ToNext, Targets
  <2>2. doc.steps[m + 1].alias \notin T  BY <1>2, <1>7 DEF LastOf, ParserInv
  <2> QED  BY <1>3, <2>1, <2>2
<1>8. CASE ~(m < Len(doc.steps))
  <2>1. Targets(flow, s) = {}  BY <1>6, <1>8 DEF ToNext, Targets
  <2> QED  BY <1>3, <2>1
<1> QED  BY <1>7, <1>8

\* So a task group is kept as it is, without the search.
LEMMA GroupExpandedInv == ParserInv /\ GroupExpanded => ParserInv'
<1> SUFFICES ASSUME ParserInv, GroupExpanded PROVE ParserInv'  OBVIOUS
<1> DEFINE entry == IF doc.steps = <<>> THEN None ELSE doc.steps[1].alias
           f == [flow EXCEPT !.entry = entry]
<1>1. pc = "expand" /\ inserted = Len(doc.steps) /\ Keep(f)
  BY DEF GroupExpanded
<1>2. doc \in Doc /\ doc.steps \in Seq(GroupStep) /\ flow \in Flow
  BY <1>1, DocAssumption DEF ParserInv, RestInv, GroupInv, LoadTypeOK
<1>3. entry \in StepId \cup {None}
  <2>1. doc.steps # <<>> => doc.steps[1] \in GroupStep  BY <1>2
  <2> QED  BY <2>1 DEF GroupStep
<1>4. f \in Flow /\ f.steps = flow.steps /\ f.trans = flow.trans
  BY <1>2, <1>3 DEF Flow
<1>5. Acyclic(f)
  <2>1. Acyclic(flow)  BY <1>1, ExpansionAcyclic
  <2>2. \A x : Targets(f, x) = Targets(flow, x)  BY <1>4, Zenon DEF Targets
  <2> HIDE DEF f
  <2> QED  BY <1>4, <2>1, <2>2 DEF Acyclic, AcyclicIn
<1> QED  BY <1>1, <1>2, <1>4, <1>5, KeepInv

\* What the type of the search's variables gives.
LEMMA SearchType ==
    ASSUME ParserInv, pc = "search"
    PROVE  /\ flow \in Flow /\ path \in Seq(StepId)
           /\ at \in [StepId -> Nat \ {0}] /\ visited \in [StepId -> 0..2]
           /\ doc \in Doc /\ WellFormed(flow) /\ PathInv /\ DoneInv
           /\ flow.steps \subseteq StepId
           /\ \A s \in StepId : visited[s] # 0 => s \in flow.steps
BY DEF ParserInv, LoadTypeOK, SearchInv, Flow

\* dfs: the step that the search is in, and the target it looks at.
LEMMA TopType ==
    ASSUME ParserInv, Searching
    PROVE  /\ Len(path) \in Nat \ {0} /\ Top \in StepId
           /\ visited[Top] = 1 /\ Top \in flow.steps
           /\ Looks \in Seq(Transition)
           /\ at[Top] <= Len(Looks) =>
                /\ at[Top] \in DOMAIN Looks /\ Target \in flow.steps
                /\ Target \in Targets(flow, Top)
<1>1. path \in Seq(StepId) /\ path # <<>> /\ pc = "search"
  BY SearchType DEF Searching
<1>2. Len(path) \in Nat \ {0} /\ Top \in StepId  BY <1>1 DEF Top
<1>3. visited[Top] = 1  BY <1>1, <1>2, SearchType DEF PathInv, Top
<1>4. Top \in flow.steps  BY <1>1, <1>2, <1>3, SearchType
<1>5. Looks \in Seq(Transition)  BY <1>1, <1>2, SearchType, TargetsType DEF Looks
<1>6. ASSUME at[Top] <= Len(Looks)
      PROVE  /\ at[Top] \in DOMAIN Looks /\ Target \in flow.steps
             /\ Target \in Targets(flow, Top)
  <2>1. at[Top] \in DOMAIN Looks  BY <1>1, <1>2, <1>5, <1>6, SearchType
  <2>2. Target \in flow.steps
    BY <1>1, <1>4, <2>1, SearchType DEF WellFormed, Target, Looks
  <2> QED  BY <2>1, <2>2 DEF Targets, Target, Looks
<1> QED  BY <1>2, <1>3, <1>4, <1>5, <1>6

\* The search goes on with the same flow: what is left to show.
LEMMA SearchGoesOn ==
    ASSUME ParserInv, pc = "search", pc' = "search",
           UNCHANGED <<store, unchecked, files, doc, flow, inserted>>,
           path' \in Seq(StepId), at' \in [StepId -> Nat \ {0}],
           visited' \in [StepId -> 0..2],
           \A s \in StepId : visited'[s] # 0 => s \in flow.steps,
           PathInv', DoneInv'
    PROVE  ParserInv'
<1>1. LoadTypeOK'  BY DEF ParserInv, LoadTypeOK
<1>2. SearchInv'  BY SearchType DEF SearchInv, WellFormed
<1>3. KeptFlowsAcyclic'  BY DEF ParserInv, KeptFlowsAcyclic
<1> QED  BY <1>1, <1>2, <1>3
           DEF ParserInv, RestInv, GroupInv, CyclesAreReal

\* The search enters s, by itself or from the step it is in.
LEMMA EnterInv ==
    ASSUME ParserInv, pc = "search", NEW s \in flow.steps, visited[s] = 0,
           Enter(s),
           path # <<>> => /\ at[Top] \in DOMAIN Looks /\ Target = s
    PROVE  ParserInv'
<1>0. /\ path \in Seq(StepId) /\ visited \in [StepId -> 0..2]
      /\ at \in [StepId -> Nat \ {0}] /\ PathInv /\ DoneInv
      /\ s \in StepId /\ \A x \in StepId : visited[x] # 0 => x \in flow.steps
  BY SearchType
<1>1. /\ UNCHANGED <<store, unchecked, files, doc, pc, flow, inserted, at>>
      /\ visited' = [visited EXCEPT ![s] = 1] /\ path' = Append(path, s)
  BY DEF Enter
<1>2. /\ path' \in Seq(StepId) /\ visited' \in [StepId -> 0..2]
      /\ Len(path') = Len(path) + 1 /\ path'[Len(path) + 1] = s
      /\ \A i \in 1..Len(path) : path'[i] = path[i]
      /\ Len(path) \in Nat
  BY <1>0, <1>1
<1>3. Done' = Done  BY <1>0, <1>1 DEF Done
<1>4. \A x \in StepId :
        visited'[x] = 1 <=> \E i \in 1..Len(path') : path'[i] = x
  <2> SUFFICES ASSUME NEW x \in StepId
               PROVE visited'[x] = 1 <=> \E i \in 1..Len(path') : path'[i] = x
    OBVIOUS
  <2>1. CASE x = s  BY <1>0, <1>1, <1>2, <2>1
  <2>2. CASE x # s
    <3>1. visited'[x] = visited[x]  BY <1>0, <1>1, <2>2
    <3>2. (\E i \in 1..Len(path') : path'[i] = x)
            <=> \E i \in 1..Len(path) : path[i] = x
      <4>1. \A i \in 1..Len(path') : i \in 1..Len(path) \/ i = Len(path) + 1
        BY <1>2
      <4>2. \A i \in 1..Len(path) : i \in 1..Len(path')  BY <1>2
      <4> QED  BY <1>2, <2>2, <4>1, <4>2
    <3> QED  BY <1>0, <3>1, <3>2 DEF PathInv
  <2> QED  BY <2>1, <2>2
<1>5. \A i \in 1..Len(path) : path[i] # s  BY <1>0 DEF PathInv
<1>6. \A i, j \in 1..Len(path') : path'[i] = path'[j] => i = j
  <2>1. \A i \in 1..Len(path') : i \in 1..Len(path) \/ i = Len(path) + 1
    BY <1>2
  <2>2. \A i, j \in 1..Len(path) : path'[i] = path'[j] => i = j
    BY <1>0, <1>2 DEF PathInv
  <2> QED  BY <1>2, <1>5, <2>1, <2>2
<1>7. ASSUME NEW i \in 1..Len(path') - 1
      PROVE  /\ at'[path'[i]] \in DOMAIN flow'.trans[path'[i]]
             /\ flow'.trans[path'[i]][at'[path'[i]]].target = path'[i + 1]
  <2>1. CASE i = Len(path)
    <3>1. path # <<>>  BY <1>2, <1>7, <2>1
    <3>2. path'[i] = Top /\ path'[i + 1] = s  BY <1>2, <1>7, <2>1 DEF Top
    <3> QED  BY <1>1, <3>1, <3>2 DEF Target, Looks
  <2>2. CASE i # Len(path)
    <3>1. i \in 1..Len(path) - 1 /\ path'[i] = path[i]
          /\ path'[i + 1] = path[i + 1]
      <4>1. i \in 1..Len(path) - 1 /\ i + 1 \in 1..Len(path)
        BY <1>2, <1>7, <2>2
      <4> QED  BY <1>2, <4>1
    <3> QED  BY <1>0, <1>1, <3>1 DEF PathInv
  <2> QED  BY <2>1, <2>2
<1>8. PathInv'  BY <1>4, <1>6, <1>7 DEF PathInv
<1>9. DoneInv'
  <2>1. \A x : Targets(flow', x) = Targets(flow, x)  BY <1>1 DEF Targets
  <2>2. AcyclicIn(flow', Done')
    BY <1>0, <1>3, <2>1 DEF DoneInv, AcyclicIn
  <2>3. ASSUME NEW x \in StepId, visited'[x] = 1,
               NEW k \in DOMAIN flow'.trans[x], k < at'[x]
        PROVE  flow'.trans[x][k].target \in Done'
    <3>1. CASE x = s
      <4>1. at[s] = 1 /\ flow.trans[s] \in Seq(Transition)
        BY <1>0, SearchType, TargetsType DEF DoneInv
      <4>2. k \in 1..Len(flow.trans[s])  BY <1>1, <2>3, <3>1, <4>1
      <4> QED  BY <1>1, <2>3, <3>1, <4>1, <4>2
    <3>2. CASE x # s
      <4>1. visited[x] = 1  BY <1>0, <1>1, <2>3, <3>2
      <4> QED  BY <1>0, <1>1, <1>3, <2>3, <4>1 DEF DoneInv
    <3> QED  BY <3>1, <3>2
  <2>4. \A x \in StepId : visited'[x] = 0 => at'[x] = 1
    BY <1>0, <1>1 DEF DoneInv
  <2>5. \A x \in Done' : Targets(flow', x) \subseteq Done'
    BY <1>0, <1>3, <2>1 DEF DoneInv
  <2> QED  BY <2>2, <2>3, <2>4, <2>5 DEF DoneInv
<1> QED  BY <1>0, <1>1, <1>2, <1>8, <1>9, SearchGoesOn

\* A step of the flow that is not visited, or a target that is not.
LEMMA VisitInv == ParserInv /\ (VisitStep \/ VisitTarget) => ParserInv'
<1>1. ASSUME ParserInv, VisitStep PROVE ParserInv'
  <2>1. PICK s \in flow.steps : visited[s] = 0 /\ Enter(s)
    BY <1>1 DEF VisitStep
  <2>2. pc = "search" /\ path = <<>>  BY <1>1 DEF VisitStep
  <2> QED  BY <1>1, <2>1, <2>2, EnterInv
<1>2. ASSUME ParserInv, VisitTarget PROVE ParserInv'
  <2>1. /\ Searching /\ at[Top] <= Len(Looks) /\ visited[Target] = 0
        /\ Enter(Target) /\ pc = "search"
    BY <1>2 DEF VisitTarget, Searching
  <2>2. Target \in flow.steps /\ at[Top] \in DOMAIN Looks
    BY <1>2, <2>1, TopType
  <2> QED  BY <1>2, <2>1, <2>2, EnterInv
<1> QED  BY <1>1, <1>2

\* A target that is done with needs no second visit.
LEMMA PassTargetInv == ParserInv /\ PassTarget => ParserInv'
<1> SUFFICES ASSUME ParserInv, PassTarget PROVE ParserInv'  OBVIOUS
<1>t. PICK t : t = Top  OBVIOUS
<1>1. /\ Searching /\ at[t] <= Len(Looks) /\ visited[Target] = 2
      /\ UNCHANGED <<store, unchecked, files, doc, pc, flow, inserted, path,
                     visited>>
      /\ at' = [at EXCEPT ![t] = @ + 1]
  BY <1>t DEF PassTarget, NextAt
<1>2. /\ pc = "search" /\ path \in Seq(StepId) /\ visited \in [StepId -> 0..2]
      /\ at \in [StepId -> Nat \ {0}] /\ PathInv /\ DoneInv
      /\ \A x \in StepId : visited[x] # 0 => x \in flow.steps
  BY <1>1, SearchType DEF Searching
<1>3. /\ t \in StepId /\ visited[t] = 1 /\ Len(path) \in Nat \ {0}
      /\ at[t] \in DOMAIN flow.trans[t] /\ Target \in StepId
      /\ t = path[Len(path)]
  <2>1. at[Top] <= Len(Looks) /\ Looks = flow.trans[t]
    BY <1>t, <1>1 DEF Looks
  <2>2. Target \in flow.steps /\ flow.steps \subseteq StepId
    BY <1>1, <2>1, TopType, SearchType DEF Searching
  <2> QED  BY <1>t, <1>1, <2>1, <2>2, TopType DEF Top
<1>4. at' \in [StepId -> Nat \ {0}] /\ at'[t] = at[t] + 1
      /\ \A x \in StepId : x # t => at'[x] = at[x]
  BY <1>1, <1>2, <1>3
<1>5. Done' = Done  BY <1>1 DEF Done
<1>6. PathInv'
  <2>1. ASSUME NEW i \in 1..Len(path) - 1 PROVE path[i] # t
    BY <1>2, <1>3, <2>1 DEF PathInv
  <2>2. \A i \in 1..Len(path) - 1 : path[i] \in StepId  BY <1>2
  <2> QED  BY <1>1, <1>2, <1>4, <2>1, <2>2 DEF PathInv
<1>7. DoneInv'
  <2>1. \A x : Targets(flow', x) = Targets(flow, x)  BY <1>1 DEF Targets
  <2>2. AcyclicIn(flow', Done')
    BY <1>2, <1>5, <2>1 DEF DoneInv, AcyclicIn
  <2>3. ASSUME NEW x \in StepId, visited'[x] = 1,
               NEW k \in DOMAIN flow'.trans[x], k < at'[x]
        PROVE  flow'.trans[x][k].target \in Done'
    <3>0. flow.trans[x] \in Seq(Transition) /\ k \in Nat
      <4>1. flow.trans[x] \in Seq(Transition)  BY <1>2, SearchType, TargetsType
      <4> QED  BY <1>1, <2>3, <4>1
    <3>1. CASE x = t /\ k = at[t]
      <4>1. flow.trans[x][k].target = Target  BY <1>t, <3>1 DEF Target, Looks
      <4> QED  BY <1>1, <1>3, <1>5, <4>1 DEF Done
    <3>2. CASE ~(x = t /\ k = at[t])
      <4>1. k < at[x]  BY <1>2, <1>3, <1>4, <2>3, <3>0, <3>2
      <4> QED  BY <1>1, <1>2, <1>5, <2>3, <4>1 DEF DoneInv
    <3> QED  BY <3>1, <3>2
  <2>4. \A x \in StepId : visited'[x] = 0 => at'[x] = 1
    BY <1>1, <1>2, <1>3, <1>4 DEF DoneInv
  <2>5. \A x \in Done' : Targets(flow', x) \subseteq Done'
    BY <1>2, <1>5, <2>1 DEF DoneInv
  <2> QED  BY <2>2, <2>3, <2>4, <2>5 DEF DoneInv
<1> QED  BY <1>1, <1>2, <1>4, <1>6, <1>7, SearchGoesOn

\* A target that the search is in closes a cycle with the path from it.
LEMMA FindCycleInv == ParserInv /\ FindCycle => ParserInv'
<1> SUFFICES ASSUME ParserInv, FindCycle PROVE ParserInv'  OBVIOUS
<1>1. /\ Searching /\ at[Top] <= Len(Looks) /\ visited[Target] = 1
      /\ pc' = "cycle" /\ path' = Append(path, Target)
      /\ UNCHANGED <<store, unchecked, files, doc, flow, inserted, at, visited>>
      /\ pc = "search"
  BY DEF FindCycle, Closes, Searching
<1>2. /\ path \in Seq(StepId) /\ PathInv /\ doc \in Doc /\ flow \in Flow
      /\ Target \in StepId /\ Target \in Targets(flow, Top)
      /\ Len(path) \in Nat \ {0}
  BY <1>1, SearchType, TopType
<1>3. /\ Len(path') = Len(path) + 1 /\ path'[Len(path) + 1] = Target
      /\ \A i \in 1..Len(path) : path'[i] = path[i]
      /\ path' \in Seq(StepId)
  BY <1>1, <1>2
<1>4. ASSUME NEW i \in 1..Len(path') - 1
      PROVE  path'[i + 1] \in Targets(flow', path'[i])
  <2>1. CASE i = Len(path)
    BY <1>1, <1>2, <1>3, <1>4, <2>1 DEF Top, Targets
  <2>2. CASE i # Len(path)
    <3>1. i \in 1..Len(path) - 1 /\ i + 1 \in 1..Len(path)
      BY <1>2, <1>3, <1>4, <2>2
    <3>2. path[i + 1] \in Targets(flow, path[i])
      <4>1. /\ at[path[i]] \in DOMAIN flow.trans[path[i]]
            /\ flow.trans[path[i]][at[path[i]]].target = path[i + 1]
        BY <1>2, <3>1 DEF PathInv
      <4> QED  BY <4>1 DEF Targets
    <3> QED  BY <1>1, <1>2, <1>3, <3>1, <3>2 DEF Targets
  <2> QED  BY <2>1, <2>2
<1>5. PICK i \in 1..Len(path) : path[i] = Target  BY <1>1, <1>2 DEF PathInv
<1>6. i \in 1..Len(path') - 1 /\ path'[i] = path'[Len(path')]
  BY <1>2, <1>3, <1>5
<1>7. CyclesAreReal'  BY <1>4, <1>6 DEF CyclesAreReal
<1>8. LoadTypeOK'  BY <1>1, <1>3 DEF ParserInv, LoadTypeOK
<1> QED  BY <1>1, <1>2, <1>7, <1>8
         DEF ParserInv, RestInv, GroupInv, SearchInv, KeptFlowsAcyclic

\* A step without a target left is done with.
LEMMA LeaveStepInv == ParserInv /\ LeaveStep => ParserInv'
<1> SUFFICES ASSUME ParserInv, LeaveStep PROVE ParserInv'  OBVIOUS
<1>t. PICK t : t = path[Len(path)]  OBVIOUS
<1>1. /\ Searching /\ at[t] > Len(Looks)
      /\ visited' = [visited EXCEPT ![t] = 2]
      /\ path' = SubSeq(path, 1, Len(path) - 1)
      /\ UNCHANGED <<store, unchecked, files, doc, pc, flow, inserted, at>>
      /\ pc = "search"
  BY <1>t DEF LeaveStep, Searching, Top
<1>2. /\ path \in Seq(StepId) /\ visited \in [StepId -> 0..2]
      /\ at \in [StepId -> Nat \ {0}] /\ PathInv /\ DoneInv /\ flow \in Flow
      /\ \A x \in StepId : visited[x] # 0 => x \in flow.steps
  BY <1>1, SearchType
<1>3. /\ t \in StepId /\ visited[t] = 1 /\ Len(path) \in Nat \ {0}
      /\ t \in flow.steps /\ Looks \in Seq(Transition)
  BY <1>t, <1>1, TopType DEF Top
<1>4. /\ path' \in Seq(StepId) /\ Len(path') = Len(path) - 1
      /\ \A i \in 1..Len(path) - 1 : path'[i] = path[i]
  <2>1. PICK n \in Nat : n = Len(path) - 1  BY <1>3
  <2>2. path' = SubSeq(path, 1, n)  BY <1>1, <2>1
  <2>3. path' = [i \in 1..n |-> path[i]]  BY <1>2, <2>1, <2>2
  <2>4. \A i \in 1..n : path[i] \in StepId  BY <1>2, <2>1
  <2>5. path' \in Seq(StepId) /\ Len(path') = n  BY <2>1, <2>3, <2>4
  <2> QED  BY <2>1, <2>3, <2>5
<1>5. /\ visited' \in [StepId -> 0..2] /\ visited'[t] = 2
      /\ \A x \in StepId : x # t => visited'[x] = visited[x]
  BY <1>1, <1>2, <1>3
<1>6. Done' = Done \cup {t} /\ t \notin Done
  BY <1>3, <1>5 DEF Done
<1>7. Targets(flow, t) \subseteq Done
  <2> SUFFICES ASSUME NEW k \in DOMAIN flow.trans[t]
               PROVE  flow.trans[t][k].target \in Done
    BY DEF Targets
  <2>1. k < at[t]  BY <1>t, <1>1, <1>2, <1>3 DEF Looks, Top
  <2> QED  BY <1>2, <1>3, <2>1 DEF DoneInv
<1>8. \A x \in StepId :
        visited'[x] = 1 <=> \E i \in 1..Len(path') : path'[i] = x
  <2> SUFFICES ASSUME NEW x \in StepId
               PROVE visited'[x] = 1 <=> \E i \in 1..Len(path') : path'[i] = x
    OBVIOUS
  <2>0. \A i \in 1..Len(path') : i \in 1..Len(path) - 1 /\ i # Len(path)
    BY <1>3, <1>4
  <2>1. CASE x = t
    <3>1. \A i \in 1..Len(path) - 1 : path[i] # t
      BY <1>t, <1>2, <1>3 DEF PathInv
    <3> QED  BY <1>4, <1>5, <2>0, <2>1, <3>1
  <2>2. CASE x # t
    <3>1. visited[x] = 1 => \E i \in 1..Len(path) - 1 : path[i] = x
      BY <1>t, <1>2, <1>3, <2>2 DEF PathInv
    <3>2. (\E i \in 1..Len(path) - 1 : path[i] = x) => visited[x] = 1
      BY <1>2, <1>3 DEF PathInv
    <3>3. (\E i \in 1..Len(path') : path'[i] = x)
            <=> \E i \in 1..Len(path) - 1 : path[i] = x
      BY <1>3, <1>4
    <3> QED  BY <1>5, <2>2, <3>1, <3>2, <3>3
  <2> QED  BY <2>1, <2>2
<1>9. PathInv'
  <2>1. \A i, j \in 1..Len(path') : path'[i] = path'[j] => i = j
    <3>1. \A i \in 1..Len(path') : /\ i \in 1..Len(path) - 1
                                  /\ i \in 1..Len(path)
      BY <1>3, <1>4
    <3> QED  BY <1>2, <1>4, <3>1 DEF PathInv
  <2>2. ASSUME NEW i \in 1..Len(path') - 1
        PROVE  /\ at'[path'[i]] \in DOMAIN flow'.trans[path'[i]]
               /\ flow'.trans[path'[i]][at'[path'[i]]].target = path'[i + 1]
    <3>1. /\ i \in 1..Len(path) - 1 /\ i + 1 \in 1..Len(path) - 1
      BY <1>3, <1>4, <2>2
    <3>2. path'[i] = path[i] /\ path'[i + 1] = path[i + 1]  BY <1>4, <3>1
    <3> QED  BY <1>1, <1>2, <3>1, <3>2 DEF PathInv
  <2> QED  BY <1>8, <2>1, <2>2 DEF PathInv
<1>10. DoneInv'
  <2>1. \A x : Targets(flow', x) = Targets(flow, x)  BY <1>1 DEF Targets
  <2>2. \A x \in Done : Targets(flow, x) \subseteq Done /\ AcyclicIn(flow, Done)
    BY <1>2 DEF DoneInv
  <2>3. AcyclicIn(flow, Done \cup {t})
    <3>1. AcyclicIn(flow, Done)  BY <1>2 DEF DoneInv
    <3> QED  BY <1>6, <1>7, <2>2, <3>1, AcyclicGrows
  <2>4. AcyclicIn(flow', Done')  BY <1>6, <2>1, <2>3 DEF AcyclicIn
  <2>5. \A x \in Done' : Targets(flow', x) \subseteq Done'
    BY <1>6, <1>7, <2>1, <2>2
  <2>6. \A x \in StepId : visited'[x] = 0 => at'[x] = 1
    BY <1>1, <1>2, <1>5 DEF DoneInv
  <2>7. \A x \in StepId : visited'[x] = 1 =>
          \A k \in DOMAIN flow'.trans[x] :
            k < at'[x] => flow'.trans[x][k].target \in Done'
    BY <1>1, <1>2, <1>5, <1>6 DEF DoneInv
  <2> QED  BY <2>4, <2>5, <2>6, <2>7 DEF DoneInv
<1>11. \A x \in StepId : visited'[x] # 0 => x \in flow.steps
  BY <1>2, <1>3, <1>5
<1> QED  BY <1>1, <1>2, <1>4, <1>5, <1>9, <1>10, <1>11, SearchGoesOn

\* When every step is done with, they are all closed and without a cycle.
LEMMA AcceptedInv == ParserInv /\ FlowAccepted => ParserInv'
<1> SUFFICES ASSUME ParserInv, FlowAccepted PROVE ParserInv'  OBVIOUS
<1>1. pc = "search" /\ path = <<>> /\ Keep(flow)
      /\ \A s \in flow.steps : visited[s] # 0
  BY DEF FlowAccepted
<1>2. /\ flow \in Flow /\ visited \in [StepId -> 0..2] /\ PathInv /\ DoneInv
      /\ flow.steps \subseteq StepId /\ doc \in Doc
  BY <1>1, SearchType
<1>3. \A s \in StepId : visited[s] # 1  BY <1>1, <1>2 DEF PathInv
<1>4. flow.steps \subseteq Done  BY <1>1, <1>2, <1>3 DEF Done
<1>5. Acyclic(flow)  BY <1>2, <1>4 DEF DoneInv, Acyclic, AcyclicIn
<1> QED  BY <1>1, <1>2, <1>5, KeepInv

\* What is left to show of a step that leaves the parser alone.
LEMMA ParserRests ==
    ASSUME ParserInv, UNCHANGED <<files, parser>>, KeptFlowsAcyclic',
           store' \in [FlowId -> Flow \cup {None}], unchecked' \subseteq FlowId
    PROVE  ParserInv'
<1> USE DEF ParserInv
<1>1. UNCHANGED <<files, doc, pc, flow, inserted, path, at, visited>>
  BY DEF parser
<1>2. LoadTypeOK'  BY <1>1 DEF LoadTypeOK
<1>3. RestInv'  BY <1>1 DEF RestInv
<1>4. GroupInv'
  <2>1. \A i : ToNext(i)' = ToNext(i)  BY <1>1 DEF ToNext
  <2>2. \A s, i : Place(s, i)' = Place(s, i)  BY <1>1, <2>1 DEF Place
  <2>3. \A T, m : LastOf(T, m)' = LastOf(T, m)  BY <1>1 DEF LastOf
  <2> QED  BY <1>1, <2>2, <2>3 DEF GroupInv
<1>5. SearchInv'
  <2>1. PathInv' = PathInv  BY <1>1 DEF PathInv
  <2>2. DoneInv' = DoneInv  BY <1>1 DEF DoneInv, Done, Targets, AcyclicIn
  <2>3. WellFormed(flow)' = WellFormed(flow)  BY <1>1 DEF WellFormed
  <2> QED  BY <1>1, <2>1, <2>2, <2>3 DEF SearchInv
<1>6. CyclesAreReal'
  <2>1. \A x : Targets(flow, x)' = Targets(flow, x)  BY <1>1 DEF Targets
  <2> QED  BY <1>1, <2>1 DEF CyclesAreReal
<1> QED  BY <1>1, <1>2, <1>3, <1>4, <1>5, <1>6

\* A flow that is saved as it is has not come out of the parser, and what is
\* deleted is there no more.
LEMMA StoreInv ==
    ParserInv /\ (SaveFlow \/ \E i \in FlowId : DeleteFlow(i)) => ParserInv'
<1>1. ASSUME ParserInv, SaveFlow PROVE ParserInv'
  <2>1. PICK d \in Doc : /\ d.kind = "flow"
                         /\ store' = [store EXCEPT ![d.id] = d.flow]
                         /\ unchecked' = unchecked \cup {d.id}
    BY <1>1 DEF SaveFlow
  <2>2. d.id \in FlowId /\ d.flow \in Flow  BY <2>1, DocAssumption
  <2>3. /\ store' \in [FlowId -> Flow \cup {None}]
        /\ unchecked' \subseteq FlowId
    BY <1>1, <2>1, <2>2 DEF ParserInv, LoadTypeOK
  <2>4. \A i \in FlowId \ unchecked' : store'[i] = store[i] /\ i \notin unchecked
    BY <1>1, <2>1, <2>2 DEF ParserInv, LoadTypeOK
  <2>5. KeptFlowsAcyclic'
    BY <1>1, <2>4 DEF ParserInv, KeptFlowsAcyclic
  <2> QED  BY <1>1, <2>3, <2>5, ParserRests DEF SaveFlow
<1>2. ASSUME ParserInv, NEW i \in FlowId, DeleteFlow(i) PROVE ParserInv'
  <2>1. /\ store' = [store EXCEPT ![i] = None]
        /\ unchecked' = unchecked \ {i}
    BY <1>2 DEF DeleteFlow
  <2>2. /\ store' \in [FlowId -> Flow \cup {None}]
        /\ unchecked' \subseteq FlowId
    BY <1>2, <2>1 DEF ParserInv, LoadTypeOK
  <2>3. \A j \in FlowId \ unchecked' :
          store'[j] # None => /\ store'[j] = store[j]
                              /\ j \notin unchecked
    BY <1>2, <2>1 DEF ParserInv, LoadTypeOK
  <2>4. KeptFlowsAcyclic'
    BY <1>2, <2>3 DEF ParserInv, KeptFlowsAcyclic
  <2> QED  BY <1>2, <2>2, <2>4, ParserRests DEF DeleteFlow
<1> QED  BY <1>1, <1>2

\* A group to be saved is expanded as one that is read.
LEMMA SaveGroupInv == ParserInv /\ SaveGroup => ParserInv'
<1> SUFFICES ASSUME ParserInv, SaveGroup PROVE ParserInv'  OBVIOUS
<1> USE DEF ParserInv
<1>1. PICK d \in Doc : d.kind = "group" /\ doc' = d
  BY DEF SaveGroup
<1>2. /\ pc = "idle" /\ pc' = "expand" /\ flow' = NoFlow
      /\ UNCHANGED <<store, unchecked, files, inserted, path, at, visited>>
  BY DEF SaveGroup
<1>3. inserted = 0 /\ path = <<>>  BY <1>2 DEF RestInv
<1>4. LoadTypeOK'  BY <1>1, <1>2, NoFlowType DEF LoadTypeOK
<1>5. RestInv'  BY <1>1, <1>2 DEF RestInv
<1>6. GroupInv'
  <2>1. flow'.steps = {}  BY <1>2 DEF NoFlow
  <2>2. Len(d.steps) \in Nat
    <3>1. d.kind # "flow"  BY <1>1
    <3> QED  BY <1>1, <3>1, DocAssumption
  <2> QED  BY <1>1, <1>2, <1>3, <2>1, <2>2 DEF GroupInv
<1>7. SearchInv' /\ CyclesAreReal'  BY <1>2 DEF SearchInv, CyclesAreReal
<1>8. KeptFlowsAcyclic'
  BY <1>2 DEF KeptFlowsAcyclic
<1> QED  BY <1>1, <1>2, <1>4, <1>5, <1>6, <1>7, <1>8

\* Every step of a load keeps the invariant.
LEMMA LoadNextInv == ParserInv /\ LoadNext => ParserInv'
BY LoadFlowsInv, ReadFileInv, SkipInv, InsertInv, GroupExpandedInv, VisitInv,
   PassTargetInv, FindCycleInv, LeaveStepInv, AcceptedInv, StoreInv,
   SaveGroupInv
DEF LoadNext, LoadStep, Search

\* And so does a step of something else.
LEMMA LoadStutters == ParserInv /\ UNCHANGED loading => ParserInv'
<1> SUFFICES ASSUME ParserInv, UNCHANGED loading PROVE ParserInv'  OBVIOUS
<1>1. UNCHANGED <<store, unchecked, files, parser>>  BY DEF loading
<1>2. KeptFlowsAcyclic'  BY <1>1 DEF ParserInv, KeptFlowsAcyclic
<1>3. /\ store' \in [FlowId -> Flow \cup {None}]
      /\ unchecked' \subseteq FlowId
  BY <1>1 DEF ParserInv, LoadTypeOK
<1> QED  BY <1>1, <1>2, <1>3, ParserRests
=============================================================================
