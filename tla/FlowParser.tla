------------------------------ MODULE FlowParser ------------------------------
(***************************************************************************)
(* How flows come into flows_store: load_flows and load_task_groups read   *)
(* the files of the subscriptions one after the other and keep what        *)
(* FlowParser makes of them (crates/betternte-runtime/src/parser.rs, and   *)
(* task_groups.rs of the engine), and the client saves and deletes them.   *)
(* A flow that is read is validated, with a depth-first search for cycles; *)
(* one that is saved is not, nor is a task group, which is expanded into a *)
(* line of steps.  All of them hold the engine's write guard.              *)
(*                                                                         *)
(* The order in which a subscription lists its files and a flow its steps  *)
(* is any order.  A condition is the set of the values of the variables    *)
(* that satisfy it; those that the stub handlers decide are never met.     *)
(***************************************************************************)
EXTENDS Naturals, Sequences, FiniteSets

CONSTANTS
    StepId, FlowId,
    Value,      \* what conditions tell apart in a flow's variables
    Null,       \* the JSON null, a Value
    Work,       \* what a step does, see WorkAssumption
    Doc,        \* documents, see DocAssumption
    MaxFiles,   \* bound: files that are loaded together
    None

ASSUME NameAssumption ==
    None \notin StepId /\ None \notin FlowId /\ None \notin Value
ASSUME ValueAssumption == Null \in Value

\* The kind of a step with its argument (the value to set, the flow to run),
\* its max_retries, and whether its output is mapped to the variables.
ASSUME WorkAssumption ==
    /\ Work # {}
    /\ \A w \in Work :
        /\ w.kind \in {"input", "set", "script", "flow"}
        /\ w.kind = "set" => w.arg \in Value
        /\ w.kind = "flow" => w.arg \in FlowId
        /\ w.retries \in Nat /\ w.output \in BOOLEAN

Transition == [target : StepId, holds : SUBSET Value, priority : Nat,
               interrupt : BOOLEAN]
Flow == [entry : StepId \cup {None}, steps : SUBSET StepId,
         trans : [StepId -> Seq(Transition)],
         onError : [StepId -> StepId \cup {None}],
         work : [StepId -> Work], default : Value]
GroupStep == [alias : StepId, work : Work]

ASSUME DocAssumption ==
    \A d \in Doc :
        /\ d.id \in FlowId
        /\ \/ d.kind = "flow" /\ d.flow \in Flow
           \/ d.kind = "group" /\ d.steps \in Seq(GroupStep)
ASSUME BoundAssumption == MaxFiles \in Nat

VARIABLES
    store,      \* flows_store: the flow of every id
    unchecked,  \* history: those of them that are as a client saved them
    files,      \* files of this load that are still to be read
    doc,        \* the one in hand
    pc,         \* where the parser is
    flow,       \* the flow it is about
    inserted,   \* steps of a task group that are in the flow
    path,       \* the steps that the search is in
    at,         \* for each of them, the transition it looks at
    visited     \* 0: not visited, 1: the search is in it, 2: done with it

parser  == <<doc, pc, flow, inserted, path, at, visited>>
loading == <<store, unchecked, files, parser>>

AnyWork == CHOOSE w \in Work : TRUE
NoFlow  == [entry |-> None, steps |-> {}, trans |-> [s \in StepId |-> <<>>],
            onError |-> [s \in StepId |-> None],
            work |-> [s \in StepId |-> AnyWork], default |-> Null]

Idle(next) ==
    /\ pc' = next /\ doc' = None /\ flow' = NoFlow /\ inserted' = 0
    /\ path' = <<>> /\ at' = [s \in StepId |-> 1]
    /\ visited' = [s \in StepId |-> 0]

LoadInit ==
    /\ store = [i \in FlowId |-> None] /\ unchecked = {} /\ files = {}
    /\ pc = "idle" /\ doc = None /\ flow = NoFlow /\ inserted = 0
    /\ path = <<>> /\ at = [s \in StepId |-> 1]
    /\ visited = [s \in StepId |-> 0]

-----------------------------------------------------------------------------
(* The files *)

LoadFlows ==
    /\ pc = "idle"
    /\ store' = [i \in FlowId |-> None] /\ unchecked' = {}
    /\ \E f \in SUBSET Doc : Cardinality(f) <= MaxFiles /\ files' = f
    /\ Idle("load")

\* validate, up to the search for cycles.
WellFormed(f) ==
    /\ f.entry \in f.steps
    /\ \A s \in f.steps :
        /\ \A k \in DOMAIN f.trans[s] : f.trans[s][k].target \in f.steps
        /\ f.onError[s] \in f.steps \cup {None}

\* A file that is neither a well-formed flow nor a group is skipped.
ReadFile ==
    /\ pc = "load"
    /\ \E d \in files :
        /\ files' = files \ {d}
        /\ doc' = d
        /\ flow' = IF d.kind = "flow" THEN d.flow ELSE NoFlow
        /\ pc' = IF d.kind = "group" THEN "expand"
                 ELSE IF WellFormed(d.flow) THEN "search" ELSE "refused"
    /\ UNCHANGED <<store, unchecked, inserted, path, at, visited>>

\* upsert_flow_in_memory
Keep(f) ==
    /\ store' = [store EXCEPT ![doc.id] = f]
    /\ unchecked' = unchecked \ {doc.id}
    /\ Idle("load")
    /\ UNCHANGED files

SkipFile ==
    /\ pc \in {"refused", "cycle"}
    /\ Idle("load")
    /\ UNCHANGED <<store, unchecked, files>>

LoadEnds ==
    /\ pc = "load" /\ files = {}
    /\ Idle("idle")
    /\ UNCHANGED <<store, unchecked, files>>

-----------------------------------------------------------------------------
(* The client's commands *)

\* save_flow: the flow is stored as it is, neither validated nor searched.
SaveFlow ==
    /\ pc = "idle"
    /\ \E d \in Doc :
        /\ d.kind = "flow"
        /\ store' = [store EXCEPT ![d.id] = d.flow]
        /\ unchecked' = unchecked \cup {d.id}
    /\ UNCHANGED <<files, parser>>

\* save_task_group expands the group, and saves what parse_group returns.
SaveGroup ==
    /\ pc = "idle"
    /\ \E d \in Doc : d.kind = "group" /\ doc' = d
    /\ pc' = "expand" /\ flow' = NoFlow
    /\ UNCHANGED <<store, unchecked, files, inserted, path, at, visited>>

DeleteFlow(i) ==
    /\ pc = "idle"
    /\ store' = [store EXCEPT ![i] = None]
    /\ unchecked' = unchecked \ {i}
    /\ UNCHANGED <<files, parser>>

-----------------------------------------------------------------------------
(* parse_group: each step goes on to the next one, and the later of two      *)
(* steps with the same alias takes the place of the earlier.                 *)

ToNext(i) ==
    IF i < Len(doc.steps)
      THEN <<[target |-> doc.steps[i + 1].alias, holds |-> Value,
              priority |-> 0, interrupt |-> FALSE]>>
      ELSE <<>>

\* mutant: a step that is there already keeps its place.
InsertNew(i) ==
    LET s == doc.steps[i] IN
    IF s.alias \in flow.steps THEN flow ELSE
    [flow EXCEPT !.steps = @ \cup {s.alias}, !.trans[s.alias] = ToNext(i),
                 !.work[s.alias] = s.work]
Insert(i) ==
    LET s == doc.steps[i] IN
    [flow EXCEPT !.steps = @ \cup {s.alias}, !.trans[s.alias] = ToNext(i),
                 !.work[s.alias] = s.work]

InsertStep ==
    /\ pc = "expand" /\ inserted < Len(doc.steps)
    /\ inserted' = inserted + 1
    /\ flow' = Insert(inserted + 1)
    /\ UNCHANGED <<store, unchecked, files, doc, pc, path, at, visited>>

GroupExpanded ==
    /\ pc = "expand" /\ inserted = Len(doc.steps)
    /\ Keep([flow EXCEPT !.entry =
                IF doc.steps = <<>> THEN None ELSE doc.steps[1].alias])

-----------------------------------------------------------------------------
(* detect_cycles and dfs *)

Top     == path[Len(path)]
Looks   == flow.trans[Top]
Target  == Looks[at[Top]].target

\* The search enters a step: an unvisited one of the flow, or an unvisited
\* target of the step it is in.
Enter(s) ==
    /\ visited' = [visited EXCEPT ![s] = 1]
    /\ path' = Append(path, s)
    /\ UNCHANGED <<store, unchecked, files, doc, pc, flow, inserted, at>>

VisitStep ==
    /\ pc = "search" /\ path = <<>>
    /\ \E s \in flow.steps : visited[s] = 0 /\ Enter(s)

Searching == pc = "search" /\ path # <<>>

VisitTarget ==
    /\ Searching /\ at[Top] <= Len(Looks)
    /\ visited[Target] = 0
    /\ Enter(Target)

NextAt == [at EXCEPT ![Top] = @ + 1]

PassTarget ==
    /\ Searching /\ at[Top] <= Len(Looks)
    /\ visited[Target] = 2
    /\ at' = NextAt
    /\ UNCHANGED <<store, unchecked, files, doc, pc, flow, inserted, path,
                   visited>>

ClosesIfSeen == visited[Target] # 0  \* mutant
Closes == visited[Target] = 1

\* Err(CircularDependency(path))
FindCycle ==
    /\ Searching /\ at[Top] <= Len(Looks)
    /\ Closes
    /\ pc' = "cycle"
    /\ path' = Append(path, Target)
    /\ UNCHANGED <<store, unchecked, files, doc, flow, inserted, at, visited>>

LeaveStep ==
    /\ Searching /\ at[Top] > Len(Looks)
    /\ visited' = [visited EXCEPT ![Top] = 2]
    /\ path' = SubSeq(path, 1, Len(path) - 1)
    /\ UNCHANGED <<store, unchecked, files, doc, pc, flow, inserted, at>>

FlowAccepted ==
    /\ pc = "search" /\ path = <<>>
    /\ \A s \in flow.steps : visited[s] # 0
    /\ Keep(flow)

-----------------------------------------------------------------------------

Search == VisitStep \/ VisitTarget \/ PassTarget \/ FindCycle \/ LeaveStep
            \/ FlowAccepted

LoadStep == ReadFile \/ SkipFile \/ InsertStep \/ GroupExpanded \/ Search
                \/ LoadEnds

LoadNext == LoadFlows \/ LoadStep \/ SaveFlow \/ SaveGroup
                \/ \E i \in FlowId : DeleteFlow(i)

LoadSpec == LoadInit /\ [][LoadNext]_loading

-----------------------------------------------------------------------------
(* Properties *)

LoadTypeOK ==
    /\ store \in [FlowId -> Flow \cup {None}]
    /\ unchecked \subseteq FlowId /\ files \subseteq Doc
    /\ doc \in Doc \cup {None}
    /\ pc \in {"idle", "load", "refused", "expand", "search", "cycle"}
    /\ flow \in Flow /\ inserted \in Nat
    /\ path \in Seq(StepId)
    /\ at \in [StepId -> Nat \ {0}] /\ visited \in [StepId -> 0..2]

Targets(f, s) == {f.trans[s][k].target : k \in DOMAIN f.trans[s]}

\* No set of steps keeps a walk along transitions inside for ever.
AcyclicIn(f, S) ==
    \A T \in SUBSET S : T # {} => \E s \in T : Targets(f, s) \cap T = {}

Acyclic(f) == AcyclicIn(f, f.steps)

\* Whatever order the search takes, and however the aliases of a task group
\* repeat, the transitions of a flow that comes out of the parser have no
\* cycle, also if it takes the place of one that was saved.  Of a flow that
\* save_flow has stored, and no load has replaced, it says nothing: the code
\* does not look at it.
KeptFlowsAcyclic ==
    \A i \in FlowId \ unchecked : store[i] # None => Acyclic(store[i])

\* The path that a refused flow is reported with is a walk along its
\* transitions that ends at a step it has been at.
CyclesAreReal ==
    pc = "cycle" =>
        /\ \A i \in 1..Len(path) - 1 : path[i + 1] \in Targets(flow, path[i])
        /\ \E i \in 1..Len(path) - 1 : path[i] = path[Len(path)]
=============================================================================
