--------------------------- MODULE MCFlowExecution ---------------------------
(* Instances of FlowExecution for TLC. *)
EXTENDS FlowExecution

CONSTANTS a, b, c, f, g, one, null

Plain(k)   == [kind |-> k, arg |-> None, retries |-> 0, output |-> FALSE]
Click      == Plain("input")
Retried    == [Click EXCEPT !.retries = 1]
SetOne     == [Plain("set") EXCEPT !.arg = one]
Script     == [Plain("script") EXCEPT !.output = TRUE]
Sub(i)     == [Plain("flow") EXCEPT !.arg = i]
SomeWork   == {Click, Retried, SetOne, Script, Sub(f), Sub(g)}

To(s)      == [target |-> s, holds |-> Value, priority |-> 0,
               interrupt |-> FALSE]
ToIf(s)    == [To(s) EXCEPT !.holds = {one}, !.priority = 1]
ToNow(s)   == [ToIf(s) EXCEPT !.interrupt = TRUE]

FlowDoc(i, steps, ta, tb, tc, wa, wb, wc, ea, eb) ==
    [id |-> i, kind |-> "flow", flow |->
        [entry |-> a, steps |-> steps, default |-> null,
         trans   |-> [s \in StepId |-> CASE s = a -> ta [] s = b -> tb
                                         [] s = c -> tc],
         onError |-> [s \in StepId |-> CASE s = a -> ea [] s = b -> eb
                                         [] s = c -> None],
         work    |-> [s \in StepId |-> CASE s = a -> wa [] s = b -> wb
                                         [] s = c -> wc]]]
GroupDoc(i, aliases) ==
    [id |-> i, kind |-> "group",
     steps |-> [k \in 1..Len(aliases) |->
                    [alias |-> aliases[k], work |-> Click]]]

\* Branches, an interrupt, retries and on_error jumps in a circle; a cycle
\* that the entry is not on; an unknown target; a flow that runs the other
\* and itself; a group with an alias twice.
SomeDocs ==
    {FlowDoc(f, {a, b, c}, <<To(c), ToIf(b)>>, <<ToNow(c)>>, <<>>,
             SetOne, Retried, Script, b, a),
     FlowDoc(g, {a, b, c}, <<To(b)>>, <<To(c)>>, <<To(b)>>,
             Click, Click, Click, None, None),
     FlowDoc(g, {a}, <<To(b)>>, <<>>, <<>>, Click, Click, Click, None, None),
     FlowDoc(g, {a, b}, <<To(b)>>, <<>>, <<>>, Sub(f), Sub(g), Click,
             None, None),
     GroupDoc(g, <<a, b, a>>)}
=============================================================================
