----------------------------- MODULE MCCtxBridge -----------------------------
(* Instances of CtxBridge for TLC. *)
EXTENDS CtxBridge

CONSTANTS c1, c2, l1, l2

Calls(faults) ==
    [runs |-> {c1, c2}, calls |-> {l1}, posts |-> {}, faults |-> faults]
Jobs(libraries, faults) ==
    [runs |-> {c1}, calls |-> libraries, posts |-> {c1}, faults |-> faults]
\* Posts that may be nested calls: a library's, and a script's beside another.
NestedPosts ==
    {[runs |-> {c1}, calls |-> {l1}, posts |-> {l1}, faults |-> {}],
     [runs |-> {c1, c2}, calls |-> {}, posts |-> {c1}, faults |-> {}]}

CallsAndJobs == {Calls({"panic", "shutdown"}), Jobs({l1}, {"panic"}),
                 Jobs({}, {"panic", "shutdown"})} \cup NestedPosts
FaultlessCalls == {Calls({})}
=============================================================================
