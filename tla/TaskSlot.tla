------------------------------- MODULE TaskSlot -------------------------------
(***************************************************************************)
(* What the one task slot promises to those who run scripts: a slot that   *)
(* is taken goes to nobody else before it is given back or emptied by      *)
(* force, and who took it works on the task it was taken for until then    *)
(* (crates/betternte-script/src/runtime.rs:290-302, :437-457).             *)
(***************************************************************************)
CONSTANTS Worker, Task, None
VARIABLES
    task,     \* whose the slot is
    work,     \* what each worker works on
    forced    \* the slot has been emptied by force

Init == task = None /\ work = [w \in Worker |-> None] /\ forced = FALSE

Stops(w) == work[w] # None /\ work' = [work EXCEPT ![w] = None]

Claim(w, t) ==
    /\ task = None /\ task' = t
    /\ work[w] = None /\ work' = [work EXCEPT ![w] = t]
    /\ UNCHANGED forced

\* Whoever the slot belongs to by now.
Release(w) == Stops(w) /\ task' = None /\ UNCHANGED forced

\* A worker that fails or is dropped leaves the slot behind.
Fail(w) == Stops(w) /\ UNCHANGED <<task, forced>>

Force == task' = None /\ forced' = TRUE /\ UNCHANGED work

Next ==
    \/ \E w \in Worker : \/ Release(w) \/ Fail(w)
                         \/ \E t \in Task : Claim(w, t)
    \/ Force

Spec == Init /\ [][Next]_<<task, work, forced>>
===============================================================================
