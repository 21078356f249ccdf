---------------------------- MODULE SerialWorker ----------------------------
(***************************************************************************)
(* What the input pipelines promise to those who use them: the inputs that *)
(* a pipeline accepts run one at a time, in the order in which they were   *)
(* accepted, and each of them once; a crash loses all of them together     *)
(* (crates/betternte-input/src/queue.rs:1-6, queued_controller.rs:17-21).  *)
(***************************************************************************)
EXTENDS Sequences

CONSTANTS Worker, Task, Idle
VARIABLES pending, running

Init == pending = [w \in Worker |-> <<>>] /\ running = [w \in Worker |-> Idle]

Accept(w, t) ==
    pending' = [pending EXCEPT ![w] = Append(@, t)] /\ UNCHANGED running

Start(w) ==
    /\ running[w] = Idle /\ pending[w] # <<>>
    /\ running' = [running EXCEPT ![w] = Head(pending[w])]
    /\ pending' = [pending EXCEPT ![w] = Tail(@)]

\* Without a queue who brings the input runs it.
StartDirectly(w, t) ==
    /\ running[w] = Idle /\ pending[w] = <<>>
    /\ running' = [running EXCEPT ![w] = t] /\ UNCHANGED pending

Finish(w) ==
    /\ running[w] # Idle
    /\ running' = [running EXCEPT ![w] = Idle] /\ UNCHANGED pending

Crash(w) ==
    /\ running[w] # Idle
    /\ running' = [running EXCEPT ![w] = Idle]
    /\ pending' = [pending EXCEPT ![w] = <<>>]

Next == \E w \in Worker :
    \/ \E t \in Task : Accept(w, t) \/ StartDirectly(w, t)
    \/ Start(w) \/ Finish(w) \/ Crash(w)

Spec == Init /\ [][Next]_<<pending, running>>
=============================================================================
