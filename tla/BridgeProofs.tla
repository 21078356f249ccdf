---------------------------- MODULE BridgeProofs ----------------------------
(***************************************************************************)
(* That every call of a ctx method waits for one answer, and that a job    *)
(* settles once: the invariant of CtxBridge, and the theorems about it.    *)
(***************************************************************************)
EXTENDS CtxBridge, SequenceTheorems, FiniteSetTheorems, TLAPS

-----------------------------------------------------------------------------
(* The invariant *)

\* Where the request of frame f is: in the hands of bridge thread b, or at
\* place i of its channel.
Served(b, f) == busy[b] # None /\ busy[b].from = f
QueuedAt(b, i, f) == i \in 1..Len(queue[b]) /\ queue[b][i].from = f
Pending(b, f) == Served(b, f) \/ \E i \in 1..Len(queue[b]) : QueuedAt(b, i, f)

ThreadTyped ==
    /\ bridge \in Bridge \cup {None} /\ started \in 0..MaxBridge
    /\ queue \in [Bridge -> Seq(Requests)]
    /\ \A b \in Bridge : Len(queue[b]) <= MaxQueue
    /\ busy \in [Bridge -> Requests \cup {None}] /\ dead \subseteq Bridge
CallTyped ==
    /\ inv \in [Frame -> {"none", "sent", "nested", "answered"}]
    /\ nested \in [Frame -> Work \cup {None}]
    /\ host \in [Library -> Server \cup {None}]
JobTyped ==
    /\ job \in [Frame -> {"none", "asked", "pending", "running", "gone"}
                            \cup Terminal]
    /\ task \in [Frame -> {"none", "new", "work"}]
    /\ taskOn \in [Frame -> Bridge \cup {None}]
RestTyped ==
    /\ cancelled \in [Caller -> BOOLEAN] /\ waits \subseteq Frame
    /\ plan \in Plans

\* The depth is the number of calls in flight.
Calling == {f \in Frame : inv[f] # "none"}
DepthRight == depth = Cardinality(Calling)

\* A frame has at most one request, and has one exactly while it waits.
OnePlace ==
    \A f \in Frame : \A b, d \in Bridge :
        /\ Served(b, f) /\ Served(d, f) => b = d
        /\ \A i \in 1..Len(queue[b]) : QueuedAt(b, i, f) => ~Served(d, f)
        /\ \A i \in 1..Len(queue[b]), j \in 1..Len(queue[d]) :
              QueuedAt(b, i, f) /\ QueuedAt(d, j, f) => b = d /\ i = j
SentRight ==
    \A f \in Frame : inv[f] = "sent" <=> \E b \in Bridge : Pending(b, f)
NestedRight == \A f \in Frame : nested[f] # None => inv[f] = "nested"

\* What a post that has still to run, and a task that has still to run or to
\* end, say of the job.
Posts(f) ==
    \/ nested[f] = "post"
    \/ \E b \in Bridge :
        \/ Served(b, f) /\ busy[b].work = "post"
        \/ \E i \in 1..Len(queue[b]) :
            QueuedAt(b, i, f) /\ queue[b][i].work = "post"
JobRight(f) ==
    /\ Posts(f) => job[f] = "asked"
    /\ job[f] \in {"none", "asked"} => taskOn[f] = None /\ task[f] = "none"
    /\ task[f] = "new" => job[f] \in {"pending", "cancelled", "gone"}
    /\ task[f] = "work" => job[f] \in {"running", "cancelled", "gone"}
    /\ job[f] \in {"pending", "running"} /\ taskOn[f] \notin dead \cup {None}
         => task[f] # "none"

BridgeInv ==
    /\ ThreadTyped /\ CallTyped /\ JobTyped /\ RestTyped
    /\ DepthRight
    /\ OnePlace /\ SentRight /\ NestedRight
    /\ \A f \in Frame : JobRight(f)

-----------------------------------------------------------------------------
(* Places *)

\* What is in a channel, and what a bridge thread has in hand, is a request.
LEMMA RequestFacts ==
    ASSUME ThreadTyped, NEW b \in Bridge
    PROVE  /\ queue[b] \in Seq(Requests) /\ Len(queue[b]) \in Nat
           /\ DOMAIN queue[b] = 1..Len(queue[b])
           /\ \A i \in 1..Len(queue[b]) :
                /\ queue[b][i] \in Requests /\ queue[b][i] # None
                /\ queue[b][i].from \in Frame \cup {None}
                /\ queue[b][i].work \in Work
           /\ busy[b] # None =>
                /\ busy[b] \in Requests
                /\ busy[b].from \in Frame \cup {None}
                /\ busy[b].work \in Work
<1>1. queue[b] \in Seq(Requests) /\ Len(queue[b]) \in Nat
  BY DEF ThreadTyped
<1>2. DOMAIN queue[b] = 1..Len(queue[b])  BY <1>1
<1>3. \A r \in Requests : /\ r # None /\ r.from \in Frame \cup {None}
                          /\ r.work \in Work
  BY FrameAssumption DEF Requests
<1>4. \A i \in 1..Len(queue[b]) : queue[b][i] \in Requests
  BY <1>1, ElementOfSeq
<1>5. busy[b] # None => busy[b] \in Requests  BY DEF ThreadTyped
<1>6. QED  BY <1>1, <1>2, <1>3, <1>4, <1>5

\* The frames that wait for a bridge thread are those with a request there.
LEMMA WaitersArePending ==
    ASSUME ThreadTyped, NEW b \in Bridge, NEW f \in Frame
    PROVE  f \in Waiters(b) <=> Pending(b, f)
<1>1. f # None  BY FrameAssumption
<1>2. DOMAIN queue[b] = 1..Len(queue[b])  BY RequestFacts
<1>3. f \in Waiters(b) <=>
        \E r \in {queue[b][i] : i \in DOMAIN queue[b]}
                  \cup ({busy[b]} \ {None}) :
            r.from = f
  BY <1>1 DEF Waiters
<1>4. QED  BY <1>2, <1>3 DEF Pending, Served, QueuedAt

\* A step that only takes requests away leaves each frame at most one.
LEMMA FewerPlaces ==
    ASSUME OnePlace, ThreadTyped, ThreadTyped',
           \A d \in Bridge, g \in Frame :
                /\ Served(d, g)' => Served(d, g)
                /\ \A i \in 1..Len(queue'[d]) :
                      QueuedAt(d, i, g)' => QueuedAt(d, i, g)
    PROVE  OnePlace'
<1> SUFFICES ASSUME NEW f \in Frame, NEW b \in Bridge, NEW d \in Bridge
             PROVE  /\ Served(b, f)' /\ Served(d, f)' => b = d
                    /\ \A i \in 1..Len(queue'[b]) :
                          QueuedAt(b, i, f)' => ~Served(d, f)'
                    /\ \A i \in 1..Len(queue'[b]), j \in 1..Len(queue'[d]) :
                          QueuedAt(b, i, f)' /\ QueuedAt(d, j, f)'
                            => b = d /\ i = j
  BY DEF OnePlace
<1>1. \A e \in Bridge : \A i : QueuedAt(e, i, f) => i \in 1..Len(queue[e])
  BY DEF QueuedAt
<1>2. QED  BY <1>1 DEF OnePlace

\* Nothing changes about places and calls.
LEMMA PlacesStay ==
    ASSUME DepthRight, OnePlace, SentRight, NestedRight,
           UNCHANGED <<queue, busy, inv, nested, depth>>
    PROVE  /\ DepthRight' /\ OnePlace' /\ SentRight' /\ NestedRight'
           /\ \A f \in Frame : Posts(f)' <=> Posts(f)
<1>1. \A b \in Bridge, f \in Frame :
        /\ Served(b, f)' <=> Served(b, f)
        /\ \A i : QueuedAt(b, i, f)' <=> QueuedAt(b, i, f)
        /\ Pending(b, f)' <=> Pending(b, f)
  BY DEF Served, QueuedAt, Pending
<1>2. DepthRight'  BY DEF DepthRight, Calling
<1>3. OnePlace'  BY <1>1 DEF OnePlace
<1>4. SentRight' /\ NestedRight'  BY <1>1 DEF SentRight, NestedRight
<1>5. \A f \in Frame : Posts(f)' <=> Posts(f)  BY <1>1 DEF Posts
<1>6. QED  BY <1>2, <1>3, <1>4, <1>5

\* A frame that does not wait for a bridge thread has no request anywhere.
LEMMA NotPending ==
    ASSUME SentRight, NEW f \in Frame, inv[f] # "sent", NEW b \in Bridge
    PROVE  /\ ~Served(b, f)
           /\ \A i : ~QueuedAt(b, i, f)
BY DEF SentRight, Pending, QueuedAt

-----------------------------------------------------------------------------
(* The depth *)

\* A call more.
LEMMA DepthUp ==
    ASSUME DepthRight, NEW f \in Frame, inv[f] = "none", depth' = depth + 1,
           NEW l, l # "none", inv' = [inv EXCEPT ![f] = l], CallTyped
    PROVE  DepthRight'
<1>1. Calling' = Calling \cup {f} /\ f \notin Calling
  BY DEF Calling, CallTyped
<1>2. IsFiniteSet(Calling)
  BY FrameAssumption, FS_Subset DEF Calling
<1>3. Cardinality(Calling') = Cardinality(Calling) + 1
  BY <1>1, <1>2, FS_AddElement
<1>4. QED  BY <1>3 DEF DepthRight

\* A call less.
LEMMA DepthDown ==
    ASSUME DepthRight, NEW f \in Frame, inv[f] # "none", depth' = depth - 1,
           inv' = [inv EXCEPT ![f] = "none"], CallTyped
    PROVE  DepthRight'
<1>1. Calling' = Calling \ {f} /\ f \in Calling
  BY DEF Calling, CallTyped
<1>2. IsFiniteSet(Calling)
  BY FrameAssumption, FS_Subset DEF Calling
<1>3. Cardinality(Calling') = Cardinality(Calling) - 1
  BY <1>1, <1>2, FS_RemoveElement
<1>4. QED  BY <1>3 DEF DepthRight

\* Calls that wait are answered.
LEMMA DepthStays ==
    ASSUME DepthRight, UNCHANGED depth,
           \A f \in Frame : inv'[f] = "none" <=> inv[f] = "none"
    PROVE  DepthRight'
<1>1. Calling' = Calling  BY DEF Calling
<1>2. QED  BY <1>1 DEF DepthRight

\* The depth counts frames.
LEMMA DepthTyped ==
    ASSUME DepthRight
    PROVE  depth \in 0..Cardinality(Frame)
<1>1. IsFiniteSet(Frame)  BY FrameAssumption
<1>2. Calling \subseteq Frame  BY DEF Calling
<1>3. IsFiniteSet(Calling) /\ Cardinality(Calling) <= Cardinality(Frame)
  BY <1>1, <1>2, FS_Subset
<1>4. Cardinality(Calling) \in Nat /\ Cardinality(Frame) \in Nat
  BY <1>1, <1>3, FS_CardinalityType
<1>5. QED  BY <1>3, <1>4 DEF DepthRight

-----------------------------------------------------------------------------
(* Jobs *)

\* What concerns one frame's job does not change, though a thread may end.
LEMMA JobStays ==
    ASSUME NEW f \in Frame, JobRight(f), dead \subseteq dead',
           job'[f] = job[f], task'[f] = task[f], taskOn'[f] = taskOn[f],
           Posts(f)' => Posts(f)
    PROVE  JobRight(f)'
BY DEF JobRight

\* What a call does to the job that it may ask for.
LEMMA AskKeepsJobs ==
    ASSUME JobTyped, \A g \in Frame : JobRight(g), dead' = dead,
           NEW f \in Frame, NEW w \in Work, Ask(f, w),
           \A g \in Frame : Posts(g)' => Posts(g) \/ (g = f /\ w = "post")
    PROVE  JobTyped' /\ \A g \in Frame : JobRight(g)'
<1>1. UNCHANGED <<task, taskOn>>  BY DEF Ask
<1>2. CASE w = "post"
  <2>1. job[f] = "none" /\ job' = [job EXCEPT ![f] = "asked"]
    BY <1>2 DEF Ask
  <2>2. JobTyped'  BY <1>1, <2>1 DEF JobTyped
  <2>3. ASSUME NEW g \in Frame, g # f PROVE JobRight(g)'
    BY <1>1, <2>1, <2>3, JobStays DEF JobTyped
  <2>4. JobRight(f)'
    <3>1. job'[f] = "asked" /\ taskOn[f] = None /\ task[f] = "none"
      BY <2>1 DEF JobRight, JobTyped
    <3>2. QED  BY <1>1, <3>1 DEF JobRight
  <2>5. QED  BY <2>2, <2>3, <2>4
<1>3. CASE w # "post"
  <2>1. UNCHANGED job  BY <1>3 DEF Ask
  <2>2. QED  BY <1>1, <1>3, <2>1, JobStays DEF JobTyped
<1>4. QED  BY <1>2, <1>3

\* A library that is taken up has a host.
LEMMA TakeUpTyped ==
    ASSUME host \in [Library -> Server \cup {None}], NEW s \in Server, NEW w,
           TakeUp(s, w)
    PROVE  host' \in [Library -> Server \cup {None}]
BY DEF TakeUp

-----------------------------------------------------------------------------
(* Each action keeps the invariant: the calls *)

\* A deeper call runs on a thread of its own.
LEMMA InvokeNestedKeeps ==
    ASSUME BridgeInv, NEW f \in Frame, NEW w \in Work, InvokeNested(f, w)
    PROVE  BridgeInv'
<1> USE DEF BridgeInv
<1>1. /\ inv[f] = "none" /\ Ask(f, w) /\ depth' = depth + 1
      /\ inv' = [inv EXCEPT ![f] = "nested"]
      /\ nested' = [nested EXCEPT ![f] = w] /\ TakeUp(f, w)
      /\ UNCHANGED <<bridge, started, queue, busy, dead>>
      /\ UNCHANGED <<cancelled, waits, plan>>
  BY DEF InvokeNested, Running, threads
<1>2. ThreadTyped' /\ RestTyped'  BY <1>1 DEF ThreadTyped, RestTyped
<1>3. CallTyped'
  <2>1. host' \in [Library -> Server \cup {None}]
    BY <1>1, TakeUpTyped DEF CallTyped, Server
  <2>2. QED  BY <1>1, <2>1 DEF CallTyped
<1>4. DepthRight'  BY <1>1, DepthUp
<1>5. \A b \in Bridge, g \in Frame :
        /\ Served(b, g)' <=> Served(b, g)
        /\ \A i : QueuedAt(b, i, g)' <=> QueuedAt(b, i, g)
        /\ Pending(b, g)' <=> Pending(b, g)
  BY <1>1 DEF Served, QueuedAt, Pending
<1>6. OnePlace'  BY <1>1, <1>5 DEF OnePlace
<1>7. \A g \in Frame : /\ inv'[g] = IF g = f THEN "nested" ELSE inv[g]
                       /\ nested'[g] = IF g = f THEN w ELSE nested[g]
  BY <1>1 DEF CallTyped
<1>8. SentRight'  BY <1>1, <1>5, <1>7 DEF SentRight
<1>9. NestedRight'  BY <1>7 DEF NestedRight
<1>10. \A g \in Frame : Posts(g)' => Posts(g) \/ (g = f /\ w = "post")
  BY <1>1, <1>5, <1>7 DEF Posts
<1>11. JobTyped' /\ \A g \in Frame : JobRight(g)'
  BY <1>1, <1>10, AskKeepsJobs
<1>12. QED
  BY <1>2, <1>3, <1>4, <1>6, <1>8, <1>9, <1>11

\* The first call goes to the bridge thread's channel.
LEMMA InvokeOnBridgeKeeps ==
    ASSUME BridgeInv, NEW f \in Frame, NEW w \in Work, InvokeOnBridge(f, w)
    PROVE  BridgeInv'
<1> USE DEF BridgeInv
<1> DEFINE r == [from |-> f, work |-> w]
<1>1. PICK b \in Bridge :
        /\ b = IF bridge = None THEN started + 1 ELSE bridge
        /\ Len(queue[b]) < MaxQueue
        /\ bridge' = b /\ started' = IF bridge = None THEN b ELSE started
        /\ queue' = [queue EXCEPT ![b] = Append(queue[b], r)]
  BY DEF InvokeOnBridge
<1>2. /\ inv[f] = "none" /\ Ask(f, w)
      /\ depth' = depth + 1 /\ inv' = [inv EXCEPT ![f] = "sent"]
      /\ UNCHANGED <<busy, dead, nested, host>>
      /\ UNCHANGED <<cancelled, waits, plan>>
  BY DEF InvokeOnBridge, Running
<1>3. r \in Requests /\ r.from = f /\ r.work = w  BY DEF Requests
<1> HIDE DEF r
<1>4. PICK n \in Nat : n = Len(queue[b]) /\ queue[b] \in Seq(Requests)
  BY RequestFacts
<1>5. /\ queue' \in [Bridge -> Seq(Requests)] /\ Len(queue'[b]) = n + 1
      /\ \A i \in 1..n : queue'[b][i] = queue[b][i]
      /\ queue'[b][n + 1] = r
      /\ \A d \in Bridge : d # b => queue'[d] = queue[d]
  <2>1. /\ Append(queue[b], r) \in Seq(Requests)
        /\ Len(Append(queue[b], r)) = n + 1
        /\ \A i \in 1..n : Append(queue[b], r)[i] = queue[b][i]
        /\ Append(queue[b], r)[n + 1] = r
    BY <1>3, <1>4, AppendProperties
  <2>2. queue'[b] = Append(queue[b], r)  BY <1>1 DEF ThreadTyped
  <2>3. QED  BY <1>1, <2>1, <2>2 DEF ThreadTyped
<1>6. ThreadTyped'
  <2>1. \A d \in Bridge : Len(queue'[d]) <= MaxQueue
    BY <1>1, <1>4, <1>5, BoundAssumption DEF ThreadTyped
  <2>2. started' \in 0..MaxBridge
    BY <1>1, BoundAssumption DEF ThreadTyped, Bridge
  <2>3. QED  BY <1>1, <1>2, <1>5, <2>1, <2>2 DEF ThreadTyped
<1>7. CallTyped' /\ RestTyped'  BY <1>2 DEF CallTyped, RestTyped
<1>8. DepthRight'  BY <1>2, DepthUp
<1>9. \A d \in Bridge, g \in Frame : Served(d, g)' <=> Served(d, g)
  BY <1>2 DEF Served
<1>10. ASSUME NEW d \in Bridge, NEW g \in Frame,
             NEW i \in 1..Len(queue'[d]), QueuedAt(d, i, g)'
      PROVE  \/ g = f /\ d = b /\ i = n + 1 /\ queue'[d][i].work = w
             \/ /\ i \in 1..Len(queue[d]) /\ QueuedAt(d, i, g)
                /\ queue'[d][i] = queue[d][i]
  <2>1. CASE d = b /\ i = n + 1
    BY <1>3, <1>5, <1>10, <2>1 DEF QueuedAt
  <2>2. CASE d = b /\ i # n + 1
    <3>1. i \in 1..n  BY <1>4, <1>5, <2>2
    <3>2. QED  BY <1>4, <1>5, <1>10, <2>2, <3>1 DEF QueuedAt
  <2>3. CASE d # b  BY <1>5, <1>10, <2>3 DEF QueuedAt
  <2>4. QED  BY <2>1, <2>2, <2>3
<1>11. \A d \in Bridge : ~Served(d, f) /\ \A i : ~QueuedAt(d, i, f)
  BY <1>2, NotPending
<1>12. OnePlace'
  <2> SUFFICES ASSUME NEW g \in Frame, NEW d \in Bridge, NEW e \in Bridge
               PROVE  /\ Served(d, g)' /\ Served(e, g)' => d = e
                      /\ \A i \in 1..Len(queue'[d]) :
                            QueuedAt(d, i, g)' => ~Served(e, g)'
                      /\ \A i \in 1..Len(queue'[d]), j \in 1..Len(queue'[e]) :
                            QueuedAt(d, i, g)' /\ QueuedAt(e, j, g)'
                              => d = e /\ i = j
    BY DEF OnePlace
  <2>1. QED  BY <1>9, <1>10, <1>11 DEF OnePlace
<1>13. \A g \in Frame : inv'[g] = IF g = f THEN "sent" ELSE inv[g]
  BY <1>2 DEF CallTyped
<1>14. SentRight'
  <2>1. Pending(b, f)'
    <3>1. n + 1 \in 1..Len(queue'[b])  BY <1>4, <1>5
    <3>2. QueuedAt(b, n + 1, f)'  BY <1>3, <1>5, <3>1 DEF QueuedAt
    <3>3. QED  BY <3>1, <3>2 DEF Pending
  <2>2. \A g \in Frame, d \in Bridge : g # f =>
            (Pending(d, g)' <=> Pending(d, g))
    <3> SUFFICES ASSUME NEW g \in Frame, NEW d \in Bridge, g # f
                 PROVE  Pending(d, g)' <=> Pending(d, g)
      OBVIOUS
    <3>1. ASSUME NEW i \in 1..Len(queue[d]), QueuedAt(d, i, g)
          PROVE  i \in 1..Len(queue'[d]) /\ QueuedAt(d, i, g)'
      <4>1. CASE d = b  BY <1>4, <1>5, <3>1, <4>1 DEF QueuedAt
      <4>2. CASE d # b  BY <1>5, <3>1, <4>2 DEF QueuedAt
      <4>3. QED  BY <4>1, <4>2
    <3>2. QED  BY <1>9, <1>10, <3>1 DEF Pending
  <2>3. QED  BY <1>2, <1>13, <2>1, <2>2 DEF SentRight
<1>15. NestedRight'  BY <1>2, <1>13 DEF NestedRight
<1>16. \A g \in Frame : Posts(g)' => Posts(g) \/ (g = f /\ w = "post")
  BY <1>2, <1>9, <1>10 DEF Posts
<1>17. JobTyped' /\ \A g \in Frame : JobRight(g)'
  BY <1>2, <1>16, AskKeepsJobs
<1>18. QED
  BY <1>6, <1>7, <1>8, <1>12, <1>14, <1>15, <1>17

\* A call that is answered returns.
LEMMA ReturnKeeps ==
    ASSUME BridgeInv, NEW f \in Frame, Return(f)
    PROVE  BridgeInv'
<1> USE DEF BridgeInv
<1>1. /\ inv[f] = "answered" /\ inv' = [inv EXCEPT ![f] = "none"]
      /\ depth' = depth - 1 /\ UNCHANGED <<threads, nested, host, jobs>>
      /\ UNCHANGED <<cancelled, waits, plan>>
  BY DEF Return
<1>2. ThreadTyped' /\ JobTyped' /\ RestTyped' /\ CallTyped'
  BY <1>1 DEF ThreadTyped, JobTyped, RestTyped, CallTyped, threads, jobs
<1>3. DepthRight'  BY <1>1, DepthDown
<1>4. \A b \in Bridge, g \in Frame :
        /\ Served(b, g)' <=> Served(b, g)
        /\ \A i : QueuedAt(b, i, g)' <=> QueuedAt(b, i, g)
        /\ Pending(b, g)' <=> Pending(b, g)
  BY <1>1 DEF Served, QueuedAt, Pending, threads
<1>5. OnePlace'  BY <1>1, <1>4 DEF OnePlace, threads
<1>6. \A g \in Frame : inv'[g] = IF g = f THEN "none" ELSE inv[g]
  BY <1>1 DEF CallTyped
<1>7. SentRight' /\ NestedRight'
  BY <1>1, <1>4, <1>6 DEF SentRight, NestedRight
<1>8. \A g \in Frame : Posts(g)' => Posts(g)
  BY <1>1, <1>4 DEF Posts, threads
<1>9. \A g \in Frame : JobRight(g)'
  BY <1>1, <1>8, JobStays DEF jobs, threads
<1>10. QED  BY <1>2, <1>3, <1>5, <1>7, <1>9

\* What a request is without its caller.
LEMMA ForgetFacts ==
    ASSUME NEW r \in Requests, NEW c \in Frame
    PROVE  /\ Forget(r, c) \in Requests /\ Forget(r, c) # None
           /\ Forget(r, c).work = r.work
           /\ \A g \in Frame : Forget(r, c).from = g <=> r.from = g /\ g # c
<1>1. r # None /\ None \notin Frame  BY FrameAssumption
<1>2. r = [from |-> r.from, work |-> r.work]
      /\ r.from \in Frame \cup {None} /\ r.work \in Work
  BY DEF Requests
<1>3. CASE r.from = c
  <2>1. Forget(r, c) = [from |-> None, work |-> r.work]
    BY <1>1, <1>2, <1>3 DEF Forget
  <2>2. Forget(r, c) \in Requests  BY <1>2, <2>1 DEF Requests
  <2>3. QED  BY <1>1, <1>3, <2>1, <2>2, FrameAssumption
<1>4. CASE r.from # c  BY <1>1, <1>4 DEF Forget
<1>5. QED  BY <1>3, <1>4

\* Where requests are after c's has lost its caller.
LEMMA ForgetAllFacts ==
    ASSUME ThreadTyped, NEW c \in Frame, ForgetAll(c)
    PROVE  /\ queue' \in [Bridge -> Seq(Requests)]
           /\ busy' \in [Bridge -> Requests \cup {None}]
           /\ \A b \in Bridge :
                /\ Len(queue'[b]) = Len(queue[b])
                /\ \A i \in 1..Len(queue[b]) :
                      queue'[b][i].work = queue[b][i].work
                /\ busy[b] # None => busy'[b].work = busy[b].work
           /\ \A b \in Bridge, g \in Frame :
                /\ Served(b, g)' <=> Served(b, g) /\ g # c
                /\ \A i : QueuedAt(b, i, g)' <=> QueuedAt(b, i, g) /\ g # c
<1>1. ASSUME NEW b \in Bridge
      PROVE  /\ queue'[b] \in Seq(Requests)
             /\ Len(queue'[b]) = Len(queue[b])
             /\ \A i \in 1..Len(queue[b]) :
                    queue'[b][i] = Forget(queue[b][i], c)
  <2>1. /\ Len(queue[b]) \in Nat /\ DOMAIN queue[b] = 1..Len(queue[b])
        /\ \A i \in 1..Len(queue[b]) : queue[b][i] \in Requests
    BY RequestFacts
  <2>2. PICK n \in Nat : n = Len(queue[b])  BY <2>1
  <2>3. queue'[b] = [i \in 1..n |-> Forget(queue[b][i], c)]
    BY <2>1, <2>2 DEF ForgetAll
  <2>4. queue'[b] \in [1..n -> Requests]
    BY <2>1, <2>2, <2>3, ForgetFacts
  <2>5. queue'[b] \in Seq(Requests)  BY <2>4, SeqDef
  <2>6. Len(queue'[b]) = n
    <3>1. Len(queue'[b]) \in Nat /\ DOMAIN queue'[b] = 1..Len(queue'[b])
      BY <2>5
    <3>2. DOMAIN queue'[b] = 1..n  BY <2>3
    <3>3. QED  BY <3>1, <3>2
  <2>7. QED  BY <2>2, <2>3, <2>5, <2>6
<1>2. ASSUME NEW b \in Bridge
      PROVE  /\ busy'[b] = Forget(busy[b], c)
             /\ busy'[b] \in Requests \cup {None}
             /\ busy[b] = None => busy'[b] = None
             /\ busy[b] # None =>
                    busy'[b] # None /\ busy'[b].work = busy[b].work
             /\ \A g \in Frame : Served(b, g)' <=> Served(b, g) /\ g # c
  <2>1. busy'[b] = Forget(busy[b], c)  BY DEF ForgetAll
  <2>2. CASE busy[b] = None  BY <2>1, <2>2 DEF Forget, Served
  <2>3. CASE busy[b] # None
    <3>1. busy[b] \in Requests  BY <2>3, RequestFacts
    <3>2. QED  BY <2>1, <2>3, <3>1, ForgetFacts DEF Served
  <2>4. QED  BY <2>2, <2>3, <2>1
<1>3. queue' \in [Bridge -> Seq(Requests)]
  BY <1>1 DEF ForgetAll
<1>4. busy' \in [Bridge -> Requests \cup {None}]
  BY <1>2 DEF ForgetAll
<1>5. ASSUME NEW b \in Bridge, NEW i \in 1..Len(queue[b])
      PROVE  /\ queue'[b][i].work = queue[b][i].work
             /\ \A g \in Frame :
                    queue'[b][i].from = g <=> queue[b][i].from = g /\ g # c
  BY <1>1, RequestFacts, ForgetFacts
<1>6. ASSUME NEW b \in Bridge, NEW g \in Frame, NEW i
      PROVE  QueuedAt(b, i, g)' <=> QueuedAt(b, i, g) /\ g # c
  BY <1>1, <1>5 DEF QueuedAt
<1>7. QED  BY <1>1, <1>2, <1>3, <1>4, <1>5, <1>6

\* A script that is cancelled leaves its call; its request stays without it.
LEMMA AbandonKeeps ==
    ASSUME BridgeInv, NEW c \in Caller, Abandon(c)
    PROVE  BridgeInv'
<1> USE DEF BridgeInv
<1>1. /\ inv[c] = "sent" /\ inv' = [inv EXCEPT ![c] = "none"]
      /\ depth' = depth - 1 /\ ForgetAll(c) /\ c \in Frame
      /\ UNCHANGED <<bridge, started, dead, nested, host, jobs>>
      /\ UNCHANGED <<cancelled, waits, plan>>
  BY DEF Abandon, Frame
<1>2. JobTyped' /\ RestTyped' /\ CallTyped'
  BY <1>1 DEF JobTyped, RestTyped, CallTyped, jobs
<1>3. ThreadTyped'
  <2>1. /\ queue' \in [Bridge -> Seq(Requests)]
        /\ busy' \in [Bridge -> Requests \cup {None}]
        /\ \A b \in Bridge : Len(queue'[b]) = Len(queue[b])
    BY <1>1, ForgetAllFacts
  <2>2. QED  BY <1>1, <2>1 DEF ThreadTyped
<1>4. DepthRight'  BY <1>1, DepthDown
<1>5. \A b \in Bridge, g \in Frame :
        /\ Served(b, g)' <=> Served(b, g) /\ g # c
        /\ \A i : QueuedAt(b, i, g)' <=> QueuedAt(b, i, g) /\ g # c
        /\ Len(queue'[b]) = Len(queue[b])
        /\ \A i \in 1..Len(queue[b]) :
              queue'[b][i].work = queue[b][i].work
        /\ busy[b] # None => busy'[b].work = busy[b].work
  BY <1>1, ForgetAllFacts
<1>6. OnePlace'  BY <1>3, <1>5, FewerPlaces
<1>7. \A g \in Frame : inv'[g] = IF g = c THEN "none" ELSE inv[g]
  BY <1>1 DEF CallTyped
<1>8. SentRight'
  <2>1. \A b \in Bridge, g \in Frame :
            Pending(b, g)' <=> Pending(b, g) /\ g # c
    BY <1>5 DEF Pending
  <2>2. QED  BY <1>1, <1>7, <2>1 DEF SentRight
<1>9. NestedRight'  BY <1>1, <1>7 DEF NestedRight
<1>10. \A g \in Frame : Posts(g)' => Posts(g)
  <2>1. \A b \in Bridge, g \in Frame : Served(b, g) => busy[b] # None
    BY DEF Served
  <2>2. QED  BY <1>1, <1>5, <2>1 DEF Posts
<1>11. \A g \in Frame : JobRight(g)'
  BY <1>1, <1>10, JobStays DEF jobs
<1>12. QED
  BY <1>2, <1>3, <1>4, <1>6, <1>8, <1>9, <1>11

-----------------------------------------------------------------------------
(* Each action keeps the invariant: the threads *)

\* The bridge thread takes the first request of its channel.
LEMMA BridgeTakesKeeps ==
    ASSUME BridgeInv, NEW b \in Bridge, BridgeTakes(b)
    PROVE  BridgeInv'
<1> USE DEF BridgeInv
<1>1. /\ busy[b] = None /\ queue[b] # <<>>
      /\ busy' = [busy EXCEPT ![b] = Head(queue[b])]
      /\ queue' = [queue EXCEPT ![b] = Tail(queue[b])]
      /\ TakeUp(b, Head(queue[b]).work)
      /\ UNCHANGED <<bridge, started, dead, depth, inv, nested, jobs>>
      /\ UNCHANGED <<cancelled, waits, plan>>
  BY DEF BridgeTakes
<1>2. PICK n \in Nat : n = Len(queue[b]) /\ queue[b] \in Seq(Requests)
  BY RequestFacts
<1>3. n > 0 /\ Head(queue[b]) = queue[b][1] /\ 1 \in 1..Len(queue[b])
  BY <1>1, <1>2
<1>4. /\ Tail(queue[b]) \in Seq(Requests) /\ Len(Tail(queue[b])) = n - 1
      /\ \A i \in 1..(n - 1) : Tail(queue[b])[i] = queue[b][i + 1]
  BY <1>1, <1>2, HeadTailProperties
<1>5. queue[b][1] \in Requests /\ queue[b][1] # None  BY <1>3, RequestFacts
<1>6. /\ queue' \in [Bridge -> Seq(Requests)] /\ Len(queue'[b]) = n - 1
      /\ \A i \in 1..(n - 1) : queue'[b][i] = queue[b][i + 1]
      /\ \A d \in Bridge : d # b => queue'[d] = queue[d]
  BY <1>1, <1>4 DEF ThreadTyped
<1>7. /\ busy' \in [Bridge -> Requests \cup {None}]
      /\ busy'[b] = queue[b][1]
      /\ \A d \in Bridge : d # b => busy'[d] = busy[d]
  BY <1>1, <1>3, <1>5 DEF ThreadTyped
<1>8. ThreadTyped'
  <2>1. \A d \in Bridge : Len(queue'[d]) <= MaxQueue
    <3>1. n <= MaxQueue /\ MaxQueue \in Nat
      BY <1>2, BoundAssumption DEF ThreadTyped
    <3>2. Len(queue'[b]) <= MaxQueue  BY <1>2, <1>6, <3>1
    <3>3. QED  BY <1>6, <3>2 DEF ThreadTyped
  <2>2. QED  BY <1>1, <1>6, <1>7, <2>1 DEF ThreadTyped
<1>9. CallTyped' /\ RestTyped' /\ JobTyped'
  <2>1. host' \in [Library -> Server \cup {None}]
    BY <1>1, TakeUpTyped DEF CallTyped, Server
  <2>2. QED  BY <1>1, <2>1 DEF CallTyped, RestTyped, JobTyped, jobs
<1>10. DepthRight'  BY <1>1, DepthStays
<1>11. ASSUME NEW d \in Bridge, NEW g \in Frame
       PROVE  Served(d, g)' <=> IF d = b THEN QueuedAt(b, 1, g)
                                         ELSE Served(d, g)
  BY <1>3, <1>5, <1>7 DEF Served, QueuedAt
<1>12. ASSUME NEW d \in Bridge, NEW g \in Frame,
              NEW i \in 1..Len(queue'[d]), QueuedAt(d, i, g)'
       PROVE  IF d = b THEN /\ i + 1 \in 1..Len(queue[b]) /\ i + 1 # 1
                            /\ QueuedAt(b, i + 1, g)
                            /\ queue'[b][i] = queue[b][i + 1]
                       ELSE /\ i \in 1..Len(queue[d]) /\ QueuedAt(d, i, g)
                            /\ queue'[d][i] = queue[d][i]
  <2>1. CASE d = b
    <3>1. i \in 1..(n - 1) /\ i + 1 \in 1..n /\ i + 1 # 1
      BY <1>2, <1>6, <2>1
    <3>2. QED  BY <1>2, <1>6, <1>12, <2>1, <3>1 DEF QueuedAt
  <2>2. CASE d # b  BY <1>6, <1>12, <2>2 DEF QueuedAt
  <2>3. QED  BY <2>1, <2>2
<1>13. OnePlace'
  <2> SUFFICES ASSUME NEW g \in Frame, NEW d \in Bridge, NEW e \in Bridge
               PROVE  /\ Served(d, g)' /\ Served(e, g)' => d = e
                      /\ \A i \in 1..Len(queue'[d]) :
                            QueuedAt(d, i, g)' => ~Served(e, g)'
                      /\ \A i \in 1..Len(queue'[d]), j \in 1..Len(queue'[e]) :
                            QueuedAt(d, i, g)' /\ QueuedAt(e, j, g)'
                              => d = e /\ i = j
    BY DEF OnePlace
  <2>1. Served(d, g)' /\ Served(e, g)' => d = e
    BY <1>3, <1>11 DEF OnePlace
  <2>2. ASSUME NEW i \in 1..Len(queue'[d]), QueuedAt(d, i, g)', Served(e, g)'
        PROVE  FALSE
    BY <1>3, <1>11, <1>12, <2>2 DEF OnePlace
  <2>3. ASSUME NEW i \in 1..Len(queue'[d]), NEW j \in 1..Len(queue'[e]),
               QueuedAt(d, i, g)', QueuedAt(e, j, g)'
        PROVE  d = e /\ i = j
    <3>1. CASE d = b /\ e = b
      <4>1. /\ i + 1 \in 1..Len(queue[b]) /\ QueuedAt(b, i + 1, g)
            /\ j + 1 \in 1..Len(queue[b]) /\ QueuedAt(b, j + 1, g)
        BY <1>12, <2>3, <3>1
      <4>2. i + 1 = j + 1  BY <4>1 DEF OnePlace
      <4>3. i \in Nat /\ j \in Nat  OBVIOUS
      <4>4. QED  BY <3>1, <4>2, <4>3
    <3>2. CASE d # b \/ e # b
      BY <1>12, <2>3, <3>2 DEF OnePlace
    <3>3. QED  BY <3>1, <3>2
  <2>4. QED  BY <2>1, <2>2, <2>3
<1>14. SentRight'
  <2>1. ASSUME NEW d \in Bridge, NEW g \in Frame
        PROVE  Pending(d, g)' <=> Pending(d, g)
    <3>1. CASE d # b
      BY <1>6, <1>7, <3>1 DEF Pending, Served, QueuedAt
    <3>2. CASE d = b
      <4>1. Pending(b, g)' => Pending(b, g)
        BY <1>3, <1>11, <1>12 DEF Pending
      <4>2. ~Served(b, g)  BY <1>1 DEF Served
      <4>3. ASSUME NEW i \in 1..Len(queue[b]), QueuedAt(b, i, g)
            PROVE  Pending(b, g)'
        <5>1. CASE i = 1  BY <1>11, <4>3, <5>1 DEF Pending
        <5>2. CASE i # 1
          <6>1. i - 1 \in 1..(n - 1) /\ (i - 1) + 1 = i  BY <1>2, <5>2
          <6>2. queue'[b][i - 1] = queue[b][i] /\ i - 1 \in 1..Len(queue'[b])
            BY <1>6, <6>1
          <6>3. QED  BY <4>3, <6>2 DEF Pending, QueuedAt
        <5>3. QED  BY <5>1, <5>2
      <4>4. QED  BY <3>2, <4>1, <4>2, <4>3 DEF Pending
    <3>3. QED  BY <3>1, <3>2
  <2>2. QED  BY <1>1, <2>1 DEF SentRight
<1>15. NestedRight'  BY <1>1 DEF NestedRight
<1>16. ASSUME NEW g \in Frame, Posts(g)' PROVE Posts(g)
  <2>1. CASE nested'[g] = "post"  BY <1>1, <2>1 DEF Posts
  <2>2. ASSUME NEW d \in Bridge, Served(d, g)', busy'[d].work = "post"
        PROVE  Posts(g)
    <3>1. CASE d = b  BY <1>3, <1>7, <1>11, <2>2, <3>1 DEF Posts
    <3>2. CASE d # b  BY <1>7, <1>11, <2>2, <3>2 DEF Posts
    <3>3. QED  BY <3>1, <3>2
  <2>3. ASSUME NEW d \in Bridge, NEW i \in 1..Len(queue'[d]),
               QueuedAt(d, i, g)', queue'[d][i].work = "post"
        PROVE  Posts(g)
    <3>1. CASE d = b  BY <1>12, <2>3, <3>1 DEF Posts
    <3>2. CASE d # b  BY <1>12, <2>3, <3>2 DEF Posts
    <3>3. QED  BY <3>1, <3>2
  <2>4. QED  BY <1>16, <2>1, <2>2, <2>3 DEF Posts
<1>17. \A g \in Frame : JobRight(g)'
  BY <1>1, <1>16, JobStays DEF jobs
<1>18. QED
  BY <1>8, <1>9, <1>10, <1>13, <1>14, <1>15, <1>17

\* The bridge thread has executed a request: its caller, if it is still
\* there, has its answer, and a post has started its job.
LEMMA BridgeFinishesKeeps ==
    ASSUME BridgeInv, NEW b \in Bridge, BridgeFinishes(b)
    PROVE  BridgeInv'
<1> USE DEF BridgeInv
<1>1. /\ busy[b] # None /\ busy' = [busy EXCEPT ![b] = None]
      /\ inv' = [f \in Frame |-> IF f = busy[b].from THEN "answered"
                                                     ELSE inv[f]]
      /\ UNCHANGED <<bridge, started, queue, dead, depth, nested, host>>
      /\ UNCHANGED <<cancelled, waits, plan>>
  BY DEF BridgeFinishes
<1>2. ThreadTyped' /\ CallTyped' /\ RestTyped'
  BY <1>1 DEF ThreadTyped, CallTyped, RestTyped
<1>3. \A d \in Bridge, g \in Frame :
        /\ Served(d, g)' <=> Served(d, g) /\ d # b
        /\ \A i : QueuedAt(d, i, g)' <=> QueuedAt(d, i, g)
  BY <1>1 DEF Served, QueuedAt, ThreadTyped
<1>4. \A g \in Frame : g = busy[b].from <=> Served(b, g)
  BY <1>1 DEF Served
<1>5. \A g \in Frame : Served(b, g) => inv[g] = "sent" /\ nested[g] = None
  BY DEF SentRight, NestedRight, Pending
<1>6. \A g \in Frame :
        inv'[g] = IF Served(b, g) THEN "answered" ELSE inv[g]
  BY <1>1, <1>4
<1>7. DepthRight'  BY <1>1, <1>5, <1>6, DepthStays
<1>8. OnePlace'  BY <1>2, <1>3, FewerPlaces
<1>9. \A g \in Frame, d \in Bridge : Served(b, g) => ~Pending(d, g)'
  BY <1>1, <1>3 DEF OnePlace, Pending
<1>10. SentRight'
  <2>1. \A g \in Frame, d \in Bridge :
            ~Served(b, g) => (Pending(d, g)' <=> Pending(d, g))
    BY <1>1, <1>3 DEF Pending
  <2>2. QED  BY <1>6, <1>9, <2>1 DEF SentRight
<1>11. NestedRight'  BY <1>1, <1>5, <1>6 DEF NestedRight
<1>12. \A g \in Frame : Posts(g)' => Posts(g) /\ ~Served(b, g)
  <2>1. \A d \in Bridge : d # b => busy'[d] = busy[d]
    BY <1>1 DEF ThreadTyped
  <2>2. \A g \in Frame : Posts(g)' => Posts(g)
    BY <1>1, <1>3, <2>1 DEF Posts
  <2>3. ASSUME NEW g \in Frame, Served(b, g) PROVE ~Posts(g)'
    <3>1. nested'[g] # "post"
      BY <1>1, <1>5, <2>3, FrameAssumption DEF Work
    <3>2. QED  BY <1>9, <2>3, <3>1 DEF Posts, Pending
  <2>4. QED  BY <2>2, <2>3
<1>13. JobTyped' /\ \A g \in Frame : JobRight(g)'
  <2>1. CASE UNCHANGED jobs
    BY <1>1, <1>12, <2>1, JobStays DEF JobTyped, jobs
  <2>2. CASE /\ busy[b].work = "post" /\ busy[b].from # None
             /\ PostOnBridge(busy[b].from, b)
    <3>1. PICK f \in Frame : f = busy[b].from
      BY <1>1, <2>2, RequestFacts
    <3>2. /\ job' = [job EXCEPT ![f] = "pending"]
          /\ task' = [task EXCEPT ![f] = "new"]
          /\ taskOn' = [taskOn EXCEPT ![f] = b]
      BY <2>2, <3>1 DEF PostOnBridge
    <3>3. JobTyped'  BY <3>2 DEF JobTyped
    <3>4. Served(b, f)  BY <1>4, <3>1
    <3>5. JobRight(f)'
      <4>1. job'[f] = "pending" /\ task'[f] = "new" /\ ~Posts(f)'
        BY <1>12, <3>2, <3>4 DEF JobTyped
      <4>2. QED  BY <4>1 DEF JobRight
    <3>6. ASSUME NEW g \in Frame, g # f PROVE JobRight(g)'
      BY <1>1, <1>12, <3>2, <3>6, JobStays DEF JobTyped
    <3>7. QED  BY <3>3, <3>5, <3>6
  <2>3. QED  BY <2>1, <2>2 DEF BridgeFinishes
<1>14. QED
  BY <1>2, <1>7, <1>8, <1>10, <1>11, <1>13

\* A nested thread has executed its work and ends with it.
LEMMA NestedFinishesKeeps ==
    ASSUME BridgeInv, NEW f \in Frame, NestedFinishes(f)
    PROVE  BridgeInv'
<1> USE DEF BridgeInv
<1>1. /\ nested[f] # None /\ nested' = [nested EXCEPT ![f] = None]
      /\ inv' = [inv EXCEPT ![f] = "answered"]
      /\ UNCHANGED <<threads, depth, host>>
      /\ UNCHANGED <<cancelled, waits, plan>>
  BY DEF NestedFinishes
<1>2. ThreadTyped' /\ CallTyped' /\ RestTyped'
  BY <1>1 DEF ThreadTyped, CallTyped, RestTyped, threads
<1>3. \A d \in Bridge, g \in Frame :
        /\ Served(d, g)' <=> Served(d, g)
        /\ \A i : QueuedAt(d, i, g)' <=> QueuedAt(d, i, g)
        /\ Pending(d, g)' <=> Pending(d, g)
  BY <1>1 DEF Served, QueuedAt, Pending, threads
<1>4. inv[f] = "nested"  BY <1>1 DEF NestedRight
<1>5. \A g \in Frame :
        /\ inv'[g] = IF g = f THEN "answered" ELSE inv[g]
        /\ nested'[g] = IF g = f THEN None ELSE nested[g]
  BY <1>1 DEF CallTyped
<1>6. DepthRight'  BY <1>1, <1>4, <1>5, DepthStays
<1>7. OnePlace'  BY <1>1, <1>3 DEF OnePlace, threads
<1>8. SentRight'  BY <1>3, <1>4, <1>5 DEF SentRight
<1>9. NestedRight'  BY <1>5 DEF NestedRight
<1>10. None # "post"  BY FrameAssumption DEF Work
<1>11. \A g \in Frame : Posts(g)' => Posts(g) /\ g # f
  <2>1. \A d \in Bridge : ~Served(d, f) /\ \A i : ~QueuedAt(d, i, f)
    BY <1>4, NotPending
  <2>2. QED  BY <1>1, <1>3, <1>5, <1>10, <2>1 DEF Posts, threads
<1>12. JobTyped' /\ \A g \in Frame : JobRight(g)'
  <2>1. CASE UNCHANGED jobs
    BY <1>1, <1>11, <2>1, JobStays DEF JobTyped, jobs, threads
  <2>2. CASE nested[f] = "post" /\ PostNested(f)
    <3>1. job' = [job EXCEPT ![f] = "pending"] /\ UNCHANGED <<task, taskOn>>
      BY <2>2 DEF PostNested
    <3>2. JobTyped'  BY <3>1 DEF JobTyped
    <3>3. JobRight(f)'
      <4>1. job[f] = "asked"  BY <2>2 DEF JobRight, Posts
      <4>2. /\ job'[f] = "pending" /\ taskOn'[f] = None /\ task'[f] = "none"
            /\ ~Posts(f)'
        BY <1>11, <3>1, <4>1 DEF JobRight, JobTyped
      <4>3. QED  BY <4>2 DEF JobRight
    <3>4. ASSUME NEW g \in Frame, g # f PROVE JobRight(g)'
      BY <1>1, <1>11, <3>1, <3>4, JobStays DEF JobTyped, threads
    <3>5. QED  BY <3>2, <3>3, <3>4
  <2>3. QED  BY <2>1, <2>2 DEF NestedFinishes
<1>13. QED
  BY <1>2, <1>6, <1>7, <1>8, <1>9, <1>12

\* A thread ends, and the tasks of its runtime with it.
LEMMA DropKeepsJobs ==
    ASSUME JobTyped, \A g \in Frame : JobRight(g), NEW b \in Bridge,
           dead' = dead \cup {b}, DropTasks(b), UNCHANGED <<job, taskOn>>,
           \A g \in Frame : Posts(g)' => Posts(g)
    PROVE  JobTyped' /\ \A g \in Frame : JobRight(g)'
<1>1. \A g \in Frame :
        task'[g] = IF taskOn[g] = b THEN "none" ELSE task[g]
  BY DEF DropTasks
<1>2. JobTyped'
  <2>1. task' \in [Frame -> {"none", "new", "work"}]
    BY DEF DropTasks, JobTyped
  <2>2. QED  BY <2>1 DEF JobTyped
<1>3. ASSUME NEW g \in Frame PROVE JobRight(g)'
  <2>1. JobRight(g)  OBVIOUS
  <2>2. Posts(g)' => job'[g] = "asked"  BY <2>1 DEF JobRight
  <2>3. job'[g] \in {"none", "asked"} => taskOn'[g] = None /\ task'[g] = "none"
    BY <1>1, <2>1 DEF JobRight
  <2>4. task'[g] = "new" => job'[g] \in {"pending", "cancelled", "gone"}
    BY <1>1, <2>1 DEF JobRight
  <2>5. task'[g] = "work" => job'[g] \in {"running", "cancelled", "gone"}
    BY <1>1, <2>1 DEF JobRight
  <2>6. ASSUME job'[g] \in {"pending", "running"},
               taskOn'[g] \notin dead' \cup {None}
        PROVE  task'[g] # "none"
    BY <1>1, <2>1, <2>6 DEF JobRight
  <2>7. QED  BY <2>2, <2>3, <2>4, <2>5, <2>6 DEF JobRight
<1>4. QED  BY <1>2, <1>3

\* The bridge thread panics: whoever waits for it sees its channel closed.
LEMMA BridgePanicsKeeps ==
    ASSUME BridgeInv, NEW b \in Bridge, BridgePanics(b)
    PROVE  BridgeInv'
<1> USE DEF BridgeInv
<1>1. /\ dead' = dead \cup {b} /\ busy' = [busy EXCEPT ![b] = None]
      /\ queue' = [queue EXCEPT ![b] = <<>>]
      /\ inv' = [f \in Frame |-> IF f \in Stranded(b) THEN "answered"
                                                      ELSE inv[f]]
      /\ DropTasks(b)
      /\ UNCHANGED <<bridge, started, depth, nested, host, job, taskOn>>
      /\ UNCHANGED <<cancelled, waits, plan>>
  BY DEF BridgePanics
<1>2. /\ queue' \in [Bridge -> Seq(Requests)] /\ Len(queue'[b]) = 0
      /\ \A d \in Bridge : d # b => queue'[d] = queue[d] /\ busy'[d] = busy[d]
      /\ busy'[b] = None /\ busy' \in [Bridge -> Requests \cup {None}]
  BY <1>1, EmptySeq DEF ThreadTyped
<1>3. ThreadTyped'
  <2>1. \A d \in Bridge : Len(queue'[d]) <= MaxQueue
    <3>1. Len(queue'[b]) <= MaxQueue  BY <1>2, BoundAssumption
    <3>2. QED  BY <1>2, <3>1 DEF ThreadTyped
  <2>2. QED  BY <1>1, <1>2, <2>1 DEF ThreadTyped
<1>4. CallTyped' /\ RestTyped'  BY <1>1 DEF CallTyped, RestTyped
<1>5. \A d \in Bridge, g \in Frame :
        /\ Served(d, g)' <=> Served(d, g) /\ d # b
        /\ \A i : QueuedAt(d, i, g)' <=> QueuedAt(d, i, g) /\ d # b
  BY <1>2 DEF Served, QueuedAt
<1>6. OnePlace'  BY <1>3, <1>5, FewerPlaces
<1>7. \A g \in Frame :
        inv'[g] = IF Pending(b, g) THEN "answered" ELSE inv[g]
  BY <1>1, WaitersArePending DEF Stranded
<1>8. \A g \in Frame : Pending(b, g) => inv[g] = "sent"  BY DEF SentRight
<1>9. DepthRight'  BY <1>1, <1>7, <1>8, DepthStays
<1>10. SentRight'
  <2>1. \A d \in Bridge, g \in Frame :
            Pending(d, g)' <=> Pending(d, g) /\ d # b
    BY <1>2, <1>5 DEF Pending
  <2>2. \A d \in Bridge, g \in Frame : Pending(b, g) /\ Pending(d, g) => d = b
    BY DEF OnePlace, Pending
  <2>3. QED  BY <1>7, <2>1, <2>2 DEF SentRight
<1>11. NestedRight'  BY <1>1, <1>7, <1>8 DEF NestedRight
<1>12. \A g \in Frame : Posts(g)' => Posts(g)
  BY <1>1, <1>2, <1>5 DEF Posts
<1>13. JobTyped' /\ \A g \in Frame : JobRight(g)'
  BY <1>1, <1>12, DropKeepsJobs
<1>14. QED
  BY <1>3, <1>4, <1>6, <1>9, <1>10, <1>11, <1>13

\* A bridge thread that nobody names any more ends with an empty channel.
LEMMA BridgeExitsKeeps ==
    ASSUME BridgeInv, NEW b \in Bridge, BridgeExits(b)
    PROVE  BridgeInv'
<1> USE DEF BridgeInv
<1>1. /\ queue[b] = <<>> /\ dead' = dead \cup {b}
      /\ queue' = [queue EXCEPT ![b] = <<>>] /\ DropTasks(b)
      /\ UNCHANGED <<bridge, started, busy, depth, inv, nested, host>>
      /\ UNCHANGED <<job, taskOn, cancelled, waits, plan>>
  BY DEF BridgeExits, MayExit, calls
<1>2. queue' = queue  BY <1>1 DEF ThreadTyped
<1>3. ThreadTyped' /\ CallTyped' /\ RestTyped'
  BY <1>1, <1>2 DEF ThreadTyped, CallTyped, RestTyped
<1>4. /\ DepthRight' /\ OnePlace' /\ SentRight' /\ NestedRight'
      /\ \A f \in Frame : Posts(f)' <=> Posts(f)
  BY <1>1, <1>2, PlacesStay
<1>5. JobTyped' /\ \A g \in Frame : JobRight(g)'
  BY <1>1, <1>4, DropKeepsJobs
<1>6. QED  BY <1>3, <1>4, <1>5

-----------------------------------------------------------------------------
(* Each action keeps the invariant: scripts and jobs *)

\* Steps that change neither a request, nor a call in flight, nor a job.
LEMMA AsideKeeps ==
    ASSUME BridgeInv,
           UNCHANGED <<queue, busy, dead, started, depth, inv, nested, jobs>>,
           bridge' \in {bridge, None}, plan' = plan,
           host' \in [Library -> Server \cup {None}],
           cancelled' \in [Caller -> BOOLEAN], waits' \subseteq Frame
    PROVE  BridgeInv'
<1> USE DEF BridgeInv
<1>1. ThreadTyped' /\ CallTyped' /\ RestTyped' /\ JobTyped'
  BY DEF ThreadTyped, CallTyped, RestTyped, JobTyped, jobs
<1>2. /\ DepthRight' /\ OnePlace' /\ SentRight' /\ NestedRight'
      /\ \A f \in Frame : Posts(f)' <=> Posts(f)
  BY PlacesStay
<1>3. \A g \in Frame : JobRight(g)'  BY <1>2, JobStays DEF jobs
<1>4. QED  BY <1>1, <1>2, <1>3

\* What is around the calls: scripts, libraries, who waits for a job, and
\* whether BRIDGE names a thread.
LEMMA AsideActions ==
    ASSUME BridgeInv,
           \/ \E c \in Caller : StopScript(c) \/ StartScript(c)
           \/ \E l \in Library : LibraryReturns(l)
           \/ \E f \in Frame : JobWait(f) \/ JobWaitEnds(f)
           \/ ShutdownBridge
           \/ UNCHANGED vars
    PROVE  BridgeInv'
<1> USE DEF BridgeInv, CallTyped, RestTyped, threads, calls
<1>1. ASSUME NEW c \in Caller, StopScript(c) \/ StartScript(c)
      PROVE  BridgeInv'
  <2>1. /\ UNCHANGED <<threads, calls, jobs, waits, plan>>
        /\ cancelled' \in [Caller -> BOOLEAN]
    BY <1>1 DEF StopScript, StartScript
  <2>2. QED  BY <2>1, AsideKeeps
<1>2. ASSUME NEW l \in Library, LibraryReturns(l) PROVE BridgeInv'
  <2>1. /\ UNCHANGED <<threads, depth, inv, nested, cancelled, jobs, waits>>
        /\ plan' = plan /\ host' \in [Library -> Server \cup {None}]
    BY <1>2 DEF LibraryReturns
  <2>2. QED  BY <2>1, AsideKeeps
<1>3. ASSUME NEW f \in Frame, JobWait(f) \/ JobWaitEnds(f) PROVE BridgeInv'
  <2>1. /\ UNCHANGED <<threads, calls, jobs, cancelled, plan>>
        /\ waits' \subseteq Frame
    BY <1>3 DEF JobWait, JobWaitEnds
  <2>2. QED  BY <2>1, AsideKeeps
<1>4. CASE ShutdownBridge
  <2>1. /\ UNCHANGED <<started, queue, busy, dead, calls, jobs, cancelled>>
        /\ UNCHANGED <<waits, plan>> /\ bridge' = None
    BY <1>4 DEF ShutdownBridge
  <2>2. QED  BY <2>1, AsideKeeps
<1>5. CASE UNCHANGED vars  BY <1>5, AsideKeeps DEF vars
<1>6. QED  BY <1>1, <1>2, <1>3, <1>4, <1>5

\* A step that changes one job and its task only.
LEMMA JobStepKeeps ==
    ASSUME BridgeInv, NEW f \in Frame, JobTyped',
           UNCHANGED <<threads, calls, cancelled, taskOn, waits, plan>>,
           \A g \in Frame : g # f => job'[g] = job[g] /\ task'[g] = task[g],
           job[f] \notin {"none", "asked"}, job'[f] \notin {"none", "asked"},
           task'[f] = "new" => job'[f] \in {"pending", "cancelled", "gone"},
           task'[f] = "work" => job'[f] \in {"running", "cancelled", "gone"},
           job'[f] \in {"pending", "running"} /\ task[f] # "none"
               => task'[f] # "none",
           job'[f] \in {"pending", "running"}
               => job[f] \in {"pending", "running"}
    PROVE  BridgeInv'
<1> USE DEF BridgeInv
<1>1. ThreadTyped' /\ CallTyped' /\ RestTyped'
  BY DEF ThreadTyped, CallTyped, RestTyped, threads, calls
<1>2. /\ DepthRight' /\ OnePlace' /\ SentRight' /\ NestedRight'
      /\ \A g \in Frame : Posts(g)' <=> Posts(g)
  BY PlacesStay DEF threads, calls
<1>3. ASSUME NEW g \in Frame, g # f PROVE JobRight(g)'
  BY <1>2, <1>3, JobStays DEF threads
<1>4. JobRight(f)'
  <2>1. JobRight(f)  OBVIOUS
  <2>2. ~Posts(f)'  BY <1>2, <2>1 DEF JobRight
  <2>3. ASSUME job'[f] \in {"pending", "running"},
               taskOn'[f] \notin dead' \cup {None}
        PROVE  task'[f] # "none"
    BY <2>1, <2>3 DEF JobRight, threads
  <2>4. QED  BY <2>2, <2>3 DEF JobRight
<1>5. QED  BY <1>1, <1>2, <1>3, <1>4

\* A task that has still to run or to end has a job with a matching status.
LEMMA TaskFacts ==
    ASSUME BridgeInv, NEW f \in Frame
    PROVE  /\ task[f] = "new" => job[f] \in {"pending", "cancelled", "gone"}
           /\ task[f] = "work" => job[f] \in {"running", "cancelled", "gone"}
BY DEF BridgeInv, JobRight

\* The task of a job starts.
LEMMA TaskStartsKeeps ==
    ASSUME BridgeInv, NEW f \in Frame, TaskStarts(f)
    PROVE  BridgeInv'
<1>1. /\ task[f] = "new" /\ job[f] \in {"pending", "cancelled", "gone"}
      /\ UNCHANGED <<threads, calls, cancelled, taskOn, waits, plan>>
  BY TaskFacts DEF TaskStarts
<1>2. JobTyped  BY DEF BridgeInv
<1>3. CASE job[f] = "cancelled"
  <2>1. task' = [task EXCEPT ![f] = "none"] /\ UNCHANGED job
    BY <1>3 DEF TaskStarts
  <2>2. JobTyped'  BY <1>1, <1>2, <2>1 DEF JobTyped
  <2>3. QED  BY <1>1, <1>2, <1>3, <2>1, <2>2, JobStepKeeps DEF JobTyped
<1>4. CASE job[f] = "gone"
  <2>1. task' = [task EXCEPT ![f] = "work"] /\ UNCHANGED job
    BY <1>4 DEF TaskStarts
  <2>2. JobTyped'  BY <1>1, <1>2, <2>1 DEF JobTyped
  <2>3. QED  BY <1>1, <1>2, <1>4, <2>1, <2>2, JobStepKeeps DEF JobTyped
<1>5. CASE job[f] = "pending"
  <2>1. /\ task' = [task EXCEPT ![f] = "work"]
        /\ job' = [job EXCEPT ![f] = "running"]
    BY <1>5 DEF TaskStarts
  <2>2. JobTyped'  BY <1>1, <1>2, <2>1 DEF JobTyped
  <2>3. QED  BY <1>1, <1>2, <1>5, <2>1, <2>2, JobStepKeeps DEF JobTyped
<1>6. QED  BY <1>1, <1>3, <1>4, <1>5

\* The task of a job ends.
LEMMA TaskEndsKeeps ==
    ASSUME BridgeInv, NEW f \in Frame, TaskEnds(f)
    PROVE  BridgeInv'
<1>1. PICK st \in Outcome(f) :
        /\ task[f] = "work" /\ job[f] \in {"running", "cancelled", "gone"}
        /\ task' = [task EXCEPT ![f] = "none"]
        /\ job' = [job EXCEPT ![f] = st]
        /\ UNCHANGED <<threads, calls, cancelled, taskOn, waits, plan>>
  BY TaskFacts DEF TaskEnds
<1>2. st \in {"done", "failed", "cancelled", "gone"}
  BY DEF Outcome
<1>3. JobTyped  BY DEF BridgeInv
<1>4. JobTyped'  BY <1>1, <1>2, <1>3 DEF JobTyped, Terminal
<1>5. QED  BY <1>1, <1>2, <1>3, <1>4, JobStepKeeps DEF JobTyped

\* A frame cancels its job, or forgets a settled one.
LEMMA JobActionsKeep ==
    ASSUME BridgeInv, NEW f \in Frame, JobCancel(f) \/ JobGc(f)
    PROVE  BridgeInv'
<1>1. PICK st \in {"cancelled", "gone"} :
        /\ job[f] \in {"pending", "running"} \cup Terminal
        /\ job' = [job EXCEPT ![f] = st]
        /\ st = "cancelled" => job[f] \in {"pending", "running"}
        /\ UNCHANGED <<threads, calls, cancelled, task, taskOn, waits, plan>>
  BY DEF JobCancel, JobGc
<1>2. JobTyped  BY DEF BridgeInv
<1>3. JobTyped'  BY <1>1, <1>2 DEF JobTyped, Terminal
<1>4. QED
  BY <1>1, <1>2, <1>3, JobStepKeeps DEF JobTyped, Terminal

-----------------------------------------------------------------------------
(* Who is served, and where libraries run *)

\* Only one caller at a time waits for the bridge: the next has a nested
\* thread as long as this one is in its call.
OneLiveCaller ==
    \A f, g \in Frame : inv[f] = "sent" /\ inv[g] = "sent" => f = g

\* A library runs where the ctx.call for it is still executed, and stays
\* there while its own JavaScript calls or waits for a job.
LibrariesHosted ==
    \A l \in Library :
        /\ \A b \in Bridge : host[l] = b => busy[b] # None /\ busy[b].work = l
        /\ \A f \in Frame : host[l] = f => nested[f] = l
        /\ inv[l] # "none" \/ l \in waits => host[l] # None

\* A call that goes to the bridge finds no other call in flight.
LEMMA FirstIsAlone ==
    ASSUME BridgeInv, depth + 1 <= NestsFrom, NEW g \in Frame
    PROVE  inv[g] = "none"
<1>1. IsFiniteSet(Calling)
  BY FrameAssumption, FS_Subset DEF Calling
<1>2. Cardinality(Calling) \in Nat  BY <1>1, FS_CardinalityType
<1>3. Cardinality(Calling) = 0  BY <1>2 DEF BridgeInv, DepthRight, NestsFrom
<1>4. Calling = {}  BY <1>1, <1>3, FS_EmptySet
<1>5. QED  BY <1>4 DEF Calling

\* A step that lets no frame wait for the bridge keeps them apart.
LEMMA NoneSent ==
    ASSUME OneLiveCaller, \A g \in Frame : inv'[g] = "sent" => inv[g] = "sent"
    PROVE  OneLiveCaller'
BY DEF OneLiveCaller

\* A step that moves no library, takes no work away and lets none of them
\* call or wait.
LEMMA HostsStay ==
    ASSUME LibrariesHosted, UNCHANGED <<host, nested>>,
           \A l \in Library, b \in Bridge :
                host[l] = b /\ busy[b] # None =>
                    busy'[b] # None /\ busy'[b].work = busy[b].work,
           \A l \in Library : inv'[l] # "none" => inv[l] # "none",
           \A l \in Library : l \in waits' => l \in waits
    PROVE  LibrariesHosted'
BY DEF LibrariesHosted

\* A library whose JavaScript runs is hosted.
LEMMA RunningIsHosted ==
    ASSUME BridgeInv, NEW l \in Library, Running(l)
    PROVE  host[l] # None
<1>1. plan.runs \subseteq Caller  BY FrameAssumption DEF BridgeInv, RestTyped
<1>2. QED  BY <1>1, FrameAssumption DEF Running

\* Who takes up a library's work hosts it, unless it runs already.
LEMMA TakeUpFacts ==
    ASSUME NEW s, NEW w, TakeUp(s, w), NEW l \in Library
    PROVE  /\ host'[l] = IF l = w /\ host[l] = None THEN s ELSE host[l]
           /\ host[l] # None => host'[l] # None
BY DEF TakeUp

\* Each step keeps the callers of the bridge apart.
LEMMA OneLiveCallerNext ==
    ASSUME BridgeInv, OneLiveCaller, [Next]_vars
    PROVE  OneLiveCaller'
<1> USE DEF BridgeInv, CallTyped, calls, vars
<1>1. CASE \E f \in Frame, w \in Work : InvokeOnBridge(f, w)
  <2>1. PICK f \in Frame :
            depth + 1 <= NestsFrom /\ inv' = [inv EXCEPT ![f] = "sent"]
    BY <1>1 DEF InvokeOnBridge
  <2>2. \A g \in Frame : inv[g] = "none"  BY <2>1, FirstIsAlone
  <2>3. QED  BY <2>1, <2>2 DEF OneLiveCaller
<1>2. CASE \E f \in Frame, w \in Work : InvokeNested(f, w)
  BY <1>2, NoneSent DEF InvokeNested
<1>3. CASE \E s \in Server : Serve(s)
  BY <1>3, NoneSent
     DEF Serve, BridgeTakes, BridgeFinishes, BridgeExits, NestedFinishes
<1>4. CASE \E f \in Frame : FrameStep(f)
  BY <1>4, NoneSent DEF FrameStep, Return, Abandon, JobWaitEnds
<1>5. CASE \E b \in Bridge : BridgePanics(b)
  BY <1>5, NoneSent DEF BridgePanics
<1>6. CASE \/ \E l \in Library : LibraryReturns(l)
           \/ \E f \in Frame :
                TaskStep(f) \/ JobCancel(f) \/ JobGc(f) \/ JobWait(f)
           \/ \E c \in Caller : StopScript(c) \/ StartScript(c)
           \/ ShutdownBridge \/ UNCHANGED vars
  BY <1>6, NoneSent
     DEF LibraryReturns, TaskStep, TaskStarts, TaskEnds, JobCancel, JobGc,
         JobWait, StopScript, StartScript, ShutdownBridge
<1>7. QED  BY <1>1, <1>2, <1>3, <1>4, <1>5, <1>6 DEF Next

\* Each step keeps libraries where their work is.
LEMMA LibrariesHostedNext ==
    ASSUME BridgeInv, LibrariesHosted, [Next]_vars
    PROVE  LibrariesHosted'
<1> USE DEF BridgeInv, calls, threads, vars
<1>1. ASSUME NEW f \in Frame, NEW w \in Work, InvokeNested(f, w)
      PROVE  LibrariesHosted'
  <2>1. /\ inv[f] = "none" /\ Running(f) /\ TakeUp(f, w)
        /\ inv' = [inv EXCEPT ![f] = "nested"]
        /\ nested' = [nested EXCEPT ![f] = w] /\ UNCHANGED <<busy, waits>>
    BY <1>1 DEF InvokeNested, Running
  <2>2. nested[f] = None  BY <2>1 DEF NestedRight
  <2>3. SUFFICES ASSUME NEW l \in Library
                 PROVE  /\ \A b \in Bridge : host'[l] = b =>
                              busy'[b] # None /\ busy'[b].work = l
                        /\ \A g \in Frame : host'[l] = g => nested'[g] = l
                        /\ inv'[l] # "none" \/ l \in waits' => host'[l] # None
    BY DEF LibrariesHosted
  <2>4. l = f => host[l] # None  BY <2>1, RunningIsHosted
  <2>5. l \in Frame /\ l # None /\ f # None /\ f \notin Bridge
    BY FrameAssumption DEF Frame
  <2>6. host'[l] = IF l = w /\ host[l] = None THEN f ELSE host[l]
    BY <2>1, TakeUpFacts
  <2>7. \A g \in Frame : nested'[g] = IF g = f THEN w ELSE nested[g]
    BY <2>1 DEF CallTyped
  <2>8. \A g \in Frame : inv'[g] = IF g = f THEN "nested" ELSE inv[g]
    BY <2>1 DEF CallTyped
  <2>9. QED
    BY <2>1, <2>2, <2>4, <2>5, <2>6, <2>7, <2>8 DEF LibrariesHosted
<1>2. ASSUME NEW f \in Frame, NEW w \in Work, InvokeOnBridge(f, w)
      PROVE  LibrariesHosted'
  <2>1. /\ Running(f) /\ inv' = [inv EXCEPT ![f] = "sent"]
        /\ UNCHANGED <<busy, waits, host, nested>>
    BY <1>2 DEF InvokeOnBridge
  <2>2. \A l \in Library : l = f => host[l] # None
    BY <2>1, RunningIsHosted
  <2>3. \A l \in Library : inv'[l] = IF l = f THEN "sent" ELSE inv[l]
    BY <2>1 DEF CallTyped, Frame
  <2>4. QED  BY <2>1, <2>2, <2>3 DEF LibrariesHosted
<1>3. ASSUME NEW b \in Bridge, BridgeTakes(b) PROVE LibrariesHosted'
  <2>1. /\ busy[b] = None /\ busy' = [busy EXCEPT ![b] = Head(queue[b])]
        /\ TakeUp(b, Head(queue[b]).work) /\ queue[b] # <<>>
        /\ UNCHANGED <<inv, nested, waits>>
    BY <1>3 DEF BridgeTakes
  <2>2. Head(queue[b]) # None
    <3>1. Head(queue[b]) \in Requests
      BY <2>1, RequestFacts, HeadTailProperties
    <3>2. QED  BY <3>1, FrameAssumption
  <2>3. \A d \in Bridge :
            busy'[d] = IF d = b THEN Head(queue[b]) ELSE busy[d]
    BY <2>1 DEF ThreadTyped
  <2>4. b # None /\ b \notin Frame  BY FrameAssumption
  <2>5. \A l \in Library :
            host'[l] = IF l = Head(queue[b]).work /\ host[l] = None
                         THEN b ELSE host[l]
    BY <2>1, TakeUpFacts
  <2>6. QED  BY <2>1, <2>2, <2>3, <2>4, <2>5 DEF LibrariesHosted
<1>4. ASSUME NEW b \in Bridge, BridgeFinishes(b) PROVE LibrariesHosted'
  <2>1. /\ busy[b] # None /\ busy' = [busy EXCEPT ![b] = None]
        /\ busy[b].work \in Library => host[busy[b].work] # b
        /\ inv' = [f \in Frame |-> IF f = busy[b].from THEN "answered"
                                                       ELSE inv[f]]
        /\ UNCHANGED <<nested, host, waits>>
    BY <1>4 DEF BridgeFinishes, Done
  <2>2. \A l \in Library : host[l] # b  BY <2>1 DEF LibrariesHosted
  <2>3. \A d \in Bridge : d # b => busy'[d] = busy[d]
    BY <2>1 DEF ThreadTyped
  <2>4. ASSUME NEW l \in Library, inv'[l] # "none" PROVE inv[l] # "none"
    <3>1. l \in Frame  BY DEF Frame
    <3>2. CASE l = busy[b].from
      BY <2>1, <3>1, <3>2 DEF SentRight, Pending, Served
    <3>3. CASE l # busy[b].from  BY <2>1, <2>4, <3>1, <3>3
    <3>4. QED  BY <3>2, <3>3
  <2>5. QED  BY <2>1, <2>2, <2>3, <2>4, HostsStay
<1>5. ASSUME NEW f \in Frame, NestedFinishes(f) PROVE LibrariesHosted'
  <2>1. /\ nested[f] # None /\ nested' = [nested EXCEPT ![f] = None]
        /\ nested[f] \in Library => host[nested[f]] # f
        /\ inv' = [inv EXCEPT ![f] = "answered"]
        /\ UNCHANGED <<busy, host, waits>>
    BY <1>5 DEF NestedFinishes, Done
  <2>2. \A l \in Library : host[l] # f  BY <2>1 DEF LibrariesHosted
  <2>3. \A g \in Frame : g # f => nested'[g] = nested[g]
    BY <2>1 DEF CallTyped
  <2>4. inv[f] = "nested"  BY <2>1 DEF NestedRight
  <2>5. \A l \in Library : inv'[l] # "none" => inv[l] # "none"
    BY <2>1, <2>4 DEF CallTyped, Frame
  <2>6. QED  BY <2>1, <2>2, <2>3, <2>5 DEF LibrariesHosted
<1>6. ASSUME NEW b \in Bridge, BridgePanics(b) PROVE LibrariesHosted'
  <2>1. /\ busy[b].work = "method" /\ busy' = [busy EXCEPT ![b] = None]
        /\ inv' = [f \in Frame |-> IF f \in Stranded(b) THEN "answered"
                                                        ELSE inv[f]]
        /\ UNCHANGED <<nested, host, waits>>
    BY <1>6 DEF BridgePanics
  <2>2. \A l \in Library : host[l] # b
    BY <2>1, FrameAssumption DEF LibrariesHosted
  <2>3. \A d \in Bridge : d # b => busy'[d] = busy[d]
    BY <2>1 DEF ThreadTyped
  <2>4. ASSUME NEW l \in Library, inv'[l] # "none" PROVE inv[l] # "none"
    <3>1. l \in Frame  BY DEF Frame
    <3>2. CASE l \in Stranded(b)
      <4>1. Pending(b, l)  BY <3>1, <3>2, WaitersArePending DEF Stranded
      <4>2. QED  BY <3>1, <4>1 DEF SentRight
    <3>3. CASE l \notin Stranded(b)  BY <2>1, <2>4, <3>1, <3>3
    <3>4. QED  BY <3>2, <3>3
  <2>5. QED  BY <2>1, <2>2, <2>3, <2>4, HostsStay
<1>7. ASSUME NEW c \in Caller, Abandon(c) PROVE LibrariesHosted'
  <2>1. /\ inv' = [inv EXCEPT ![c] = "none"] /\ ForgetAll(c) /\ c \in Frame
        /\ UNCHANGED <<nested, host, waits>>
    BY <1>7 DEF Abandon, Frame
  <2>2. ASSUME NEW b \in Bridge, busy[b] # None
        PROVE  busy'[b] # None /\ busy'[b].work = busy[b].work
    <3>1. busy[b] \in Requests  BY <2>2, RequestFacts
    <3>2. busy'[b] = Forget(busy[b], c)  BY <2>1 DEF ForgetAll
    <3>3. QED  BY <2>1, <3>1, <3>2, ForgetFacts
  <2>3. \A l \in Library : inv'[l] # "none" => inv[l] # "none"
    BY <2>1 DEF CallTyped, Frame
  <2>4. QED  BY <2>1, <2>2, <2>3, HostsStay
<1>8. ASSUME NEW f \in Frame, Return(f) PROVE LibrariesHosted'
  <2>1. /\ inv' = [inv EXCEPT ![f] = "none"]
        /\ UNCHANGED <<nested, host, waits, busy>>
    BY <1>8 DEF Return
  <2>2. \A l \in Library : inv'[l] # "none" => inv[l] # "none"
    BY <2>1 DEF CallTyped, Frame
  <2>3. QED  BY <2>1, <2>2, HostsStay
<1>9. ASSUME NEW l \in Library, LibraryReturns(l) PROVE LibrariesHosted'
  <2>1. /\ host' = [host EXCEPT ![l] = None] /\ inv[l] = "none"
        /\ l \notin waits /\ UNCHANGED <<inv, nested, waits, busy>>
    BY <1>9 DEF LibraryReturns, Running
  <2>2. \A k \in Library : host'[k] = IF k = l THEN None ELSE host[k]
    BY <2>1 DEF CallTyped
  <2>3. QED  BY <2>1, <2>2, FrameAssumption DEF LibrariesHosted
<1>10. ASSUME NEW f \in Frame, JobWait(f) PROVE LibrariesHosted'
  <2>1. Running(f) /\ waits' = waits \cup {f}
        /\ UNCHANGED <<inv, nested, host, busy>>
    BY <1>10 DEF JobWait
  <2>2. f \in Library => host[f] # None  BY <2>1, RunningIsHosted
  <2>3. QED  BY <2>1, <2>2 DEF LibrariesHosted
<1>11. CASE \/ \E b \in Bridge : BridgeExits(b)
            \/ \E f \in Frame :
                JobWaitEnds(f) \/ TaskStep(f) \/ JobCancel(f) \/ JobGc(f)
            \/ \E c \in Caller : StopScript(c) \/ StartScript(c)
            \/ ShutdownBridge \/ UNCHANGED vars
  <2>1. UNCHANGED <<busy, inv, nested, host>> /\ waits' \subseteq waits
    BY <1>11
       DEF BridgeExits, JobWaitEnds, TaskStep, TaskStarts, TaskEnds, JobCancel,
           JobGc, StopScript, StartScript, ShutdownBridge
  <2>2. QED  BY <2>1, HostsStay
<1>12. QED
  BY <1>1, <1>2, <1>3, <1>4, <1>5, <1>6, <1>7, <1>8, <1>9, <1>10, <1>11
     DEF Next, Serve, FrameStep

-----------------------------------------------------------------------------
(* The theorems *)

\* At first nobody calls.
LEMMA BridgeInit ==
    Init => BridgeInv
<1> SUFFICES ASSUME Init PROVE BridgeInv
  OBVIOUS
<1> USE DEF Init
<1>1. \A b \in Bridge : queue[b] \in Seq(Requests) /\ Len(queue[b]) = 0
  BY EmptySeq
<1>2. ThreadTyped
  <2>1. queue \in [Bridge -> Seq(Requests)]  BY <1>1
  <2>2. \A b \in Bridge : Len(queue[b]) <= MaxQueue
    BY <1>1, BoundAssumption
  <2>3. started \in 0..MaxBridge  BY BoundAssumption
  <2>4. QED  BY <2>1, <2>2, <2>3 DEF ThreadTyped
<1>3. CallTyped /\ JobTyped /\ RestTyped
  BY DEF CallTyped, JobTyped, RestTyped
<1>4. DepthRight
  <2>1. Calling = {}  BY DEF Calling
  <2>2. QED  BY <2>1, FS_EmptySet DEF DepthRight
<1>5. \A b \in Bridge, f \in Frame :
        ~Served(b, f) /\ \A i : ~QueuedAt(b, i, f)
  BY <1>1 DEF Served, QueuedAt
<1>6. OnePlace  BY <1>5 DEF OnePlace
<1>7. SentRight  BY <1>5 DEF SentRight, Pending
<1>8. NestedRight  BY DEF NestedRight
<1>9. ASSUME NEW f \in Frame PROVE JobRight(f)
  <2>1. nested[f] # "post"  BY FrameAssumption DEF Work
  <2>2. ~Posts(f)  BY <1>5, <2>1 DEF Posts
  <2>3. QED  BY <2>2 DEF JobRight
<1>10. QED
  BY <1>2, <1>3, <1>4, <1>6, <1>7, <1>8, <1>9 DEF BridgeInv

\* Every step keeps the invariant.
LEMMA BridgeNext ==
    BridgeInv /\ [Next]_vars => BridgeInv'
<1> SUFFICES ASSUME BridgeInv, [Next]_vars PROVE BridgeInv'
  OBVIOUS
<1>1. ASSUME NEW f \in Frame, NEW w \in Work,
             InvokeNested(f, w) \/ InvokeOnBridge(f, w)
      PROVE  BridgeInv'
  BY <1>1, InvokeNestedKeeps, InvokeOnBridgeKeeps
<1>2. ASSUME NEW s \in Server, Serve(s) PROVE BridgeInv'
  BY <1>2, BridgeTakesKeeps, BridgeFinishesKeeps, BridgeExitsKeeps,
     NestedFinishesKeeps DEF Serve
<1>3. ASSUME NEW b \in Bridge, BridgePanics(b) PROVE BridgeInv'
  BY <1>3, BridgePanicsKeeps
<1>4. ASSUME NEW f \in Frame, FrameStep(f) PROVE BridgeInv'
  BY <1>4, ReturnKeeps, AbandonKeeps, AsideActions DEF FrameStep
<1>5. ASSUME NEW f \in Frame, TaskStep(f) PROVE BridgeInv'
  BY <1>5, TaskStartsKeeps, TaskEndsKeeps DEF TaskStep
<1>6. ASSUME NEW f \in Frame, JobCancel(f) \/ JobGc(f) \/ JobWait(f)
      PROVE  BridgeInv'
  BY <1>6, JobActionsKeep, AsideActions
<1>7. CASE \/ \E l \in Library : LibraryReturns(l)
           \/ \E c \in Caller : StopScript(c) \/ StartScript(c)
           \/ ShutdownBridge \/ UNCHANGED vars
  BY <1>7, AsideActions
<1>8. QED  BY <1>1, <1>2, <1>3, <1>4, <1>5, <1>6, <1>7 DEF Next

\* The invariant holds throughout, whatever scripts call, post, cancel or
\* panic, for every number of frames and of bridge threads.
THEOREM BridgeInvariant ==
    Spec => []BridgeInv
<1> QED  BY BridgeInit, BridgeNext, PTL DEF Spec

\* Every variable keeps its type, and the depth neither leaks nor underflows.
THEOREM BridgeTypes ==
    Spec => []TypeOK
<1>1. BridgeInv => TypeOK
  <2> SUFFICES ASSUME BridgeInv PROVE TypeOK
    OBVIOUS
  <2>1. depth \in 0..Cardinality(Frame)  BY DepthTyped DEF BridgeInv
  <2>2. \A b \in Bridge : /\ Len(queue[b]) <= MaxQueue
                          /\ \A i \in DOMAIN queue[b] : queue[b][i] \in Requests
    BY RequestFacts DEF BridgeInv, ThreadTyped
  <2>3. QED
    BY <2>1, <2>2
       DEF BridgeInv, TypeOK, ThreadTyped, CallTyped, JobTyped, RestTyped
<1> QED  BY <1>1, BridgeInvariant, PTL

\* A caller that waits for the bridge waits for exactly one request that is
\* still queued or executing, and who does not wait has none.
THEOREM BridgeAnswersOnce ==
    Spec => []WaitsForOneRequest
<1>1. BridgeInv => WaitsForOneRequest
  <2> SUFFICES ASSUME BridgeInv, NEW f \in Frame
               PROVE  LET at == {b \in Bridge : f \in Waiters(b)}
                      IN  /\ inv[f] = "sent" <=> at # {}
                          /\ Cardinality(at) <= 1
    BY DEF WaitsForOneRequest
  <2> DEFINE at == {b \in Bridge : f \in Waiters(b)}
  <2>1. \A b \in Bridge : b \in at <=> Pending(b, f)
    BY WaitersArePending DEF BridgeInv
  <2>2. inv[f] = "sent" <=> at # {}  BY <2>1 DEF BridgeInv, SentRight
  <2>3. \A b, d \in at : b = d
    BY <2>1 DEF BridgeInv, OnePlace, Pending
  <2>4. Cardinality(at) <= 1
    <3>1. CASE at = {}
      <4>1. Cardinality(at) = 0  BY <3>1, FS_EmptySet
      <4>2. QED  BY <4>1
    <3>2. CASE at # {}
      <4>1. PICK b \in at : TRUE  BY <3>2
      <4>2. at = {b}  BY <2>3, <4>1
      <4>3. Cardinality(at) = 1  BY <4>2, FS_Singleton
      <4>4. QED  BY <4>3
    <3>3. QED  BY <3>1, <3>2
  <2>5. QED  BY <2>2, <2>4
<1> QED  BY <1>1, BridgeInvariant, PTL

\* A job that is not settled has a task that will settle it, as long as the
\* thread the post ran on lives.
THEOREM BridgeJobsHaveTasks ==
    Spec => []JobsHaveTasks
<1>1. BridgeInv => JobsHaveTasks
  BY DEF BridgeInv, JobRight, JobsHaveTasks
<1> QED  BY <1>1, BridgeInvariant, PTL

\* A settled job keeps its status until it is forgotten, whichever of its
\* task, jobCancel and the posts of others comes when.
THEOREM BridgeJobsSettle ==
    Spec => JobSettles
<1> DEFINE Settled == \A f \in Frame :
                        job[f] \in Terminal => job'[f] \in {job[f], "gone"}
<1>1. ASSUME BridgeInv, [Next]_vars PROVE Settled
  <2> SUFFICES ASSUME NEW g \in Frame, job[g] \in Terminal
               PROVE  job'[g] \in {job[g], "gone"}
    OBVIOUS
  <2> USE <1>1 DEF Terminal
  <2>1. JobTyped /\ JobRight(g)  BY DEF BridgeInv
  <2>2. CASE UNCHANGED jobs  BY <2>2 DEF jobs
  <2>3. ASSUME NEW f \in Frame, NEW w \in Work, Ask(f, w)
        PROVE  job'[g] = job[g]
    BY <2>1, <2>3 DEF Ask, JobTyped
  <2>4. ASSUME NEW f \in Frame, Posts(f),
               job' = [job EXCEPT ![f] = "pending"]
        PROVE  job'[g] = job[g]
    <3>1. g # f  BY <2>1, <2>4 DEF JobRight
    <3>2. QED  BY <2>1, <2>4, <3>1 DEF JobTyped
  <2>5. ASSUME NEW b \in Bridge, BridgeFinishes(b)
        PROVE  job'[g] \in {job[g], "gone"}
    <3>1. CASE /\ busy[b].work = "post" /\ busy[b].from # None
               /\ PostOnBridge(busy[b].from, b)
      <4>1. PICK f \in Frame : f = busy[b].from
        BY <2>5, <3>1, RequestFacts DEF BridgeFinishes, BridgeInv
      <4>2. Posts(f)
        BY <2>5, <3>1, <4>1 DEF Posts, Served, BridgeFinishes
      <4>3. QED  BY <2>4, <3>1, <4>1, <4>2 DEF PostOnBridge
    <3>2. QED  BY <2>2, <2>5, <3>1 DEF BridgeFinishes
  <2>6. ASSUME NEW f \in Frame, NestedFinishes(f)
        PROVE  job'[g] \in {job[g], "gone"}
    <3>1. CASE nested[f] = "post" /\ PostNested(f)
      <4>1. Posts(f)  BY <3>1 DEF Posts
      <4>2. QED  BY <2>4, <3>1, <4>1 DEF PostNested
    <3>2. QED  BY <2>2, <2>6, <3>1 DEF NestedFinishes
  <2>7. ASSUME NEW f \in Frame, TaskStep(f)
        PROVE  job'[g] \in {job[g], "gone"}
    <3>1. CASE f # g
      BY <2>1, <2>7, <3>1 DEF TaskStep, TaskStarts, TaskEnds, JobTyped
    <3>2. CASE f = g /\ TaskStarts(f)
      BY <2>1, <3>2 DEF TaskStarts, JobRight
    <3>3. CASE f = g /\ TaskEnds(f)
      <4>1. job[g] = "cancelled"
        BY <2>1, <3>3 DEF TaskEnds, JobRight
      <4>2. QED  BY <2>1, <3>3, <4>1 DEF TaskEnds, Outcome, JobTyped
    <3>4. QED  BY <2>7, <3>1, <3>2, <3>3 DEF TaskStep
  <2>8. ASSUME NEW f \in Frame, JobCancel(f) \/ JobGc(f)
        PROVE  job'[g] \in {job[g], "gone"}
    BY <2>1, <2>8 DEF JobCancel, JobGc, JobTyped
  <2>9. CASE \E f \in Frame, w \in Work :
                InvokeNested(f, w) \/ InvokeOnBridge(f, w)
    BY <2>3, <2>9 DEF InvokeNested, InvokeOnBridge
  <2>10. CASE \E s \in Server : Serve(s)
    BY <2>5, <2>6, <2>10 DEF Serve, BridgeTakes, BridgeExits, jobs
  <2>11. CASE \E f \in Frame : FrameStep(f) \/ TaskStep(f) \/ JobCancel(f)
                                \/ JobGc(f) \/ JobWait(f)
    BY <2>2, <2>7, <2>8, <2>11
       DEF FrameStep, Return, Abandon, JobWaitEnds, JobWait
  <2>12. CASE \/ \E b \in Bridge : BridgePanics(b)
              \/ \E l \in Library : LibraryReturns(l)
              \/ \E c \in Caller : StopScript(c) \/ StartScript(c)
              \/ ShutdownBridge \/ UNCHANGED vars
    BY <2>12 DEF BridgePanics, LibraryReturns, StopScript, StartScript,
                 ShutdownBridge, jobs, vars
  <2>13. QED  BY <2>9, <2>10, <2>11, <2>12 DEF Next
<1>2. BridgeInv /\ [Next]_vars => [Settled]_vars  BY <1>1
<1>3. QED  BY <1>2, BridgeInvariant, PTL DEF Spec, JobSettles

\* The first call has the bridge to itself: no live caller queues behind
\* another one, whichever scripts and libraries call.
THEOREM BridgeServesOne ==
    Spec => []OneLiveCaller
<1>1. Init => OneLiveCaller  BY DEF Init, OneLiveCaller
<1>2. BridgeInv /\ OneLiveCaller /\ [Next]_vars => OneLiveCaller'
  BY OneLiveCallerNext
<1>3. QED  BY <1>1, <1>2, BridgeInvariant, PTL DEF Spec

\* A library runs on a thread that executes the call for it, and on no other,
\* until its JavaScript has returned: no thread ends under it.
THEOREM BridgeHostsLibraries ==
    Spec => []LibrariesHosted
<1>1. Init => LibrariesHosted
  BY FrameAssumption DEF Init, LibrariesHosted, Frame
<1>2. BridgeInv /\ LibrariesHosted /\ [Next]_vars => LibrariesHosted'
  BY LibrariesHostedNext
<1>3. QED  BY <1>1, <1>2, BridgeInvariant, PTL DEF Spec

-----------------------------------------------------------------------------
(* When no call waits on the thread that it runs on *)

\* Every request has its caller, and a library on a bridge thread serves
\* another frame than itself.
CallersStay ==
    \A b \in Bridge :
        /\ busy[b] # None => busy[b].from # None
        /\ \A i \in 1..Len(queue[b]) : queue[b][i].from # None
        /\ \A l \in Library : host[l] = b => busy[b].from # l

\* That is so until a caller leaves its call.
LEMMA CallersStayNext ==
    ASSUME BridgeInv, LibrariesHosted, CallersStay, [Next]_vars,
           ~\E c \in Caller : Abandon(c)
    PROVE  CallersStay'
<1> USE DEF BridgeInv, calls, threads, vars
<1>1. ASSUME NEW f \in Frame, NEW w \in Work, InvokeNested(f, w)
      PROVE  CallersStay'
  <2>1. UNCHANGED <<queue, busy>> /\ TakeUp(f, w)  BY <1>1 DEF InvokeNested
  <2>2. \A b \in Bridge : f # b  BY FrameAssumption
  <2>3. \A l \in Library, b \in Bridge : host'[l] = b => host[l] = b
    BY <2>1, <2>2, TakeUpFacts
  <2>4. QED  BY <2>1, <2>3 DEF CallersStay
<1>2. ASSUME NEW f \in Frame, NEW w \in Work, InvokeOnBridge(f, w)
      PROVE  CallersStay'
  <2>1. PICK b \in Bridge :
            queue' = [queue EXCEPT ![b] =
                        Append(queue[b], [from |-> f, work |-> w])]
    BY <1>2 DEF InvokeOnBridge
  <2>2. UNCHANGED <<busy, host>> /\ f # None
    BY <1>2, FrameAssumption DEF InvokeOnBridge
  <2>3. /\ queue[b] \in Seq(Requests)
        /\ [from |-> f, work |-> w] \in Requests
    BY RequestFacts DEF Requests
  <2>4. ASSUME NEW i \in 1..Len(queue'[b]) PROVE queue'[b][i].from # None
    <3>1. queue'[b] = Append(queue[b], [from |-> f, work |-> w])
      BY <2>1 DEF ThreadTyped
    <3>2. CASE i \in 1..Len(queue[b])
      BY <2>3, <3>1, <3>2, AppendProperties DEF CallersStay
    <3>3. CASE i \notin 1..Len(queue[b])
      <4>1. i = Len(queue[b]) + 1  BY <2>3, <3>1, <3>3, AppendProperties
      <4>2. queue'[b][i] = [from |-> f, work |-> w]
        BY <2>3, <3>1, <4>1, AppendProperties
      <4>3. QED  BY <2>2, <4>2
    <3>4. QED  BY <3>2, <3>3
  <2>5. \A d \in Bridge : d # b => queue'[d] = queue[d]
    BY <2>1 DEF ThreadTyped
  <2>6. QED  BY <2>2, <2>4, <2>5 DEF CallersStay
<1>3. ASSUME NEW b \in Bridge, BridgeTakes(b) PROVE CallersStay'
  <2>1. /\ busy[b] = None /\ busy' = [busy EXCEPT ![b] = Head(queue[b])]
        /\ queue' = [queue EXCEPT ![b] = Tail(queue[b])]
        /\ TakeUp(b, Head(queue[b]).work) /\ queue[b] # <<>>
    BY <1>3 DEF BridgeTakes
  <2>2. /\ queue[b] \in Seq(Requests) /\ Len(queue[b]) \in Nat
        /\ 1 \in 1..Len(queue[b]) /\ Head(queue[b]) = queue[b][1]
        /\ Len(Tail(queue[b])) = Len(queue[b]) - 1
        /\ \A i \in 1..Len(Tail(queue[b])) :
              Tail(queue[b])[i] = queue[b][i + 1]
    <3>1. queue[b] \in Seq(Requests)  BY RequestFacts
    <3>2. QED  BY <2>1, <3>1, HeadTailProperties
  <2>3. PICK f \in Frame : f = queue[b][1].from
    BY <2>2, RequestFacts DEF CallersStay
  <2>4. inv[f] = "sent"
    <3>1. QueuedAt(b, 1, f)  BY <2>2, <2>3 DEF QueuedAt
    <3>2. QED  BY <2>2, <3>1 DEF SentRight, Pending
  <2>5. /\ busy'[b] = queue[b][1] /\ queue'[b] = Tail(queue[b])
        /\ \A d \in Bridge : d # b => /\ busy'[d] = busy[d]
                                      /\ queue'[d] = queue[d]
    BY <2>1, <2>2 DEF ThreadTyped
  <2>6. \A i \in 1..Len(queue'[b]) : queue'[b][i].from # None
    BY <2>2, <2>5 DEF CallersStay
  <2>7. ASSUME NEW l \in Library, host'[l] = b PROVE f # l
    <3>1. host[l] # b  BY <2>1 DEF LibrariesHosted
    <3>2. host[l] = None  BY <2>1, <2>7, <3>1, TakeUpFacts
    <3>3. QED  BY <2>4, <3>2 DEF LibrariesHosted
  <2>8. \A l \in Library, d \in Bridge : d # b =>
            (host'[l] = d => host[l] = d)
    BY <2>1, TakeUpFacts
  <2>9. f # None  BY FrameAssumption
  <2>10. ASSUME NEW d \in Bridge
         PROVE  /\ busy'[d] # None => busy'[d].from # None
                /\ \A i \in 1..Len(queue'[d]) : queue'[d][i].from # None
                /\ \A l \in Library : host'[l] = d => busy'[d].from # l
    <3>1. CASE d = b  BY <2>3, <2>5, <2>6, <2>7, <2>9, <3>1
    <3>2. CASE d # b  BY <2>5, <2>8, <3>2 DEF CallersStay
    <3>3. QED  BY <3>1, <3>2
  <2>11. QED  BY <2>10 DEF CallersStay
<1>4. ASSUME NEW b \in Bridge, BridgeFinishes(b) \/ BridgePanics(b)
      PROVE  CallersStay'
  <2>1. /\ busy' = [busy EXCEPT ![b] = None] /\ host' = host
        /\ \A l \in Library : host[l] # b
    <3>1. CASE BridgeFinishes(b)
      BY <3>1 DEF BridgeFinishes, Done, LibrariesHosted
    <3>2. CASE BridgePanics(b)
      BY <3>2, FrameAssumption DEF BridgePanics, LibrariesHosted
    <3>3. QED  BY <1>4, <3>1, <3>2
  <2>2. \A d \in Bridge : queue'[d] = queue[d] \/ queue'[d] = <<>>
    BY <1>4 DEF BridgeFinishes, BridgePanics, ThreadTyped
  <2>3. \A d \in Bridge : busy'[d] = IF d = b THEN None ELSE busy[d]
    BY <2>1 DEF ThreadTyped
  <2>4. QED  BY <2>1, <2>2, <2>3 DEF CallersStay
<1>5. ASSUME NEW b \in Bridge, BridgeExits(b) PROVE CallersStay'
  <2>1. UNCHANGED <<queue, busy, host>>
    BY <1>5 DEF BridgeExits, MayExit, ThreadTyped
  <2>2. QED  BY <2>1 DEF CallersStay
<1>6. ASSUME NEW l \in Library, LibraryReturns(l) PROVE CallersStay'
  <2>1. host' = [host EXCEPT ![l] = None] /\ UNCHANGED <<queue, busy>>
    BY <1>6 DEF LibraryReturns
  <2>2. \A k \in Library, b \in Bridge : host'[k] = b => host[k] = b
    BY <2>1, FrameAssumption DEF CallTyped
  <2>3. QED  BY <2>1, <2>2 DEF CallersStay
<1>7. CASE \/ \E f \in Frame :
                \/ Return(f) \/ NestedFinishes(f) \/ JobWaitEnds(f)
                \/ TaskStep(f) \/ JobCancel(f) \/ JobGc(f) \/ JobWait(f)
           \/ \E c \in Caller : StopScript(c) \/ StartScript(c)
           \/ ShutdownBridge \/ UNCHANGED vars
  <2>1. UNCHANGED <<queue, busy, host>>
    BY <1>7
       DEF Return, NestedFinishes, JobWaitEnds, JobWait, TaskStep, TaskStarts,
           TaskEnds, JobCancel, JobGc, StopScript, StartScript, ShutdownBridge
  <2>2. QED  BY <2>1 DEF CallersStay
<1>8. QED
  BY <1>1, <1>2, <1>3, <1>4, <1>5, <1>6, <1>7 DEF Next, Serve, FrameStep

\* Unless a cancelled script leaves a call that is still executed, no call
\* waits on the thread that it runs on: what bridge.rs:232 rules out needs
\* the poll of the token that lets the depth return to 0.
THEOREM BridgeDeadlockNeedsAbandon ==
    Spec /\ [][~\E c \in Caller : Abandon(c)]_vars => []NoBridgeDeadlock
<1>1. Init => CallersStay
  <2>1. Init => \A b \in Bridge : Len(queue[b]) = 0  BY EmptySeq DEF Init
  <2>2. QED  BY <2>1, FrameAssumption DEF Init, CallersStay
<1>2. /\ BridgeInv /\ LibrariesHosted /\ CallersStay
      /\ [Next]_vars /\ [~\E c \in Caller : Abandon(c)]_vars
      => CallersStay'
  <2> SUFFICES ASSUME BridgeInv, LibrariesHosted, CallersStay, [Next]_vars,
                      [~\E c \in Caller : Abandon(c)]_vars
               PROVE  CallersStay'
    OBVIOUS
  <2>1. CASE ~\E c \in Caller : Abandon(c)  BY <2>1, CallersStayNext
  <2>2. CASE UNCHANGED vars
    BY <2>2 DEF vars, threads, calls, CallersStay
  <2>3. QED  BY <2>1, <2>2
<1>3. /\ BridgeInv /\ LibrariesHosted /\ OneLiveCaller /\ CallersStay
      => NoBridgeDeadlock
  <2> SUFFICES ASSUME BridgeInv, LibrariesHosted, OneLiveCaller, CallersStay,
                      NEW l \in Library, inv[l] = "sent",
                      NEW b \in Bridge, host[l] = b
               PROVE  FALSE
    BY DEF NoBridgeDeadlock
  <2>1. l \in Frame /\ busy[b] # None  BY DEF LibrariesHosted, Frame
  <2>2. PICK f \in Frame : f = busy[b].from
    BY <2>1, RequestFacts DEF BridgeInv, CallersStay
  <2>3. inv[f] = "sent"
    BY <2>1, <2>2 DEF BridgeInv, SentRight, Pending, Served
  <2>4. f # l  BY <2>2 DEF CallersStay
  <2>5. QED  BY <2>1, <2>3, <2>4 DEF OneLiveCaller
<1>4. QED
  BY <1>1, <1>2, <1>3, BridgeInvariant, BridgeServesOne, BridgeHostsLibraries,
     PTL DEF Spec
=============================================================================
