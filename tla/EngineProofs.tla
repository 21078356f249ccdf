---------------------------- MODULE EngineProofs ----------------------------
(***************************************************************************)
(* Who holds the engine and which flow a stop would cancel: the invariant  *)
(* of EngineControl, and the theorems about it.                            *)
(***************************************************************************)
EXTENDS EngineControl, SequenceTheorems, TLAPS

-----------------------------------------------------------------------------
(* The invariant *)

\* Where a client is with a write guard, and where a stop has emptied the
\* script slot and goes on.
Writing == {"flow", "store", "init"}
Stopping == {"allProgress", "allExecutor", "flowExecutor", "flowProgress"}

\* A client waits at most once, for the guard that its operation takes, and
\* has none yet; who does neither wait nor idle has its guard.
WaitersRight ==
    \A i \in 1..Len(waiting) :
        LET c == waiting[i].who
        IN  /\ pc[c] \in Operations /\ waiting[i].mode = Mode(pc[c])
            /\ c \notin readers /\ writer # c
            /\ \A j \in 1..Len(waiting) : waiting[j].who = c => i = j
HoldsRight(c) ==
    /\ c \in readers => pc[c] \notin Writing \cup {"idle"}
    /\ writer = c => pc[c] \in Writing
    /\ pc[c] # "idle" => Queued(c) \/ c \in readers \/ writer = c
LockRight == WaitersRight /\ \A c \in Client : HoldsRight(c)

\* The runs come into being in order; the one that clears has the progress.
Unreported == {"loop", "attempt", "script", "Completed", "Failed"}
RunsRight ==
    /\ \A r \in Run : r > started => at[r] = "none"
    /\ \A r \in Run : at[r] = "clear" <=> progressLock = r
    /\ progress = "Running" => started > 0 /\ at[started] \in Unreported

\* A client that starts a flow does so while none is shown, and the number
\* that it takes is new.
StartRight(c) ==
    /\ pc[c] \in {"store", "init"} => progress # "Running"
    /\ pc[c] = "store" => started < MaxRuns
    /\ pc[c] = "init" => started > 0 /\ at[started] = "none"

\* Unless something was stopped: a live run is the one in the executor, and
\* is shown until it reports; who starts a flow finds none alive; and no
\* stop is half done.
OneRun ==
    ~stopped =>
        /\ \A r \in Run : Live(r) => executor = r
        /\ \A r \in Run : at[r] \in Unreported => progress = "Running"
        /\ \A c \in Client :
            /\ pc[c] \in {"store", "init"} => \A r \in Run : ~Live(r)
            /\ pc[c] = "init" => executor = started
            /\ pc[c] \notin Stopping

\* The parts that are about flows.
FlowRight ==
    /\ RunsRight
    /\ \A c \in Client : StartRight(c)
    /\ OneRun

\* The parts of the type invariant, by what they are about; and the lock has
\* one writer or readers.
LockTyped ==
    /\ readers \subseteq Client /\ writer \in Client \cup {None}
    /\ writer # None => readers = {}
    /\ waiting \in Seq(Waits) /\ pc \in [Client -> Label]
SlotTyped ==
    /\ active \in Owner \cup {None} /\ token \in Owner \cup {None}
    /\ scriptCancel \in [Owner -> BOOLEAN] /\ ctxCancel \in BOOLEAN
    /\ stopped \in BOOLEAN
FlowTyped ==
    /\ executor \in Run \cup {None} /\ progressLock \in Run \cup {None}
    /\ progress \in {"none", "Running", "Completed", "Failed", "Cancelled"}
    /\ started \in 0..MaxRuns
Place == {"none", "loop", "attempt", "script", "Completed", "Failed", "clear",
          "done"}
RunTyped ==
    /\ at \in [Run -> Place]
    /\ tries \in [Run -> 0..Retries] /\ cancelled \in [Run -> BOOLEAN]

EngineInv ==
    /\ LockTyped /\ SlotTyped /\ FlowTyped /\ RunTyped
    /\ LockRight
    /\ FlowRight

\* The typed parts are the type invariant.
LEMMA EngineInvTypes ==
    EngineInv => TypeOK
BY DEF EngineInv, TypeOK, LockTyped, SlotTyped, FlowTyped, RunTyped, Place

\* A place in the queue is of a client and has its mode.
LEMMA WaitFacts ==
    ASSUME waiting \in Seq(Waits)
    PROVE  /\ Len(waiting) \in Nat /\ DOMAIN waiting = 1..Len(waiting)
           /\ \A i \in 1..Len(waiting) :
                /\ waiting[i].who \in Client
                /\ waiting[i].mode \in {"r", "w"}
<1>1. \A w \in Waits : w.who \in Client /\ w.mode \in {"r", "w"}
  BY DEF Waits
<1>2. \A i \in 1..Len(waiting) : waiting[i] \in Waits  BY ElementOfSeq
<1>3. QED  BY <1>1, <1>2

\* What is left when one place is given up: the others, in their order.
LEMMA RemoveAtProperties ==
    ASSUME NEW S, NEW q \in Seq(S), NEW i \in 1..Len(q)
    PROVE  /\ RemoveAt(q, i) \in Seq(S)
           /\ Len(RemoveAt(q, i)) = Len(q) - 1
           /\ \A j \in 1..(Len(q) - 1) :
                RemoveAt(q, i)[j] = IF j < i THEN q[j] ELSE q[j + 1]
<1> DEFINE n == Len(q)
           a == SubSeq(q, 1, i - 1)
           b == SubSeq(q, i + 1, n)
<1>1. n \in Nat /\ i \in Nat /\ 1 <= i /\ i <= n  OBVIOUS
<1>2. \A j \in 1..n : q[j] \in S  BY ElementOfSeq
<1>3. /\ a \in Seq(S) /\ Len(a) = i - 1
      /\ \A j \in 1..(i - 1) : a[j] = q[j]
  <2>1. i - 1 \in Int /\ \A j \in 1..(i - 1) : q[j] \in S  BY <1>1, <1>2
  <2>2. /\ a \in Seq(S) /\ Len(a) = IF 1 <= i - 1 THEN (i - 1) - 1 + 1 ELSE 0
        /\ \A j \in 1..((i - 1) - 1 + 1) : a[j] = q[1 + j - 1]
    BY <2>1, SubSeqProperties
  <2>3. QED  BY <1>1, <2>2
<1>4. /\ b \in Seq(S) /\ Len(b) = n - i
      /\ \A j \in 1..(n - i) : b[j] = q[i + j]
  <2>1. i + 1 \in Int /\ n \in Int /\ \A j \in (i + 1)..n : q[j] \in S
    BY <1>1, <1>2
  <2>2. /\ b \in Seq(S) /\ Len(b) = IF i + 1 <= n THEN n - (i + 1) + 1 ELSE 0
        /\ \A j \in 1..(n - (i + 1) + 1) : b[j] = q[i + 1 + j - 1]
    BY <2>1, SubSeqProperties
  <2>3. QED  BY <1>1, <2>2
<1> HIDE DEF a, b, n
<1>5. RemoveAt(q, i) = a \o b  BY DEF RemoveAt, a, b, n
<1>6. /\ a \o b \in Seq(S) /\ Len(a \o b) = n - 1
      /\ \A j \in 1..(n - 1) :
            (a \o b)[j] = IF j <= i - 1 THEN a[j] ELSE b[j - (i - 1)]
  <2>1. /\ a \o b \in Seq(S) /\ Len(a \o b) = Len(a) + Len(b)
        /\ \A j \in 1..(Len(a) + Len(b)) :
              (a \o b)[j] = IF j <= Len(a) THEN a[j] ELSE b[j - Len(a)]
    BY <1>3, <1>4, ConcatProperties
  <2>2. Len(a) + Len(b) = n - 1  BY <1>1, <1>3, <1>4
  <2>3. QED  BY <1>3, <2>1, <2>2
<1>7. ASSUME NEW j \in 1..(n - 1)
      PROVE  (a \o b)[j] = IF j < i THEN q[j] ELSE q[j + 1]
  <2>1. CASE j < i  BY <1>1, <1>3, <1>6, <2>1
  <2>2. CASE ~(j < i)
    <3>1. j - (i - 1) \in 1..(n - i) /\ i + (j - (i - 1)) = j + 1
      BY <1>1, <2>2
    <3>2. QED  BY <1>1, <1>4, <1>6, <2>2, <3>1
  <2>3. QED  BY <2>1, <2>2
<1>8. QED  BY <1>5, <1>6, <1>7 DEF n

-----------------------------------------------------------------------------
(* The engine's lock *)

\* Who is past its operation's name waits no more.
LEMMA NotQueued ==
    ASSUME LockTyped, LockRight, NEW c \in Client, pc[c] \notin Operations
    PROVE  ~Queued(c)
BY WaitFacts DEF LockTyped, LockRight, WaitersRight, Queued

\* Nothing changes for the lock.
LEMMA LockStays ==
    ASSUME LockTyped, LockRight, UNCHANGED <<lock, pc>>
    PROVE  LockTyped' /\ LockRight'
BY DEF LockTyped, LockRight, WaitersRight, HoldsRight, Queued, lock

\* A client that has its guard goes on with it.
LEMMA LockMoves ==
    ASSUME LockTyped, LockRight, NEW c \in Client, ~Queued(c),
           NEW l \in Label \ {"idle"}, pc[c] # "idle",
           pc[c] \in Writing <=> l \in Writing, Goto(c, l), UNCHANGED lock
    PROVE  LockTyped' /\ LockRight'
<1> USE DEF lock
<1>1. LockTyped'  BY DEF LockTyped, Goto
<1>2. WaitersRight'
  <2>1. \A i \in 1..Len(waiting) : waiting[i].who # c
    BY WaitFacts DEF LockTyped, Queued
  <2>2. \A i \in 1..Len(waiting) : pc'[waiting[i].who] = pc[waiting[i].who]
    BY <2>1, WaitFacts DEF LockTyped, Goto
  <2>3. QED  BY <2>2 DEF LockRight, WaitersRight
<1>3. ASSUME NEW d \in Client PROVE HoldsRight(d)'
  BY DEF LockTyped, LockRight, HoldsRight, Goto, Queued, Writing
<1>4. QED  BY <1>1, <1>2, <1>3 DEF LockRight

\* A client that leaves has no guard and no place in the queue.
LEMMA LockLeaves ==
    ASSUME LockTyped, LockRight, NEW c \in Client, ~Queued(c), Leave(c)
    PROVE  LockTyped' /\ LockRight'
<1> USE DEF Leave, Goto
<1>1. LockTyped'  BY DEF LockTyped, Label
<1>2. WaitersRight'
  <2>1. \A i \in 1..Len(waiting) : waiting[i].who # c
    BY WaitFacts DEF LockTyped, Queued
  <2>2. \A i \in 1..Len(waiting) :
            /\ pc'[waiting[i].who] = pc[waiting[i].who]
            /\ waiting[i].who \in readers' => waiting[i].who \in readers
            /\ writer' = waiting[i].who => writer = waiting[i].who
    BY <2>1, WaitFacts, NoneAssumption DEF LockTyped, Owner
  <2>3. QED  BY <2>2 DEF LockRight, WaitersRight
<1>3. ASSUME NEW d \in Client PROVE HoldsRight(d)'
  <2>1. HoldsRight(d)  BY DEF LockRight
  <2>2. d # None  BY NoneAssumption DEF Owner
  <2>3. QED
    BY <2>1, <2>2 DEF LockTyped, HoldsRight, Queued, Writing
<1>4. QED  BY <1>1, <1>2, <1>3 DEF LockRight

\* A client that has no guard any more queues for the one of its operation.
LEMMA LockQueues ==
    ASSUME LockTyped, LockRight, NEW c \in Client, ~Queued(c),
           NEW op \in Operations, Goto(c, op),
           waiting' = Append(waiting, [who |-> c, mode |-> Mode(op)]),
           readers' = readers \ {c}, writer' = writer, writer # c
    PROVE  LockTyped' /\ LockRight'
<1> DEFINE n == Len(waiting)
           w == [who |-> c, mode |-> Mode(op)]
<1>1. w \in Waits /\ w.who = c /\ w.mode = Mode(op)
  BY DEF Waits, Mode
<1>2. n \in Nat /\ waiting \in Seq(Waits)  BY WaitFacts DEF LockTyped
<1> HIDE DEF w, n
<1>3. waiting' = Append(waiting, w)  BY DEF w
<1>4. /\ waiting' \in Seq(Waits) /\ Len(waiting') = n + 1
      /\ \A i \in 1..n : waiting'[i] = waiting[i]
      /\ waiting'[n + 1] = w
  BY <1>1, <1>2, <1>3, AppendProperties DEF n
<1>5. LockTyped'  BY <1>4 DEF LockTyped, Goto, Label
<1>6. \A i \in 1..n : waiting[i].who # c /\ waiting[i].who \in Client
  BY WaitFacts DEF LockTyped, Queued, n
<1>7. pc'[c] = op  BY DEF LockTyped, Goto
<1>8. WaitersRight'
  <2>1. ASSUME NEW i \in 1..(n + 1)
        PROVE  LET d == waiting'[i].who
               IN  /\ pc'[d] \in Operations /\ waiting'[i].mode = Mode(pc'[d])
                   /\ d \notin readers' /\ writer' # d
                   /\ \A j \in 1..(n + 1) : waiting'[j].who = d => i = j
    <3>1. CASE i = n + 1
      <4>1. waiting'[i].who = c /\ waiting'[i].mode = Mode(op)
        BY <1>1, <1>4, <3>1
      <4>2. \A j \in 1..(n + 1) : waiting'[j].who = c => i = j
        BY <1>2, <1>4, <1>6, <3>1
      <4>3. QED  BY <1>7, <4>1, <4>2
    <3>2. CASE i \in 1..n
      <4>1. waiting'[i] = waiting[i] /\ waiting[i].who # c
            /\ waiting[i].who \in Client
        BY <1>4, <1>6, <3>2
      <4>2. pc'[waiting[i].who] = pc[waiting[i].who]
        BY <4>1 DEF LockTyped, Goto
      <4>3. \A j \in 1..(n + 1) : waiting'[j].who = waiting[i].who => i = j
        <5>1. SUFFICES ASSUME NEW j \in 1..(n + 1),
                              waiting'[j].who = waiting[i].who
                       PROVE  i = j
          OBVIOUS
        <5>2. j # n + 1  BY <1>1, <1>4, <4>1, <5>1
        <5>3. j \in 1..n  BY <1>2, <5>2
        <5>4. waiting'[j] = waiting[j]  BY <1>4, <5>3
        <5>5. QED
          BY <3>2, <5>1, <5>3, <5>4 DEF LockRight, WaitersRight, n
      <4>4. QED
        BY <3>2, <4>1, <4>2, <4>3 DEF LockRight, WaitersRight, n
    <3>3. i = n + 1 \/ i \in 1..n  BY <1>2
    <3>4. QED  BY <3>1, <3>2, <3>3
  <2>2. QED  BY <1>4, <2>1 DEF WaitersRight
<1>9. ASSUME NEW d \in Client PROVE HoldsRight(d)'
  <2>1. HoldsRight(d) /\ DOMAIN waiting' = 1..(n + 1)
        /\ DOMAIN waiting = 1..n
    BY <1>2, <1>4 DEF LockRight, n
  <2>2. Queued(c)'
    BY <1>1, <1>2, <1>4, <2>1 DEF Queued
  <2>3. Queued(d) => Queued(d)'
    BY <1>2, <1>4, <2>1 DEF Queued
  <2>4. d # c => pc'[d] = pc[d]  BY DEF LockTyped, Goto
  <2>5. QED  BY <2>1, <2>2, <2>3, <2>4 DEF HoldsRight
<1>10. QED  BY <1>5, <1>8, <1>9 DEF LockRight

\* The head of the queue gets its guard.
LEMMA LockEnters ==
    ASSUME LockTyped, LockRight, NEW c \in Client, Enter(c)
    PROVE  LockTyped' /\ LockRight'
<1> DEFINE n == Len(waiting)
<1>1. n \in Nat /\ waiting \in Seq(Waits) /\ n > 0 /\ waiting # <<>>
  BY WaitFacts DEF LockTyped, Enter
<1>2. Head(waiting) = waiting[1] /\ 1 \in 1..n  BY <1>1
<1> HIDE DEF n
<1>3. /\ waiting' \in Seq(Waits) /\ Len(waiting') = n - 1
      /\ \A i \in 1..(n - 1) : waiting'[i] = waiting[i + 1]
  BY <1>1, HeadTailProperties DEF Enter, n
<1>4. /\ waiting[1].who = c /\ writer = None /\ pc' = pc
      /\ \/ /\ waiting[1].mode = "w" /\ readers = {} /\ writer' = c
            /\ readers' = readers
         \/ /\ waiting[1].mode = "r" /\ writer' = writer
            /\ readers' = readers \cup {c}
  BY <1>1, <1>2, WaitFacts DEF Enter, MayEnter, LockTyped, n
<1>5. LockTyped'  BY <1>3, <1>4, NoneAssumption DEF LockTyped, Owner
<1>6. /\ pc[c] \in Operations /\ waiting[1].mode = Mode(pc[c])
      /\ \A j \in 1..n : waiting[j].who = c => 1 = j
  BY <1>2, <1>4 DEF LockRight, WaitersRight, n
<1>7. WaitersRight'
  <2>1. ASSUME NEW i \in 1..(n - 1)
        PROVE  LET d == waiting'[i].who
               IN  /\ pc'[d] \in Operations /\ waiting'[i].mode = Mode(pc'[d])
                   /\ d \notin readers' /\ writer' # d
                   /\ \A j \in 1..(n - 1) : waiting'[j].who = d => i = j
    <3>1. i + 1 \in 1..n /\ i + 1 # 1 /\ waiting'[i] = waiting[i + 1]
      BY <1>1, <1>3
    <3>2. waiting[i + 1].who # c  BY <1>6, <3>1
    <3>3. \A j \in 1..(n - 1) : waiting'[j].who = waiting[i + 1].who => i = j
      <4>1. TAKE j \in 1..(n - 1)
      <4>2. j + 1 \in 1..n /\ waiting'[j] = waiting[j + 1]  BY <1>1, <1>3
      <4>3. waiting[j + 1].who = waiting[i + 1].who => i + 1 = j + 1
        BY <3>1, <4>2 DEF LockRight, WaitersRight, n
      <4>4. QED  BY <4>2, <4>3
    <3>4. QED
      BY <1>4, <3>1, <3>2, <3>3 DEF LockRight, WaitersRight, n
  <2>2. QED  BY <1>3, <2>1 DEF WaitersRight
<1>8. ASSUME NEW d \in Client PROVE HoldsRight(d)'
  <2>1. HoldsRight(d) /\ d # None  BY NoneAssumption DEF LockRight, Owner
  <2>2. CASE d = c
    <3>1. HoldsRight(c)  BY <2>1, <2>2
    <3>2. QED
      BY <1>4, <1>6, <2>1, <2>2, <3>1
         DEF HoldsRight, Mode, Operations, Writing, LockTyped
  <2>3. CASE d # c
    <3>1. Queued(d) => Queued(d)'
      <4>1. SUFFICES ASSUME NEW i \in 1..n, waiting[i].who = d
                     PROVE  \E j \in DOMAIN waiting' : waiting'[j].who = d
        BY <1>1 DEF Queued, n
      <4>2. i # 1  BY <1>4, <2>3, <4>1
      <4>3. i - 1 \in 1..(n - 1) /\ (i - 1) + 1 = i  BY <1>1, <4>2
      <4>4. QED  BY <1>3, <4>1, <4>3
    <3>2. QED  BY <1>4, <2>1, <2>3, <3>1 DEF HoldsRight
  <2>4. QED  BY <2>2, <2>3
<1>9. QED  BY <1>5, <1>7, <1>8 DEF LockRight

\* A client that gives up waiting is idle and not in the queue.
LEMMA LockGivesUp ==
    ASSUME LockTyped, LockRight, NEW c \in Client, GiveUp(c)
    PROVE  LockTyped' /\ LockRight'
<1> DEFINE n == Len(waiting)
<1>1. n \in Nat /\ waiting \in Seq(Waits) /\ DOMAIN waiting = 1..n
  BY WaitFacts DEF LockTyped
<1>2. PICK k \in 1..n :
        waiting[k].who = c /\ waiting' = RemoveAt(waiting, k)
  BY <1>1 DEF GiveUp
<1> HIDE DEF n
<1>3. /\ waiting' \in Seq(Waits) /\ Len(waiting') = n - 1
      /\ \A j \in 1..(n - 1) :
            waiting'[j] = IF j < k THEN waiting[j] ELSE waiting[j + 1]
  BY <1>1, <1>2, RemoveAtProperties DEF n
<1>4. pc'[c] = "idle" /\ UNCHANGED <<readers, writer>> /\ Goto(c, "idle")
  BY DEF GiveUp, Goto, LockTyped
<1>5. LockTyped'  BY <1>3, <1>4 DEF LockTyped, Goto, Label
<1>6. /\ c \notin readers /\ writer # c
      /\ \A j \in 1..n : waiting[j].who = c => k = j
  BY <1>2 DEF LockRight, WaitersRight, n
<1> DEFINE old(j) == IF j < k THEN j ELSE j + 1
<1>7. \A j \in 1..(n - 1) :
        /\ old(j) \in 1..n /\ old(j) # k /\ waiting'[j] = waiting[old(j)]
        /\ \A i \in 1..(n - 1) : old(i) = old(j) => i = j
  BY <1>1, <1>2, <1>3
<1> HIDE DEF old
<1>8. WaitersRight'
  <2>1. ASSUME NEW i \in 1..(n - 1)
        PROVE  LET d == waiting'[i].who
               IN  /\ pc'[d] \in Operations /\ waiting'[i].mode = Mode(pc'[d])
                   /\ d \notin readers' /\ writer' # d
                   /\ \A j \in 1..(n - 1) : waiting'[j].who = d => i = j
    <3>1. /\ old(i) \in 1..n /\ waiting'[i] = waiting[old(i)]
          /\ waiting[old(i)].who # c
      BY <1>6, <1>7
    <3>2. waiting[old(i)].who \in Client
      BY <3>1, WaitFacts DEF LockTyped, n
    <3>3. pc'[waiting[old(i)].who] = pc[waiting[old(i)].who]
      BY <1>4, <3>1, <3>2 DEF LockTyped, Goto
    <3>4. \A j \in 1..(n - 1) :
            waiting'[j].who = waiting[old(i)].who => i = j
      BY <1>7, <3>1 DEF LockRight, WaitersRight, n
    <3>5. QED
      BY <1>4, <3>1, <3>3, <3>4 DEF LockRight, WaitersRight, n
  <2>2. QED  BY <1>3, <2>1 DEF WaitersRight
<1>9. ASSUME NEW d \in Client PROVE HoldsRight(d)'
  <2>1. HoldsRight(d)  BY DEF LockRight
  <2>2. CASE d = c  BY <1>4, <1>6, <2>2 DEF HoldsRight
  <2>3. CASE d # c
    <3>1. Queued(d) => Queued(d)'
      <4>1. SUFFICES ASSUME NEW i \in 1..n, waiting[i].who = d
                     PROVE  \E j \in DOMAIN waiting' : waiting'[j].who = d
        BY <1>1 DEF Queued
      <4>2. i # k  BY <1>2, <2>3, <4>1
      <4>3. CASE i < k
        <5>1. i \in 1..(n - 1) /\ waiting'[i] = waiting[i]
          BY <1>1, <1>2, <1>3, <4>3
        <5>2. QED  BY <1>3, <4>1, <5>1
      <4>4. CASE i > k
        <5>1. i - 1 \in 1..(n - 1) /\ waiting'[i - 1] = waiting[(i - 1) + 1]
          BY <1>1, <1>2, <1>3, <4>4
        <5>2. QED  BY <1>3, <4>1, <5>1
      <4>5. QED  BY <1>2, <4>2, <4>3, <4>4
    <3>2. pc'[d] = pc[d]  BY <1>4, <2>3 DEF LockTyped, Goto
    <3>3. QED  BY <1>4, <2>1, <3>1, <3>2 DEF HoldsRight
  <2>4. QED  BY <2>2, <2>3
<1>10. QED  BY <1>5, <1>8, <1>9 DEF LockRight

-----------------------------------------------------------------------------
(* What the flows' part of the invariant needs of a step *)

Starting == {"store", "init"}

\* Only one client is past run_flow's queue.
LEMMA OneWriter ==
    ASSUME LockTyped, LockRight, NEW c \in Client, NEW d \in Client,
           pc[c] \in Writing, ~Queued(c), pc[d] \in Starting
    PROVE  d = c
<1>1. ~Queued(d)  BY NotQueued DEF Starting, Operations
<1>2. HoldsRight(c) /\ HoldsRight(d)  BY DEF LockRight
<1>3. QED  BY <1>1, <1>2 DEF HoldsRight, Writing, Starting

\* Nothing changes for the flows but where clients are, and none of them is
\* now in the middle of a start, or of a stop that was not noted.
LEMMA FlowAside ==
    ASSUME FlowRight, UNCHANGED <<flow, at>>, stopped => stopped',
           \A d \in Client :
                \/ pc'[d] = pc[d]
                \/ pc'[d] \notin Starting /\ (pc'[d] \in Stopping => stopped')
    PROVE  FlowRight'
<1>1. RunsRight'  BY DEF FlowRight, RunsRight, flow
<1>2. ASSUME NEW d \in Client PROVE StartRight(d)'
  BY DEF FlowRight, StartRight, flow, Starting
<1>3. OneRun'
  BY DEF FlowRight, OneRun, flow, Starting, Live, Stopping
<1>4. QED  BY <1>1, <1>2, <1>3 DEF FlowRight

\* After a stop the progress may be marked.
LEMMA FlowMarks ==
    ASSUME FlowTyped, FlowRight, MarkCancelled, stopped', at' = at,
           \A d \in Client : pc'[d] = pc[d] \/ pc'[d] \notin Starting
    PROVE  FlowTyped' /\ FlowRight'
<1>1. FlowTyped' /\ progress' # "Running"
  BY DEF FlowTyped, MarkCancelled
<1>2. RunsRight'  BY <1>1 DEF FlowRight, RunsRight, MarkCancelled
<1>3. ASSUME NEW d \in Client PROVE StartRight(d)'
  BY <1>1 DEF FlowRight, StartRight, MarkCancelled, Starting
<1>4. QED  BY <1>2, <1>3, <1>1 DEF FlowRight, OneRun

\* What the task of a run writes about itself.
LEMMA PutTyped ==
    ASSUME RunTyped, NEW r \in Run, NEW l \in Place, NEW n \in 0..Retries,
           Put(r, l, n)
    PROVE  /\ RunTyped'
           /\ at'[r] = l
           /\ \A q \in Run : q # r => at'[q] = at[q]
BY DEF RunTyped, Put

\* A run that has not reported goes on to another place before its report.
LEMMA FlowGoesOn ==
    ASSUME FlowTyped, RunTyped, FlowRight, NEW r \in Run,
           at[r] \in Unreported, at'[r] \in Unreported,
           \A q \in Run : q # r => at'[q] = at[q],
           UNCHANGED <<flow, pc, stopped>>
    PROVE  FlowTyped' /\ FlowRight'
<1> USE DEF flow
<1>1. FlowTyped'  BY DEF FlowTyped
<1>2. RunsRight'
  <2>1. r <= started  BY DEF FlowRight, RunsRight, FlowTyped, Unreported, Run
  <2>2. \A q \in Run : q > started => at'[q] = "none"
    BY <2>1 DEF FlowRight, RunsRight, FlowTyped, Run
  <2>3. \A q \in Run : at'[q] = "clear" <=> progressLock' = q
    BY DEF FlowRight, RunsRight, Unreported
  <2>4. progress' = "Running" => started' > 0 /\ at'[started'] \in Unreported
    <3>1. started > 0 => started \in Run  BY DEF FlowTyped, Run
    <3>2. QED  BY <3>1 DEF FlowRight, RunsRight
  <2>5. QED  BY <2>2, <2>3, <2>4 DEF RunsRight
<1>3. ASSUME NEW d \in Client PROVE StartRight(d)'
  <2>1. StartRight(d)  BY DEF FlowRight
  <2>2. started > 0 => started \in Run  BY DEF FlowTyped, Run
  <2>3. QED  BY <2>1, <2>2 DEF StartRight, Unreported
<1>4. OneRun'
  <2>1. \A q \in Run : /\ Live(q)' <=> Live(q)
                       /\ at'[q] \in Unreported <=> at[q] \in Unreported
    BY DEF Live, Unreported
  <2>2. QED  BY <2>1 DEF FlowRight, OneRun
<1>5. QED  BY <1>1, <1>2, <1>3, <1>4 DEF FlowRight

-----------------------------------------------------------------------------
(* The script slot, and what a cancel does to it *)

\* Every step leaves the slot with an owner or none.
LEMMA SlotKeeps ==
    ASSUME SlotTyped, NEW o \in Owner,
           Start(o) \/ End(o) \/ StopScript \/ UNCHANGED runtime
    PROVE  SlotTyped'
<1>1. CASE Start(o)  BY <1>1 DEF SlotTyped, Start
<1>2. CASE End(o)  BY <1>2 DEF SlotTyped, End
<1>3. CASE StopScript  BY <1>3 DEF SlotTyped, StopScript
<1>4. CASE UNCHANGED runtime  BY <1>4 DEF SlotTyped, runtime
<1>5. QED  BY <1>1, <1>2, <1>3, <1>4

-----------------------------------------------------------------------------
(* Each action keeps the invariant. *)

\* A client asks for the engine.
LEMMA AskKeeps ==
    ASSUME EngineInv, NEW c \in Client, Ask(c)
    PROVE  EngineInv'
<1> USE DEF EngineInv
<1>1. PICK op \in Operations :
        /\ Goto(c, op)
        /\ waiting' = Append(waiting, [who |-> c, mode |-> Mode(op)])
  BY DEF Ask
<1>2. pc[c] = "idle" /\ pc[c] \notin Operations
      /\ UNCHANGED <<readers, writer, runtime, flow, runs>>
  BY DEF Ask, Operations
<1>3. ~Queued(c)  BY <1>2, NotQueued
<1>4. c \notin readers /\ writer # c
  BY <1>2 DEF LockRight, HoldsRight, Writing
<1>5. readers' = readers \ {c} /\ writer' = writer  BY <1>2, <1>4
<1>6. LockTyped' /\ LockRight'  BY <1>1, <1>3, <1>4, <1>5, LockQueues
<1>7. SlotTyped' /\ FlowTyped' /\ RunTyped'
  BY <1>2 DEF SlotTyped, FlowTyped, RunTyped, runtime, flow, runs
<1>8. \A d \in Client : pc'[d] = pc[d] \/ pc'[d] = op
  BY <1>1 DEF Goto, LockTyped
<1>9. op \notin Starting /\ op \notin Stopping
  BY DEF Operations, Starting, Stopping
<1>10. FlowRight'
  BY <1>2, <1>8, <1>9, FlowAside DEF flow, runs, runtime
<1>11. QED  BY <1>6, <1>7, <1>10

\* The head of the queue gets its guard.
LEMMA EnterKeeps ==
    ASSUME EngineInv, NEW c \in Client, Enter(c)
    PROVE  EngineInv'
<1> USE DEF EngineInv
<1>1. LockTyped' /\ LockRight'  BY LockEnters
<1>2. UNCHANGED <<pc, runtime, flow, runs>>  BY DEF Enter
<1>3. SlotTyped' /\ FlowTyped' /\ RunTyped'
  BY <1>2 DEF SlotTyped, FlowTyped, RunTyped, runtime, flow, runs
<1>4. FlowRight'  BY <1>2, FlowAside DEF flow, runs, runtime
<1>5. QED  BY <1>1, <1>3, <1>4

\* A client gives up.
LEMMA GiveUpKeeps ==
    ASSUME EngineInv, NEW c \in Client, GiveUp(c)
    PROVE  EngineInv'
<1> USE DEF EngineInv
<1>1. LockTyped' /\ LockRight'  BY LockGivesUp
<1>2. Goto(c, "idle") /\ UNCHANGED <<runtime, flow, runs>>  BY DEF GiveUp
<1>3. SlotTyped' /\ FlowTyped' /\ RunTyped'
  BY <1>2 DEF SlotTyped, FlowTyped, RunTyped, runtime, flow, runs
<1>4. \A d \in Client : pc'[d] = pc[d] \/ pc'[d] = "idle"
  BY <1>2 DEF Goto, LockTyped
<1>5. FlowRight'
  BY <1>2, <1>4, FlowAside DEF flow, runs, runtime, Starting, Stopping
<1>6. QED  BY <1>1, <1>3, <1>5

\* Where the clients are after one of them has gone to l.
LEMMA GotoFacts ==
    ASSUME LockTyped, NEW c \in Client, NEW l, Goto(c, l)
    PROVE  \A d \in Client : pc'[d] = IF d = c THEN l ELSE pc[d]
BY DEF LockTyped, Goto

\* A client starts a script, or finds that it cannot.
LEMMA ScriptStartKeeps ==
    ASSUME EngineInv, NEW c \in Client, ScriptStart(c)
    PROVE  EngineInv'
<1> USE DEF EngineInv
<1>1. /\ pc[c] = "script" /\ ~Queued(c) /\ UNCHANGED <<flow, runs>>
      /\ stopped' = stopped
  BY DEF ScriptStart, In, Start, runtime
<1>2. CASE Start(c) /\ Goto(c, "running") /\ UNCHANGED lock
  <2>1. LockTyped' /\ LockRight'
    BY <1>1, <1>2, LockMoves DEF Label, Writing
  <2>2. SlotTyped'  BY <1>2, SlotKeeps DEF Owner
  <2>3. FlowRight'
    BY <1>1, <1>2, GotoFacts, FlowAside DEF flow, runs, Starting, Stopping
  <2>4. QED
    BY <1>1, <2>1, <2>2, <2>3 DEF FlowTyped, RunTyped, flow, runs
<1>3. CASE Leave(c) /\ UNCHANGED runtime
  <2>1. LockTyped' /\ LockRight'  BY <1>1, <1>3, LockLeaves
  <2>2. SlotTyped'  BY <1>3 DEF SlotTyped, runtime
  <2>3. Goto(c, "idle")  BY <1>3 DEF Leave
  <2>4. FlowRight'
    BY <1>1, <2>3, GotoFacts, FlowAside DEF flow, runs, Starting, Stopping
  <2>5. QED
    BY <1>1, <2>1, <2>2, <2>4 DEF FlowTyped, RunTyped, flow, runs
<1>4. QED  BY <1>2, <1>3 DEF ScriptStart

\* A client that stops a script is the first of every stop: it goes to l.
LEMMA StopKeeps ==
    ASSUME EngineInv, NEW c \in Client, ~Queued(c), StopScript,
           UNCHANGED <<flow, runs>>, LockTyped', LockRight',
           NEW l, Goto(c, l), l \notin Starting
    PROVE  EngineInv'
<1> USE DEF EngineInv
<1>1. stopped'  BY DEF StopScript
<1>2. PICK o \in Owner : TRUE  BY DEF Owner
<1>3. SlotTyped'  BY <1>2, SlotKeeps
<1>4. FlowTyped' /\ RunTyped'
  BY DEF FlowTyped, RunTyped, flow, runs
<1>5. FlowRight'
  BY <1>1, GotoFacts, FlowAside DEF flow, runs
<1>6. QED  BY <1>3, <1>4, <1>5

\* A stop of the script alone.
LEMMA StopTaskKeeps ==
    ASSUME EngineInv, NEW c \in Client, StopTask(c)
    PROVE  EngineInv'
<1>1. /\ ~Queued(c) /\ StopScript /\ Leave(c) /\ UNCHANGED <<flow, runs>>
      /\ Goto(c, "idle")
  BY DEF StopTask, In, Leave
<1>2. LockTyped' /\ LockRight'  BY <1>1, LockLeaves DEF EngineInv
<1>3. QED  BY <1>1, <1>2, StopKeeps DEF Starting

\* The first step of stop_all.
LEMMA StopAllScriptKeeps ==
    ASSUME EngineInv, NEW c \in Client, StopAllScript(c)
    PROVE  EngineInv'
<1>1. /\ ~Queued(c) /\ StopScript /\ Goto(c, "allProgress") /\ UNCHANGED lock
      /\ UNCHANGED <<flow, runs>> /\ pc[c] = "stopAll"
  BY DEF StopAllScript, In
<1>2. LockTyped' /\ LockRight'
  BY <1>1, LockMoves DEF EngineInv, Label, Writing
<1>3. QED  BY <1>1, <1>2, StopKeeps DEF Starting

\* The first step of stop_flow.
LEMMA StopFlowScriptKeeps ==
    ASSUME EngineInv, NEW c \in Client, StopFlowScript(c)
    PROVE  EngineInv'
<1>1. /\ ~Queued(c) /\ StopScript /\ Goto(c, "flowExecutor") /\ UNCHANGED lock
      /\ UNCHANGED <<flow, runs>> /\ pc[c] = "stopFlow"
  BY DEF StopFlowScript, In
<1>2. LockTyped' /\ LockRight'
  BY <1>1, LockMoves DEF EngineInv, Label, Writing
<1>3. QED  BY <1>1, <1>2, StopKeeps DEF Starting

\* A client in the middle of a stop is not in the queue, and the stop is
\* noted.
LEMMA InAStop ==
    ASSUME EngineInv, NEW c \in Client, pc[c] \in Stopping
    PROVE  ~Queued(c) /\ stopped /\ pc[c] \notin Writing /\ pc[c] # "idle"
<1>1. ~Queued(c)  BY NotQueued DEF EngineInv, Stopping, Operations
<1>2. stopped  BY DEF EngineInv, FlowRight, OneRun
<1>3. QED  BY <1>1, <1>2 DEF Stopping, Writing

\* The executor's flag is set.
LEMMA CancelTyped ==
    ASSUME RunTyped, CancelExecutor
    PROVE  RunTyped' /\ at' = at
BY DEF RunTyped, CancelExecutor

\* The progress is marked in stop_all.
LEMMA StopAllProgressKeeps ==
    ASSUME EngineInv, NEW c \in Client, StopAllProgress(c)
    PROVE  EngineInv'
<1> USE DEF EngineInv
<1>1. /\ pc[c] = "allProgress" /\ MarkCancelled /\ Goto(c, "allExecutor")
      /\ UNCHANGED <<lock, runtime, runs>>
  BY DEF StopAllProgress
<1>2. ~Queued(c) /\ stopped  BY <1>1, InAStop DEF Stopping
<1>3. LockTyped' /\ LockRight'  BY <1>1, <1>2, LockMoves DEF Label, Writing
<1>4. SlotTyped' /\ RunTyped' /\ stopped' /\ at' = at
  BY <1>1, <1>2 DEF SlotTyped, RunTyped, runtime, runs
<1>5. FlowTyped' /\ FlowRight'
  BY <1>1, <1>4, GotoFacts, FlowMarks DEF Starting
<1>6. QED  BY <1>3, <1>4, <1>5

\* The progress is marked in stop_flow.
LEMMA StopFlowProgressKeeps ==
    ASSUME EngineInv, NEW c \in Client, StopFlowProgress(c)
    PROVE  EngineInv'
<1> USE DEF EngineInv
<1>1. /\ pc[c] = "flowProgress" /\ MarkCancelled /\ Leave(c) /\ Goto(c, "idle")
      /\ UNCHANGED <<runtime, runs>>
  BY DEF StopFlowProgress, Leave
<1>2. ~Queued(c) /\ stopped  BY <1>1, InAStop DEF Stopping
<1>3. LockTyped' /\ LockRight'  BY <1>1, <1>2, LockLeaves
<1>4. SlotTyped' /\ RunTyped' /\ stopped' /\ at' = at
  BY <1>1, <1>2 DEF SlotTyped, RunTyped, runtime, runs
<1>5. FlowTyped' /\ FlowRight'
  BY <1>1, <1>4, GotoFacts, FlowMarks DEF Starting
<1>6. QED  BY <1>3, <1>4, <1>5

\* The executor is cancelled in stop_all.
LEMMA StopAllExecutorKeeps ==
    ASSUME EngineInv, NEW c \in Client, StopAllExecutor(c)
    PROVE  EngineInv'
<1> USE DEF EngineInv
<1>1. /\ pc[c] = "allExecutor" /\ CancelExecutor /\ Leave(c) /\ Goto(c, "idle")
      /\ UNCHANGED <<runtime, flow>>
  BY DEF StopAllExecutor, Leave
<1>2. ~Queued(c) /\ stopped  BY <1>1, InAStop DEF Stopping
<1>3. LockTyped' /\ LockRight'  BY <1>1, <1>2, LockLeaves
<1>4. SlotTyped' /\ FlowTyped' /\ stopped'
  BY <1>1, <1>2 DEF SlotTyped, FlowTyped, runtime, flow
<1>5. RunTyped' /\ at' = at  BY <1>1, CancelTyped
<1>6. FlowRight'
  BY <1>1, <1>4, <1>5, GotoFacts, FlowAside DEF Starting
<1>7. QED  BY <1>3, <1>4, <1>5, <1>6

\* The executor is cancelled in stop_flow.
LEMMA StopFlowExecutorKeeps ==
    ASSUME EngineInv, NEW c \in Client, StopFlowExecutor(c)
    PROVE  EngineInv'
<1> USE DEF EngineInv
<1>1. /\ pc[c] = "flowExecutor" /\ CancelExecutor /\ Goto(c, "flowProgress")
      /\ UNCHANGED <<lock, runtime, flow>>
  BY DEF StopFlowExecutor
<1>2. ~Queued(c) /\ stopped  BY <1>1, InAStop DEF Stopping
<1>3. LockTyped' /\ LockRight'  BY <1>1, <1>2, LockMoves DEF Label, Writing
<1>4. SlotTyped' /\ FlowTyped' /\ stopped'
  BY <1>1, <1>2 DEF SlotTyped, FlowTyped, runtime, flow
<1>5. RunTyped' /\ at' = at  BY <1>1, CancelTyped
<1>6. FlowRight'
  BY <1>1, <1>4, <1>5, GotoFacts, FlowAside DEF Starting
<1>7. QED  BY <1>3, <1>4, <1>5, <1>6

\* A task group's hotkey goes on to stop_flow, or to run_flow's queue.
LEMMA ToggleKeeps ==
    ASSUME EngineInv, NEW c \in Client, Toggle(c)
    PROVE  EngineInv'
<1> USE DEF EngineInv
<1>1. /\ pc[c] = "toggle" /\ ~Queued(c) /\ UNCHANGED <<runtime, flow, runs>>
  BY DEF Toggle, In
<1>2. SlotTyped' /\ FlowTyped' /\ RunTyped'
  BY <1>1 DEF SlotTyped, FlowTyped, RunTyped, runtime, flow, runs
<1>3. CASE Goto(c, "stopFlow") /\ UNCHANGED lock
  <2>1. LockTyped' /\ LockRight'
    BY <1>1, <1>3, LockMoves DEF Label, Operations, Writing
  <2>2. FlowRight'
    BY <1>1, <1>3, GotoFacts, FlowAside
       DEF flow, runs, runtime, Starting, Stopping
  <2>3. QED  BY <1>2, <2>1, <2>2
<1>4. CASE /\ readers' = DropGuard(c)
           /\ waiting' = Append(waiting, [who |-> c, mode |-> "w"])
           /\ Goto(c, "flow") /\ UNCHANGED writer
  <2>1. writer # c  BY <1>1 DEF LockRight, HoldsRight, Writing
  <2>2. "flow" \in Operations /\ Mode("flow") = "w"  BY DEF Operations, Mode
  <2>3. LockTyped' /\ LockRight'
    BY <1>1, <1>4, <2>1, <2>2, LockQueues DEF DropGuard
  <2>4. FlowRight'
    BY <1>1, <1>4, GotoFacts, FlowAside
       DEF flow, runs, runtime, Starting, Stopping
  <2>5. QED  BY <1>2, <2>3, <2>4
<1>5. QED  BY <1>3, <1>4 DEF Toggle

\* run_flow finds that it may start a flow, or leaves.
LEMMA FlowCheckKeeps ==
    ASSUME EngineInv, NEW c \in Client, FlowCheck(c)
    PROVE  EngineInv'
<1> USE DEF EngineInv
<1>1. /\ pc[c] = "flow" /\ ~Queued(c) /\ UNCHANGED <<runtime, flow, runs>>
  BY DEF FlowCheck, In
<1>2. SlotTyped' /\ FlowTyped' /\ RunTyped'
  BY <1>1 DEF SlotTyped, FlowTyped, RunTyped, runtime, flow, runs
<1>3. CASE MayStart /\ started < MaxRuns /\ Goto(c, "store") /\ UNCHANGED lock
  <2>1. LockTyped' /\ LockRight'
    BY <1>1, <1>3, LockMoves DEF Label, Writing
  <2>2. \A d \in Client : pc'[d] = IF d = c THEN "store" ELSE pc[d]
    BY <1>3, GotoFacts
  <2>3. \A d \in Client : pc[d] \notin Starting
    <3>1. pc[c] \in Writing /\ pc[c] \notin Starting
      BY <1>1 DEF Writing, Starting
    <3>2. QED  BY <1>1, <3>1, OneWriter
  <2>4. RunsRight'  BY <1>1 DEF FlowRight, RunsRight, flow, runs
  <2>5. progress # "Running" /\ progressLock = None  BY <1>3 DEF MayStart
  <2>6. ASSUME NEW d \in Client PROVE StartRight(d)'
    BY <1>1, <1>3, <2>2, <2>3, <2>5 DEF StartRight, flow, Starting
  <2>7. OneRun'
    <3>1. SUFFICES ASSUME ~stopped PROVE OneRun'
      BY <1>1 DEF OneRun, runtime
    <3>2. ASSUME NEW r \in Run PROVE ~Live(r)
      <4>1. at[r] \notin Unreported
        BY <2>5, <3>1 DEF FlowRight, OneRun
      <4>2. at[r] # "clear"
        BY <2>5, NoneAssumption DEF FlowRight, RunsRight, Owner
      <4>3. QED
        BY <4>1, <4>2 DEF RunTyped, Place, Unreported, Live
    <3>3. QED
      BY <1>1, <2>2, <2>3, <3>1, <3>2
         DEF FlowRight, OneRun, Live, flow, runs, Starting, Stopping, Unreported
  <2>8. QED  BY <1>2, <2>1, <2>4, <2>6, <2>7 DEF FlowRight
<1>4. CASE Leave(c)
  <2>1. LockTyped' /\ LockRight'  BY <1>1, <1>4, LockLeaves
  <2>2. Goto(c, "idle")  BY <1>4 DEF Leave
  <2>3. FlowRight'
    BY <1>1, <2>2, GotoFacts, FlowAside
       DEF flow, runs, runtime, Starting, Stopping
  <2>4. QED  BY <1>2, <2>1, <2>3
<1>5. QED  BY <1>1, <1>3, <1>4 DEF FlowCheck

\* run_flow stores the executor of the flow that it starts.
LEMMA FlowStoreKeeps ==
    ASSUME EngineInv, NEW c \in Client, FlowStore(c)
    PROVE  EngineInv'
<1> USE DEF EngineInv
<1>1. /\ pc[c] = "store" /\ started' = started + 1 /\ executor' = started + 1
      /\ Goto(c, "init") /\ UNCHANGED lock
      /\ UNCHANGED <<runtime, progress, progressLock, runs>>
  BY DEF FlowStore
<1>2. ~Queued(c)  BY <1>1, NotQueued DEF Operations
<1>3. LockTyped' /\ LockRight'  BY <1>1, <1>2, LockMoves DEF Label, Writing
<1>4. StartRight(c)  BY DEF FlowRight
<1>5. started \in Nat /\ started + 1 \in Run
  BY <1>1, <1>4, BoundAssumption DEF FlowTyped, StartRight, Run
<1>6. SlotTyped' /\ RunTyped'
  BY <1>1 DEF SlotTyped, RunTyped, runtime, runs
<1>7. FlowTyped'  BY <1>1, <1>5, BoundAssumption DEF FlowTyped, Run
<1>8. \A d \in Client : pc'[d] = IF d = c THEN "init" ELSE pc[d]
  BY <1>1, GotoFacts
<1>9. \A d \in Client : d # c => pc[d] \notin Starting
  BY <1>1, <1>2, OneWriter DEF Writing
<1>10. progress # "Running" /\ at[started + 1] = "none"
  BY <1>1, <1>4, <1>5 DEF StartRight, FlowRight, RunsRight
<1>11. RunsRight'
  BY <1>1, <1>5, <1>10 DEF FlowRight, RunsRight, runs, Run
<1>12. ASSUME NEW d \in Client PROVE StartRight(d)'
  BY <1>1, <1>5, <1>8, <1>9, <1>10 DEF StartRight, runs, Starting
<1>13. OneRun'
  <2>1. SUFFICES ASSUME ~stopped PROVE OneRun'
    BY <1>1 DEF OneRun, runtime
  <2>2. \A r \in Run : ~Live(r)
    BY <1>1, <2>1 DEF FlowRight, OneRun
  <2>3. \A d \in Client : pc[d] \notin Stopping
    BY <2>1 DEF FlowRight, OneRun
  <2>4. QED
    BY <1>1, <1>8, <2>2, <2>3
       DEF OneRun, Live, runs, Stopping, Unreported
<1>14. QED
  BY <1>3, <1>6, <1>7, <1>11, <1>12, <1>13 DEF FlowRight

\* run_flow shows the progress and spawns the run.
LEMMA FlowInitKeeps ==
    ASSUME EngineInv, NEW c \in Client, FlowInit(c)
    PROVE  EngineInv'
<1> USE DEF EngineInv
<1>1. /\ pc[c] = "init" /\ progressLock = None /\ progress' = "Running"
      /\ at' = [at EXCEPT ![started] = "loop"] /\ Leave(c) /\ Goto(c, "idle")
      /\ UNCHANGED <<runtime, executor, progressLock, started>>
      /\ UNCHANGED <<tries, cancelled>>
  BY DEF FlowInit, Leave
<1>2. ~Queued(c)  BY <1>1, NotQueued DEF Operations
<1>3. LockTyped' /\ LockRight'  BY <1>1, <1>2, LockLeaves
<1>4. StartRight(c)  BY DEF FlowRight
<1>5. started \in Run /\ started > 0 /\ at[started] = "none"
  BY <1>1, <1>4 DEF FlowTyped, StartRight, Run
<1>6. SlotTyped' /\ FlowTyped'
  BY <1>1 DEF SlotTyped, FlowTyped, runtime
<1>7. RunTyped'  BY <1>1 DEF RunTyped, Place
<1>8. /\ at'[started] = "loop"
      /\ \A q \in Run : q # started => at'[q] = at[q]
  BY <1>1, <1>5 DEF RunTyped
<1>9. \A d \in Client : pc'[d] = IF d = c THEN "idle" ELSE pc[d]
  BY <1>1, GotoFacts
<1>10. \A d \in Client : d # c => pc[d] \notin Starting
  BY <1>1, <1>2, OneWriter DEF Writing
<1>11. RunsRight'
  <2>1. \A r \in Run : r > started' => at'[r] = "none"
    BY <1>1, <1>5, <1>8 DEF FlowRight, RunsRight, Run
  <2>2. \A r \in Run : at'[r] = "clear" <=> progressLock' = r
    BY <1>1, <1>5, <1>8, NoneAssumption DEF FlowRight, RunsRight, Owner
  <2>3. started' > 0 /\ at'[started'] \in Unreported
    BY <1>1, <1>5, <1>8 DEF Unreported
  <2>4. QED  BY <2>1, <2>2, <2>3 DEF RunsRight
<1>12. ASSUME NEW d \in Client PROVE StartRight(d)'
  BY <1>9, <1>10 DEF StartRight, Starting
<1>13. OneRun'
  <2>1. SUFFICES ASSUME ~stopped PROVE OneRun'
    BY <1>1 DEF OneRun, runtime
  <2>2. \A r \in Run : ~Live(r)
    BY <1>1, <2>1 DEF FlowRight, OneRun
  <2>3. executor = started /\ \A d \in Client : pc[d] \notin Stopping
    BY <1>1, <2>1 DEF FlowRight, OneRun
  <2>4. \A r \in Run : r # started => ~Live(r)'
    BY <1>8, <2>2 DEF Live
  <2>5. QED
    BY <1>1, <1>9, <1>10, <2>3, <2>4 DEF OneRun, Stopping, Starting
<1>14. QED
  BY <1>3, <1>6, <1>7, <1>11, <1>12, <1>13 DEF FlowRight

\* A run does something, or its script ends, before its report: where it may
\* go from there.
LEMMA RunGoesOn ==
    ASSUME EngineInv, NEW r \in Run, NEW l \in Unreported,
           NEW n \in 0..Retries, at[r] \in Unreported, Put(r, l, n),
           UNCHANGED <<lock, pc, flow, stopped>>, SlotTyped'
    PROVE  EngineInv'
<1> USE DEF EngineInv
<1>1. LockTyped' /\ LockRight'  BY LockStays
<1>2. l \in Place  BY DEF Unreported, Place
<1>3. /\ RunTyped' /\ at'[r] = l
      /\ \A q \in Run : q # r => at'[q] = at[q]
  BY <1>2, PutTyped
<1>4. FlowTyped' /\ FlowRight'  BY <1>3, FlowGoesOn
<1>5. QED  BY <1>1, <1>3, <1>4

\* An attempt at a step ends in a place before the report.
LEMMA AttemptedFacts ==
    ASSUME RunTyped, NEW r \in Run, Attempted(r)
    PROVE  \E l \in Unreported, n \in 0..Retries : Put(r, l, n)
<1>1. 0 \in 0..Retries /\ tries[r] \in 0..Retries
  BY BoundAssumption DEF RunTyped
<1>2. MayRetry(r) => tries[r] + 1 \in 0..Retries
  BY <1>1, BoundAssumption DEF MayRetry
<1>3. {"loop", "attempt", "Failed"} \subseteq Unreported  BY DEF Unreported
<1>4. QED  BY <1>1, <1>2, <1>3 DEF Attempted

\* What a run does before its report.
LEMMA RunWorksKeeps ==
    ASSUME EngineInv, NEW r \in Run,
           \/ LoopStep(r) \/ LoopEnds(r) \/ LoopCancelled(r)
           \/ StepEnds(r) \/ StepScript(r)
    PROVE  EngineInv'
<1>1. r \in Owner /\ 0 \in 0..Retries /\ tries[r] \in 0..Retries
  BY BoundAssumption DEF Owner, EngineInv, RunTyped
<1>2. SlotTyped' /\ UNCHANGED <<lock, pc, flow, stopped>>
  <2>1. Start(r) \/ UNCHANGED runtime
    BY DEF LoopStep, LoopEnds, LoopCancelled, StepEnds, StepScript
  <2>2. SlotTyped'  BY <1>1, <2>1, SlotKeeps DEF EngineInv
  <2>3. UNCHANGED stopped  BY <2>1 DEF Start, runtime
  <2>4. UNCHANGED <<lock, pc, flow>>
    BY DEF LoopStep, LoopEnds, LoopCancelled, StepEnds, StepScript
  <2>5. QED  BY <2>2, <2>3, <2>4
<1>3. at[r] \in Unreported
  BY DEF LoopStep, LoopEnds, LoopCancelled, StepEnds, StepScript, Unreported
<1>4. \E l \in Unreported, n \in 0..Retries : Put(r, l, n)
  <2>1. CASE LoopStep(r)  BY <1>1, <2>1 DEF LoopStep, Unreported
  <2>2. CASE LoopEnds(r)  BY <1>1, <2>2 DEF LoopEnds, Unreported
  <2>3. CASE LoopCancelled(r)  BY <1>1, <2>3 DEF LoopCancelled, Unreported
  <2>4. CASE StepEnds(r)
    BY <2>4, AttemptedFacts DEF StepEnds, EngineInv
  <2>5. CASE StepScript(r)  BY <1>1, <2>5 DEF StepScript, Unreported
  <2>6. QED  BY <2>1, <2>2, <2>3, <2>4, <2>5
<1>5. QED  BY <1>2, <1>3, <1>4, RunGoesOn

\* A run reports, and takes the progress until it has emptied the executor.
LEMMA ReportKeeps ==
    ASSUME EngineInv, NEW r \in Run, Report(r)
    PROVE  EngineInv'
<1> USE DEF EngineInv
<1>1. /\ at[r] \in {"Completed", "Failed"} /\ progressLock = None
      /\ progress' = at[r] /\ progressLock' = r /\ Put(r, "clear", 0)
      /\ UNCHANGED <<lock, pc, runtime, executor, started>>
  BY DEF Report, Outcome, Hold
<1>2. LockTyped' /\ LockRight' /\ SlotTyped'
  BY <1>1, LockStays DEF SlotTyped, runtime
<1>3. FlowTyped'  BY <1>1 DEF FlowTyped
<1>4. /\ RunTyped' /\ at'[r] = "clear"
      /\ \A q \in Run : q # r => at'[q] = at[q]
  BY <1>1, PutTyped, BoundAssumption DEF Place
<1>5. RunsRight'
  <2>1. r <= started /\ started \in Nat
    BY <1>1 DEF FlowRight, RunsRight, FlowTyped, Run
  <2>2. \A q \in Run : q > started' => at'[q] = "none"
    BY <1>1, <1>4, <2>1 DEF FlowRight, RunsRight, Run
  <2>3. \A q \in Run : at'[q] = "clear" <=> progressLock' = q
    BY <1>1, <1>4, NoneAssumption DEF FlowRight, RunsRight, Owner
  <2>4. progress' # "Running"  BY <1>1
  <2>5. QED  BY <2>2, <2>3, <2>4 DEF RunsRight
<1>6. ASSUME NEW d \in Client PROVE StartRight(d)'
  <2>1. StartRight(d)  BY DEF FlowRight
  <2>2. started > 0 => started \in Run  BY DEF FlowTyped, Run
  <2>3. QED  BY <1>1, <1>4, <2>1, <2>2 DEF StartRight
<1>7. OneRun'
  <2>1. SUFFICES ASSUME ~stopped PROVE OneRun'
    BY <1>1 DEF OneRun, runtime
  <2>2. Live(r)  BY <1>1 DEF Live
  <2>3. executor = r /\ \A q \in Run : q # r => ~Live(q)
    BY <2>1, <2>2 DEF FlowRight, OneRun
  <2>4. \A q \in Run : q # r => ~Live(q)' /\ at'[q] \notin Unreported
    BY <1>4, <2>3 DEF Live, Unreported
  <2>5. \A d \in Client : pc[d] \notin Starting \cup Stopping
    BY <2>1, <2>2 DEF FlowRight, OneRun, Starting
  <2>6. QED
    BY <1>1, <1>4, <2>3, <2>4, <2>5 DEF OneRun, Starting, Unreported
<1>8. QED  BY <1>2, <1>3, <1>4, <1>5, <1>6, <1>7 DEF FlowRight

\* A run that has reported empties the executor and lets the progress go.
LEMMA ClearKeeps ==
    ASSUME EngineInv, NEW r \in Run, Clear(r)
    PROVE  EngineInv'
<1> USE DEF EngineInv
<1>1. /\ at[r] = "clear" /\ executor' = None /\ progressLock' = None
      /\ Put(r, "done", 0)
      /\ UNCHANGED <<lock, pc, runtime, progress, started>>
  BY DEF Clear
<1>2. LockTyped' /\ LockRight' /\ SlotTyped'
  BY <1>1, LockStays DEF SlotTyped, runtime
<1>3. FlowTyped'  BY <1>1 DEF FlowTyped
<1>4. /\ RunTyped' /\ at'[r] = "done"
      /\ \A q \in Run : q # r => at'[q] = at[q]
  BY <1>1, PutTyped, BoundAssumption DEF Place
<1>5. RunsRight'
  <2>1. r <= started /\ started \in Nat
    BY <1>1 DEF FlowRight, RunsRight, FlowTyped, Run
  <2>2. \A q \in Run : q > started' => at'[q] = "none"
    BY <1>1, <1>4, <2>1 DEF FlowRight, RunsRight, Run
  <2>3. \A q \in Run : at'[q] = "clear" <=> progressLock' = q
    BY <1>1, <1>4, NoneAssumption DEF FlowRight, RunsRight, Owner
  <2>4. started > 0 => started \in Run  BY DEF FlowTyped, Run
  <2>5. progress' = "Running" => started' > 0 /\ at'[started'] \in Unreported
    BY <1>1, <1>4, <2>4 DEF FlowRight, RunsRight, Unreported
  <2>6. QED  BY <2>2, <2>3, <2>5 DEF RunsRight
<1>6. ASSUME NEW d \in Client PROVE StartRight(d)'
  <2>1. StartRight(d)  BY DEF FlowRight
  <2>2. started > 0 => started \in Run  BY DEF FlowTyped, Run
  <2>3. QED  BY <1>1, <1>4, <2>1, <2>2 DEF StartRight
<1>7. OneRun'
  <2>1. SUFFICES ASSUME ~stopped PROVE OneRun'
    BY <1>1 DEF OneRun, runtime
  <2>2. Live(r)  BY <1>1 DEF Live
  <2>3. \A q \in Run : q # r => ~Live(q)
    BY <2>1, <2>2 DEF FlowRight, OneRun
  <2>4. \A q \in Run : ~Live(q)' /\ at'[q] \notin Unreported
    BY <1>4, <2>3 DEF Live, Unreported
  <2>5. \A d \in Client : pc[d] \notin Starting \cup Stopping
    BY <2>1, <2>2 DEF FlowRight, OneRun, Starting
  <2>6. QED
    BY <1>1, <2>4, <2>5 DEF OneRun, Starting
<1>8. QED  BY <1>2, <1>3, <1>4, <1>5, <1>6, <1>7 DEF FlowRight

\* A client's script ends, or the one of a step.
LEMMA ScriptEndsKeeps ==
    ASSUME EngineInv, NEW o \in Owner, ScriptEnds(o)
    PROVE  EngineInv'
<1>1. SlotTyped' /\ UNCHANGED <<flow, stopped>>
  BY SlotKeeps DEF EngineInv, ScriptEnds, End
<1>2. CASE o \in Client /\ pc[o] = "running" /\ Leave(o) /\ UNCHANGED runs
  <2>1. ~Queued(o)  BY <1>2, NotQueued DEF EngineInv, Operations
  <2>2. LockTyped' /\ LockRight'  BY <1>2, <2>1, LockLeaves DEF EngineInv
  <2>3. FlowTyped' /\ RunTyped'
    BY <1>1, <1>2 DEF EngineInv, FlowTyped, RunTyped, flow, runs
  <2>4. Goto(o, "idle")  BY <1>2 DEF Leave
  <2>5. \A d \in Client : pc'[d] = pc[d] \/ pc'[d] = "idle"
    BY <1>2, <2>4, GotoFacts DEF EngineInv
  <2>6. FlowRight'
    BY <1>1, <1>2, <2>5, FlowAside DEF EngineInv, runs, Starting, Stopping
  <2>7. QED  BY <1>1, <2>2, <2>3, <2>6 DEF EngineInv
<1>3. CASE /\ o \in Run /\ at[o] = "script" /\ Attempted(o)
           /\ UNCHANGED <<lock, pc>>
  <2>1. \E l \in Unreported, n \in 0..Retries : Put(o, l, n)
    BY <1>3, AttemptedFacts DEF EngineInv
  <2>2. at[o] \in Unreported  BY <1>3 DEF Unreported
  <2>3. QED  BY <1>1, <1>3, <2>1, <2>2, RunGoesOn
<1>4. QED  BY <1>2, <1>3 DEF ScriptEnds

-----------------------------------------------------------------------------
(* The theorems *)

\* At first nobody has the engine and nothing runs.
LEMMA EngineInit ==
    Init => EngineInv
<1> SUFFICES ASSUME Init PROVE EngineInv
  OBVIOUS
<1> USE DEF Init
<1>1. waiting \in Seq(Waits) /\ Len(waiting) = 0  BY EmptySeq
<1>2. LockTyped  BY <1>1 DEF LockTyped, Label
<1>3. SlotTyped  BY DEF SlotTyped
<1>4. FlowTyped  BY BoundAssumption DEF FlowTyped
<1>5. RunTyped  BY BoundAssumption DEF RunTyped, Place
<1>6. WaitersRight  BY <1>1 DEF WaitersRight
<1>7. ASSUME NEW c \in Client PROVE HoldsRight(c)
  BY NoneAssumption DEF HoldsRight, Owner
<1>8. RunsRight  BY NoneAssumption DEF RunsRight, Owner
<1>9. ASSUME NEW c \in Client PROVE StartRight(c)  BY DEF StartRight
<1>10. OneRun  BY DEF OneRun, Live, Unreported, Stopping
<1>11. LockRight /\ FlowRight
  BY <1>6, <1>7, <1>8, <1>9, <1>10 DEF LockRight, FlowRight
<1>12. QED  BY <1>2, <1>3, <1>4, <1>5, <1>11 DEF EngineInv

\* Every step keeps the invariant.
LEMMA EngineNext ==
    EngineInv /\ [Next]_vars => EngineInv'
<1> SUFFICES ASSUME EngineInv, [Next]_vars PROVE EngineInv'
  OBVIOUS
<1>1. ASSUME NEW c \in Client, Ask(c) PROVE EngineInv'
  BY <1>1, AskKeeps
<1>2. ASSUME NEW c \in Client, GiveUp(c) PROVE EngineInv'
  BY <1>2, GiveUpKeeps
<1>3. ASSUME NEW c \in Client, ClientStep(c) PROVE EngineInv'
  BY <1>3, EnterKeeps, ScriptStartKeeps, StopTaskKeeps, ToggleKeeps,
     StopAllScriptKeeps, StopAllProgressKeeps, StopAllExecutorKeeps,
     StopFlowScriptKeeps, StopFlowExecutorKeeps, StopFlowProgressKeeps,
     FlowCheckKeeps, FlowStoreKeeps, FlowInitKeeps DEF ClientStep
<1>4. ASSUME NEW r \in Run, RunStep(r) PROVE EngineInv'
  BY <1>4, RunWorksKeeps, ReportKeeps, ClearKeeps DEF RunStep
<1>5. ASSUME NEW o \in Owner, ScriptEnds(o) PROVE EngineInv'
  BY <1>5, ScriptEndsKeeps
<1>6. CASE UNCHANGED vars
  <2>1. UNCHANGED <<lock, pc>> /\ UNCHANGED <<runtime, flow, runs>>
    BY <1>6 DEF vars
  <2>2. LockTyped' /\ LockRight'  BY <2>1, LockStays DEF EngineInv
  <2>3. SlotTyped' /\ FlowTyped' /\ RunTyped'
    BY <2>1 DEF EngineInv, SlotTyped, FlowTyped, RunTyped, runtime, flow, runs
  <2>4. FlowRight'
    BY <2>1, FlowAside DEF EngineInv, runs, runtime
  <2>5. QED  BY <2>2, <2>3, <2>4 DEF EngineInv
<1>7. QED  BY <1>1, <1>2, <1>3, <1>4, <1>5, <1>6 DEF Next

\* The invariant holds throughout, for every set of clients, whatever they
\* call, and every number of flows.
THEOREM EngineInvariant ==
    Spec => []EngineInv
<1> QED  BY EngineInit, EngineNext, PTL DEF Spec

\* Every variable keeps its type: no step is retried more often than
\* max_retries.
THEOREM EngineTypes ==
    Spec => []TypeOK
<1> QED  BY EngineInvariant, EngineInvTypes, PTL

\* As long as nothing was stopped, the flow that runs is the only one, and
\* the one that a stop would cancel.
THEOREM EngineStoresLiveRun ==
    Spec => []LiveRunIsStored
<1>1. EngineInv => LiveRunIsStored
  BY DEF EngineInv, FlowRight, OneRun, LiveRunIsStored
<1> QED  BY <1>1, EngineInvariant, PTL

\* A flow that is shown as running is the newest one and has yet to report,
\* so that no stale "Running" keeps the next one from starting.
THEOREM EngineShowsLiveRun ==
    Spec => []RunningIsLive
<1>1. EngineInv => RunningIsLive
  BY DEF EngineInv, FlowRight, RunsRight, RunningIsLive, Live, Unreported
<1> QED  BY <1>1, EngineInvariant, PTL

\* What an operation does to the engine it does with the guard it asked for:
\* run_flow with the write guard, everything else with a read guard.
Guarded ==
    \A c \in Client :
        pc[c] # "idle" /\ ~Queued(c) =>
            IF pc[c] \in Writing THEN writer = c ELSE c \in readers

\* No operation goes on without its guard, whoever gives up waiting and
\* whoever exchanges a read guard for a write guard.
THEOREM EngineIsGuarded ==
    Spec => []Guarded
<1>1. EngineInv => Guarded
  BY DEF EngineInv, LockRight, HoldsRight, Guarded
<1> QED  BY <1>1, EngineInvariant, PTL

\* A run whose task is not yet spawned has not been cancelled; while it is
\* in the executor, run_flow is between the two.
StartsUncancelled ==
    /\ \A r \in Run : at[r] = "none" => ~cancelled[r]
    /\ executor # None /\ at[executor] = "none" =>
            executor = started /\ \E c \in Client : pc[c] = "init"

\* Nobody is in the middle of a stop while run_flow is in the middle of a
\* start.
LEMMA StopsExcludeStarts ==
    ASSUME EngineInv, NEW c \in Client, pc[c] \in Stopping,
           NEW d \in Client, pc[d] = "init"
    PROVE  FALSE
<1>1. ~Queued(c) /\ pc[c] \notin Writing /\ pc[c] # "idle"  BY InAStop
<1>2. ~Queued(d)  BY NotQueued DEF EngineInv, Operations
<1>3. c \in readers
  BY <1>1 DEF EngineInv, LockRight, HoldsRight
<1>4. writer = d
  BY <1>2 DEF EngineInv, LockRight, HoldsRight, Writing
<1>5. QED  BY <1>3, <1>4, NoneAssumption DEF EngineInv, LockTyped, Owner

\* Steps that cancel nothing and start nothing: runs go on, or end.
LEMMA StartsAside ==
    ASSUME StartsUncancelled, FlowTyped, UNCHANGED <<started, cancelled>>,
           executor' \in {executor, None},
           \A r \in Run : at'[r] = "none" => at[r] = "none",
           \A d \in Client : pc[d] = "init" => pc'[d] = "init"
    PROVE  StartsUncancelled'
BY DEF StartsUncancelled, FlowTyped

\* A client that goes from elsewhere than a start leaves the starts alone.
LEMMA OthersStillStart ==
    ASSUME LockTyped, NEW c \in Client, pc[c] # "init", NEW l, Goto(c, l)
    PROVE  \A d \in Client : pc[d] = "init" => pc'[d] = "init"
BY GotoFacts

\* Each step keeps fresh runs uncancelled.
LEMMA StartsUncancelledNext ==
    ASSUME EngineInv, StartsUncancelled, [Next]_vars
    PROVE  StartsUncancelled'
<1> USE DEF EngineInv, lock, flow, runs, vars
<1>1. ASSUME NEW c \in Client,
             \/ Ask(c) \/ GiveUp(c) \/ ScriptStart(c) \/ StopTask(c)
             \/ Toggle(c) \/ StopAllScript(c) \/ StopAllProgress(c)
             \/ StopFlowScript(c) \/ StopFlowProgress(c) \/ FlowCheck(c)
      PROVE  StartsUncancelled'
  <2>1. UNCHANGED <<executor, started, at, cancelled>>
    BY <1>1
       DEF Ask, GiveUp, ScriptStart, StopTask, Toggle, StopAllScript,
           StopAllProgress, StopFlowScript, StopFlowProgress, FlowCheck,
           MarkCancelled
  <2>2. pc[c] # "init" /\ \E l \in Label : Goto(c, l)
    <3>1. CASE GiveUp(c)
      <4>1. PICK i \in 1..Len(waiting) : waiting[i].who = c
        BY <3>1, WaitFacts DEF GiveUp, LockTyped
      <4>2. pc[c] \in Operations
        BY <4>1 DEF LockRight, WaitersRight
      <4>3. QED  BY <3>1, <4>2 DEF GiveUp, Operations, Label
    <3>2. CASE Ask(c)
      BY <3>2 DEF Ask, Label
    <3>3. CASE ScriptStart(c) \/ StopTask(c) \/ Toggle(c)
      BY <3>3 DEF ScriptStart, StopTask, Toggle, In, Leave, Label, Operations
    <3>4. CASE StopAllScript(c) \/ StopAllProgress(c)
      BY <3>4 DEF StopAllScript, StopAllProgress, In, Label
    <3>5. CASE StopFlowScript(c) \/ StopFlowProgress(c) \/ FlowCheck(c)
      BY <3>5 DEF StopFlowScript, StopFlowProgress, FlowCheck, In, Leave, Label
    <3>6. QED  BY <1>1, <3>1, <3>2, <3>3, <3>4, <3>5
  <2>3. \A d \in Client : pc[d] = "init" => pc'[d] = "init"
    BY <2>2, OthersStillStart
  <2>4. QED  BY <2>1, <2>3, StartsAside
<1>2. ASSUME NEW c \in Client, StopAllExecutor(c) \/ StopFlowExecutor(c)
      PROVE  StartsUncancelled'
  <2>1. /\ pc[c] \in {"allExecutor", "flowExecutor"} /\ CancelExecutor
        /\ UNCHANGED <<executor, started>>
        /\ \E l \in Label : Goto(c, l)
    BY <1>2 DEF StopAllExecutor, StopFlowExecutor, Leave, Label
  <2>2. /\ at' = at
        /\ \A r \in Run : cancelled'[r] <=> r = executor \/ cancelled[r]
    BY <2>1 DEF CancelExecutor
  <2>3. executor # None => at[executor] # "none"
    BY <2>1, StopsExcludeStarts DEF StartsUncancelled, Stopping
  <2>4. \A d \in Client : pc[d] = "init" => pc'[d] = "init"
    BY <2>1, OthersStillStart
  <2>5. \A r \in Run : at[r] = "none" => ~cancelled'[r]
    BY <2>2, <2>3, NoneAssumption DEF StartsUncancelled, Owner
  <2>6. QED  BY <2>1, <2>2, <2>4, <2>5 DEF StartsUncancelled
<1>3. ASSUME NEW c \in Client, FlowStore(c) PROVE StartsUncancelled'
  <2>1. /\ executor' = started' /\ UNCHANGED <<at, cancelled>>
        /\ Goto(c, "init")
    BY <1>3 DEF FlowStore
  <2>2. pc'[c] = "init"  BY <2>1, GotoFacts
  <2>3. QED  BY <2>1, <2>2 DEF StartsUncancelled
<1>4. ASSUME NEW c \in Client, FlowInit(c) PROVE StartsUncancelled'
  <2>1. /\ pc[c] = "init" /\ at' = [at EXCEPT ![started] = "loop"]
        /\ UNCHANGED <<executor, started, cancelled>>
    BY <1>4 DEF FlowInit
  <2>2. StartRight(c)  BY DEF FlowRight
  <2>3. started \in Run  BY <2>1, <2>2 DEF FlowTyped, StartRight, Run
  <2>4. \A r \in Run : at'[r] = IF r = started THEN "loop" ELSE at[r]
    BY <2>1 DEF RunTyped
  <2>5. QED  BY <2>1, <2>3, <2>4 DEF StartsUncancelled, FlowTyped
<1>5. ASSUME NEW r \in Run, NEW l \in Place \ {"none"}, NEW n \in 0..Retries,
             Put(r, l, n), executor' \in {executor, None},
             UNCHANGED <<started, pc>>
      PROVE  StartsUncancelled'
  <2>1. /\ cancelled' = cancelled
        /\ \A q \in Run : at'[q] = "none" => at[q] = "none"
    BY <1>5, PutTyped DEF Put
  <2>2. QED  BY <1>5, <2>1, StartsAside
<1>6. ASSUME NEW r \in Run, Attempted(r), UNCHANGED <<executor, started, pc>>
      PROVE  StartsUncancelled'
  <2>1. \E l \in Unreported, n \in 0..Retries : Put(r, l, n)
    BY <1>6, AttemptedFacts
  <2>2. Unreported \subseteq Place \ {"none"}  BY DEF Unreported, Place
  <2>3. QED  BY <1>5, <1>6, <2>1, <2>2
<1>7. ASSUME NEW r \in Run, RunStep(r) PROVE StartsUncancelled'
  <2>1. 0 \in 0..Retries /\ tries[r] \in 0..Retries
    BY BoundAssumption DEF RunTyped
  <2>2. CASE LoopStep(r)  BY <1>5, <2>1, <2>2 DEF LoopStep, Place
  <2>3. CASE LoopEnds(r)  BY <1>5, <2>1, <2>3 DEF LoopEnds, Place
  <2>4. CASE LoopCancelled(r)  BY <1>5, <2>1, <2>4 DEF LoopCancelled, Place
  <2>5. CASE StepEnds(r)  BY <1>6, <2>5 DEF StepEnds
  <2>6. CASE StepScript(r)  BY <1>5, <2>1, <2>6 DEF StepScript, Place
  <2>7. CASE Report(r)  BY <1>5, <2>1, <2>7 DEF Report, Place
  <2>8. CASE Clear(r)  BY <1>5, <2>1, <2>8 DEF Clear, Place
  <2>9. QED
    BY <1>7, <2>2, <2>3, <2>4, <2>5, <2>6, <2>7, <2>8 DEF RunStep
<1>8. ASSUME NEW o \in Owner, ScriptEnds(o) PROVE StartsUncancelled'
  <2>1. CASE o \in Client /\ pc[o] = "running" /\ Leave(o) /\ UNCHANGED runs
    <3>1. \A d \in Client : pc[d] = "init" => pc'[d] = "init"
      BY <2>1, OthersStillStart DEF Leave
    <3>2. QED  BY <1>8, <2>1, <3>1, StartsAside DEF ScriptEnds
  <2>2. CASE /\ o \in Run /\ at[o] = "script" /\ Attempted(o)
             /\ UNCHANGED <<lock, pc>>
    BY <1>6, <1>8, <2>2 DEF ScriptEnds
  <2>3. QED  BY <1>8, <2>1, <2>2 DEF ScriptEnds
<1>9. ASSUME NEW c \in Client, Enter(c) PROVE StartsUncancelled'
  BY <1>9, StartsAside DEF Enter
<1>10. CASE UNCHANGED vars  BY <1>10, StartsAside
<1>11. QED
  BY <1>1, <1>2, <1>3, <1>4, <1>7, <1>8, <1>9, <1>10 DEF Next, ClientStep

\* No flow is born cancelled: a stop cannot come between run_flow's storing
\* of the executor and the spawning of its task, because of their guards.
THEOREM EngineStartsUncancelled ==
    Spec => []StartsUncancelled
<1>1. Init => StartsUncancelled  BY DEF Init, StartsUncancelled
<1>2. EngineInv /\ StartsUncancelled /\ [Next]_vars => StartsUncancelled'
  BY StartsUncancelledNext
<1>3. QED  BY <1>1, <1>2, EngineInvariant, PTL DEF Spec

-----------------------------------------------------------------------------
(* The slot is TaskSlot's.                                                 *)

\* Whose script runs.
Works(o) == \/ o \in Client /\ pc[o] = "running"
            \/ o \in Run /\ at[o] = "script"

\* A step after which the same scripts run.
LEMMA WorkStays ==
    ASSUME \A c \in Client : pc'[c] = "running" <=> pc[c] = "running",
           \A r \in Run : at'[r] = "script" <=> at[r] = "script"
    PROVE  Working' = Working
BY DEF Working

\* A step after which the script of o runs, and one after which it does not.
LEMMA WorkChanges ==
    ASSUME NEW o \in Owner,
           \A p \in Owner \ {o} : Works(p)' <=> Works(p)
    PROVE  Working' = [Working EXCEPT ![o] = IF Works(o)' THEN o ELSE None]
<1>1. Working' = [p \in Owner |-> IF Works(p)' THEN p ELSE None]
  BY DEF Working, Works
<1>2. Working = [p \in Owner |-> IF Works(p) THEN p ELSE None]
  BY DEF Working, Works
<1>3. QED  BY <1>1, <1>2

\* Who runs a script is working on it.
LEMMA WorksFacts ==
    ASSUME NEW o \in Owner
    PROVE  Works(o) <=> Working[o] # None
BY NoneAssumption DEF Working, Works

\* A client is not a run.
LEMMA OneKind ==
    /\ \A c \in Client : c \in Owner /\ c \notin Run
    /\ \A r \in Run : r \in Owner /\ r \notin Client
BY ClientAssumption DEF Owner

\* Which scripts run when a client goes somewhere else.
LEMMA ClientWorks ==
    ASSUME LockTyped, NEW c \in Client, NEW l, Goto(c, l), at' = at
    PROVE  /\ \A p \in Owner \ {c} : Works(p)' <=> Works(p)
           /\ Works(c)' <=> l = "running"
           /\ Works(c) <=> pc[c] = "running"
BY GotoFacts, OneKind DEF Works

\* Which scripts run when a run does.
LEMMA RunWorks ==
    ASSUME RunTyped, NEW r \in Run, NEW l, at' = [at EXCEPT ![r] = l], pc' = pc
    PROVE  /\ \A p \in Owner \ {r} : Works(p)' <=> Works(p)
           /\ Works(r)' <=> l = "script"
           /\ Works(r) <=> at[r] = "script"
<1>1. \A q \in Run : at'[q] = IF q = r THEN l ELSE at[q]  BY DEF RunTyped
<1>2. QED  BY <1>1, OneKind DEF Works

\* A client that neither starts a script nor ends one.
LEMMA ClientWorksOn ==
    ASSUME LockTyped, NEW c \in Client, NEW l, Goto(c, l),
           l # "running", pc[c] # "running",
           \A r \in Run : at'[r] = "script" <=> at[r] = "script"
    PROVE  Working' = Working
<1>1. \A d \in Client : pc'[d] = "running" <=> pc[d] = "running"
  BY GotoFacts
<1>2. QED  BY <1>1, WorkStays

\* A run that neither starts a script nor ends one.
LEMMA RunWorksOn ==
    ASSUME RunTyped, NEW r \in Run, NEW l, at' = [at EXCEPT ![r] = l],
           l # "script", at[r] # "script", pc' = pc
    PROVE  Working' = Working
<1>1. \A q \in Run : at'[q] = "script" <=> at[q] = "script"  BY DEF RunTyped
<1>2. QED  BY <1>1, WorkStays

\* Where an attempt ends.
LEMMA AttemptGoes ==
    ASSUME NEW r \in Run, Attempted(r)
    PROVE  \E l \in {"loop", "attempt", "Failed"} : at' = [at EXCEPT ![r] = l]
BY DEF Attempted, Put

\* A step of a client is one of TaskSlot's, or does not show there.
LEMMA ClientSlotIsSeen ==
    ASSUME EngineInv, NEW c \in Client, Ask(c) \/ GiveUp(c) \/ ClientStep(c)
    PROVE  Tasks!Next \/ UNCHANGED <<active, Working, stopped>>
<1> USE DEF EngineInv, runtime, runs, Tasks!Next
<1>1. c \in Owner  BY OneKind
<1>2. CASE Enter(c)  BY <1>2, WorkStays DEF Enter
<1>3. CASE \/ Ask(c) \/ Toggle(c) \/ StopAllProgress(c) \/ StopAllExecutor(c)
           \/ StopFlowExecutor(c) \/ StopFlowProgress(c) \/ FlowCheck(c)
           \/ FlowStore(c)
  <2>1. UNCHANGED <<active, stopped, at>> /\ pc[c] # "running"
    BY <1>3 DEF Ask, Toggle, StopAllProgress, StopAllExecutor,
       StopFlowExecutor, StopFlowProgress, FlowCheck, FlowStore, In,
       CancelExecutor
  <2>2. \E l \in Label \ {"running"} : Goto(c, l)
    <3>1. CASE Ask(c)  BY <3>1 DEF Ask, Label, Operations
    <3>2. CASE Toggle(c)  BY <3>2 DEF Toggle, Label, Operations
    <3>3. CASE StopAllProgress(c) \/ StopAllExecutor(c)
      BY <3>3 DEF StopAllProgress, StopAllExecutor, Leave, Label
    <3>4. CASE StopFlowExecutor(c) \/ StopFlowProgress(c)
      BY <3>4 DEF StopFlowExecutor, StopFlowProgress, Leave, Label
    <3>5. CASE FlowCheck(c) \/ FlowStore(c)
      BY <3>5 DEF FlowCheck, FlowStore, Leave, Label
    <3>6. QED  BY <1>3, <3>1, <3>2, <3>3, <3>4, <3>5
  <2>3. QED  BY <2>1, <2>2, ClientWorksOn
<1>4. CASE GiveUp(c)
  <2>1. PICK i \in 1..Len(waiting) : waiting[i].who = c
    BY <1>4, WaitFacts DEF GiveUp, LockTyped
  <2>2. pc[c] \in Operations  BY <2>1 DEF LockRight, WaitersRight
  <2>3. QED  BY <1>4, <2>2, ClientWorksOn DEF GiveUp, Operations
<1>5. CASE FlowInit(c)
  <2>1. StartRight(c)  BY DEF FlowRight
  <2>2. /\ pc[c] = "init" /\ Goto(c, "idle") /\ UNCHANGED <<active, stopped>>
        /\ at' = [at EXCEPT ![started] = "loop"]
    BY <1>5 DEF FlowInit, Leave
  <2>3. at[started] = "none"  BY <2>1, <2>2 DEF StartRight
  <2>4. \A r \in Run : at'[r] = "script" <=> at[r] = "script"
    BY <2>2, <2>3 DEF RunTyped
  <2>5. QED  BY <2>2, <2>4, ClientWorksOn
<1>6. CASE ScriptStart(c)
  <2>1. pc[c] = "script" /\ at' = at  BY <1>6 DEF ScriptStart, In
  <2>2. CASE Start(c) /\ Goto(c, "running")
    <3>1. Working' = [Working EXCEPT ![c] = c]
      BY <1>1, <2>1, <2>2, ClientWorks, WorkChanges
    <3>2. Working[c] = None  BY <1>1, <2>1, <2>2, ClientWorks, WorksFacts
    <3>3. Tasks!Claim(c, c)
      BY <2>2, <3>1, <3>2 DEF Start, Tasks!Claim
    <3>4. QED  BY <1>1, <3>3
  <2>3. CASE Leave(c) /\ UNCHANGED runtime
    BY <2>1, <2>3, ClientWorksOn DEF Leave
  <2>4. QED  BY <1>6, <2>2, <2>3 DEF ScriptStart
<1>7. CASE StopTask(c) \/ StopAllScript(c) \/ StopFlowScript(c)
  <2>1. StopScript /\ at' = at /\ pc[c] # "running"
    BY <1>7 DEF StopTask, StopAllScript, StopFlowScript, In
  <2>2. \E l \in {"idle", "allProgress", "flowExecutor"} : Goto(c, l)
    BY <1>7 DEF StopTask, StopAllScript, StopFlowScript, Leave
  <2>3. UNCHANGED Working  BY <2>1, <2>2, ClientWorksOn
  <2>4. Tasks!Force  BY <2>1, <2>3 DEF StopScript, Tasks!Force
  <2>5. QED  BY <2>4
<1>8. QED
  BY <1>2, <1>3, <1>4, <1>5, <1>6, <1>7 DEF ClientStep

\* So is a step of a run.
LEMMA RunSlotIsSeen ==
    ASSUME EngineInv, NEW r \in Run, RunStep(r)
    PROVE  Tasks!Next \/ UNCHANGED <<active, Working, stopped>>
<1> USE DEF EngineInv, runtime, Tasks!Next
<1>1. r \in Owner  BY OneKind
<1>2. CASE LoopStep(r) \/ LoopEnds(r) \/ LoopCancelled(r) \/ Report(r)
           \/ Clear(r)
  <2>1. UNCHANGED <<active, stopped, pc>> /\ at[r] # "script"
    BY <1>2 DEF LoopStep, LoopEnds, LoopCancelled, Report, Clear
  <2>2. \E l \in Place \ {"script"} : at' = [at EXCEPT ![r] = l]
    BY <1>2
       DEF LoopStep, LoopEnds, LoopCancelled, Report, Clear, Put, Place
  <2>3. QED  BY <2>1, <2>2, RunWorksOn
<1>3. CASE StepEnds(r)
  BY <1>3, AttemptGoes, RunWorksOn DEF StepEnds
<1>4. CASE StepScript(r)
  <2>1. /\ at[r] = "attempt" /\ at' = [at EXCEPT ![r] = "script"]
        /\ Start(r) /\ pc' = pc
    BY <1>4 DEF StepScript, Put
  <2>2. Working' = [Working EXCEPT ![r] = r]
    BY <1>1, <2>1, RunWorks, WorkChanges
  <2>3. Working[r] = None  BY <1>1, <2>1, RunWorks, WorksFacts
  <2>4. Tasks!Claim(r, r)  BY <2>1, <2>2, <2>3 DEF Start, Tasks!Claim
  <2>5. QED  BY <1>1, <2>4
<1>5. QED  BY <1>2, <1>3, <1>4 DEF RunStep

\* A script that ends gives the slot back.
LEMMA ScriptEndIsSeen ==
    ASSUME EngineInv, NEW o \in Owner, ScriptEnds(o)
    PROVE  Tasks!Next
<1> USE DEF EngineInv, runs
<1>1. Works(o) /\ (\A p \in Owner \ {o} : Works(p)' <=> Works(p)) /\ ~Works(o)'
  <2>1. CASE o \in Client /\ pc[o] = "running" /\ Leave(o) /\ UNCHANGED runs
    BY <2>1, ClientWorks DEF Leave
  <2>2. CASE o \in Run /\ at[o] = "script" /\ Attempted(o) /\ pc' = pc
    BY <2>2, AttemptGoes, RunWorks
  <2>3. QED  BY <2>1, <2>2 DEF ScriptEnds
<1>2. Working' = [Working EXCEPT ![o] = None]  BY <1>1, WorkChanges
<1>3. Working[o] # None  BY <1>1, WorksFacts
<1>4. active' = None /\ stopped' = stopped  BY DEF ScriptEnds, End
<1>5. Tasks!Release(o)
  BY <1>2, <1>3, <1>4 DEF Tasks!Release, Tasks!Stops
<1>6. QED  BY <1>5 DEF Tasks!Next

\* Clients and flows use the slot by the rules that the interleavings of
\* start_task and stop_task in ScriptRuntime keep.
THEOREM EngineHasTaskSlot == Spec => Slot
<1>1. Init => Tasks!Init  BY DEF Init, Tasks!Init, Working
<1>2. EngineInv /\ [Next]_vars
        => Tasks!Next \/ UNCHANGED <<active, Working, stopped>>
  <2>1. ASSUME UNCHANGED vars
        PROVE  UNCHANGED <<active, Working, stopped>>
    BY <2>1, WorkStays DEF vars, runtime, runs
  <2>2. QED
    BY <2>1, ClientSlotIsSeen, RunSlotIsSeen, ScriptEndIsSeen DEF Next
<1>3. QED
  BY <1>1, <1>2, EngineInvariant, PTL DEF Spec, Slot, Tasks!Spec
=============================================================================
