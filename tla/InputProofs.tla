------------------------------ MODULE InputProofs ------------------------------
(***************************************************************************)
(* What the input pipelines keep to: the invariant of InputPipeline, the   *)
(* theorems about it, and that it implements SerialWorker.                 *)
(***************************************************************************)
EXTENDS InputPipeline, SequenceTheorems, TLAPS

-----------------------------------------------------------------------------
(* The invariant *)

Runs(c, p) == exec[p] # None /\ exec[p].cmd.from = c
HasIn(c, p, i) == i \in DOMAIN queue[p] /\ queue[p][i].from = c

\* What there is of a pipeline before it is bound, without a queue, and when
\* nothing is left to do.
PipesAlive ==
    \A p \in Pipe :
        /\ p > installed => alive[p] = "none"
        /\ p = installed => alive[p] \in {"up", "panicked"}
        /\ alive[p] = "none" => active[p] = "primary" /\ failures[p] = 0
                                  /\ streak[p] = 0
        /\ exec[p] # None \/ queue[p] # <<>> => alive[p] = "up"
        /\ alive[p] = "panicked" => queued[p]
        /\ ~queued[p] => queue[p] = <<>>
        /\ ~queued[p] /\ exec[p] # None => exec[p].cmd.from # None

\* Who waits for a reply has the mutex; its command is in the pipeline that is
\* installed, once, and no other command has an owner.
CommandsOwned ==
    /\ \A c \in Caller : pc[c] = "reply" => installed # 0 /\ Holds(c)
    /\ \A p \in Pipe, c \in Caller :
        Runs(c, p) \/ (\E i \in DOMAIN queue[p] : HasIn(c, p, i)) =>
            pc[c] = "reply" /\ installed = p
    /\ \A c \in Caller : pc[c] = "reply" =>
        \/ /\ Runs(c, installed)
           /\ \A i \in DOMAIN queue[installed] : ~HasIn(c, installed, i)
        \/ /\ ~Runs(c, installed)
           /\ \E i \in DOMAIN queue[installed] :
                /\ HasIn(c, installed, i)
                /\ \A j \in DOMAIN queue[installed] :
                        HasIn(c, installed, j) => j = i

\* How an attempt has come to its backend, and what the counter has counted.
AttemptCounted(p) ==
    /\ exec[p] # None =>
        /\ exec[p].next \in 1..Len(Events(exec[p].cmd.op))
        /\ exec[p].pressed => exec[p].cmd.op # "click"
        /\ exec[p].on = "primary" => exec[p].tried = <<"primary">>
        /\ exec[p].on = "fallback" =>
            /\ active[p] = "fallback"
            /\ exec[p].tried \in {<<"fallback">>, <<"primary", "fallback">>}
    /\ active[p] = "fallback" => backup[p] /\ streak[p] = Threshold
    /\ active[p] = "primary" /\ backup[p] => streak[p] = failures[p]
    /\ ~fault => active[p] = "primary"
AttemptsCounted == \A p \in Pipe : AttemptCounted(p)

PipeInv ==
    /\ TypeOK
    /\ PipesAlive /\ CommandsOwned /\ AttemptsCounted
    /\ KeysAsAsked /\ SentKeysOwned
    /\ ~fault => down \subseteq {"sent"} \X Key

-----------------------------------------------------------------------------
(* Facts *)

\* Nothing is bound at first.
LEMMA InputInit == Init => PipeInv
<1> SUFFICES ASSUME Init PROVE PipeInv  OBVIOUS
<1> USE NumberAssumption, ActorAssumption
        DEF Init, Pipe, Backend, Runs, HasIn
<1>1. TypeOK
  <2>1. turn \in Seq(Caller \cup {Engine})  OBVIOUS
  <2>2. /\ queue \in [Pipe -> Seq(Command)]
        /\ \A p \in Pipe : Len(queue[p]) <= Capacity
    BY EmptySeq
  <2>3. /\ failures \in [Pipe -> 0..(Threshold - 1)]
        /\ streak \in [Pipe -> 0..Threshold]
        /\ presser \in [Key -> 0..MaxPipes] /\ installed \in 0..MaxPipes
    OBVIOUS
  <2> QED  BY <2>1, <2>2, <2>3 DEF TypeOK, Stages
<1>2. PipesAlive  BY DEF PipesAlive
<1>3. CommandsOwned  BY DEF CommandsOwned
<1>4. AttemptsCounted  BY DEF AttemptsCounted, AttemptCounted
<1>5. KeysAsAsked /\ SentKeysOwned  BY DEF KeysAsAsked, SentKeysOwned
<1> QED  BY <1>1, <1>2, <1>3, <1>4, <1>5 DEF PipeInv

\* An input has at least one event.
LEMMA InputsHaveEvents ==
    \A op \in Op : /\ Events(op) \in Seq({"touch", "press", "release"})
                   /\ Len(Events(op)) \in 1..4
<1> SUFFICES ASSUME NEW op \in Inputs
             PROVE  /\ Events(op) \in Seq({"touch", "press", "release"})
                    /\ Len(Events(op)) \in 1..4
  BY InputAssumption
<1>1. CASE op = "click"  BY <1>1 DEF Events
<1>2. CASE op = "down"   BY <1>2 DEF Events
<1>3. CASE op = "up"     BY <1>3 DEF Events
<1>4. CASE op = "tap"    BY <1>4 DEF Events
<1>5. CASE op = "swipe"  BY <1>5 DEF Events
<1> QED  BY <1>1, <1>2, <1>3, <1>4, <1>5 DEF Inputs

\* Who leaves the mutex or stops waiting for it leaves the holder, if it is
\* another one, where it is.
LEMMA VacateKeepsHolder ==
    ASSUME turn \in Seq(Caller \cup {Engine}), NEW a, Vacate(a)
    PROVE  /\ turn' \in Seq(Caller \cup {Engine})
           /\ \A d : d # a /\ Holds(d) => Holds(d)'
<1> DEFINE S == Caller \cup {Engine}
<1>1. PICK i \in DOMAIN turn : turn[i] = a /\ turn' = RemoveAt(turn, i)
  BY DEF Vacate
<1>2. i \in 1..Len(turn) /\ Len(turn) \in Nat
  BY <1>1, LenProperties
<1>3. /\ SubSeq(turn, 1, i - 1) \in Seq(S)
      /\ Len(SubSeq(turn, 1, i - 1)) = IF 1 <= i - 1 THEN i - 1 ELSE 0
      /\ \A j \in 1..i - 1 : SubSeq(turn, 1, i - 1)[j] = turn[j]
  <2>1. \A j \in 1..i - 1 : turn[j] \in S  BY <1>2, ElementOfSeq
  <2>2. 1 \in Int /\ i - 1 \in Int  BY <1>2
  <2> QED  BY <2>1, <2>2, SubSeqProperties
<1>4. SubSeq(turn, i + 1, Len(turn)) \in Seq(S)
  <2>1. \A j \in i + 1..Len(turn) : turn[j] \in S  BY <1>2, ElementOfSeq
  <2> QED  BY <1>2, <2>1, SubSeqProperties
<1>5. turn' = SubSeq(turn, 1, i - 1) \o SubSeq(turn, i + 1, Len(turn))
  BY <1>1 DEF RemoveAt
<1>6. turn' \in Seq(S)  BY <1>3, <1>4, <1>5, ConcatProperties
<1>7. ASSUME NEW d, d # a, Holds(d) PROVE Holds(d)'
  <2>1. turn[1] = d  BY <1>7 DEF Holds
  <2>2. i > 1  BY <1>1, <1>2, <1>7, <2>1
  <2>3. Len(turn') >= 1 /\ turn'[1] = turn[1]
    BY <1>2, <1>3, <1>4, <1>5, <2>2, ConcatProperties
  <2> QED  BY <1>6, <2>1, <2>3 DEF Holds
<1> QED  BY <1>6, <1>7

\* Who comes to the mutex waits behind its holder.
LEMMA ComingKeepsHolder ==
    ASSUME turn \in Seq(Caller \cup {Engine}), NEW a \in Caller \cup {Engine},
           turn' = Append(turn, a)
    PROVE  /\ turn' \in Seq(Caller \cup {Engine})
           /\ \A d : Holds(d) => Holds(d)'
BY AppendProperties, HeadTailAppend DEF Holds

-----------------------------------------------------------------------------
(* The callers *)

\* Coming, leaving without having waited, and asking to bind concern nobody's
\* command.
LEMMA CallersKeep ==
    ASSUME PipeInv,
           UNCHANGED <<binding, alive, queue, exec, failover, keys, history>>,
           turn' \in Seq(Caller \cup {Engine}),
           pc' \in [Caller -> Stages],
           \A c \in Caller : pc'[c] = "reply" <=> pc[c] = "reply",
           \A c \in Caller : pc[c] = "reply" /\ Holds(c) => Holds(c)'
    PROVE  PipeInv'
<1> USE DEF binding, failover, keys, history
<1>1. TypeOK'  BY DEF PipeInv, TypeOK
<1>2. PipesAlive'  BY DEF PipeInv, PipesAlive
<1>3. CommandsOwned'  BY DEF PipeInv, CommandsOwned, Runs, HasIn
<1>4. AttemptsCounted'  BY DEF PipeInv, AttemptsCounted, AttemptCounted
<1>5. KeysAsAsked' /\ SentKeysOwned'
  BY DEF PipeInv, KeysAsAsked, SentKeysOwned
<1> QED  BY <1>1, <1>2, <1>3, <1>4, <1>5 DEF PipeInv

\* A method takes its place at the mutex, or leaves it.
LEMMA CallKeeps ==
    ASSUME PipeInv, NEW c \in Caller, Call(c) \/ NoController(c) \/ Returns(c)
    PROVE  PipeInv'
<1>1. turn \in Seq(Caller \cup {Engine}) /\ pc \in [Caller -> Stages]
  BY DEF PipeInv, TypeOK
<1>2. UNCHANGED <<binding, alive, queue, exec, failover, keys, history>>
  BY DEF Call, NoController, Returns
<1>3. pc[c] # "reply" /\ \E l \in {"lock", "idle"} : pc' = [pc EXCEPT ![c] = l]
  BY DEF Call, NoController, Returns, Goto
<1>4. /\ pc' \in [Caller -> Stages]
      /\ \A d \in Caller : pc'[d] = "reply" <=> pc[d] = "reply"
  BY <1>1, <1>3 DEF Stages
<1>5. CASE turn' = Append(turn, c)
  BY <1>1, <1>2, <1>4, <1>5, ComingKeepsHolder, CallersKeep
<1>6. CASE Vacate(c)
  BY <1>1, <1>2, <1>3, <1>4, <1>6, VacateKeepsHolder, CallersKeep
<1> QED  BY <1>5, <1>6 DEF Call, NoController, Returns

\* The engine takes its place at the mutex.
LEMMA AskBindKeeps == ASSUME PipeInv, AskBind PROVE PipeInv'
<1>1. turn \in Seq(Caller \cup {Engine}) /\ pc \in [Caller -> Stages]
  BY DEF PipeInv, TypeOK
<1>2. /\ UNCHANGED <<binding, alive, queue, exec, failover, keys, history>>
      /\ turn' = Append(turn, Engine) /\ pc' = pc
  BY DEF AskBind
<1> QED  BY <1>1, <1>2, ComingKeepsHolder, CallersKeep

\* Nobody but the holder of the mutex waits for a reply.
LEMMA OneWaits ==
    ASSUME PipeInv, NEW a, Holds(a), NEW d \in Caller, pc[d] = "reply"
    PROVE  d = a
BY DEF PipeInv, CommandsOwned, Holds

\* submit(): the command of the caller is the last of the queue and the only
\* one of its own.
LEMMA SubmitKeeps == ASSUME PipeInv, NEW c \in Caller, Submit(c) PROVE PipeInv'
<1>0. PICK p : p = installed  OBVIOUS
<1>1. /\ pc[c] = "lock" /\ Holds(c) /\ p # 0 /\ queued[p] /\ p \in Pipe
      /\ UNCHANGED <<turn, binding, alive, exec, failover, keys, history>>
      /\ pc \in [Caller -> Stages]
  BY <1>0, NumberAssumption DEF Submit, PipeInv, TypeOK, Pipe
<1>2. \A q \in Pipe : ~Runs(c, q) /\ \A i \in DOMAIN queue[q] : ~HasIn(c, q, i)
  BY <1>1 DEF PipeInv, CommandsOwned
<1>3. \A d \in Caller : pc[d] # "reply"
  BY <1>1, OneWaits
<1>a. CASE alive[p] = "panicked"
  <2>1. pc' = [pc EXCEPT ![c] = "record"] /\ queue' = queue
    BY <1>0, <1>a DEF Submit, Goto
  <2>2. \A d \in Caller : pc'[d] = "reply" <=> pc[d] = "reply"
    BY <1>1, <2>1
  <2>3. pc' \in [Caller -> Stages]  BY <1>1, <2>1 DEF Stages
  <2>4. turn' \in Seq(Caller \cup {Engine})
    BY <1>1 DEF PipeInv, TypeOK
  <2> QED  BY <1>1, <1>3, <2>1, <2>2, <2>3, <2>4, CallersKeep
<1>b. CASE alive[p] # "panicked"
  <2>1. PICK cmd \in Input(c) : queue' = [queue EXCEPT ![p] = Append(@, cmd)]
    BY <1>0, <1>b DEF Submit
  <2>2. /\ pc' = [pc EXCEPT ![c] = "reply"] /\ Len(queue[p]) < Capacity
    BY <1>0, <1>b DEF Submit, Goto, Room
  <2>3. cmd \in Command /\ cmd.from = c
    BY <2>1 DEF Input, Command
  <2>4. /\ queue[p] \in Seq(Command) /\ Len(queue[p]) <= Capacity
        /\ DOMAIN queue[p] = 1..Len(queue[p]) /\ Len(queue[p]) \in Nat
    BY <1>1, LenProperties DEF PipeInv, TypeOK
  <2>t. queue \in [Pipe -> Seq(Command)]  BY DEF PipeInv, TypeOK
  <2>5. /\ queue'[p] \in Seq(Command) /\ Len(queue'[p]) = Len(queue[p]) + 1
        /\ queue'[p] # <<>>
        /\ DOMAIN queue'[p] = 1..Len(queue[p]) + 1
        /\ \A i \in 1..Len(queue[p]) : queue'[p][i] = queue[p][i]
        /\ queue'[p][Len(queue[p]) + 1] = cmd
        /\ \A q \in Pipe \ {p} : queue'[q] = queue[q]
    <3>1. queue'[p] = Append(queue[p], cmd)  BY <1>1, <2>1, <2>t
    <3>2. \A q \in Pipe \ {p} : queue'[q] = queue[q]  BY <2>1, <2>t
    <3> QED  BY <2>3, <2>4, <3>1, <3>2, AppendProperties, LenProperties
  <2>6. queue' \in [Pipe -> Seq(Command)]  BY <1>1, <2>1, <2>5, <2>t
  <2>7. TypeOK'
    <3>1. \A q \in Pipe : Len(queue'[q]) <= Capacity
      <4>1. \A q \in Pipe : Len(queue[q]) <= Capacity
        BY DEF PipeInv, TypeOK
      <4>2. Len(queue'[p]) <= Capacity  BY <2>2, <2>4, <2>5, NumberAssumption
      <4> QED  BY <2>5, <4>1, <4>2
    <3>2. pc' \in [Caller -> Stages]  BY <1>1, <2>2 DEF Stages
    <3> QED  BY <1>1, <2>6, <3>1, <3>2
                DEF PipeInv, TypeOK, binding, failover, keys, history
  <2>8. PipesAlive'
    <3>1. alive[p] = "up"
      BY <1>0, <1>1, <1>b DEF PipeInv, PipesAlive
    <3> QED  BY <1>0, <1>1, <2>5, <3>1
                DEF PipeInv, PipesAlive, binding, failover, history
  <2>9. CommandsOwned'
    <3>1. (Holds(c))' /\ installed' = p /\ exec' = exec
      BY <1>0, <1>1 DEF Holds, binding
    <3>2. \A d \in Caller : pc'[d] = "reply" <=> d = c
      BY <1>1, <1>3, <2>2
    <3>3. \A q \in Pipe, d \in Caller : ~Runs(d, q)
      BY <1>3 DEF PipeInv, CommandsOwned
    <3>4. \A q \in Pipe, d \in Caller : \A i : ~HasIn(d, q, i)
      BY <1>3 DEF PipeInv, CommandsOwned, HasIn
    <3>5. \A q \in Pipe \ {p}, d \in Caller : \A i : ~(HasIn(d, q, i))'
      BY <2>5, <3>4 DEF HasIn
    <3>6. \A d \in Caller : \A i :
                (HasIn(d, p, i))' <=> d = c /\ i = Len(queue[p]) + 1
      <4>0. \A d, i : (HasIn(d, p, i))' <=>
                i \in 1..Len(queue[p]) + 1 /\ queue'[p][i].from = d
        BY <2>5 DEF HasIn
      <4>n. Len(queue[p]) + 1 \in 1..Len(queue[p]) + 1  BY <2>4
      <4> SUFFICES ASSUME NEW d \in Caller, NEW i \in 1..Len(queue[p]) + 1
                   PROVE  queue'[p][i].from = d <=>
                                d = c /\ i = Len(queue[p]) + 1
        BY <4>0, <4>n
      <4>1. CASE i = Len(queue[p]) + 1  BY <2>3, <2>5, <4>1
      <4>2. CASE i # Len(queue[p]) + 1
        <5>1. i \in 1..Len(queue[p])  BY <2>4, <4>2
        <5>2. ~HasIn(d, p, i)  BY <1>1, <3>4
        <5> QED  BY <2>4, <2>5, <4>2, <5>1, <5>2 DEF HasIn
      <4> QED  BY <4>1, <4>2
    <3>7. \A q \in Pipe, d \in Caller : ~(Runs(d, q))'
      BY <3>1, <3>3 DEF Runs
    <3>8. Len(queue[p]) + 1 \in DOMAIN queue'[p]  BY <2>4, <2>5
    <3> QED  BY <1>1, <3>1, <3>2, <3>5, <3>6, <3>7, <3>8 DEF CommandsOwned
  <2>10. AttemptsCounted'
    BY <1>1 DEF PipeInv, AttemptsCounted, AttemptCounted, binding, failover, history
  <2>11. KeysAsAsked' /\ SentKeysOwned'
    BY <1>1 DEF PipeInv, KeysAsAsked, SentKeysOwned, keys, history
  <2>12. ~fault' => down' \subseteq {"sent"} \X Key
    BY <1>1 DEF PipeInv, keys, history
  <2> QED  BY <2>7, <2>8, <2>9, <2>10, <2>11, <2>12 DEF PipeInv
<1> QED  BY <1>a, <1>b

-----------------------------------------------------------------------------
(* Attempts begin *)

\* A command begins on a backend that has not been tried for it.
LEMMA AttemptFits ==
    ASSUME PipeInv, NEW p \in Pipe, NEW cmd \in Command,
           NEW b \in FirstBackend(p)
    PROVE  /\ Attempt(cmd, b) \in Execution
           /\ Attempt(cmd, b).cmd = cmd
           /\ Attempt(cmd, b).next \in 1..Len(Events(cmd.op))
           /\ ~Attempt(cmd, b).pressed
           /\ Attempt(cmd, b).on = "primary" =>
                    Attempt(cmd, b).tried = <<"primary">>
           /\ Attempt(cmd, b).on = "fallback" =>
                    /\ active[p] = "fallback"
                    /\ Attempt(cmd, b).tried = <<"fallback">>
<1>1. b \in Backend /\ (b = "fallback" => active[p] = "fallback")
  BY DEF PipeInv, TypeOK, FirstBackend
<1>2. <<b>> \in Seq(Backend)  BY <1>1
<1>3. Len(Events(cmd.op)) \in 1..4  BY InputsHaveEvents DEF Command
<1>4. 1 \in 1..4 /\ 1 \in 1..Len(Events(cmd.op))  BY <1>3
<1> QED  BY <1>1, <1>2, <1>4 DEF Attempt, Execution, Backend

\* What a command that begins does not touch.
LEMMA BeginKeeps ==
    ASSUME PipeInv, NEW p \in Pipe, NEW cmd \in Command, Begin(p, cmd),
           exec[p] = None,
           UNCHANGED <<failover, keys, history, backup>>
    PROVE  /\ exec' \in [Pipe -> Execution \cup {None}]
           /\ exec'[p] # None /\ exec'[p].cmd = cmd
           /\ \A q \in Pipe \ {p} : exec'[q] = exec[q]
           /\ AttemptsCounted' /\ KeysAsAsked'
<1> USE DEF failover, keys, history
<1>1. PICK b \in FirstBackend(p) : exec' = [exec EXCEPT ![p] = Attempt(cmd, b)]
  BY DEF Begin
<1>2. PICK e : e = Attempt(cmd, b)  OBVIOUS
<1>3. /\ e \in Execution /\ e.cmd = cmd /\ ~e.pressed
      /\ e.next \in 1..Len(Events(cmd.op))
      /\ e.on = "primary" => e.tried = <<"primary">>
      /\ e.on = "fallback" =>
            active[p] = "fallback" /\ e.tried = <<"fallback">>
  BY <1>2, AttemptFits
<1>4. e # None  BY <1>3, NoneAssumption
<1>5. exec \in [Pipe -> Execution \cup {None}]  BY DEF PipeInv, TypeOK
<1>6. exec'[p] = e /\ \A q \in Pipe \ {p} : exec'[q] = exec[q]
  BY <1>1, <1>2, <1>5
<1>7. exec' \in [Pipe -> Execution \cup {None}]
  BY <1>1, <1>2, <1>3, <1>5
<1>8. AttemptsCounted'
  BY <1>3, <1>6 DEF PipeInv, AttemptsCounted, AttemptCounted
<1>9. KeysAsAsked'
  BY <1>6 DEF PipeInv, KeysAsAsked
<1> QED  BY <1>3, <1>4, <1>6, <1>7, <1>8, <1>9

\* Without a queue the caller's input begins at once: nothing else is there.
LEMMA RunsItselfKeeps ==
    ASSUME PipeInv, NEW c \in Caller, RunsItself(c) PROVE PipeInv'
<1>0. PICK p : p = installed  OBVIOUS
<1>1. /\ pc[c] = "lock" /\ Holds(c) /\ p # 0 /\ ~queued[p] /\ p \in Pipe
      /\ pc' = [pc EXCEPT ![c] = "reply"]
      /\ UNCHANGED <<turn, binding, alive, queue, failover, keys, history>>
      /\ pc \in [Caller -> Stages]
  BY <1>0, NumberAssumption DEF RunsItself, PipeInv, TypeOK, Pipe, Goto
<1>2. PICK cmd \in Input(c) : Begin(p, cmd)  BY <1>0 DEF RunsItself
<1>3. cmd \in Command /\ cmd.from = c  BY <1>2 DEF Input, Command
<1>4. \A d \in Caller : pc[d] # "reply"  BY <1>1, OneWaits
<1>5. exec[p] = None /\ queue[p] = <<>>
  <2>1. \A d \in Caller : ~Runs(d, p)
    BY <1>1, <1>4 DEF PipeInv, CommandsOwned
  <2>2. exec[p] # None => exec[p].cmd.from \in Caller \cup {None}
    BY <1>1 DEF PipeInv, TypeOK, Execution, Command
  <2> QED  BY <1>1, <2>1, <2>2 DEF PipeInv, PipesAlive, Runs
<1>6. /\ exec' \in [Pipe -> Execution \cup {None}]
      /\ exec'[p] # None /\ exec'[p].cmd = cmd
      /\ \A q \in Pipe \ {p} : exec'[q] = exec[q]
      /\ AttemptsCounted' /\ KeysAsAsked'
  BY <1>1, <1>2, <1>3, <1>5, BeginKeeps DEF binding
<1>7. TypeOK'
  <2>1. pc' \in [Caller -> Stages]  BY <1>1 DEF Stages
  <2> QED  BY <1>1, <1>6, <2>1
              DEF PipeInv, TypeOK, binding, failover, keys, history
<1>8. PipesAlive'
  <2>1. alive[p] = "up"  BY <1>0, <1>1 DEF PipeInv, PipesAlive
  <2>2. c # None  BY ActorAssumption
  <2> QED  BY <1>1, <1>3, <1>6, <2>1, <2>2
              DEF PipeInv, PipesAlive, binding, failover, history
<1>9. CommandsOwned'
  <2>1. (Holds(c))' /\ installed' = p  BY <1>0, <1>1 DEF Holds, binding
  <2>2. \A d \in Caller : pc'[d] = "reply" <=> d = c  BY <1>1, <1>4
  <2>3. \A q \in Pipe, d \in Caller : \A i : ~(HasIn(d, q, i))'
    BY <1>1, <1>4 DEF PipeInv, CommandsOwned, HasIn
  <2>4. \A q \in Pipe, d \in Caller : (Runs(d, q))' <=> q = p /\ d = c
    BY <1>3, <1>4, <1>6 DEF PipeInv, CommandsOwned, Runs
  <2> QED  BY <1>1, <2>1, <2>2, <2>3, <2>4 DEF CommandsOwned
<1>10. SentKeysOwned' /\ (~fault' => down' \subseteq {"sent"} \X Key)
  BY <1>1 DEF PipeInv, SentKeysOwned, keys, history
<1> QED  BY <1>6, <1>7, <1>8, <1>9, <1>10 DEF PipeInv

\* The worker takes the first command, its owner's if it has one.
LEMMA WorkerTakesKeeps ==
    ASSUME PipeInv, NEW p \in Pipe, WorkerTakes(p) PROVE PipeInv'
<1>1. /\ queued[p] /\ alive[p] = "up" /\ exec[p] = None /\ queue[p] # <<>>
      /\ Begin(p, Head(queue[p]))
      /\ queue' = [queue EXCEPT ![p] = Tail(queue[p])]
      /\ UNCHANGED <<callers, binding, alive, failover, keys, history>>
  BY DEF WorkerTakes, Rest
<1>2. /\ queue \in [Pipe -> Seq(Command)] /\ queue[p] \in Seq(Command)
      /\ \A q \in Pipe : Len(queue[q]) <= Capacity
  BY DEF PipeInv, TypeOK
<1>3. PICK n \in Nat : n = Len(queue[p]) - 1 /\ Len(queue[p]) = n + 1
  BY <1>1, <1>2, EmptySeq, LenProperties
<1>4. /\ Head(queue[p]) \in Command /\ Head(queue[p]) = queue[p][1]
      /\ queue'[p] \in Seq(Command) /\ Len(queue'[p]) = n
      /\ DOMAIN queue'[p] = 1..n /\ DOMAIN queue[p] = 1..n + 1
      /\ \A i \in 1..n : queue'[p][i] = queue[p][i + 1]
      /\ \A q \in Pipe \ {p} : queue'[q] = queue[q]
  <2>1. queue'[p] = Tail(queue[p])  BY <1>1, <1>2
  <2> QED  BY <1>1, <1>2, <1>3, <2>1, HeadTailProperties, LenProperties
<1>5. PICK cmd \in Command : cmd = queue[p][1]  BY <1>4
<1>6. /\ exec' \in [Pipe -> Execution \cup {None}]
      /\ exec'[p] # None /\ exec'[p].cmd = cmd
      /\ \A q \in Pipe \ {p} : exec'[q] = exec[q]
      /\ AttemptsCounted' /\ KeysAsAsked'
  BY <1>1, <1>4, <1>5, BeginKeeps DEF binding
<1>7. TypeOK'
  <2>1. queue' \in [Pipe -> Seq(Command)]  BY <1>1, <1>2, <1>4
  <2>2. \A q \in Pipe : Len(queue'[q]) <= Capacity
    <3>1. n <= Capacity  BY <1>2, <1>3, NumberAssumption
    <3> QED  BY <1>2, <1>4, <3>1
  <2> QED  BY <1>1, <1>6, <2>1, <2>2
              DEF PipeInv, TypeOK, callers, binding, failover, keys, history
<1>8. PipesAlive'
  BY <1>1, <1>4, <1>6
     DEF PipeInv, PipesAlive, binding, failover, history
<1>9. CommandsOwned'
  <2>1. \A d : (Holds(d))' = Holds(d)  BY <1>1 DEF Holds, callers
  <2>2. pc' = pc /\ installed' = installed  BY <1>1 DEF callers, binding
  <2>3. \A q \in Pipe \ {p}, d \in Caller :
            /\ (Runs(d, q))' = Runs(d, q)
            /\ \A i : (HasIn(d, q, i))' = HasIn(d, q, i)
    BY <1>4, <1>6 DEF Runs, HasIn
  <2>4. \A d \in Caller : (Runs(d, p))' <=> HasIn(d, p, 1)
    <3>1. 1 \in DOMAIN queue[p]  BY <1>3, <1>4
    <3> QED  BY <1>5, <1>6, <3>1 DEF Runs, HasIn
  <2>5. \A d \in Caller : \A i :
            (HasIn(d, p, i))' <=> i \in 1..n /\ HasIn(d, p, i + 1)
    BY <1>3, <1>4 DEF HasIn
  <2>6. \A d \in Caller : ~Runs(d, p)  BY <1>1 DEF Runs
  <2>7. \A d \in Caller : \A i : HasIn(d, p, i) => i \in 1..n + 1
    BY <1>4 DEF HasIn
  <2>8. \A d \in Caller : pc'[d] = "reply" => installed' # 0 /\ (Holds(d))'
    BY <2>1, <2>2 DEF PipeInv, CommandsOwned
  <2>9. ASSUME NEW q \in Pipe, NEW d \in Caller,
               (Runs(d, q))' \/ (\E i \in DOMAIN queue'[q] : (HasIn(d, q, i))')
        PROVE  pc'[d] = "reply" /\ installed' = q
    <3>1. Runs(d, q) \/ (\E i \in DOMAIN queue[q] : HasIn(d, q, i))
      <4>1. CASE q = p
        BY <2>4, <2>5, <2>9, <4>1 DEF HasIn
      <4>2. CASE q # p  BY <1>4, <2>3, <2>9, <4>2
      <4> QED  BY <4>1, <4>2
    <3> QED  BY <2>2, <3>1 DEF PipeInv, CommandsOwned
  <2>10. ASSUME NEW d \in Caller, pc[d] = "reply"
         PROVE  LET q == installed IN
                \/ (Runs(d, q))' /\ \A i \in DOMAIN queue'[q] : ~(HasIn(d, q, i))'
                \/ /\ ~(Runs(d, q))'
                   /\ \E i \in DOMAIN queue'[q] :
                        /\ (HasIn(d, q, i))'
                        /\ \A j \in DOMAIN queue'[q] : (HasIn(d, q, j))' => j = i
    <3>0. PICK q : q = installed  OBVIOUS
    <3>1. q \in Pipe
      BY <2>10, <3>0, NumberAssumption
         DEF PipeInv, TypeOK, CommandsOwned, Pipe
    <3>2. \/ Runs(d, q) /\ \A i \in DOMAIN queue[q] : ~HasIn(d, q, i)
          \/ /\ ~Runs(d, q)
             /\ \E i \in DOMAIN queue[q] :
                  /\ HasIn(d, q, i)
                  /\ \A j \in DOMAIN queue[q] : HasIn(d, q, j) => j = i
      BY <2>10, <3>0 DEF PipeInv, CommandsOwned
    <3>4. CASE q # p
      BY <1>4, <2>2, <2>3, <3>0, <3>1, <3>2, <3>4
    <3>5. CASE q = p
      <4>1. PICK i \in 1..n + 1 :
                HasIn(d, p, i) /\ \A j \in 1..n + 1 : HasIn(d, p, j) => j = i
        BY <1>4, <2>6, <3>2, <3>5
      <4>2. CASE i = 1
        <5>1. (Runs(d, p))'  BY <2>4, <4>1, <4>2
        <5>2. \A j \in 1..n : ~(HasIn(d, p, j))'
          BY <1>3, <2>5, <4>1, <4>2
        <5> QED  BY <1>4, <2>2, <3>0, <3>5, <5>1, <5>2
      <4>3. CASE i # 1
        <5>1. ~(Runs(d, p))'  BY <1>3, <2>4, <4>1, <4>3
        <5>2. i - 1 \in 1..n /\ (HasIn(d, p, i - 1))'
          BY <1>3, <2>5, <4>1, <4>3
        <5>3. \A j \in 1..n : (HasIn(d, p, j))' => j = i - 1
          BY <1>3, <2>5, <4>1
        <5> QED  BY <1>4, <2>2, <3>0, <3>5, <5>1, <5>2, <5>3
      <4> QED  BY <4>2, <4>3
    <3> QED  BY <3>4, <3>5
  <2> QED  BY <2>2, <2>8, <2>9, <2>10 DEF CommandsOwned
<1>10. SentKeysOwned' /\ (~fault' => down' \subseteq {"sent"} \X Key)
  BY <1>1 DEF PipeInv, SentKeysOwned, keys, history
<1> QED  BY <1>6, <1>7, <1>8, <1>9, <1>10 DEF PipeInv

-----------------------------------------------------------------------------
(* Attempts go on and end *)

\* When a command is done its owner goes on; if it had one, nobody is left
\* that waits.
LEMMA DoneKeeps ==
    ASSUME PipeInv, NEW p \in Pipe, exec[p] # None, Done(p),
           UNCHANGED <<binding, queue>>
    PROVE  /\ exec' \in [Pipe -> Execution \cup {None}]
           /\ exec'[p] = None
           /\ \A q \in Pipe \ {p} : exec'[q] = exec[q]
           /\ pc' \in [Caller -> Stages] /\ turn' = turn
           /\ CommandsOwned'
<1>1. exec \in [Pipe -> Execution \cup {None}] /\ pc \in [Caller -> Stages]
  BY DEF PipeInv, TypeOK
<1>2. PICK c : c = exec[p].cmd.from  OBVIOUS
<1>3. /\ exec' = [exec EXCEPT ![p] = None] /\ turn' = turn
      /\ pc' = IF c = None THEN pc ELSE [pc EXCEPT ![c] = "record"]
  BY <1>2 DEF Done
<1>4. c \in Caller \cup {None}
  BY <1>1, <1>2 DEF Execution, Command
<1>5. /\ exec' \in [Pipe -> Execution \cup {None}]
      /\ exec'[p] = None
      /\ \A q \in Pipe \ {p} : exec'[q] = exec[q]
      /\ pc' \in [Caller -> Stages]
  BY <1>1, <1>3, <1>4 DEF Stages
<1>6. \A q \in Pipe \ {p}, d \in Caller : (Runs(d, q))' = Runs(d, q)
  BY <1>5 DEF Runs
<1>7. \A d \in Caller : ~(Runs(d, p))'  BY <1>5 DEF Runs
<1>8. \A q \in Pipe, d \in Caller : \A i : (HasIn(d, q, i))' = HasIn(d, q, i)
  BY DEF HasIn
<1>9. \A d : (Holds(d))' = Holds(d)  BY <1>3 DEF Holds
<1>10. CommandsOwned'
  <2>1. CASE c = None
    <3>1. \A d \in Caller : ~Runs(d, p)
      BY <1>2, <2>1, ActorAssumption DEF Runs
    <3>2. \A q \in Pipe, d \in Caller : (Runs(d, q))' <=> Runs(d, q)
      BY <1>6, <1>7, <3>1
    <3>3. pc' = pc /\ installed' = installed /\ queue' = queue
      BY <1>3, <2>1 DEF binding
    <3>4. \A d \in Caller : pc[d] = "reply" => installed \in Pipe
      BY NumberAssumption DEF PipeInv, TypeOK, CommandsOwned, Pipe
    <3> QED
      BY <1>8, <1>9, <3>2, <3>3, <3>4 DEF PipeInv, CommandsOwned
  <2>2. CASE c # None
    <3>1. c \in Caller /\ Runs(c, p)  BY <1>2, <1>4, <2>2 DEF Runs
    <3>2. pc[c] = "reply" /\ installed = p
      BY <3>1 DEF PipeInv, CommandsOwned
    <3>3. \A d \in Caller : pc[d] = "reply" => d = c
      BY <3>1, <3>2, OneWaits DEF PipeInv, CommandsOwned
    <3>4. \A d \in Caller : pc'[d] # "reply"
      BY <1>1, <1>3, <2>2, <3>1, <3>3
    <3>5. \A i : ~HasIn(c, p, i)
      BY <3>1, <3>2 DEF PipeInv, CommandsOwned, HasIn
    <3>6. \A q \in Pipe, d \in Caller : ~(Runs(d, q))'
      BY <1>6, <1>7, <3>1, <3>2, <3>3 DEF PipeInv, CommandsOwned
    <3>7. \A q \in Pipe, d \in Caller : \A i : ~(HasIn(d, q, i))'
      BY <1>8, <3>1, <3>2, <3>3, <3>5 DEF PipeInv, CommandsOwned, HasIn
    <3> QED  BY <3>4, <3>6, <3>7 DEF CommandsOwned
  <2> QED  BY <2>1, <2>2
<1> QED  BY <1>3, <1>5, <1>10

\* An attempt that becomes another one of the same command disowns nothing.
LEMMA SameCommandKeeps ==
    ASSUME PipeInv, NEW p \in Pipe, NEW e \in Execution, exec[p] # None,
           exec' = [exec EXCEPT ![p] = e], e.cmd = exec[p].cmd,
           UNCHANGED <<callers, binding, queue>>
    PROVE  /\ exec' \in [Pipe -> Execution \cup {None}]
           /\ exec'[p] = e /\ exec'[p] # None
           /\ \A q \in Pipe \ {p} : exec'[q] = exec[q]
           /\ pc' \in [Caller -> Stages] /\ turn' = turn
           /\ CommandsOwned'
<1> USE DEF callers, binding
<1>1. exec \in [Pipe -> Execution \cup {None}] /\ pc \in [Caller -> Stages]
  BY DEF PipeInv, TypeOK
<1>2. /\ exec' \in [Pipe -> Execution \cup {None}]
      /\ exec'[p] = e /\ exec'[p] # None
      /\ \A q \in Pipe \ {p} : exec'[q] = exec[q]
  BY <1>1, NoneAssumption
<1>3. \A q \in Pipe, d \in Caller : (Runs(d, q))' = Runs(d, q)
  BY <1>2 DEF Runs
<1>4. \A q \in Pipe, d \in Caller : \A i : (HasIn(d, q, i))' = HasIn(d, q, i)
  BY DEF HasIn
<1>5. CommandsOwned'
  <2>1. \A d : (Holds(d))' = Holds(d)  BY DEF Holds
  <2>2. \A d \in Caller : pc[d] = "reply" => installed \in Pipe
    BY NumberAssumption DEF PipeInv, TypeOK, CommandsOwned, Pipe
  <2> QED  BY <1>3, <1>4, <2>1, <2>2 DEF PipeInv, CommandsOwned
<1> QED  BY <1>1, <1>2, <1>5

\* What the second attempt of a command is.
LEMMA SecondAttempt ==
    ASSUME NEW e \in Execution, e.tried = <<"primary">>
    PROVE  NextAttempt(e, "fallback")
             = [cmd |-> e.cmd, on |-> "fallback", next |-> 1, pressed |-> FALSE,
                tried |-> <<"primary", "fallback">>]
<1>1. Append(<<"primary">>, "fallback") = <<"primary", "fallback">>
  <2>1. <<"primary">> \in Seq(Backend) /\ Len(<<"primary">>) = 1
        /\ "fallback" \in Backend
    BY DEF Backend
  <2>2. PICK s : s = Append(<<"primary">>, "fallback")  OBVIOUS
  <2>3. s \in Seq(Backend) /\ Len(s) = 2 /\ s[1] = "primary" /\ s[2] = "fallback"
    BY <2>1, <2>2, AppendProperties
  <2>4. <<"primary", "fallback">> \in Seq(Backend)
        /\ Len(<<"primary", "fallback">>) = 2
    BY DEF Backend
  <2>5. s = <<"primary", "fallback">>  BY <2>3, <2>4, SeqEqual
  <2> QED  BY <2>2, <2>5
<1>2. NextAttempt(e, "fallback")
        = [[cmd |-> e.cmd, on |-> "fallback", next |-> 1, pressed |-> FALSE,
            tried |-> <<"fallback">>] EXCEPT !.tried = <<"primary", "fallback">>]
  BY <1>1 DEF NextAttempt, Attempt
<1> QED  BY <1>2

\* An event, or the end of an attempt, of a pipeline that is up.
LEMMA AttemptStepKeeps ==
    ASSUME PipeInv, NEW p \in Pipe, exec[p] # None,
           UNCHANGED <<binding, alive, queue>>,
           exec'[p] # None => exec'[p].cmd = exec[p].cmd,
           \A q \in Pipe \ {p} :
                /\ exec'[q] = exec[q] /\ active'[q] = active[q]
                /\ failures'[q] = failures[q] /\ streak'[q] = streak[q]
    PROVE  PipesAlive'
<1>1. UNCHANGED <<installed, queued, alive, queue>>  BY DEF binding
<1>2. alive[p] = "up"  BY DEF PipeInv, PipesAlive
<1>3. ASSUME NEW q \in Pipe
      PROVE  /\ alive[q] = "none" => /\ active'[q] = active[q]
                                     /\ failures'[q] = failures[q]
                                     /\ streak'[q] = streak[q]
             /\ exec'[q] # None => exec[q] # None /\ exec'[q].cmd = exec[q].cmd
  <2>1. CASE q = p  BY <1>2, <2>1
  <2>2. CASE q # p  BY <2>2
  <2> QED  BY <2>1, <2>2
<1> QED  BY <1>1, <1>3 DEF PipeInv, PipesAlive

\* run_with_failover after a failure: the counter, the switch, the attempt on
\* the other backend or the end of the command.
LEMMA FailureKeeps ==
    ASSUME PipeInv, NEW p \in Pipe, exec[p] # None, AttemptFails(p),
           UNCHANGED <<binding, alive, queue, keys>>
    PROVE  PipeInv'
<1> USE DEF Fault
<1>1. /\ exec[p] \in Execution /\ exec \in [Pipe -> Execution \cup {None}]
      /\ active \in [Pipe -> Backend]
      /\ failures \in [Pipe -> 0..(Threshold - 1)]
      /\ streak \in [Pipe -> 0..Threshold]
      /\ Threshold \in Nat \ {0}
  BY NumberAssumption DEF PipeInv, TypeOK
<1>2. /\ streak' = IF exec[p].on = "primary"
                     THEN [streak EXCEPT ![p] = IF @ < Threshold THEN @ + 1 ELSE @]
                     ELSE streak
      /\ fault' = TRUE /\ asked' = {}
  BY DEF AttemptFails
<1>3. /\ streak' \in [Pipe -> 0..Threshold]
      /\ \A q \in Pipe \ {p} : streak'[q] = streak[q]
      /\ exec[p].on = "primary" /\ streak[p] < Threshold =>
                streak'[p] = streak[p] + 1
      /\ exec[p].on = "primary" /\ streak[p] = Threshold =>
                streak'[p] = Threshold
      /\ exec[p].on # "primary" => streak'[p] = streak[p]
  BY <1>1, <1>2
<1>4. alive[p] = "up"  BY DEF PipeInv, PipesAlive
\* What is left to show of each case.
<1>5. ASSUME /\ exec' \in [Pipe -> Execution \cup {None}]
             /\ exec'[p] # None => exec'[p].cmd = exec[p].cmd
             /\ \A q \in Pipe \ {p} : exec'[q] = exec[q]
             /\ pc' \in [Caller -> Stages] /\ turn' = turn
             /\ CommandsOwned',
             active' \in [Pipe -> Backend],
             failures' \in [Pipe -> 0..(Threshold - 1)],
             AttemptsCounted',
             \A q \in Pipe \ {p} : /\ active'[q] = active[q]
                                  /\ failures'[q] = failures[q]
      PROVE  PipeInv'
  <2>1. TypeOK'
    BY <1>2, <1>3, <1>5 DEF PipeInv, TypeOK, binding, keys
  <2>2. PipesAlive'
    BY <1>3, <1>5, AttemptStepKeeps
  <2>3. KeysAsAsked' /\ SentKeysOwned'
    BY <1>2 DEF PipeInv, KeysAsAsked, SentKeysOwned, keys
  <2> QED  BY <1>2, <1>5, <2>1, <2>2, <2>3 DEF PipeInv
\* The command is done.
<1>6. ASSUME Done(p), active' = active,
             failures' \in [Pipe -> 0..(Threshold - 1)],
             \A q \in Pipe \ {p} : failures'[q] = failures[q],
             active[p] = "fallback" => streak'[p] = streak[p],
             active[p] = "primary" /\ backup[p] =>
                    streak'[p] = failures'[p]
      PROVE  PipeInv'
  <2>1. /\ exec' \in [Pipe -> Execution \cup {None}] /\ exec'[p] = None
        /\ \A q \in Pipe \ {p} : exec'[q] = exec[q]
        /\ pc' \in [Caller -> Stages] /\ turn' = turn /\ CommandsOwned'
    BY <1>6, DoneKeeps
  <2>2. AttemptsCounted'
    BY <1>2, <1>3, <1>6, <2>1 DEF PipeInv, AttemptsCounted, AttemptCounted, binding
  <2> QED  BY <1>1, <1>5, <1>6, <2>1, <2>2
\* It is tried on another backend, now or already the active one.
<1>7. ASSUME Again(p, "fallback"), exec[p].on = "primary",
             active' \in [Pipe -> Backend], active'[p] = "fallback",
             failures' \in [Pipe -> 0..(Threshold - 1)],
             \A q \in Pipe \ {p} : /\ active'[q] = active[q]
                                  /\ failures'[q] = failures[q],
             backup[p], streak'[p] = Threshold, UNCHANGED callers
      PROVE  PipeInv'
  <2>1. PICK e : e = [cmd |-> exec[p].cmd, on |-> "fallback", next |-> 1,
                      pressed |-> FALSE, tried |-> <<"primary", "fallback">>]
    OBVIOUS
  <2>2. exec[p].tried = <<"primary">>
    BY <1>7 DEF PipeInv, AttemptsCounted, AttemptCounted
  <2>3. /\ e \in Execution /\ e.cmd = exec[p].cmd /\ e.on = "fallback"
        /\ ~e.pressed /\ e.next = 1
        /\ e.tried = <<"primary", "fallback">>
    <3>1. exec[p].cmd \in Command  BY <1>1 DEF Execution
    <3>2. <<"primary", "fallback">> \in Seq(Backend)  BY DEF Backend
    <3>3. 1 \in 1..4 /\ "fallback" \in Backend  BY DEF Backend
    <3> QED  BY <2>1, <3>1, <3>2, <3>3 DEF Execution
  <2>4. exec' = [exec EXCEPT ![p] = e]
    BY <1>1, <1>7, <2>1, <2>2, SecondAttempt DEF Again
  <2>5. /\ exec' \in [Pipe -> Execution \cup {None}]
        /\ exec'[p] = e /\ exec'[p] # None
        /\ \A q \in Pipe \ {p} : exec'[q] = exec[q]
        /\ pc' \in [Caller -> Stages] /\ turn' = turn /\ CommandsOwned'
    BY <1>7, <2>3, <2>4, SameCommandKeeps
  <2>6. 1 \in 1..Len(Events(e.cmd.op))
    <3>1. e.cmd \in Command  BY <2>3 DEF Execution
    <3>2. Len(Events(e.cmd.op)) \in 1..4  BY <3>1, InputsHaveEvents DEF Command
    <3> QED  BY <3>2
  <2>7. AttemptsCounted'
    <3>1. backup' = backup /\ fault' = TRUE  BY <1>2 DEF binding
    <3>2. ASSUME NEW q \in Pipe \ {p}
          PROVE  /\ exec'[q] = exec[q] /\ active'[q] = active[q]
                 /\ failures'[q] = failures[q] /\ streak'[q] = streak[q]
      BY <1>3, <1>7, <2>5
    <3>3. ASSUME NEW q \in Pipe \ {p} PROVE AttemptCounted(q)
      BY DEF PipeInv, AttemptsCounted, AttemptCounted
    <3>4. /\ exec'[p] = e /\ active'[p] = "fallback" /\ backup'[p]
          /\ streak'[p] = Threshold /\ e.next \in 1..Len(Events(e.cmd.op))
          /\ ~e.pressed /\ e.on = "fallback"
          /\ e.tried \in {<<"fallback">>, <<"primary", "fallback">>}
      BY <1>7, <2>3, <2>5, <2>6, <3>1
    <3> SUFFICES ASSUME NEW q \in Pipe
                 PROVE  (AttemptCounted(q))'
      BY DEF AttemptsCounted
    <3>5. CASE q = p
      BY <3>1, <3>4, <3>5 DEF AttemptCounted
    <3>6. CASE q # p
      BY <3>1, <3>2, <3>3, <3>6 DEF AttemptCounted
    <3> QED  BY <3>5, <3>6
  <2> QED  BY <1>5, <1>7, <2>3, <2>5, <2>7
<1>8. exec[p].on = "fallback" => active[p] = "fallback"
  BY DEF PipeInv, AttemptsCounted, AttemptCounted
<1>9. active[p] = "fallback" => backup[p] /\ streak[p] = Threshold
  BY DEF PipeInv, AttemptsCounted, AttemptCounted
<1>10. active[p] = "primary" /\ backup[p] => streak[p] = failures[p]
  BY DEF PipeInv, AttemptsCounted, AttemptCounted
<1>11. exec[p].on \in Backend /\ active[p] \in Backend  BY <1>1 DEF Execution
<1>a. CASE Probing(p)
  <2>1. Again(p, AfterProbe(p)) /\ UNCHANGED <<failover, callers>>
    BY <1>a DEF AttemptFails, Probing
  <2>2. AfterProbe(p) = "fallback"  BY <1>a DEF Probing, AfterProbe
  <2> QED  BY <1>1, <1>3, <1>7, <1>9, <1>a, <2>1, <2>2 DEF Probing, failover
<1>b. CASE active[p] = "fallback" /\ ~Probing(p)
  <2>1. Done(p) /\ UNCHANGED failover  BY <1>b DEF AttemptFails
  <2>2. exec[p].on # "primary"  BY <1>b DEF Probing
  <2> QED  BY <1>1, <1>3, <1>6, <1>b, <2>1, <2>2 DEF failover
<1>c. CASE active[p] = "primary" /\ ~backup[p]
  <2>1. Done(p) /\ UNCHANGED failover  BY <1>c DEF AttemptFails, Probing
  <2> QED  BY <1>1, <1>6, <1>c, <2>1 DEF failover
<1>d. CASE active[p] = "primary" /\ backup[p] /\ Stays(p)
  <2>1. /\ failures' = [failures EXCEPT ![p] = @ + 1] /\ Done(p)
        /\ active' = active
    BY <1>d DEF AttemptFails, Probing
  <2>2. failures[p] + 1 < Threshold  BY <1>d DEF Stays
  <2>3. exec[p].on = "primary"  BY <1>8, <1>11, <1>d DEF Backend
  <2>4. failures[p] + 1 \in 0..(Threshold - 1)  BY <1>1, <2>2
  <2>5. /\ failures' \in [Pipe -> 0..(Threshold - 1)]
        /\ failures'[p] = failures[p] + 1
        /\ \A q \in Pipe \ {p} : failures'[q] = failures[q]
    BY <1>1, <2>1, <2>4
  <2>6. streak'[p] = failures'[p]
    BY <1>1, <1>3, <1>10, <1>d, <2>2, <2>3, <2>5
  <2> QED  BY <1>6, <1>d, <2>1, <2>5, <2>6
<1>e. CASE active[p] = "primary" /\ backup[p] /\ ~Stays(p)
  <2>1. /\ active' = [active EXCEPT ![p] = "fallback"]
        /\ failures' = [failures EXCEPT ![p] = 0]
        /\ Again(p, "fallback") /\ UNCHANGED callers
    BY <1>e DEF AttemptFails, Probing
  <2>2. exec[p].on = "primary"  BY <1>8, <1>11, <1>e DEF Backend
  <2>3. streak'[p] = Threshold
    BY <1>1, <1>3, <1>10, <1>e, <2>2 DEF Stays
  <2>4. /\ active' \in [Pipe -> Backend] /\ active'[p] = "fallback"
        /\ failures' \in [Pipe -> 0..(Threshold - 1)]
        /\ \A q \in Pipe \ {p} : /\ active'[q] = active[q]
                                /\ failures'[q] = failures[q]
    BY <1>1, <2>1 DEF Backend
  <2> QED  BY <1>7, <1>e, <2>1, <2>2, <2>3, <2>4
<1> QED  BY <1>11, <1>a, <1>b, <1>c, <1>d, <1>e DEF Backend

\* One event is sent: what is down, and who has pressed it.
LEMMA SentEvent ==
    ASSUME PipeInv, NEW p \in Pipe, exec[p] # None,
           Send(p, exec[p].on, Events(exec[p].cmd.op)[exec[p].next],
                exec[p].cmd.key),
           alive' = alive
    PROVE  /\ held' \in [Pipe -> SUBSET Key]
           /\ down' \subseteq {"sent", "posted"} \X Key
           /\ presser' \in [Key -> 0..MaxPipes]
           /\ SentKeysOwned'
<1> DEFINE ev == Events(exec[p].cmd.op)[exec[p].next]
<1>1. PICK k : k = exec[p].cmd.key  OBVIOUS
<1>2. PICK b : b = exec[p].on  OBVIOUS
<1>3. k \in Key /\ b \in Backend
  BY <1>1, <1>2 DEF PipeInv, TypeOK, Execution, Command
<1>4. /\ held \in [Pipe -> SUBSET Key] /\ presser \in [Key -> 0..MaxPipes]
      /\ down \subseteq {"sent", "posted"} \X Key
  BY DEF PipeInv, TypeOK
<1>5. alive[p] = "up" /\ p # 0 /\ p \in 0..MaxPipes
  BY NumberAssumption DEF PipeInv, PipesAlive, Pipe
<1>6. SentKeysOwned  BY DEF PipeInv
<1>7. CASE ev = "press"
  <2>1. Press(p, b, k)  BY <1>1, <1>2, <1>7 DEF Send
  <2>2. CASE b = "primary"
    <3>1. /\ down' = down \cup {<<"sent", k>>}
          /\ held' = [held EXCEPT ![p] = @ \cup {k}]
          /\ presser' = [presser EXCEPT ![k] = p]
      BY <2>1, <2>2 DEF Press, Way
    <3>2. /\ \A q \in Pipe : held[q] \subseteq held'[q]
          /\ k \in held'[p] /\ presser'[k] = p
          /\ \A k2 \in Key \ {k} : presser'[k2] = presser[k2]
      BY <1>3, <1>4, <3>1
    <3>3. \A k2 \in Key : presser[k2] \in 0..MaxPipes  BY <1>4
    <3>4. SentKeysOwned'
      BY <1>3, <1>5, <1>6, <3>1, <3>2, <3>3 DEF SentKeysOwned, Pipe
    <3> QED  BY <1>3, <1>4, <1>5, <3>1, <3>4
  <2>3. CASE b # "primary"
    <3>1. /\ down' = down \cup {<<"posted", k>>} /\ UNCHANGED <<held, presser>>
      BY <2>1, <2>3 DEF Press, Way
    <3> QED  BY <1>3, <1>4, <1>6, <3>1 DEF SentKeysOwned
  <2> QED  BY <2>2, <2>3
<1>8. CASE ev = "release"
  <2>1. Release(p, b, k)  BY <1>1, <1>2, <1>8 DEF Send
  <2>2. CASE b = "primary"
    <3>1. /\ down' = down \ {<<"sent", k>>}
          /\ held' = [held EXCEPT ![p] = @ \ {k}]
          /\ presser' = [presser EXCEPT ![k] = 0]
      BY <2>1, <2>2 DEF Release, Way
    <3>2. /\ \A q \in Pipe : held[q] \ {k} \subseteq held'[q]
          /\ \A k2 \in Key \ {k} : presser'[k2] = presser[k2]
      BY <1>3, <1>4, <3>1
    <3>3. \A k2 \in Key : presser[k2] \in 0..MaxPipes  BY <1>4
    <3>4. SentKeysOwned'
      BY <1>3, <1>6, <3>1, <3>2, <3>3 DEF SentKeysOwned, Pipe
    <3>5. held' \in [Pipe -> SUBSET Key]
      <4>1. held[p] \ {k} \in SUBSET Key  BY <1>4
      <4> QED  BY <1>4, <3>1, <4>1
    <3>6. presser' \in [Key -> 0..MaxPipes]
      <4>1. 0 \in 0..MaxPipes  BY NumberAssumption
      <4> QED  BY <1>4, <3>1, <4>1
    <3> QED  BY <1>4, <3>1, <3>4, <3>5, <3>6
  <2>3. CASE b # "primary"
    <3>1. /\ down' = down \ {<<"posted", k>>} /\ UNCHANGED <<held, presser>>
      BY <2>1, <2>3 DEF Release, Way
    <3> QED  BY <1>4, <1>6, <3>1 DEF SentKeysOwned
  <2> QED  BY <2>2, <2>3
<1>9. CASE ev # "press" /\ ev # "release"
  <2>1. UNCHANGED keys  BY <1>9 DEF Send
  <2> QED  BY <1>4, <1>6, <2>1 DEF SentKeysOwned, keys
<1> QED  BY <1>7, <1>8, <1>9

\* Before any fault everything that is down was pressed in the foreground,
\* and an event changes one key.
LEMMA SentDown ==
    ASSUME PipeInv, NEW p \in Pipe, exec[p] # None, ~fault,
           Send(p, exec[p].on, Events(exec[p].cmd.op)[exec[p].next],
                exec[p].cmd.key)
    PROVE  LET ev == Events(exec[p].cmd.op)[exec[p].next]
               k  == exec[p].cmd.key
           IN /\ exec[p].on = "primary" /\ down \subseteq {"sent"} \X Key
              /\ down' = CASE ev = "press"   -> down \cup {<<"sent", k>>}
                           [] ev = "release" -> down \ {<<"sent", k>>}
                           [] OTHER          -> down
<1>1. /\ exec[p].on \in Backend /\ active[p] = "primary"
      /\ exec[p].on = "fallback" => active[p] = "fallback"
  BY DEF PipeInv, TypeOK, Execution, AttemptsCounted, AttemptCounted
<1>2. exec[p].on = "primary" /\ down \subseteq {"sent"} \X Key
  BY <1>1 DEF Backend, PipeInv
<1> QED  BY <1>2 DEF Send, Press, Release, Way, keys

\* What an attempt is after one of its events.
LEMMA AfterEvent ==
    ASSUME NEW e \in Execution, NEW event, e.next + 1 \in 1..4
    PROVE  /\ After(e, event) \in Execution
           /\ After(e, event).cmd = e.cmd /\ After(e, event).on = e.on
           /\ After(e, event).next = e.next + 1
           /\ After(e, event).tried = e.tried
           /\ After(e, event).pressed <=> e.pressed \/ event = "press"
<1>1. PICK f : f = (e.pressed \/ event = "press")  OBVIOUS
<1>2. f \in BOOLEAN /\ (f <=> e.pressed \/ event = "press")
  BY <1>1 DEF Execution
<1>3. After(e, event) = [e EXCEPT !.next = e.next + 1, !.pressed = f]
  BY <1>1 DEF After
<1>4. PICK g : g = [e EXCEPT !.next = e.next + 1, !.pressed = f]  OBVIOUS
<1>5. /\ g \in Execution /\ g.cmd = e.cmd /\ g.on = e.on
      /\ g.next = e.next + 1 /\ g.tried = e.tried /\ g.pressed = f
  BY <1>2, <1>4 DEF Execution
<1> QED  BY <1>2, <1>3, <1>4, <1>5

\* The next event of an attempt, and its success with the last.
LEMMA SendEventKeeps ==
    ASSUME PipeInv, NEW p \in Pipe, SendEvent(p) PROVE PipeInv'
<1>1. PICK e : e = exec[p]  OBVIOUS
<1>2. PICK es : es = Events(e.cmd.op)  OBVIOUS
<1>3. /\ exec[p] # None /\ e \in Execution /\ e.cmd \in Command
      /\ e.cmd.op \in Op /\ e.cmd.key \in Key
      /\ exec \in [Pipe -> Execution \cup {None}]
      /\ UNCHANGED <<binding, alive, queue>>
  BY <1>1 DEF SendEvent, PipeInv, TypeOK, Execution, Command
<1>4. /\ Len(es) \in 1..4 /\ e.next \in 1..Len(es)
      /\ e.pressed => e.cmd.op # "click"
  BY <1>1, <1>2, <1>3, InputsHaveEvents
     DEF PipeInv, AttemptsCounted, AttemptCounted
<1>5. Send(p, exec[p].on, Events(exec[p].cmd.op)[exec[p].next],
           exec[p].cmd.key)
  BY DEF SendEvent
<1>6. /\ held' \in [Pipe -> SUBSET Key]
      /\ down' \subseteq {"sent", "posted"} \X Key
      /\ presser' \in [Key -> 0..MaxPipes]
      /\ SentKeysOwned'
  BY <1>3, <1>5, SentEvent
<1>7. ~fault =>
        /\ e.on = "primary" /\ down \subseteq {"sent"} \X Key
        /\ down' = CASE es[e.next] = "press"   -> down \cup {<<"sent", e.cmd.key>>}
                     [] es[e.next] = "release" -> down \ {<<"sent", e.cmd.key>>}
                     [] OTHER -> down
  BY <1>1, <1>2, <1>3, <1>5, SentDown
<1>8. ~fault => down' \subseteq {"sent"} \X Key
  BY <1>3, <1>7
<1>9. fault' = fault
  BY DEF SendEvent, history
<1>a. CASE e.next < Len(es)
  <2>1. /\ exec' = [exec EXCEPT ![p] = After(e, es[e.next])]
        /\ UNCHANGED <<callers, failover, history>>
    BY <1>1, <1>2, <1>a DEF SendEvent
  <2>2. PICK f : f = After(e, es[e.next])  OBVIOUS
  <2>3. /\ f \in Execution /\ f.cmd = e.cmd /\ f.on = e.on
        /\ f.next = e.next + 1 /\ f.tried = e.tried
        /\ f.pressed <=> e.pressed \/ es[e.next] = "press"
        /\ f.next \in 1..Len(es)
    <3>0. PICK n, m : n = e.next /\ m = Len(es)  OBVIOUS
    <3>1. e.next + 1 \in 1..4 /\ e.next + 1 \in 1..Len(es)
      <4>1. m \in 1..4 /\ n \in 1..m /\ n < m  BY <1>4, <1>a, <3>0
      <4>2. n + 1 \in 1..4 /\ n + 1 \in 1..m  BY <4>1
      <4> QED  BY <3>0, <4>2
    <3> QED  BY <1>3, <2>2, <3>1, AfterEvent
  <2>4. exec' = [exec EXCEPT ![p] = f]  BY <2>1, <2>2
  <2>5. /\ exec' \in [Pipe -> Execution \cup {None}]
        /\ exec'[p] = f /\ exec'[p] # None
        /\ \A q \in Pipe \ {p} : exec'[q] = exec[q]
        /\ pc' \in [Caller -> Stages] /\ turn' = turn
        /\ CommandsOwned'
    BY <1>1, <1>3, <2>1, <2>3, <2>4, SameCommandKeeps
  <2>6. TypeOK'
    BY <1>3, <1>6, <2>1, <2>5
       DEF PipeInv, TypeOK, callers, binding, failover, history
  <2>7. PipesAlive'
    BY <1>1, <1>3, <2>1, <2>3, <2>5, AttemptStepKeeps DEF failover, history
  <2>8. AttemptsCounted'
    <3>1. UNCHANGED <<active, failures, streak, backup, fault>>
      BY <1>3, <2>1 DEF failover, history, binding
    <3>2. f.pressed => f.cmd.op # "click"
      <4>1. e.cmd.op = "click" => es[1] = "touch" /\ Len(es) = 1
        BY <1>2 DEF Events
      <4> QED  BY <1>4, <1>a, <2>3, <4>1
    <3>3. AttemptCounted(p)  BY DEF PipeInv, AttemptsCounted
    <3>4. (AttemptCounted(p))'
      BY <1>1, <1>2, <1>3, <2>3, <2>5, <3>1, <3>2, <3>3 DEF AttemptCounted
    <3> QED
      BY <2>5, <3>1, <3>4 DEF PipeInv, AttemptsCounted, AttemptCounted
  <2>9. KeysAsAsked'
    <3> SUFFICES ASSUME ~fault', NEW w \in {"sent", "posted"}, NEW k \in Key,
                        <<w, k>> \in down'
                 PROVE  \/ k \in asked'
                        \/ \E q \in Pipe :
                              /\ exec'[q] # None /\ exec'[q].cmd.key = k
                              /\ exec'[q].pressed /\ Way(exec'[q].on) = w
      BY DEF KeysAsAsked
    <3>1. asked' = asked  BY <2>1 DEF history
    <3>2. CASE <<w, k>> \in down
      <4>1. \/ k \in asked
            \/ \E q \in Pipe : /\ exec[q] # None /\ exec[q].cmd.key = k
                                 /\ exec[q].pressed /\ Way(exec[q].on) = w
        BY <1>9, <3>2 DEF PipeInv, KeysAsAsked
      <4>2. CASE k \in asked  BY <3>1, <4>2
      <4>3. CASE k \notin asked
        <5>1. PICK q \in Pipe : /\ exec[q] # None /\ exec[q].cmd.key = k
                                /\ exec[q].pressed /\ Way(exec[q].on) = w
          BY <4>1, <4>3
        <5>2. CASE q = p  BY <1>1, <2>3, <2>5, <5>1, <5>2
        <5>3. CASE q # p  BY <2>5, <5>1, <5>3
        <5> QED  BY <5>2, <5>3
      <4> QED  BY <4>2, <4>3
    <3>3. CASE <<w, k>> \notin down
      <4>1. es[e.next] = "press" /\ w = "sent" /\ k = e.cmd.key
        BY <1>7, <1>9, <3>3
      <4>2. Way(f.on) = "sent"  BY <1>7, <1>9, <2>3 DEF Way
      <4> QED  BY <2>3, <2>5, <4>1, <4>2
    <3> QED  BY <3>2, <3>3
  <2>10. ~fault' => down' \subseteq {"sent"} \X Key  BY <1>8, <1>9
  <2>11. SentKeysOwned' /\ CommandsOwned'  BY <1>6, <2>5
  <2> QED  BY <2>6, <2>7, <2>8, <2>9, <2>10, <2>11 DEF PipeInv
<1>b. CASE ~(e.next < Len(es))
  <2>1. /\ AttemptSucceeds(p)
        /\ asked' = IF fault THEN {} ELSE Leaves(e.cmd, asked)
        /\ UNCHANGED <<fault, half>>
    BY <1>1, <1>2, <1>b DEF SendEvent
  <2>2. /\ exec' \in [Pipe -> Execution \cup {None}]
        /\ exec'[p] = None
        /\ \A q \in Pipe \ {p} : exec'[q] = exec[q]
        /\ pc' \in [Caller -> Stages] /\ turn' = turn
        /\ CommandsOwned'
    BY <1>3, <2>1, DoneKeeps DEF AttemptSucceeds
  <2>3. AttemptCounted(p) /\ AttemptsCounted
    BY DEF PipeInv, AttemptsCounted
  <2>4. /\ active \in [Pipe -> Backend]
        /\ failures \in [Pipe -> 0..(Threshold - 1)]
        /\ streak \in [Pipe -> 0..Threshold]
        /\ 0 \in 0..(Threshold - 1) /\ 0 \in 0..Threshold
        /\ e.on \in Backend
    BY <1>3, NumberAssumption DEF PipeInv, TypeOK, Execution
  <2>5. /\ active' \in [Pipe -> Backend]
        /\ failures' \in [Pipe -> 0..(Threshold - 1)]
        /\ streak' \in [Pipe -> 0..Threshold]
        /\ \A q \in Pipe \ {p} :
             /\ active'[q] = active[q] /\ failures'[q] = failures[q]
             /\ streak'[q] = streak[q]
        /\ \/ active'[p] = "primary" /\ streak'[p] = 0 /\ failures'[p] = 0
           \/ /\ active'[p] = active[p] /\ failures'[p] = failures[p]
              /\ active[p] = "fallback" /\ streak'[p] = streak[p]
    <3>1. streak' = IF e.on = "primary" THEN [streak EXCEPT ![p] = 0] ELSE streak
      BY <1>1, <2>1 DEF AttemptSucceeds
    <3>2. CASE Probing(p)
      <4>1. /\ active' = [active EXCEPT ![p] = "primary"]
            /\ failures' = [failures EXCEPT ![p] = 0]
        BY <2>1, <3>2 DEF AttemptSucceeds
      <4>2. e.on = "primary"  BY <1>1, <3>2 DEF Probing
      <4> QED  BY <2>4, <3>1, <4>1, <4>2 DEF Backend
    <3>3. CASE active[p] = "primary"
      <4>1. active' = active /\ failures' = [failures EXCEPT ![p] = 0]
        BY <2>1, <3>3 DEF AttemptSucceeds, Probing, MarkSuccess
      <4>2. e.on = "primary"
        BY <1>1, <1>3, <2>3, <2>4, <3>3 DEF AttemptCounted, Backend
      <4> QED  BY <2>4, <3>1, <3>3, <4>1, <4>2
    <3>4. CASE ~Probing(p) /\ active[p] # "primary"
      <4>1. UNCHANGED failover  BY <2>1, <3>4 DEF AttemptSucceeds
      <4>2. active[p] = "fallback"  BY <2>4, <3>4 DEF Backend
      <4>3. e.on # "primary"  BY <1>1, <3>4, <4>2 DEF Probing
      <4> QED  BY <2>4, <3>1, <4>1, <4>2, <4>3 DEF failover
    <3> QED  BY <3>2, <3>3, <3>4
  <2>6. TypeOK'
    BY <1>3, <1>6, <1>9, <2>2, <2>5 DEF PipeInv, TypeOK, binding
  <2>7. PipesAlive'
    BY <1>3, <2>2, <2>5, AttemptStepKeeps
  <2>8. AttemptsCounted'
    <3>1. backup' = backup  BY <1>3 DEF binding
    <3>2. (AttemptCounted(p))'
      BY <1>9, <2>2, <2>3, <2>5, <3>1 DEF AttemptCounted
    <3>3. ASSUME NEW q \in Pipe \ {p} PROVE (AttemptCounted(q))'
      <4>1. AttemptCounted(q)  BY <2>3 DEF AttemptsCounted
      <4>2. /\ exec'[q] = exec[q] /\ active'[q] = active[q]
            /\ failures'[q] = failures[q] /\ streak'[q] = streak[q]
        BY <2>2, <2>5
      <4> QED  BY <1>9, <3>1, <4>1, <4>2 DEF AttemptCounted
    <3> QED  BY <3>2, <3>3 DEF AttemptsCounted
  <2>9. KeysAsAsked'
    <3> SUFFICES ASSUME ~fault', NEW w \in {"sent", "posted"}, NEW k \in Key,
                        <<w, k>> \in down'
                 PROVE  \/ k \in asked'
                        \/ \E q \in Pipe :
                              /\ exec'[q] # None /\ exec'[q].cmd.key = k
                              /\ exec'[q].pressed /\ Way(exec'[q].on) = w
      BY DEF KeysAsAsked
    <3>1. asked' = Leaves(e.cmd, asked) /\ ~fault  BY <1>9, <2>1
    <3>2. e.next = Len(es)  BY <1>4, <1>b
    <3>3. e.cmd.op \in Inputs  BY <1>3, InputAssumption
    <3>4. /\ e.cmd.op = "down" => es[e.next] = "press"
          /\ e.cmd.op = "click" => es[e.next] = "touch"
          /\ e.cmd.op \notin {"down", "click"} => es[e.next] = "release"
      BY <1>2, <3>2, <3>3 DEF Events, Inputs
    <3>5. CASE e.cmd.op = "down" /\ k = e.cmd.key
      BY <3>1, <3>5 DEF Leaves
    <3>6. CASE ~(e.cmd.op = "down" /\ k = e.cmd.key)
      <4>1. /\ <<w, k>> \in down
            /\ k = e.cmd.key => e.cmd.op = "click"
        BY <1>7, <3>1, <3>4, <3>6
      <4>2. k \in asked => k \in asked'
        BY <3>1, <4>1 DEF Leaves
      <4>3. \/ k \in asked
            \/ \E q \in Pipe : /\ exec[q] # None /\ exec[q].cmd.key = k
                                 /\ exec[q].pressed /\ Way(exec[q].on) = w
        BY <3>1, <4>1 DEF PipeInv, KeysAsAsked
      <4>4. \A q \in Pipe : exec[q].cmd.key = k /\ exec[q].pressed => q # p
        BY <1>1, <1>4, <4>1
      <4> QED  BY <2>2, <4>2, <4>3, <4>4
    <3> QED  BY <3>5, <3>6
  <2>10. ~fault' => down' \subseteq {"sent"} \X Key  BY <1>8, <1>9
  <2>11. SentKeysOwned' /\ CommandsOwned'  BY <1>6, <2>2
  <2> QED  BY <2>6, <2>7, <2>8, <2>9, <2>10, <2>11 DEF PipeInv
<1> QED  BY <1>a, <1>b

\* An attempt fails without a change of what is down.
LEMMA FailsKeep ==
    ASSUME PipeInv, NEW p \in Pipe, EventFails(p) \/ TimesOut(p)
    PROVE  PipeInv'
BY FailureKeeps DEF EventFails, TimesOut

-----------------------------------------------------------------------------
(* Workers and pipelines end *)

\* The worker panics: its callers are told, what is down stays down.
LEMMA WorkerPanicsKeeps ==
    ASSUME PipeInv, NEW p \in Pipe, WorkerPanics(p) PROVE PipeInv'
<1>1. /\ queued[p] /\ exec[p] # None
      /\ alive' = [alive EXCEPT ![p] = "panicked"]
      /\ exec' = [exec EXCEPT ![p] = None]
      /\ queue' = [queue EXCEPT ![p] = <<>>]
      /\ pc' = [c \in Caller |-> IF pc[c] = "reply" /\ installed = p
                                    THEN "record" ELSE pc[c]]
      /\ fault' = TRUE /\ asked' = {}
      /\ UNCHANGED <<turn, binding, failover, keys, streak, half>>
  <2>1. pc' = [c \in Caller |-> IF c \in {d \in Caller : WaitsOn(d, p)}
                                  THEN "record" ELSE pc[c]]
    BY DEF WorkerPanics, Fail
  <2> QED  BY <2>1 DEF WorkerPanics, Fault, WaitsOn
<1>2. /\ pc \in [Caller -> Stages]
      /\ alive \in [Pipe -> {"none", "up", "panicked", "gone"}]
      /\ queue \in [Pipe -> Seq(Command)]
      /\ exec \in [Pipe -> Execution \cup {None}]
  BY DEF PipeInv, TypeOK
<1>3. /\ \A q \in Pipe \ {p} : /\ alive'[q] = alive[q] /\ exec'[q] = exec[q]
                                /\ queue'[q] = queue[q]
      /\ alive'[p] = "panicked" /\ exec'[p] = None /\ queue'[p] = <<>>
  BY <1>1, <1>2
<1>4. \A c \in Caller :
        pc'[c] = IF pc[c] = "reply" /\ installed = p THEN "record" ELSE pc[c]
  BY <1>1
<1>5. TypeOK'
  <2>1. pc' \in [Caller -> Stages]  BY <1>1, <1>2 DEF Stages
  <2>2. /\ queue' \in [Pipe -> Seq(Command)]
        /\ \A q \in Pipe : Len(queue'[q]) <= Capacity
    BY <1>1, <1>2, <1>3, EmptySeq, NumberAssumption DEF PipeInv, TypeOK
  <2>3. /\ exec' \in [Pipe -> Execution \cup {None}]
        /\ alive' \in [Pipe -> {"none", "up", "panicked", "gone"}]
    BY <1>1, <1>2
  <2> QED  BY <1>1, <2>1, <2>2, <2>3
              DEF PipeInv, TypeOK, binding, failover, keys
<1>6. PipesAlive'
  <2>1. alive[p] = "up"  BY <1>1 DEF PipeInv, PipesAlive
  <2>2. UNCHANGED <<installed, queued, active, failures, streak>>
    BY <1>1 DEF binding, failover
  <2> QED  BY <1>1, <1>3, <2>1, <2>2 DEF PipeInv, PipesAlive
<1>7. CommandsOwned'
  <2>1. \A d : (Holds(d))' = Holds(d)  BY <1>1 DEF Holds
  <2>2. installed' = installed  BY <1>1 DEF binding
  <2>3. \A q \in Pipe \ {p}, d \in Caller :
            /\ (Runs(d, q))' = Runs(d, q)
            /\ \A i : (HasIn(d, q, i))' = HasIn(d, q, i)
    BY <1>3 DEF Runs, HasIn
  <2>4. \A d \in Caller : ~(Runs(d, p))' /\ \A i : ~(HasIn(d, p, i))'
    BY <1>3 DEF Runs, HasIn
  <2>5. \A d \in Caller : pc'[d] = "reply" =>
            pc[d] = "reply" /\ installed \in Pipe \ {p}
    BY <1>4, NumberAssumption DEF PipeInv, TypeOK, CommandsOwned, Pipe
  <2>6. ASSUME NEW q \in Pipe, NEW d \in Caller,
               (Runs(d, q))' \/ (\E i \in DOMAIN queue'[q] : (HasIn(d, q, i))')
        PROVE  pc'[d] = "reply" /\ installed' = q
    <3>1. q # p  BY <2>4, <2>6
    <3>2. Runs(d, q) \/ (\E i \in DOMAIN queue[q] : HasIn(d, q, i))
      BY <1>3, <2>3, <2>6, <3>1
    <3>3. pc[d] = "reply" /\ installed = q
      BY <3>2 DEF PipeInv, CommandsOwned
    <3> QED  BY <1>4, <2>2, <3>1, <3>3
  <2>7. \A q \in Pipe \ {p} : queue'[q] = queue[q]  BY <1>3
  <2> QED  BY <2>1, <2>2, <2>3, <2>5, <2>6, <2>7 DEF PipeInv, CommandsOwned
<1>8. AttemptsCounted'
  BY <1>1, <1>3
     DEF PipeInv, AttemptsCounted, AttemptCounted, binding, failover
<1>9. KeysAsAsked' /\ SentKeysOwned'
  <2>1. SentKeysOwned
    BY DEF PipeInv
  <2>2. \A k \in Key : presser[k] \in 0..MaxPipes
    BY DEF PipeInv, TypeOK
  <2> QED  BY <1>1, <1>3, <2>1, <2>2 DEF KeysAsAsked, SentKeysOwned, keys, Pipe
<1>10. ~fault' => down' \subseteq {"sent"} \X Key  BY <1>1
<1> QED  BY <1>5, <1>6, <1>7, <1>8, <1>9, <1>10 DEF PipeInv

\* The end of a controller releases what it holds, and no other's keys.
LEMMA ReleaseHeldKeeps ==
    ASSUME PipeInv, NEW p \in Pipe, ReleaseHeld(p),
           \A q \in Pipe \ {p} :
                alive[q] \in {"up", "panicked"} => alive'[q] \in {"up", "panicked"},
           UNCHANGED <<exec, asked, fault>>
    PROVE  /\ held' \in [Pipe -> SUBSET Key]
           /\ down' \subseteq {"sent", "posted"} \X Key
           /\ presser' \in [Key -> 0..MaxPipes]
           /\ active' \in [Pipe -> Backend] /\ active'[p] = "primary"
           /\ failures' \in [Pipe -> 0..(Threshold - 1)] /\ failures'[p] = 0
           /\ streak' \in [Pipe -> 0..Threshold] /\ streak'[p] = 0
           /\ \A q \in Pipe \ {p} :
                /\ active'[q] = active[q] /\ failures'[q] = failures[q]
                /\ streak'[q] = streak[q]
           /\ KeysAsAsked' /\ SentKeysOwned'
           /\ ~fault' => down' \subseteq {"sent"} \X Key
<1>1. /\ held \in [Pipe -> SUBSET Key] /\ presser \in [Key -> 0..MaxPipes]
      /\ down \subseteq {"sent", "posted"} \X Key
      /\ active \in [Pipe -> Backend]
      /\ failures \in [Pipe -> 0..(Threshold - 1)]
      /\ streak \in [Pipe -> 0..Threshold]
      /\ 0 \in 0..(Threshold - 1) /\ 0 \in 0..Threshold /\ 0 \in 0..MaxPipes
  BY NumberAssumption DEF PipeInv, TypeOK
<1>2. /\ down' = down \ ({"sent"} \X held[p])
      /\ held' = [held EXCEPT ![p] = {}]
      /\ active' = [active EXCEPT ![p] = "primary"]
      /\ failures' = [failures EXCEPT ![p] = 0]
      /\ streak' = [streak EXCEPT ![p] = 0]
      /\ presser' = [k \in Key |-> IF k \in held[p] THEN 0 ELSE presser[k]]
  BY DEF ReleaseHeld
<1>3. /\ held' \in [Pipe -> SUBSET Key]
      /\ down' \subseteq {"sent", "posted"} \X Key
  BY <1>1, <1>2
<1>4. presser' \in [Key -> 0..MaxPipes]
  <2>1. \A k \in Key : (IF k \in held[p] THEN 0 ELSE presser[k]) \in 0..MaxPipes
    BY <1>1
  <2> QED  BY <1>2, <2>1
<1>5. /\ active' \in [Pipe -> Backend] /\ active'[p] = "primary"
      /\ failures' \in [Pipe -> 0..(Threshold - 1)] /\ failures'[p] = 0
      /\ streak' \in [Pipe -> 0..Threshold] /\ streak'[p] = 0
      /\ \A q \in Pipe \ {p} :
            /\ active'[q] = active[q] /\ failures'[q] = failures[q]
            /\ streak'[q] = streak[q]
  BY <1>1, <1>2 DEF Backend
<1>6. KeysAsAsked'
  <2>1. KeysAsAsked  BY DEF PipeInv
  <2> QED  BY <1>2, <2>1 DEF KeysAsAsked
<1>7. SentKeysOwned'
  <2> SUFFICES ASSUME NEW k \in Key, <<"sent", k>> \in down'
               PROVE  /\ presser'[k] # 0
                      /\ alive'[presser'[k]] \in {"up", "panicked"}
                      /\ k \in held'[presser'[k]]
    BY DEF SentKeysOwned
  <2>1. <<"sent", k>> \in down /\ k \notin held[p]  BY <1>2
  <2>2. /\ presser[k] # 0 /\ alive[presser[k]] \in {"up", "panicked"}
        /\ k \in held[presser[k]]
    BY <2>1 DEF PipeInv, SentKeysOwned
  <2>3. presser'[k] = presser[k]  BY <1>2, <2>1
  <2>4. presser[k] \in Pipe \ {p}  BY <1>1, <2>1, <2>2 DEF Pipe
  <2>5. held'[presser[k]] = held[presser[k]]  BY <1>1, <1>2, <2>4
  <2> QED  BY <2>2, <2>3, <2>4, <2>5
<1>8. ~fault' => down' \subseteq {"sent"} \X Key  BY <1>2 DEF PipeInv
<1> QED  BY <1>3, <1>4, <1>5, <1>6, <1>7, <1>8

\* A drained worker ends with its pipeline.
LEMMA RetireKeeps == ASSUME PipeInv, NEW p \in Pipe, Retire(p) PROVE PipeInv'
<1>1. /\ alive[p] \in {"up", "panicked"} /\ installed # p
      /\ exec[p] = None /\ queue[p] = <<>>
      /\ alive' = [alive EXCEPT ![p] = "gone"]
      /\ backup' = [backup EXCEPT ![p] = FALSE]
      /\ ReleaseHeld(p)
      /\ UNCHANGED <<turn, pc, installed, queued, queue, exec, asked, fault>>
  BY DEF Retire, callers
<1>2. /\ alive \in [Pipe -> {"none", "up", "panicked", "gone"}]
      /\ backup \in [Pipe -> BOOLEAN]
  BY DEF PipeInv, TypeOK
<1>3. /\ alive'[p] = "gone" /\ backup'[p] = FALSE
      /\ \A q \in Pipe \ {p} : alive'[q] = alive[q] /\ backup'[q] = backup[q]
  BY <1>1, <1>2
<1>4. /\ held' \in [Pipe -> SUBSET Key]
      /\ down' \subseteq {"sent", "posted"} \X Key
      /\ presser' \in [Key -> 0..MaxPipes]
      /\ active' \in [Pipe -> Backend] /\ active'[p] = "primary"
      /\ failures' \in [Pipe -> 0..(Threshold - 1)] /\ failures'[p] = 0
      /\ streak' \in [Pipe -> 0..Threshold] /\ streak'[p] = 0
      /\ \A q \in Pipe \ {p} :
            /\ active'[q] = active[q] /\ failures'[q] = failures[q]
            /\ streak'[q] = streak[q]
      /\ KeysAsAsked' /\ SentKeysOwned'
      /\ ~fault' => down' \subseteq {"sent"} \X Key
  BY <1>1, <1>3, ReleaseHeldKeeps
<1>5. TypeOK'
  <2>1. /\ alive' \in [Pipe -> {"none", "up", "panicked", "gone"}]
        /\ backup' \in [Pipe -> BOOLEAN]
    BY <1>1, <1>2
  <2> QED  BY <1>1, <1>4, <2>1 DEF PipeInv, TypeOK
<1>6. PipesAlive'
  <2>1. ~(p > installed)  BY <1>1 DEF PipeInv, PipesAlive
  <2> SUFFICES ASSUME NEW q \in Pipe
               PROVE  /\ q > installed => alive'[q] = "none"
                      /\ q = installed => alive'[q] \in {"up", "panicked"}
                      /\ alive'[q] = "none" =>
                            /\ active'[q] = "primary" /\ failures'[q] = 0
                            /\ streak'[q] = 0
                      /\ exec[q] # None \/ queue[q] # <<>> => alive'[q] = "up"
                      /\ alive'[q] = "panicked" => queued[q]
                      /\ ~queued[q] => queue[q] = <<>>
                      /\ ~queued[q] /\ exec[q] # None => exec[q].cmd.from # None
    BY <1>1 DEF PipesAlive
  <2>2. CASE q = p  BY <1>1, <1>3, <2>1, <2>2
  <2>3. CASE q # p  BY <1>3, <1>4, <2>3 DEF PipeInv, PipesAlive
  <2> QED  BY <2>2, <2>3
<1>7. CommandsOwned'
  BY <1>1 DEF PipeInv, CommandsOwned, Runs, HasIn, Holds
<1>8. AttemptsCounted'
  <2>1. ASSUME NEW q \in Pipe PROVE (AttemptCounted(q))'
    <3>1. AttemptCounted(q)  BY DEF PipeInv, AttemptsCounted
    <3>2. CASE q = p  BY <1>1, <1>3, <1>4, <3>2 DEF AttemptCounted
    <3>3. CASE q # p
      <4>1. /\ exec'[q] = exec[q] /\ active'[q] = active[q]
            /\ failures'[q] = failures[q] /\ streak'[q] = streak[q]
            /\ backup'[q] = backup[q] /\ fault' = fault
        BY <1>1, <1>3, <1>4, <3>3
      <4> QED  BY <3>1, <4>1 DEF AttemptCounted
    <3> QED  BY <3>2, <3>3
  <2> QED  BY <2>1 DEF AttemptsCounted
<1> QED  BY <1>4, <1>5, <1>6, <1>7, <1>8 DEF PipeInv

-----------------------------------------------------------------------------
(* Callers are dropped *)

\* Without a queue the input is cut off where it is.
LEMMA CutOffKeeps ==
    ASSUME PipeInv, NEW c \in Caller, Dropped(c),
           pc[c] = "reply", ~queued[installed]
    PROVE  PipeInv'
<1>0. PICK p : p = installed  OBVIOUS
<1>1. /\ pc' = [pc EXCEPT ![c] = "idle"] /\ Vacate(c)
      /\ exec' = [exec EXCEPT ![p] = None]
      /\ fault' = TRUE /\ asked' = {}
      /\ UNCHANGED <<binding, alive, queue, failover, keys, streak, half>>
  BY <1>0 DEF Dropped, Fault, Goto
<1>2. /\ turn' \in Seq(Caller \cup {Engine}) /\ pc \in [Caller -> Stages]
      /\ exec \in [Pipe -> Execution \cup {None}]
  BY <1>1, VacateKeepsHolder DEF PipeInv, TypeOK
<1>3. p \in Pipe /\ Holds(c) /\ queue[p] = <<>>
  BY <1>0, NumberAssumption
     DEF PipeInv, TypeOK, CommandsOwned, PipesAlive, Pipe
<1>4. exec'[p] = None /\ \A q \in Pipe \ {p} : exec'[q] = exec[q]
  BY <1>1, <1>2, <1>3
<1>5. \A d \in Caller : pc'[d] # "reply"
  BY <1>1, <1>2, <1>3, OneWaits
<1>6. \A d \in Caller : pc[d] = "reply" => d = c
  BY <1>3, OneWaits
<1>7. TypeOK'
  <2>1. pc' \in [Caller -> Stages]  BY <1>1, <1>2 DEF Stages
  <2>2. exec' \in [Pipe -> Execution \cup {None}]  BY <1>1, <1>2
  <2> QED  BY <1>1, <1>2, <2>1, <2>2
              DEF PipeInv, TypeOK, binding, failover, keys
<1>8. PipesAlive'
  BY <1>1, <1>4 DEF PipeInv, PipesAlive, binding, failover
<1>9. CommandsOwned'
  <2>1. \A q \in Pipe, d \in Caller : ~(Runs(d, q))'
    BY <1>0, <1>4, <1>6 DEF PipeInv, CommandsOwned, Runs
  <2>2. \A q \in Pipe, d \in Caller : \A i : ~(HasIn(d, q, i))'
    <3>1. \A q \in Pipe, d \in Caller : \A i : HasIn(d, q, i) => q = p
      BY <1>0 DEF PipeInv, CommandsOwned, HasIn
    <3> QED  BY <1>1, <1>3, <3>1 DEF HasIn
  <2> QED  BY <1>5, <2>1, <2>2 DEF CommandsOwned
<1>10. AttemptsCounted'
  BY <1>1, <1>4
     DEF PipeInv, AttemptsCounted, AttemptCounted, binding, failover
<1>11. KeysAsAsked' /\ SentKeysOwned'
  BY <1>1 DEF PipeInv, KeysAsAsked, SentKeysOwned, keys
<1> QED  BY <1>1, <1>7, <1>8, <1>9, <1>10, <1>11 DEF PipeInv

\* What is left of a command whose caller is dropped: it has no owner.
LEMMA OrphanIs ==
    ASSUME NEW cmd \in Command, NEW c \in Caller
    PROVE  /\ Orphan(cmd, c) \in Command
           /\ Orphan(cmd, c).op = cmd.op /\ Orphan(cmd, c).key = cmd.key
           /\ Orphan(cmd, c).from = IF cmd.from = c THEN None ELSE cmd.from
BY DEF Orphan, Command

\* The same of the command that is being executed.
LEMMA OrphanExecIs ==
    ASSUME NEW e \in Execution, NEW c \in Caller
    PROVE  LET f == OrphanExec(e, c) IN
           /\ f \in Execution /\ f.on = e.on /\ f.next = e.next
           /\ f.pressed = e.pressed /\ f.tried = e.tried
           /\ f.cmd.op = e.cmd.op /\ f.cmd.key = e.cmd.key
           /\ f.cmd.from = IF e.cmd.from = c THEN None ELSE e.cmd.from
<1>1. e # None /\ e.cmd \in Command  BY NoneAssumption DEF Execution
<1>2. CASE e.cmd.from = c
  <2>1. PICK g : g = [e.cmd EXCEPT !.from = None]  OBVIOUS
  <2>2. g \in Command /\ g.op = e.cmd.op /\ g.key = e.cmd.key /\ g.from = None
    BY <1>1, <2>1 DEF Command
  <2>3. OrphanExec(e, c) = [e EXCEPT !.cmd = g]
    BY <1>1, <1>2, <2>1 DEF OrphanExec
  <2>4. PICK f : f = [e EXCEPT !.cmd = g]  OBVIOUS
  <2>5. /\ f \in Execution /\ f.on = e.on /\ f.next = e.next
        /\ f.pressed = e.pressed /\ f.tried = e.tried /\ f.cmd = g
    BY <2>2, <2>4 DEF Execution
  <2> QED  BY <1>2, <2>2, <2>3, <2>4, <2>5
<1>3. CASE e.cmd.from # c  BY <1>3 DEF OrphanExec
<1> QED  BY <1>2, <1>3

\* Through a queue the command goes on without its owner.
LEMMA AbandonKeeps ==
    ASSUME PipeInv, NEW c \in Caller, Dropped(c),
           ~(pc[c] = "reply" /\ ~queued[installed])
    PROVE  PipeInv'
<1>1. /\ pc' = [pc EXCEPT ![c] = "idle"] /\ Vacate(c) /\ Abandon(c)
      /\ UNCHANGED <<binding, alive, failover, keys, streak, half, fault, asked>>
  BY DEF Dropped, Goto
<1>2. /\ turn' \in Seq(Caller \cup {Engine}) /\ pc \in [Caller -> Stages]
      /\ \A d : d # c /\ Holds(d) => Holds(d)'
      /\ exec \in [Pipe -> Execution \cup {None}]
      /\ queue \in [Pipe -> Seq(Command)]
      /\ \A q \in Pipe : Len(queue[q]) <= Capacity
  BY <1>1, VacateKeepsHolder DEF PipeInv, TypeOK
<1>3. \A q \in Pipe :
        /\ queue'[q] = [i \in DOMAIN queue[q] |-> Orphan(queue[q][i], c)]
        /\ exec'[q] = OrphanExec(exec[q], c)
  BY <1>1 DEF Abandon
<1>4. ASSUME NEW q \in Pipe
      PROVE  /\ queue'[q] \in Seq(Command) /\ Len(queue'[q]) = Len(queue[q])
             /\ DOMAIN queue'[q] = DOMAIN queue[q]
             /\ \A i \in DOMAIN queue[q] :
                    queue'[q][i].from = IF queue[q][i].from = c THEN None
                                          ELSE queue[q][i].from
  <2>1. /\ queue[q] \in Seq(Command) /\ DOMAIN queue[q] = 1..Len(queue[q])
        /\ Len(queue[q]) \in Nat
    BY <1>2, LenProperties
  <2>2. \A i \in 1..Len(queue[q]) : queue[q][i] \in Command
    BY <2>1, ElementOfSeq
  <2>3. PICK n \in Nat : n = Len(queue[q])  BY <2>1
  <2>4. queue'[q] = [i \in 1..n |-> Orphan(queue[q][i], c)]
    BY <1>3, <2>1, <2>3
  <2>5. queue'[q] \in [1..n -> Command]
    BY <2>2, <2>3, <2>4, OrphanIs
  <2>6. queue'[q] \in Seq(Command)  BY <2>5, SeqDef
  <2>7. Len(queue'[q]) = n /\ DOMAIN queue'[q] = 1..n
    BY <2>5, <2>6, LenProperties
  <2> QED  BY <2>1, <2>2, <2>3, <2>4, <2>6, <2>7, OrphanIs
<1>5. ASSUME NEW q \in Pipe, exec[q] # None
      PROVE  /\ exec'[q] \in Execution /\ exec'[q] # None
             /\ exec'[q].on = exec[q].on /\ exec'[q].next = exec[q].next
             /\ exec'[q].pressed = exec[q].pressed
             /\ exec'[q].tried = exec[q].tried
             /\ exec'[q].cmd.op = exec[q].cmd.op
             /\ exec'[q].cmd.key = exec[q].cmd.key
             /\ exec'[q].cmd.from = IF exec[q].cmd.from = c THEN None
                                      ELSE exec[q].cmd.from
  <2>1. PICK e \in Execution : e = exec[q]  BY <1>2, <1>5
  <2>2. PICK f : f = OrphanExec(e, c)  OBVIOUS
  <2>3. /\ f \in Execution /\ f.on = e.on /\ f.next = e.next
        /\ f.pressed = e.pressed /\ f.tried = e.tried
        /\ f.cmd.op = e.cmd.op /\ f.cmd.key = e.cmd.key
        /\ f.cmd.from = IF e.cmd.from = c THEN None ELSE e.cmd.from
    BY <2>2, OrphanExecIs
  <2>4. f # None  BY <2>3, NoneAssumption
  <2> QED  BY <1>3, <2>1, <2>2, <2>3, <2>4
<1>6. \A q \in Pipe : exec[q] = None => exec'[q] = None
  BY <1>3 DEF OrphanExec
<1>7. TypeOK'
  <2>1. pc' \in [Caller -> Stages]  BY <1>1, <1>2 DEF Stages
  <2>2. exec' \in [Pipe -> Execution \cup {None}]
    <3>1. \A q \in Pipe : exec'[q] \in Execution \cup {None}
      BY <1>5, <1>6
    <3>2. exec' = [q \in Pipe |-> OrphanExec(exec[q], c)]
      BY <1>1 DEF Abandon
    <3> QED  BY <3>1, <3>2
  <2>3. queue' \in [Pipe -> Seq(Command)]
    <3>1. \A q \in Pipe : queue'[q] \in Seq(Command)  BY <1>4
    <3>2. queue' = [q \in Pipe |-> [i \in DOMAIN queue[q] |->
                                        Orphan(queue[q][i], c)]]
      BY <1>1 DEF Abandon
    <3> QED  BY <3>1, <3>2
  <2>4. \A q \in Pipe : Len(queue'[q]) <= Capacity  BY <1>2, <1>4
  <2> QED  BY <1>1, <1>2, <2>1, <2>2, <2>3, <2>4
              DEF PipeInv, TypeOK, binding, failover, keys
<1>8. ASSUME NEW q \in Pipe, NEW d \in Caller
      PROVE  /\ (Runs(d, q))' <=> Runs(d, q) /\ d # c
             /\ \A i : (HasIn(d, q, i))' <=> HasIn(d, q, i) /\ d # c
  <2>1. d # None  BY ActorAssumption
  <2>2. (Runs(d, q))' <=> Runs(d, q) /\ d # c
    BY <1>5, <1>6, <2>1 DEF Runs
  <2>3. \A i : (HasIn(d, q, i))' <=> HasIn(d, q, i) /\ d # c
    BY <1>4, <2>1 DEF HasIn
  <2> QED  BY <2>2, <2>3
<1>9. PipesAlive'
  <2> SUFFICES ASSUME NEW q \in Pipe
               PROVE  /\ exec'[q] # None \/ queue'[q] # <<>> =>
                            exec[q] # None \/ queue[q] # <<>>
                      /\ queue[q] = <<>> => queue'[q] = <<>>
                      /\ ~queued[q] /\ exec'[q] # None =>
                            exec'[q].cmd.from # None
    BY <1>1 DEF PipeInv, PipesAlive, binding, failover
  <2>1. queue[q] = <<>> => queue'[q] = <<>>
    BY <1>2, <1>4, EmptySeq
  <2>2. exec'[q] # None => exec[q] # None  BY <1>6
  <2>3. ASSUME ~queued[q], exec'[q] # None PROVE exec'[q].cmd.from # None
    <3>1. exec[q] # None /\ exec[q].cmd.from # None
      BY <2>2, <2>3 DEF PipeInv, PipesAlive
    <3>2. exec[q].cmd.from # c
      BY <2>3, <3>1 DEF PipeInv, CommandsOwned, Runs
    <3> QED  BY <1>5, <3>1, <3>2
  <2> QED  BY <2>1, <2>2, <2>3
<1>10. CommandsOwned'
  <2>1. installed' = installed  BY <1>1 DEF binding
  <2>2. \A d \in Caller : pc'[d] = "reply" <=> pc[d] = "reply" /\ d # c
    BY <1>1, <1>2
  <2>3. \A d \in Caller : pc'[d] = "reply" =>
            installed # 0 /\ (Holds(d))' /\ installed \in Pipe
    BY <1>2, <2>2, NumberAssumption DEF PipeInv, TypeOK, CommandsOwned, Pipe
  <2>4. ASSUME NEW q \in Pipe, NEW d \in Caller,
               (Runs(d, q))' \/ (\E i \in DOMAIN queue'[q] : (HasIn(d, q, i))')
        PROVE  pc'[d] = "reply" /\ installed' = q
    <3>1. d # c /\ (Runs(d, q) \/ (\E i \in DOMAIN queue[q] : HasIn(d, q, i)))
      BY <1>4, <1>8, <2>4
    <3>2. pc[d] = "reply" /\ installed = q
      BY <3>1 DEF PipeInv, CommandsOwned
    <3> QED  BY <2>1, <2>2, <3>1, <3>2
  <2>5. ASSUME NEW d \in Caller, pc'[d] = "reply"
        PROVE  \/ /\ (Runs(d, installed))'
                  /\ \A i \in DOMAIN queue'[installed] :
                        ~(HasIn(d, installed, i))'
               \/ /\ ~(Runs(d, installed))'
                  /\ \E i \in DOMAIN queue'[installed] :
                        /\ (HasIn(d, installed, i))'
                        /\ \A j \in DOMAIN queue'[installed] :
                                (HasIn(d, installed, j))' => j = i
    <3>0. PICK q : q = installed  OBVIOUS
    <3>1. pc[d] = "reply" /\ d # c /\ q \in Pipe  BY <2>2, <2>3, <2>5, <3>0
    <3>2. \/ Runs(d, q) /\ \A i \in DOMAIN queue[q] : ~HasIn(d, q, i)
          \/ /\ ~Runs(d, q)
             /\ \E i \in DOMAIN queue[q] :
                  /\ HasIn(d, q, i)
                  /\ \A j \in DOMAIN queue[q] : HasIn(d, q, j) => j = i
      BY <3>0, <3>1 DEF PipeInv, CommandsOwned
    <3>3. /\ (Runs(d, q))' <=> Runs(d, q)
          /\ \A i : (HasIn(d, q, i))' <=> HasIn(d, q, i)
          /\ DOMAIN queue'[q] = DOMAIN queue[q]
      BY <1>4, <1>8, <3>1
    <3> QED  BY <2>1, <3>0, <3>2, <3>3
  <2> QED  BY <2>1, <2>3, <2>4, <2>5 DEF CommandsOwned
<1>11. AttemptsCounted'
  <2>1. ASSUME NEW q \in Pipe PROVE (AttemptCounted(q))'
    <3>1. AttemptCounted(q)  BY DEF PipeInv, AttemptsCounted
    <3>2. UNCHANGED <<active, failures, streak, backup, fault>>
      BY <1>1 DEF failover, binding
    <3> QED  BY <1>5, <1>6, <3>1, <3>2 DEF AttemptCounted
  <2> QED  BY <2>1 DEF AttemptsCounted
<1>12. KeysAsAsked'
  <2>1. KeysAsAsked  BY DEF PipeInv
  <2> QED  BY <1>1, <1>5, <2>1 DEF KeysAsAsked, keys
<1>13. SentKeysOwned' /\ (~fault' => down' \subseteq {"sent"} \X Key)
  BY <1>1 DEF PipeInv, SentKeysOwned, keys
<1> QED  BY <1>7, <1>9, <1>10, <1>11, <1>12, <1>13 DEF PipeInv

-----------------------------------------------------------------------------
(* A window is bound *)

\* The new pipeline starts empty; the old one ends at once or drains.
LEMMA BindKeeps == ASSUME PipeInv, Bind PROVE PipeInv'
<1>0. PICK old : old = installed  OBVIOUS
<1>n. PICK new : new = old + 1  OBVIOUS
<1>1. /\ Holds(Engine) /\ Vacate(Engine) /\ old < MaxPipes
      /\ installed' = new
      /\ UNCHANGED <<pc, queue, exec, asked, fault, half>>
  BY <1>0, <1>n DEF Bind
<1>2. PICK config \in Configs :
        /\ queued' = [queued EXCEPT ![new] = config[1]]
        /\ backup' = [backup EXCEPT ![new] = config[2]]
  BY <1>0, <1>n DEF Bind
<1>3. /\ turn' \in Seq(Caller \cup {Engine})
      /\ alive \in [Pipe -> {"none", "up", "panicked", "gone"}]
      /\ queued \in [Pipe -> BOOLEAN] /\ backup \in [Pipe -> BOOLEAN]
      /\ config[1] \in BOOLEAN /\ config[2] \in BOOLEAN
      /\ old \in 0..MaxPipes
  BY <1>0, <1>1, <1>2, InputAssumption, VacateKeepsHolder DEF PipeInv, TypeOK
<1>4. new \in Pipe /\ new \in 0..MaxPipes /\ new > old /\ new # old
      /\ (old # 0 => old \in Pipe)
  BY <1>1, <1>3, <1>n, NumberAssumption DEF Pipe
<1>5. /\ alive[new] = "none" /\ exec[new] = None /\ queue[new] = <<>>
      /\ active[new] = "primary" /\ failures[new] = 0 /\ streak[new] = 0
  BY <1>0, <1>4 DEF PipeInv, PipesAlive
<1>6. \A c \in Caller : pc[c] # "reply"
  BY <1>1, OneWaits, ActorAssumption
<1>7. \A q \in Pipe, d \in Caller : ~Runs(d, q) /\ \A i : ~HasIn(d, q, i)
  BY <1>6 DEF PipeInv, CommandsOwned, HasIn
<1>8. \A q \in Pipe : ~queued[q] => exec[q] = None /\ queue[q] = <<>>
  <2>1. \A q \in Pipe : exec[q] # None =>
            exec[q].cmd.from \in Caller \cup {None}
    BY DEF PipeInv, TypeOK, Execution, Command
  <2> QED  BY <1>7, <2>1 DEF PipeInv, PipesAlive, Runs
<1>9. /\ queued'[new] = config[1] /\ backup'[new] = config[2]
      /\ queued' \in [Pipe -> BOOLEAN] /\ backup' \in [Pipe -> BOOLEAN]
      /\ \A q \in Pipe \ {new} : queued'[q] = queued[q] /\ backup'[q] = backup[q]
  BY <1>2, <1>3, <1>4
<1>10. CommandsOwned'
  BY <1>1, <1>6, <1>7 DEF CommandsOwned, Runs, HasIn
\* What is left to show, whether the old pipeline ends or not.
<1>11. ASSUME /\ held' \in [Pipe -> SUBSET Key]
              /\ down' \subseteq {"sent", "posted"} \X Key
              /\ presser' \in [Key -> 0..MaxPipes],
              active' \in [Pipe -> Backend],
              failures' \in [Pipe -> 0..(Threshold - 1)],
              streak' \in [Pipe -> 0..Threshold],
              alive' \in [Pipe -> {"none", "up", "panicked", "gone"}],
              alive'[new] = "up",
              \A q \in Pipe \ {new} :
                \/ /\ alive'[q] = alive[q] /\ active'[q] = active[q]
                   /\ failures'[q] = failures[q] /\ streak'[q] = streak[q]
                \/ /\ alive'[q] = "gone" /\ q = old /\ ~queued[q]
                   /\ active'[q] = "primary" /\ failures'[q] = 0
                   /\ streak'[q] = 0,
              /\ active'[new] = "primary" /\ failures'[new] = 0
              /\ streak'[new] = 0,
              KeysAsAsked', SentKeysOwned',
              ~fault' => down' \subseteq {"sent"} \X Key
       PROVE  PipeInv'
  <2>1. TypeOK'
    BY <1>1, <1>3, <1>4, <1>9, <1>11 DEF PipeInv, TypeOK
  <2>2. PipesAlive'
    <3> SUFFICES ASSUME NEW q \in Pipe
                 PROVE  /\ q > new => alive'[q] = "none"
                        /\ q = new => alive'[q] \in {"up", "panicked"}
                        /\ alive'[q] = "none" =>
                              /\ active'[q] = "primary" /\ failures'[q] = 0
                              /\ streak'[q] = 0
                        /\ exec[q] # None \/ queue[q] # <<>> => alive'[q] = "up"
                        /\ alive'[q] = "panicked" => queued'[q]
                        /\ ~queued'[q] => queue[q] = <<>>
                        /\ ~queued'[q] /\ exec[q] # None =>
                              exec[q].cmd.from # None
      BY <1>1 DEF PipesAlive
    <3>1. CASE q = new
      <4>1. ~(q > new)  BY <1>4, <3>1 DEF Pipe
      <4> QED  BY <1>5, <1>11, <3>1, <4>1
    <3>2. CASE q # new
      <4>1. /\ q > old => alive[q] = "none"
            /\ alive[q] = "none" =>
                    active[q] = "primary" /\ failures[q] = 0 /\ streak[q] = 0
            /\ exec[q] # None \/ queue[q] # <<>> => alive[q] = "up"
            /\ alive[q] = "panicked" => queued[q]
        BY <1>0 DEF PipeInv, PipesAlive
      <4>2. q > new => q > old  BY <1>3, <1>4, <1>n DEF Pipe
      <4>3. queued'[q] = queued[q]  BY <1>9, <3>2
      <4>4. CASE /\ alive'[q] = alive[q] /\ active'[q] = active[q]
                 /\ failures'[q] = failures[q] /\ streak'[q] = streak[q]
        BY <1>8, <3>2, <4>1, <4>2, <4>3, <4>4
      <4>5. CASE alive'[q] = "gone" /\ q = old /\ ~queued[q]
        <5>1. ~(q > new)  BY <1>3, <1>4, <1>n, <4>5
        <5> QED  BY <1>8, <3>2, <4>3, <4>5, <5>1
      <4> QED  BY <1>11, <3>2, <4>4, <4>5
    <3> QED  BY <3>1, <3>2
  <2>3. AttemptsCounted'
    <3>1. ASSUME NEW q \in Pipe PROVE (AttemptCounted(q))'
      <4>1. AttemptCounted(q)  BY DEF PipeInv, AttemptsCounted
      <4>2. CASE q = new
        BY <1>1, <1>5, <1>11, <4>2 DEF AttemptCounted
      <4>3. CASE q # new /\ exec[q] = None /\ active'[q] = "primary"
                 /\ failures'[q] = 0 /\ streak'[q] = 0
        BY <1>1, <4>3 DEF AttemptCounted
      <4>4. CASE q # new /\ active'[q] = active[q]
                 /\ failures'[q] = failures[q] /\ streak'[q] = streak[q]
        <5>1. exec' = exec /\ fault' = fault /\ backup'[q] = backup[q]
          BY <1>1, <1>9, <4>4
        <5> QED  BY <4>1, <4>4, <5>1 DEF AttemptCounted
      <4> QED  BY <1>8, <1>11, <4>2, <4>3, <4>4
    <3> QED  BY <3>1 DEF AttemptsCounted
  <2> QED  BY <1>10, <1>11, <2>1, <2>2, <2>3 DEF PipeInv
<1>a. CASE old # 0 /\ ~queued[old]
  <2>1. /\ alive' = [alive EXCEPT ![new] = "up", ![old] = "gone"]
        /\ ReleaseHeld(old)
    BY <1>0, <1>n, <1>a DEF Bind
  <2>2. /\ alive'[new] = "up" /\ alive'[old] = "gone"
        /\ \A q \in Pipe \ {new, old} : alive'[q] = alive[q]
        /\ alive' \in [Pipe -> {"none", "up", "panicked", "gone"}]
    BY <1>3, <1>4, <1>a, <2>1
  <2>3. \A q \in Pipe \ {old} : alive[q] \in {"up", "panicked"} =>
            alive'[q] \in {"up", "panicked"}
    BY <2>2
  <2>4. /\ held' \in [Pipe -> SUBSET Key]
        /\ down' \subseteq {"sent", "posted"} \X Key
        /\ presser' \in [Key -> 0..MaxPipes]
        /\ active' \in [Pipe -> Backend] /\ active'[old] = "primary"
        /\ failures' \in [Pipe -> 0..(Threshold - 1)] /\ failures'[old] = 0
        /\ streak' \in [Pipe -> 0..Threshold] /\ streak'[old] = 0
        /\ \A q \in Pipe \ {old} :
             /\ active'[q] = active[q] /\ failures'[q] = failures[q]
             /\ streak'[q] = streak[q]
        /\ KeysAsAsked' /\ SentKeysOwned'
        /\ ~fault' => down' \subseteq {"sent"} \X Key
    BY <1>1, <1>4, <1>a, <2>1, <2>3, ReleaseHeldKeeps
  <2> QED  BY <1>4, <1>5, <1>11, <1>a, <2>2, <2>4
<1>b. CASE ~(old # 0 /\ ~queued[old])
  <2>1. /\ alive' = [alive EXCEPT ![new] = "up"]
        /\ UNCHANGED <<keys, failover, streak>>
    BY <1>0, <1>n, <1>b DEF Bind
  <2>2. /\ alive'[new] = "up" /\ \A q \in Pipe \ {new} : alive'[q] = alive[q]
        /\ alive' \in [Pipe -> {"none", "up", "panicked", "gone"}]
    BY <1>3, <1>4, <2>1
  <2>3. KeysAsAsked'
    BY <1>1, <2>1 DEF PipeInv, KeysAsAsked, keys
  <2>4. SentKeysOwned'
    <3>1. \A k \in Key : presser[k] \in 0..MaxPipes
      BY DEF PipeInv, TypeOK
    <3> QED  BY <2>1, <2>2, <3>1 DEF PipeInv, SentKeysOwned, keys, Pipe
  <2>5. /\ held' \in [Pipe -> SUBSET Key]
        /\ down' \subseteq {"sent", "posted"} \X Key
        /\ presser' \in [Key -> 0..MaxPipes]
        /\ active' \in [Pipe -> Backend]
        /\ failures' \in [Pipe -> 0..(Threshold - 1)]
        /\ streak' \in [Pipe -> 0..Threshold]
        /\ ~fault' => down' \subseteq {"sent"} \X Key
    BY <1>1, <2>1 DEF PipeInv, TypeOK, keys, failover
  <2>6. active' = active /\ failures' = failures /\ streak' = streak
    BY <2>1 DEF failover
  <2> QED  BY <1>5, <1>11, <2>2, <2>3, <2>4, <2>5, <2>6
<1> QED  BY <1>a, <1>b

-----------------------------------------------------------------------------
(* Theorems *)

\* Every step keeps the invariant.
LEMMA InputStep == PipeInv /\ [Next]_vars => PipeInv'
<1> SUFFICES ASSUME PipeInv, [Next]_vars PROVE PipeInv'  OBVIOUS
<1>1. ASSUME NEW c \in Caller, Call(c) \/ CallerStep(c) \/ Dropped(c)
      PROVE  PipeInv'
  BY <1>1, CallKeeps, RunsItselfKeeps, SubmitKeeps, CutOffKeeps, AbandonKeeps
     DEF CallerStep
<1>2. ASSUME NEW p \in Pipe,
             Advance(p) \/ WorkerTakes(p) \/ WorkerPanics(p) \/ Retire(p)
      PROVE  PipeInv'
  BY <1>2, SendEventKeeps, FailsKeep, WorkerTakesKeeps, WorkerPanicsKeeps,
     RetireKeeps DEF Advance
<1>3. CASE AskBind \/ Bind  BY <1>3, AskBindKeeps, BindKeeps
<1>4. CASE UNCHANGED vars
  <2>1. /\ UNCHANGED <<binding, alive, queue, exec, failover, keys, history>>
        /\ turn' = turn /\ pc' = pc
    BY <1>4 DEF vars, callers
  <2>2. turn' \in Seq(Caller \cup {Engine}) /\ pc' \in [Caller -> Stages]
    BY <2>1 DEF PipeInv, TypeOK
  <2> QED  BY <2>1, <2>2, CallersKeep DEF Holds
<1> QED  BY <1>1, <1>2, <1>3, <1>4 DEF Next

\* The invariant of the pipelines: who waits, what executes, how often the
\* primary has failed and which keys are down belong together, at every
\* moment of any run and for any number of callers, windows and keys.
THEOREM InputInvariant == Spec => []PipeInv
BY InputInit, InputStep, PTL DEF Spec

\* Every variable keeps its type, and no queue grows beyond its capacity.
THEOREM InputTypes == Spec => []TypeOK
<1>1. PipeInv => TypeOK  BY DEF PipeInv
<1> QED  BY <1>1, InputInvariant, PTL

\* Who waits for a reply has its own command in the installed pipeline, once:
\* no answer is lost and none comes twice (queue.rs:102-124).
THEOREM WaitersAnswered == Spec => []WaiterHasCommand
<1>1. ASSUME PipeInv, NEW c \in Caller, pc[c] = "reply"
      PROVE  LET mine == {i \in DOMAIN queue[installed] :
                            queue[installed][i].from = c}
                 runs == exec[installed] # None /\ exec[installed].cmd.from = c
             IN /\ installed # 0 /\ Holds(c)
                /\ IF runs THEN mine = {}
                   ELSE \E i \in DOMAIN queue[installed] : mine = {i}
  BY <1>1 DEF PipeInv, CommandsOwned, Runs, HasIn
<1>2. PipeInv => WaiterHasCommand  BY <1>1 DEF WaiterHasCommand
<1> QED  BY <1>2, InputInvariant, PTL

\* While nothing has failed, what is down was left down by a completed input
\* or is being pressed, whichever callers were dropped (queue.rs:73-91).
THEOREM KeysAreAsked == Spec => []KeysAsAsked
<1>1. PipeInv => KeysAsAsked  BY DEF PipeInv
<1> QED  BY <1>1, InputInvariant, PTL

\* A key that SendInput left down belongs to a controller that is still there
\* to release it, however often windows are bound (win32.rs:1107-1114).
THEOREM KeysHaveOwners == Spec => []SentKeysOwned
<1>1. PipeInv => SentKeysOwned  BY DEF PipeInv
<1> QED  BY <1>1, InputInvariant, PTL

\* The fallback is active only after as many failures of the primary in a row
\* as the threshold says (failover.rs:240-256).
THEOREM FallbacksAreEarned == Spec => []FallbackEarned
<1>1. PipeInv => FallbackEarned
  BY DEF PipeInv, AttemptsCounted, AttemptCounted, FallbackEarned
<1> QED  BY <1>1, InputInvariant, PTL

\* No command is tried twice on a backend (failover.rs:194-262).
THEOREM TriedOnce == Spec => []OncePerBackend
<1>1. ASSUME PipeInv, NEW p \in Pipe, exec[p] # None
      PROVE  IsInjective(exec[p].tried)
  <2>1. exec[p].tried \in {<<"primary">>, <<"fallback">>, <<"primary", "fallback">>}
    BY <1>1 DEF PipeInv, TypeOK, Execution, Backend, AttemptsCounted,
                AttemptCounted
  <2>2. IsInjective(<<"primary">>) /\ IsInjective(<<"fallback">>)
    BY DEF IsInjective
  <2>3. IsInjective(<<"primary", "fallback">>)
    BY DEF IsInjective
  <2> QED  BY <2>1, <2>2, <2>3
<1>2. PipeInv => OncePerBackend  BY <1>1 DEF OncePerBackend
<1> QED  BY <1>2, InputInvariant, PTL

-----------------------------------------------------------------------------
(* The pipelines implement SerialWorker *)

Task == [op : Op, key : Key]
Whats(q) == [i \in DOMAIN q |-> What(q[i])]

\* The queue of a pipeline as SerialWorker sees it.
LEMMA WhatsAre ==
    ASSUME NEW q \in Seq(Command)
    PROVE  /\ Whats(q) \in Seq(Task) /\ Len(Whats(q)) = Len(q)
           /\ \A i \in 1..Len(q) : Whats(q)[i] = What(q[i])
<1>1. PICK n \in Nat : n = Len(q)  BY LenProperties
<1>2. DOMAIN q = 1..n  BY <1>1, LenProperties
<1>3. \A i \in 1..n : q[i] \in Command  BY <1>1, ElementOfSeq
<1>4. \A i \in 1..n : What(q[i]) \in Task
  BY <1>3 DEF What, Task, Command
<1>5. Whats(q) = [i \in 1..n |-> What(q[i])]  BY <1>2 DEF Whats
<1>6. Whats(q) \in [1..n -> Task]  BY <1>4, <1>5
<1>7. Whats(q) \in Seq(Task)  BY <1>6, SeqDef
<1>8. Len(Whats(q)) = n  BY <1>6, <1>7, LenProperties
<1> QED  BY <1>1, <1>5, <1>7, <1>8

\* A command that comes last is the last that SerialWorker sees.
LEMMA WhatsAppend ==
    ASSUME NEW q \in Seq(Command), NEW cmd \in Command
    PROVE  Whats(Append(q, cmd)) = Append(Whats(q), What(cmd))
<1>1. PICK r : r = Append(q, cmd)  OBVIOUS
<1>2. /\ r \in Seq(Command) /\ Len(r) = Len(q) + 1
      /\ \A i \in 1..Len(q) : r[i] = q[i]
      /\ r[Len(q) + 1] = cmd
  BY <1>1, AppendProperties
<1>3. What(cmd) \in Task  BY DEF What, Task, Command
<1>4. PICK s : s = Append(Whats(q), What(cmd))  OBVIOUS
<1>5. /\ s \in Seq(Task) /\ Len(s) = Len(q) + 1
      /\ \A i \in 1..Len(q) : s[i] = What(q[i])
      /\ s[Len(q) + 1] = What(cmd)
  BY <1>3, <1>4, WhatsAre, AppendProperties
<1>6. /\ Whats(r) \in Seq(Task) /\ Len(Whats(r)) = Len(q) + 1
      /\ \A i \in 1..Len(q) + 1 : Whats(r)[i] = What(r[i])
  BY <1>2, WhatsAre
<1>7. Len(q) \in Nat  BY LenProperties
<1>8. \A i \in 1..Len(q) + 1 : i \in 1..Len(q) \/ i = Len(q) + 1  BY <1>7
<1>9. \A i \in 1..Len(Whats(r)) : Whats(r)[i] = s[i]
  BY <1>2, <1>5, <1>6, <1>8
<1> QED  BY <1>1, <1>4, <1>5, <1>6, <1>9, SeqEqual

\* The first command and those behind it are so for SerialWorker too.
LEMMA WhatsTail ==
    ASSUME NEW q \in Seq(Command), q # <<>>
    PROVE  /\ Whats(q) # <<>> /\ Head(Whats(q)) = What(Head(q))
           /\ Whats(Tail(q)) = Tail(Whats(q))
<1>1. PICK n \in Nat : n = Len(q) - 1 /\ Len(q) = n + 1
  BY EmptySeq, LenProperties
<1>2. PICK t : t = Tail(q)  OBVIOUS
<1>3. /\ t \in Seq(Command) /\ Len(t) = n
      /\ \A i \in 1..n : t[i] = q[i + 1]
  BY <1>1, <1>2, HeadTailProperties
<1>4. PICK w : w = Whats(q)  OBVIOUS
<1>5. /\ w \in Seq(Task) /\ Len(w) = n + 1
      /\ \A i \in 1..n + 1 : w[i] = What(q[i])
  BY <1>1, <1>4, WhatsAre
<1>6. w # <<>> /\ Head(w) = w[1]  BY <1>5
<1>7. 1 \in 1..n + 1 /\ Head(q) = q[1]  BY <1>1
<1>8. PICK u : u = Tail(w)  OBVIOUS
<1>9. /\ u \in Seq(Task) /\ Len(u) = n
      /\ \A i \in 1..n : u[i] = w[i + 1]
  BY <1>5, <1>6, <1>8, HeadTailProperties
<1>10. /\ Whats(t) \in Seq(Task) /\ Len(Whats(t)) = n
       /\ \A i \in 1..n : Whats(t)[i] = What(t[i])
  BY <1>3, WhatsAre
<1>11. \A i \in 1..n : i + 1 \in 1..n + 1  OBVIOUS
<1>12. Whats(t) = u  BY <1>3, <1>5, <1>9, <1>10, <1>11, SeqEqual
<1> QED  BY <1>2, <1>4, <1>5, <1>6, <1>7, <1>8, <1>12

\* What is seen of a step that changes the queue or the execution of one
\* pipeline.
LEMMA Seen ==
    ASSUME NEW p \in Pipe,
           \A q \in Pipe \ {p} : queue'[q] = queue[q] /\ exec'[q] = exec[q]
    PROVE  /\ Pending' = [Pending EXCEPT ![p] = Whats(queue'[p])]
           /\ Running' = [Running EXCEPT ![p] =
                    IF exec'[p] = None THEN None ELSE What(exec'[p].cmd)]
           /\ Pending[p] = Whats(queue[p])
           /\ Running[p] = IF exec[p] = None THEN None ELSE What(exec[p].cmd)
BY DEF Pending, Running, Whats

\* An input in execution is not None for SerialWorker.
LEMMA SomethingRuns ==
    ASSUME PipeInv, NEW p \in Pipe, exec[p] # None
    PROVE  What(exec[p].cmd) \in Task /\ What(exec[p].cmd) # None
<1>1. exec[p].cmd \in Command  BY DEF PipeInv, TypeOK, Execution
<1> QED  BY <1>1, NoneAssumption DEF What, Task, Command

\* A command that is done, cut off or tried again is finished or goes on.
LEMMA EndIsSeen ==
    ASSUME PipeInv, NEW p \in Pipe, exec[p] # None, queue' = queue,
           \A q \in Pipe \ {p} : exec'[q] = exec[q],
           exec'[p] = None \/ (exec'[p] # None /\ exec'[p].cmd = exec[p].cmd)
    PROVE  Workers!Finish(p) \/ UNCHANGED <<Pending, Running>>
<1>1. PICK r : r = What(exec[p].cmd)  OBVIOUS
<1>2. r # None  BY <1>1, SomethingRuns
<1>3. /\ Pending' = [Pending EXCEPT ![p] = Whats(queue[p])]
      /\ Running' = [Running EXCEPT ![p] = IF exec'[p] = None THEN None ELSE r]
      /\ Pending[p] = Whats(queue[p]) /\ Running[p] = r
  BY <1>1, Seen
<1>4. Pending' = Pending  BY <1>3 DEF Pending
<1>5. CASE exec'[p] = None
  BY <1>2, <1>3, <1>4, <1>5 DEF Workers!Finish
<1>6. CASE exec'[p] # None
  <2>1. Running' = Running  BY <1>3, <1>6 DEF Running
  <2> QED  BY <1>4, <2>1
<1> QED  BY <1>5, <1>6

\* submit() accepts a command, or is refused.
LEMMA SubmitIsSeen ==
    ASSUME PipeInv, NEW c \in Caller, Submit(c)
    PROVE  \/ \E p \in Pipe, t \in Task : Workers!Accept(p, t)
           \/ UNCHANGED <<Pending, Running>>
<1>0. PICK p : p = installed  OBVIOUS
<1>1. p \in Pipe /\ exec' = exec
  BY <1>0, NumberAssumption DEF Submit, PipeInv, TypeOK, Pipe
<1>2. Running' = Running  BY <1>1 DEF Running
<1>3. CASE alive[p] = "panicked"
  <2>1. queue' = queue  BY <1>0, <1>3 DEF Submit
  <2> QED  BY <1>2, <2>1 DEF Pending
<1>4. CASE alive[p] # "panicked"
  <2>1. PICK cmd \in Input(c) : queue' = [queue EXCEPT ![p] = Append(@, cmd)]
    BY <1>0, <1>4 DEF Submit
  <2>2. cmd \in Command /\ What(cmd) \in Task
    BY <2>1 DEF Input, Command, What, Task
  <2>3. queue \in [Pipe -> Seq(Command)] /\ queue[p] \in Seq(Command)
    BY <1>1 DEF PipeInv, TypeOK
  <2>4. /\ queue'[p] = Append(queue[p], cmd)
        /\ \A q \in Pipe \ {p} : queue'[q] = queue[q]
    BY <1>1, <2>1, <2>3
  <2>5. /\ Pending' = [Pending EXCEPT ![p] = Whats(queue'[p])]
        /\ Pending[p] = Whats(queue[p])
    BY <1>1, <2>4, Seen
  <2>6. Whats(queue'[p]) = Append(Whats(queue[p]), What(cmd))
    BY <2>2, <2>3, <2>4, WhatsAppend
  <2>7. Workers!Accept(p, What(cmd))
    BY <1>2, <2>5, <2>6 DEF Workers!Accept
  <2> QED  BY <1>1, <2>2, <2>7
<1> QED  BY <1>3, <1>4

\* A command starts from the queue, or from its caller when there is no queue.
LEMMA StartIsSeen ==
    ASSUME PipeInv, NEW p \in Pipe, exec[p] = None,
           NEW cmd \in Command, Begin(p, cmd),
           \/ queue' = queue /\ queue[p] = <<>>
           \/ /\ queue[p] # <<>> /\ cmd = Head(queue[p])
              /\ queue' = [queue EXCEPT ![p] = Tail(queue[p])]
    PROVE  (\E t \in Task : Workers!StartDirectly(p, t)) \/ Workers!Start(p)
<1>1. PICK b \in FirstBackend(p) : exec' = [exec EXCEPT ![p] = Attempt(cmd, b)]
  BY DEF Begin
<1>2. PICK e : e = Attempt(cmd, b)  OBVIOUS
<1>3. e \in Execution /\ e # None /\ e.cmd = cmd
  BY <1>2, AttemptFits, NoneAssumption
<1>4. /\ exec \in [Pipe -> Execution \cup {None}]
      /\ queue \in [Pipe -> Seq(Command)] /\ queue[p] \in Seq(Command)
  BY DEF PipeInv, TypeOK
<1>5. exec'[p] = e /\ \A q \in Pipe \ {p} : exec'[q] = exec[q]
  BY <1>1, <1>2, <1>4
<1>6. \A q \in Pipe \ {p} : queue'[q] = queue[q]  BY <1>4
<1>7. /\ Pending' = [Pending EXCEPT ![p] = Whats(queue'[p])]
      /\ Running' = [Running EXCEPT ![p] = What(cmd)]
      /\ Pending[p] = Whats(queue[p]) /\ Running[p] = None
  BY <1>3, <1>5, <1>6, Seen
<1>8. What(cmd) \in Task  BY DEF What, Task, Command
<1>9. CASE queue' = queue /\ queue[p] = <<>>
  <2>1. Pending' = Pending  BY <1>9 DEF Pending
  <2>2. Pending[p] = <<>>
    BY <1>4, <1>7, <1>9, WhatsAre, EmptySeq
  <2> QED  BY <1>7, <1>8, <2>1, <2>2 DEF Workers!StartDirectly
<1>10. CASE /\ queue[p] # <<>> /\ cmd = Head(queue[p])
            /\ queue' = [queue EXCEPT ![p] = Tail(queue[p])]
  <2>1. queue'[p] = Tail(queue[p])  BY <1>4, <1>10
  <2>2. /\ Pending[p] # <<>> /\ Head(Pending[p]) = What(cmd)
        /\ Whats(queue'[p]) = Tail(Pending[p])
    BY <1>4, <1>7, <1>10, <2>1, WhatsTail
  <2> QED  BY <1>7, <2>2 DEF Workers!Start
<1> QED  BY <1>9, <1>10

\* A panic of the worker loses what it runs and what waits, together.
LEMMA PanicIsSeen ==
    ASSUME PipeInv, NEW p \in Pipe, WorkerPanics(p) PROVE Workers!Crash(p)
<1>1. /\ exec[p] # None /\ exec' = [exec EXCEPT ![p] = None]
      /\ queue' = [queue EXCEPT ![p] = <<>>]
  BY DEF WorkerPanics
<1>2. /\ exec \in [Pipe -> Execution \cup {None}]
      /\ queue \in [Pipe -> Seq(Command)] /\ queue[p] \in Seq(Command)
  BY DEF PipeInv, TypeOK
<1>3. /\ exec'[p] = None /\ queue'[p] = <<>>
      /\ \A q \in Pipe \ {p} : exec'[q] = exec[q] /\ queue'[q] = queue[q]
  BY <1>1, <1>2
<1>4. Whats(<<>>) = <<>>
  <2>1. <<>> \in Seq(Command) /\ Len(<<>>) = 0  BY EmptySeq
  <2> QED  BY <2>1, WhatsAre, EmptySeq
<1>5. What(exec[p].cmd) # None  BY <1>1, SomethingRuns
<1>6. /\ Pending' = [Pending EXCEPT ![p] = <<>>]
      /\ Running' = [Running EXCEPT ![p] = None]
      /\ Running[p] = What(exec[p].cmd)
  BY <1>1, <1>3, <1>4, Seen
<1> QED  BY <1>5, <1>6 DEF Workers!Crash

\* SerialWorker does not see who owns a command.
LEMMA AbandonIsNotSeen ==
    ASSUME PipeInv, NEW c \in Caller, Abandon(c)
    PROVE  UNCHANGED <<Pending, Running>>
<1>1. /\ queue' = [p \in Pipe |->
                      [i \in DOMAIN queue[p] |-> Orphan(queue[p][i], c)]]
      /\ exec' = [p \in Pipe |-> OrphanExec(exec[p], c)]
  BY DEF Abandon
<1>2. /\ exec \in [Pipe -> Execution \cup {None}]
      /\ queue \in [Pipe -> Seq(Command)]
  BY DEF PipeInv, TypeOK
<1>3. ASSUME NEW p \in Pipe
      PROVE  [i \in DOMAIN queue'[p] |-> What(queue'[p][i])]
               = [i \in DOMAIN queue[p] |-> What(queue[p][i])]
  <2>1. \A i \in DOMAIN queue[p] : queue[p][i] \in Command
    BY <1>2, ElementOfSeq, LenProperties
  <2>2. queue'[p] = [i \in DOMAIN queue[p] |-> Orphan(queue[p][i], c)]
    BY <1>1
  <2>3. DOMAIN queue'[p] = DOMAIN queue[p]  BY <2>2
  <2>4. \A i \in DOMAIN queue[p] : What(queue'[p][i]) = What(queue[p][i])
    BY <2>1, <2>2, OrphanIs DEF What
  <2> QED  BY <2>3, <2>4
<1>4. ASSUME NEW p \in Pipe
      PROVE  IF exec'[p] = None THEN exec[p] = None
             ELSE exec[p] # None /\ What(exec'[p].cmd) = What(exec[p].cmd)
  <2>1. exec'[p] = OrphanExec(exec[p], c)  BY <1>1
  <2>2. CASE exec[p] = None  BY <2>1, <2>2 DEF OrphanExec
  <2>3. CASE exec[p] # None
    <3>1. PICK e \in Execution : e = exec[p]  BY <1>2, <2>3
    <3>2. PICK f : f = OrphanExec(e, c)  OBVIOUS
    <3>3. f \in Execution /\ f.cmd.op = e.cmd.op /\ f.cmd.key = e.cmd.key
      BY <3>2, OrphanExecIs
    <3>4. f # None /\ What(f.cmd) = What(e.cmd)
      BY <3>3, NoneAssumption DEF What
    <3> QED  BY <2>1, <2>3, <3>1, <3>2, <3>4
  <2> QED  BY <2>2, <2>3
<1>5. Pending' = Pending  BY <1>3 DEF Pending
<1>6. Running' = Running  BY <1>4 DEF Running
<1> QED  BY <1>5, <1>6

\* Every step is one of SerialWorker, or it sees nothing of it.
LEMMA StepIsSeen ==
    PipeInv /\ [Next]_vars => [Workers!Next]_<<Pending, Running>>
<1> SUFFICES ASSUME PipeInv, [Next]_vars
             PROVE  Workers!Next \/ UNCHANGED <<Pending, Running>>
  OBVIOUS
<1> USE DEF Task
<1>1. ASSUME UNCHANGED <<queue, exec>> PROVE UNCHANGED <<Pending, Running>>
  BY <1>1 DEF Pending, Running
<1>2. \A p \in Pipe : Workers!Finish(p) \/ Workers!Crash(p) \/ Workers!Start(p)
            \/ (\E t \in Task : Workers!Accept(p, t) \/ Workers!StartDirectly(p, t))
            => Workers!Next
  BY DEF Workers!Next
<1>3. ASSUME NEW c \in Caller, Call(c) \/ NoController(c) \/ Returns(c)
      PROVE  UNCHANGED <<Pending, Running>>
  BY <1>1, <1>3 DEF Call, NoController, Returns
<1>4. ASSUME NEW c \in Caller, RunsItself(c) PROVE Workers!Next
  <2>0. PICK p : p = installed  OBVIOUS
  <2>1. /\ Holds(c) /\ ~queued[p] /\ p \in Pipe /\ queue' = queue
        /\ pc[c] = "lock"
    BY <1>4, <2>0, NumberAssumption DEF RunsItself, PipeInv, TypeOK, Pipe
  <2>2. PICK cmd \in Input(c) : Begin(p, cmd)  BY <1>4, <2>0 DEF RunsItself
  <2>3. cmd \in Command  BY <2>2 DEF Input, Command
  <2>4. exec[p] = None /\ queue[p] = <<>>
    <3>1. \A d \in Caller : pc[d] # "reply"  BY <2>1, OneWaits
    <3>2. exec[p] # None => exec[p].cmd.from \in Caller \cup {None}
      BY <2>1 DEF PipeInv, TypeOK, Execution, Command
    <3> QED  BY <2>1, <3>1, <3>2 DEF PipeInv, PipesAlive, CommandsOwned, Runs
  <2> QED  BY <1>2, <2>1, <2>2, <2>3, <2>4, StartIsSeen
<1>5. ASSUME NEW c \in Caller, Submit(c)
      PROVE  Workers!Next \/ UNCHANGED <<Pending, Running>>
  BY <1>2, <1>5, SubmitIsSeen
<1>6. ASSUME NEW c \in Caller, Dropped(c)
      PROVE  Workers!Next \/ UNCHANGED <<Pending, Running>>
  <2>1. CASE pc[c] = "reply" /\ ~queued[installed]
    <3>0. PICK p : p = installed  OBVIOUS
    <3>1. exec' = [exec EXCEPT ![p] = None] /\ queue' = queue
      BY <1>6, <2>1, <3>0 DEF Dropped
    <3>2. p \in Pipe /\ exec \in [Pipe -> Execution \cup {None}]
      BY <2>1, <3>0, NumberAssumption
         DEF PipeInv, TypeOK, CommandsOwned, Pipe
    <3>3. exec[p] # None
      <4>1. queue[p] = <<>>  BY <2>1, <3>0, <3>2 DEF PipeInv, PipesAlive
      <4> QED  BY <2>1, <3>0, <4>1 DEF PipeInv, CommandsOwned, Runs
    <3>4. exec'[p] = None /\ \A q \in Pipe \ {p} : exec'[q] = exec[q]
      BY <3>1, <3>2
    <3> QED  BY <1>2, <3>1, <3>2, <3>3, <3>4, EndIsSeen
  <2>2. CASE ~(pc[c] = "reply" /\ ~queued[installed])
    BY <1>6, <2>2, AbandonIsNotSeen DEF Dropped
  <2> QED  BY <2>1, <2>2
<1>7. ASSUME NEW p \in Pipe, Advance(p)
      PROVE  Workers!Next \/ UNCHANGED <<Pending, Running>>
  <2>1. exec[p] # None /\ queue' = queue
    BY <1>7 DEF Advance, SendEvent, EventFails, TimesOut
  <2>2. /\ exec \in [Pipe -> Execution \cup {None}] /\ exec[p] \in Execution
    BY <2>1 DEF PipeInv, TypeOK
  <2>3. \/ exec' = [exec EXCEPT ![p] = None]
        \/ \E b \in Backend : exec' = [exec EXCEPT ![p] = NextAttempt(exec[p], b)]
        \/ \E event : exec' = [exec EXCEPT ![p] = After(exec[p], event)]
    <3>1. CASE SendEvent(p)
      BY <3>1 DEF SendEvent, AttemptSucceeds, Done
    <3>2. CASE EventFails(p) \/ TimesOut(p)
      <4>1. AttemptFails(p)  BY <3>2 DEF EventFails, TimesOut
      <4>2. Done(p) \/ Again(p, AfterProbe(p)) \/ Again(p, "fallback")
        BY <4>1 DEF AttemptFails
      <4>3. AfterProbe(p) \in Backend
        BY DEF AfterProbe, PipeInv, TypeOK
      <4> QED  BY <4>2, <4>3 DEF Done, Again, Backend
    <3> QED  BY <1>7, <3>1, <3>2 DEF Advance
  <2>4. \A q \in Pipe \ {p} : exec'[q] = exec[q]  BY <2>2, <2>3
  <2>5. \/ exec'[p] = None
        \/ \E b \in Backend : exec'[p] = NextAttempt(exec[p], b)
        \/ \E event : exec'[p] = After(exec[p], event)
    BY <2>2, <2>3
  <2>6. \A b : NextAttempt(exec[p], b).cmd = exec[p].cmd
    BY DEF NextAttempt, Attempt
  <2>7. \A event : After(exec[p], event).cmd = exec[p].cmd
    BY <2>2 DEF After, Execution
  <2>8. exec'[p] = None \/ (exec'[p] # None /\ exec'[p].cmd = exec[p].cmd)
    BY <2>5, <2>6, <2>7
  <2> QED  BY <1>2, <2>1, <2>4, <2>8, EndIsSeen
<1>8. ASSUME NEW p \in Pipe, WorkerTakes(p) PROVE Workers!Next
  <2>1. /\ exec[p] = None /\ queue[p] # <<>> /\ Begin(p, Head(queue[p]))
        /\ queue' = [queue EXCEPT ![p] = Tail(queue[p])]
        /\ queue[p] \in Seq(Command)
    BY <1>8 DEF WorkerTakes, Rest, PipeInv, TypeOK
  <2>2. Head(queue[p]) \in Command  BY <2>1, HeadTailProperties
  <2> QED  BY <1>2, <2>1, <2>2, StartIsSeen
<1>9. ASSUME NEW p \in Pipe, WorkerPanics(p) PROVE Workers!Next
  BY <1>2, <1>9, PanicIsSeen
<1>10. ASSUME NEW p \in Pipe, Retire(p) PROVE UNCHANGED <<Pending, Running>>
  BY <1>1, <1>10 DEF Retire
<1>11. CASE AskBind \/ Bind  BY <1>1, <1>11 DEF AskBind, Bind
<1>12. CASE UNCHANGED vars  BY <1>1, <1>12 DEF vars
<1> QED  BY <1>3, <1>4, <1>5, <1>6, <1>7, <1>8, <1>9, <1>10, <1>11, <1>12
            DEF Next, CallerStep

\* At first nothing is pending and nothing runs.
LEMMA InitIsSeen == Init => Workers!Init
BY DEF Init, Workers!Init, Pending, Running

\* Every pipeline is a serial worker: the inputs it accepts run one at a time,
\* in their order and once each, whatever becomes of their callers and of the
\* backends (queue.rs:73-91).
THEOREM PipesAreSerial == Spec => Serial
BY InputInvariant, InitIsSeen, StepIsSeen, PTL DEF Spec, Serial, Workers!Spec
=============================================================================
