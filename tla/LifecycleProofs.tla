---------------------------- MODULE LifecycleProofs ----------------------------
(***************************************************************************)
(* What keeps starts, stops and changes of the configuration apart: the    *)
(* invariant of EngineLifecycle, and the theorems about it.                *)
(***************************************************************************)
EXTENDS EngineLifecycle, TLAPS

-----------------------------------------------------------------------------
(* The invariant *)

\* What is not started yet is as it was at first; a loop that goes has a copy
\* of a configuration; who is told to end.
SessionsApart ==
    \A s \in Start :
        /\ s > starts => /\ loop[s].pc = "off"
                         /\ rec[s].pc = "off" /\ ~rec[s].asked
        /\ Going(s) => loop[s].cfg \in Config
        /\ rec[s].asked /\ s \notin overran => ~Going(s)

\* Which start the engine's handles belong to, command by command.
HandlesMatch ==
    /\ At("bind") => state = "idle"
    /\ op.pc \in {"join", "tasks", "finish"} => state = "running"
    /\ state = "running" /\ op.pc \in {"none", "join"} => capture # 0
    /\ recorder # 0 /\ state = "running" /\ op.pc \in {"none", "join"} =>
            recorder = capture

\* How far a stop has come: the loop is told, it has ended or was left alone,
\* and only then is the recorder told.
StopInOrder ==
    /\ op.pc \in {"join", "tasks", "finish"} =>
            \A s \in Start : Going(s) => loop[s].asked
    /\ op.pc \in {"tasks", "finish"} /\ recorder # 0 =>
            recorder \in overran \/ ~Going(recorder)
    /\ At("finish") => \A s \in Start : Recording(s) => rec[s].asked

\* A session that was started has a name, and only its loop saves frames.
NamesRight ==
    \A s \in Start :
        /\ rec[s].pc = "off" => rec[s].name = None /\ rec[s].saved = 0
        /\ rec[s].pc # "off" => rec[s].name \in Name
        /\ rec[s].pc = "done" => rec[s].asked
        /\ loop[s].wrapped => rec[s].pc # "off"

\* A directory that one session has to itself holds what that has saved, and
\* one that none has is empty.
DiskRight ==
    /\ \A s \in Start : rec[s].pc # "off" /\ OwnsName(s) =>
            /\ disk[rec[s].name].frames = rec[s].saved
            /\ rec[s].pc = "done" /\ s \notin overran =>
                    disk[rec[s].name].manifest = rec[s].saved
    /\ \A n \in Name :
            (\A s \in Start : rec[s].name # n) => disk[n].frames = 0

LifeInv ==
    /\ TypeOK
    /\ SessionsApart /\ HandlesMatch /\ StopInOrder
    /\ OneSession /\ LoopRunsConfig
    /\ NamesRight /\ DiskRight

\* The loop of session s saves a frame.
Saves(s) ==
    /\ loop[s].wrapped /\ rec[s].saved < MaxFrames
    /\ rec' = [rec EXCEPT ![s].saved = @ + 1]
    /\ disk' = [disk EXCEPT ![rec[s].name].frames =
                  IF @ > rec[s].saved THEN @ ELSE rec[s].saved + 1]

\* Its recorder writes the manifest.
Writes(s) ==
    /\ rec[s].asked /\ rec'[s].pc = "done"
    /\ disk' = [disk EXCEPT ![rec[s].name].manifest = rec[s].saved]

\* A step of a loop: what the engine reads of it, it only loses, and it saves
\* no frame of its session once it has ended.
LoopTurn(s) ==
    /\ loop' \in [Start -> LoopState]
    /\ Going(s)
    /\ loop'[s].pc # "off"
    /\ loop'[s].pc # "done" => loop'[s].asked = loop[s].asked
                                 /\ loop'[s].cfg = loop[s].cfg
    /\ loop'[s].wrapped => loop[s].wrapped
    /\ \A t \in Start \ {s} : loop'[t] = loop[t]
    /\ UNCHANGED <<rec, disk>> \/ Saves(s)
    /\ UNCHANGED <<window, engine, overran>>

\* A step of a recorder: it ends, or goes on unasked as it was.
RecorderTurn(s) ==
    /\ rec' \in [Start -> Session]
    /\ Recording(s)
    /\ rec'[s].pc # "off"
    /\ rec'[s].asked = rec[s].asked /\ rec'[s].saved = rec[s].saved
    /\ rec'[s].name = rec[s].name
    /\ \/ disk' = disk /\ rec'[s].pc # "done"
       \/ Writes(s)
    /\ \A t \in Start \ {s} : rec'[t] = rec[t]
    /\ UNCHANGED <<window, engine, loop, overran>>

-----------------------------------------------------------------------------
(* Initial states and loops *)

\* Nothing goes and nothing records at first.
LEMMA LifeInit == Init => LifeInv
<1> SUFFICES ASSUME Init PROVE LifeInv  OBVIOUS
<1> USE NumberAssumption, ConfigAssumption, MethodAssumption
        DEF LoopState, Session, Files, Init, Start, NoLoop, NoRec, NoCommand, Going,
            Recording, At
<1>1. TypeOK  BY DEF TypeOK
<1>2. SessionsApart  BY DEF SessionsApart
<1>3. HandlesMatch /\ StopInOrder  BY DEF HandlesMatch, StopInOrder
<1>4. OneSession /\ LoopRunsConfig  BY DEF OneSession, LoopRunsConfig
<1>5. NamesRight /\ DiskRight  BY DEF NamesRight, DiskRight
<1> QED  BY <1>1, <1>2, <1>3, <1>4, <1>5 DEF LifeInv

\* A sample is a frame more in the session, or nothing.
LEMMA SampleSaves ==
    ASSUME NEW s, Sample(s)
    PROVE  UNCHANGED <<rec, disk>> \/ Saves(s)
BY DEF Sample, Samples, Saves

\* What counts the frames between two samples stays a number.
LEMMA GrabsAreNumbers ==
    ASSUME LifeInv, NEW s \in Start, Going(s) PROVE Grabbed(s) \in Nat
<1>1. loop[s].cfg \in Config /\ loop[s].grabs \in Nat
  BY DEF LifeInv, SessionsApart, TypeOK, LoopState
<1>2. loop[s].cfg.interval \in Nat  BY <1>1, ConfigAssumption
<1> QED  BY <1>1, <1>2 DEF Grabbed

\* A loop that goes on with the state l.
LEMMA TurnsTo ==
    ASSUME LifeInv, NEW s \in Start, Going(s), NEW l \in LoopState,
           loop' = [loop EXCEPT ![s] = l],
           l.pc # "off",
           l.pc # "done" => l.asked = loop[s].asked /\ l.cfg = loop[s].cfg,
           l.wrapped => loop[s].wrapped,
           UNCHANGED <<rec, disk>> \/ Saves(s),
           UNCHANGED <<window, engine, overran>>
    PROVE  LoopTurn(s)
<1>1. loop \in [Start -> LoopState]  BY DEF LifeInv, TypeOK
<1>2. loop'[s] = l /\ \A t \in Start \ {s} : loop'[t] = loop[t]  BY <1>1
<1>3. loop' \in [Start -> LoopState]  BY <1>1
<1> QED  BY <1>2, <1>3 DEF LoopTurn

\* Every step of capture_loop is one of LoopTurn.
LEMMA LoopsTurn ==
    ASSUME LifeInv, NEW s \in Start, Loop(s) PROVE LoopTurn(s)
<1>1. /\ loop \in [Start -> LoopState] /\ loop[s] \in LoopState
      /\ window \in Window
  BY DEF LifeInv, TypeOK
<1>2. Going(s) => Grabbed(s) \in Nat  BY GrabsAreNumbers
<1>4. window.works \subseteq Method  BY <1>1, WindowAssumption
<1>a. CASE LoopOpens(s)
  <2>1. Opens(s) \subseteq Method  BY <1>4 DEF Opens
  <2>2. Going(s) /\ UNCHANGED <<window, engine, rec, disk, overran>>
    BY <1>a DEF LoopOpens, Going
  <2>3. CASE loop' = [loop EXCEPT ![s].pc = "idle"]
    <3>1. [loop[s] EXCEPT !.pc = "idle"] \in LoopState  BY <1>1 DEF LoopState
    <3>2. loop' = [loop EXCEPT ![s] = [loop[s] EXCEPT !.pc = "idle"]]
      BY <1>1, <2>3
    <3> QED  BY <1>1, <2>2, <3>1, <3>2, TurnsTo DEF LoopState
  <2>4. ASSUME NEW m \in Opens(s),
               loop' = [loop EXCEPT ![s].pc = "warmup", ![s].method = m,
                                    ![s].opened = TRUE]
        PROVE  LoopTurn(s)
    <3>1. m \in Method  BY <2>1
    <3>2. [loop[s] EXCEPT !.pc = "warmup", !.method = m, !.opened = TRUE]
            \in LoopState
      BY <1>1, <3>1 DEF LoopState
    <3>3. loop' = [loop EXCEPT ![s] = [loop[s] EXCEPT
                      !.pc = "warmup", !.method = m, !.opened = TRUE]]
      BY <1>1, <2>4
    <3> QED  BY <1>1, <2>2, <3>2, <3>3, TurnsTo DEF LoopState
  <2>5. CASE loop' = [loop EXCEPT ![s] = Ended]
    <3>1. Ended \in LoopState /\ Ended.pc = "done" /\ ~Ended.wrapped
      BY DEF Ended, NoLoop, LoopState
    <3> QED  BY <2>2, <2>5, <3>1, TurnsTo
  <2> QED  BY <1>a, <2>3, <2>4, <2>5 DEF LoopOpens
<1>b. CASE LoopCaptures(s)
  <2>1. [loop[s] EXCEPT !.pc = "captured"] \in LoopState
    BY <1>1 DEF LoopState
  <2>2. loop' = [loop EXCEPT ![s] = [loop[s] EXCEPT !.pc = "captured"]]
    BY <1>1, <1>b DEF LoopCaptures
  <2>3. Going(s) /\ UNCHANGED <<window, engine, rec, disk, overran>>
    BY <1>b DEF LoopCaptures, Going
  <2> QED  BY <1>1, <2>1, <2>2, <2>3, TurnsTo DEF LoopState
<1>c. CASE LoopWarmsUp(s)
  <2>1. Going(s)  BY <1>c DEF LoopWarmsUp, Going
  <2>2. [loop[s] EXCEPT !.pc = "idle", !.grabs = Grabbed(s)] \in LoopState
    BY <1>1, <1>2, <2>1 DEF LoopState
  <2>3. loop' = [loop EXCEPT ![s] = [loop[s] EXCEPT
                    !.pc = "idle", !.grabs = Grabbed(s)]]
    BY <1>1, <1>c DEF LoopWarmsUp
  <2>4. Sample(s) /\ UNCHANGED <<window, engine, overran>>
    BY <1>c DEF LoopWarmsUp
  <2> QED  BY <1>1, <2>1, <2>2, <2>3, <2>4, SampleSaves, TurnsTo DEF LoopState
<1>d. CASE LoopHandles(s)
  <2>1. Going(s)  BY <1>d DEF LoopHandles, Going
  <2>2. Others(s) \subseteq Method  BY <1>4 DEF Others
  <2>3. Sample(s) /\ UNCHANGED <<window, engine, overran>>
    BY <1>d DEF LoopHandles
  <2>4. ASSUME NEW m \in Others(s),
               loop' = [loop EXCEPT ![s].pc = "idle", ![s].method = m,
                                    ![s].wrapped = FALSE, ![s].grabs = 0]
        PROVE  LoopTurn(s)
    <3>1. m \in Method  BY <2>2
    <3>2. [loop[s] EXCEPT !.pc = "idle", !.method = m, !.wrapped = FALSE,
                          !.grabs = 0] \in LoopState
      BY <1>1, <3>1 DEF LoopState
    <3>3. loop' = [loop EXCEPT ![s] = [loop[s] EXCEPT
              !.pc = "idle", !.method = m, !.wrapped = FALSE, !.grabs = 0]]
      BY <1>1, <2>4
    <3> QED  BY <1>1, <2>1, <2>3, <3>2, <3>3, SampleSaves, TurnsTo
                DEF LoopState
  <2>5. ASSUME loop' = [loop EXCEPT ![s].pc = "ticking",
                                    ![s].grabs = Grabbed(s)]
        PROVE  LoopTurn(s)
    <3>1. [loop[s] EXCEPT !.pc = "ticking", !.grabs = Grabbed(s)] \in LoopState
      BY <1>1, <1>2, <2>1 DEF LoopState
    <3>2. loop' = [loop EXCEPT ![s] = [loop[s] EXCEPT
                      !.pc = "ticking", !.grabs = Grabbed(s)]]
      BY <1>1, <2>5
    <3> QED  BY <1>1, <2>1, <2>3, <3>1, <3>2, SampleSaves, TurnsTo
                DEF LoopState
  <2> QED  BY <1>d, <2>4, <2>5 DEF LoopHandles
<1>e. CASE LoopTicks(s)
  <2>1. [loop[s] EXCEPT !.pc = "idle"] \in LoopState  BY <1>1 DEF LoopState
  <2>2. loop' = [loop EXCEPT ![s] = [loop[s] EXCEPT !.pc = "idle"]]
    BY <1>1, <1>e DEF LoopTicks
  <2>3. Going(s) /\ UNCHANGED <<window, engine, rec, disk, overran>>
    BY <1>e DEF LoopTicks, Going
  <2> QED  BY <1>1, <2>1, <2>2, <2>3, TurnsTo DEF LoopState
<1>f. CASE LoopStops(s)
  <2>1. Ended \in LoopState /\ Ended.pc = "done" /\ ~Ended.wrapped
    BY DEF Ended, NoLoop, LoopState
  <2>2. Going(s) /\ UNCHANGED <<window, engine, rec, disk, overran>>
    BY <1>f DEF LoopStops, Going
  <2> QED  BY <1>f, <2>1, <2>2, TurnsTo DEF LoopStops
<1> QED  BY <1>a, <1>b, <1>c, <1>d, <1>e, <1>f DEF Loop

\* What leaves the directories alone, and what is known of them.
LEMMA DiskStays ==
    ASSUME LifeInv, UNCHANGED disk, overran \subseteq overran',
           \A s \in Start :
             /\ rec'[s].name = rec[s].name /\ rec'[s].saved = rec[s].saved
             /\ rec[s].pc = "off" <=> rec'[s].pc = "off"
             /\ rec'[s].pc = "done" => rec[s].pc = "done"
             /\ rec[s].asked => rec'[s].asked
             /\ loop'[s].wrapped => loop[s].wrapped
    PROVE  NamesRight' /\ DiskRight'
<1>1. NamesRight'  BY DEF LifeInv, NamesRight
<1>2. \A s \in Start : OwnsName(s)' => OwnsName(s)  BY DEF OwnsName
<1>3. DiskRight'  BY <1>2 DEF LifeInv, DiskRight
<1> QED  BY <1>1, <1>3

\* A frame that is saved is in the directory of its session.
LEMMA SavesKeeps ==
    ASSUME LifeInv, NEW s \in Start, Going(s), Saves(s),
           UNCHANGED overran,
           loop'[s].wrapped => loop[s].wrapped,
           \A t \in Start \ {s} : loop'[t] = loop[t]
    PROVE  disk' \in [Name -> Files] /\ NamesRight' /\ DiskRight'
<1>1. /\ rec \in [Start -> Session] /\ disk \in [Name -> Files]
      /\ rec[s] \in Session /\ MaxFrames \in Nat
  BY NumberAssumption DEF LifeInv, TypeOK
<1> DEFINE n == rec[s].name
<1>2. rec[s].pc # "off" /\ n \in Name  BY DEF LifeInv, NamesRight, Saves
<1>3. /\ \A t \in Start : /\ rec'[t].name = rec[t].name
                          /\ rec'[t].pc = rec[t].pc
                          /\ rec'[t].asked = rec[t].asked
                          /\ t # s => rec'[t].saved = rec[t].saved
      /\ rec'[s].saved = rec[s].saved + 1
  BY <1>1 DEF Saves, Session
<1>4. /\ rec[s].saved \in 0..MaxFrames /\ rec[s].saved < MaxFrames
      /\ disk[n].frames \in 0..MaxFrames
  BY <1>1, <1>2 DEF Saves, Session, Files
<1> DEFINE f == IF disk[n].frames > rec[s].saved
                  THEN disk[n].frames ELSE rec[s].saved + 1
<1>5. f \in 0..MaxFrames  BY <1>1, <1>4
<1>6. disk' = [disk EXCEPT ![n] = [disk[n] EXCEPT !.frames = f]]
  BY <1>1, <1>2 DEF Saves
<1> HIDE DEF n, f
<1>7. disk' \in [Name -> Files]  BY <1>1, <1>2, <1>5, <1>6 DEF Files
<1>8. /\ \A m \in Name \ {n} : disk'[m] = disk[m]
      /\ disk'[n].frames = f
  BY <1>1, <1>2, <1>6 DEF Files
<1>9. NamesRight'  BY <1>2, <1>3 DEF LifeInv, NamesRight
<1>10. DiskRight'
  <2>1. ASSUME NEW t \in Start, rec'[t].pc # "off", OwnsName(t)'
        PROVE  /\ disk'[rec'[t].name].frames = rec'[t].saved
               /\ rec'[t].pc = "done" /\ t \notin overran' =>
                      disk'[rec'[t].name].manifest = rec'[t].saved
    <3>1. OwnsName(t) /\ rec[t].pc # "off" /\ rec[t].name \in Name
      BY <1>3, <2>1 DEF OwnsName, LifeInv, NamesRight
    <3>2. CASE t = s
      <4>1. disk[n].frames = rec[s].saved
        BY <3>1, <3>2 DEF LifeInv, DiskRight, n
      <4>2. f = rec[s].saved + 1  BY <1>4, <4>1 DEF f
      <4>3. ~(rec[s].pc = "done" /\ s \notin overran)
        BY DEF LifeInv, NamesRight, SessionsApart
      <4> QED  BY <1>3, <1>8, <3>2, <4>2, <4>3 DEF n
    <3>3. CASE t # s
      <4>1. rec[t].name # n  BY <3>1, <3>3 DEF OwnsName, n
      <4>2. disk'[rec'[t].name] = disk[rec[t].name]
        BY <1>3, <1>8, <3>1, <4>1
      <4> QED  BY <1>3, <3>1, <3>3, <4>2 DEF LifeInv, DiskRight
    <3> QED  BY <3>2, <3>3
  <2>2. ASSUME NEW m \in Name, \A t \in Start : rec'[t].name # m
        PROVE  disk'[m].frames = 0
    <3>1. m # n  BY <1>3, <2>2 DEF n
    <3> QED  BY <1>3, <1>8, <2>2, <3>1 DEF LifeInv, DiskRight
  <2> QED  BY <2>1, <2>2 DEF DiskRight
<1> QED  BY <1>7, <1>9, <1>10

\* What keeps the invariant keeps it for every step of a loop.
LEMMA LoopKeeps ==
    ASSUME LifeInv, NEW s \in Start, LoopTurn(s) PROVE LifeInv'
<1> USE DEF LoopTurn, engine
<1>1. s \in 1..MaxStarts /\ starts \in 0..MaxStarts  BY DEF LifeInv, TypeOK, Start
<1>2. rec \in [Start -> Session]
  BY DEF LifeInv, TypeOK
<1>3. /\ rec' \in [Start -> Session]
      /\ \A t \in Start : /\ rec'[t].pc = rec[t].pc
                          /\ rec'[t].asked = rec[t].asked
                          /\ t # s => rec'[t] = rec[t]
  <2>1. CASE rec' = rec  BY <1>2, <2>1
  <2>2. CASE rec[s].saved < MaxFrames /\ rec' = [rec EXCEPT ![s].saved = @ + 1]
    <3>1. rec[s].saved + 1 \in 0..MaxFrames
      BY <1>2, <2>2, NumberAssumption DEF Session
    <3>2. [rec[s] EXCEPT !.saved = @ + 1] \in Session
      BY <1>2, <3>1 DEF Session
    <3>3. rec' = [rec EXCEPT ![s] = [rec[s] EXCEPT !.saved = @ + 1]]
      BY <1>2, <2>2
    <3> QED  BY <1>2, <3>2, <3>3 DEF Session
  <2> QED  BY <2>1, <2>2 DEF Saves
<1>d. disk' \in [Name -> Files] /\ NamesRight' /\ DiskRight'
  <2>1. CASE UNCHANGED <<rec, disk>>
    <3>1. \A t \in Start : loop'[t].wrapped => loop[t].wrapped  OBVIOUS
    <3> QED  BY <2>1, <3>1, DiskStays DEF LifeInv, TypeOK
  <2>2. CASE Saves(s)  BY <2>2, SavesKeeps
  <2> QED  BY <2>1, <2>2
<1>4. TypeOK'  BY <1>3, <1>d DEF LifeInv, TypeOK
<1>5. \A t \in Start : /\ Going(t)' => Going(t)
                       /\ Going(t)' => loop'[t].asked = loop[t].asked
                       /\ Going(t)' => loop'[t].cfg = loop[t].cfg
  BY DEF Going
<1>6. \A t \in Start : Recording(t)' = Recording(t)
  BY <1>3 DEF Recording
<1>7. SessionsApart'
  <2> SUFFICES ASSUME NEW t \in Start
               PROVE  /\ t > starts => /\ loop'[t].pc = "off"
                                       /\ rec'[t].pc = "off" /\ ~rec'[t].asked
                      /\ Going(t)' => loop'[t].cfg \in Config
                      /\ rec'[t].asked /\ t \notin overran => ~Going(t)'
    BY DEF SessionsApart
  <2>1. s <= starts  BY <1>1 DEF LifeInv, SessionsApart, Going
  <2> QED  BY <1>1, <1>3, <1>5, <2>1 DEF LifeInv, SessionsApart, Start
<1>8. HandlesMatch'  BY DEF LifeInv, HandlesMatch, At
<1>9. StopInOrder'
  <2>1. recorder # 0 => recorder \in Start
    BY <1>1, NumberAssumption DEF LifeInv, TypeOK, Start
  <2> QED  BY <1>3, <1>5, <1>6, <2>1 DEF LifeInv, StopInOrder, At
<1>10. OneSession'  BY <1>3, <1>5, <1>6 DEF LifeInv, OneSession
<1>11. LoopRunsConfig'
  <2>1. At("none")' /\ state' = "running" => capture \in Start
    BY <1>1, NumberAssumption
       DEF LifeInv, TypeOK, HandlesMatch, At, Start
  <2> QED  BY <1>5, <2>1 DEF LifeInv, LoopRunsConfig, At
<1> QED  BY <1>4, <1>7, <1>8, <1>9, <1>10, <1>11, <1>d DEF LifeInv

\* Every step of ReplayRecorder's task, and of the bus it reads, is one of
\* RecorderTurn.
LEMMA RecordersTurn ==
    ASSUME LifeInv, NEW s \in Start, Recorder(s) \/ Publish(s)
    PROVE  RecorderTurn(s)
<1>1. rec \in [Start -> Session]
  BY DEF LifeInv, TypeOK
<1> USE DEF RecorderTurn, Writes, Recording, Session
<1>2. CASE RecordMeta(s)  BY <1>1, <1>2 DEF RecordMeta
<1>3. CASE RecordEvents(s)  BY <1>1, <1>3 DEF RecordEvents, HasEvent
<1>4. CASE RecordFails(s)  BY <1>1, <1>4 DEF RecordFails
<1>5. CASE RecordFinalises(s)  BY <1>1, <1>5 DEF RecordFinalises
<1>6. CASE Publish(s)  BY <1>1, <1>6 DEF Publish
<1> QED  BY <1>2, <1>3, <1>4, <1>5, <1>6 DEF Recorder

\* The manifest says what is in the directory, if that is of one session.
LEMMA WritesKeeps ==
    ASSUME LifeInv, NEW s \in Start, RecorderTurn(s), Writes(s)
    PROVE  disk' \in [Name -> Files] /\ NamesRight' /\ DiskRight'
<1>1. /\ rec \in [Start -> Session] /\ disk \in [Name -> Files]
      /\ rec[s] \in Session
  BY DEF LifeInv, TypeOK
<1> DEFINE n == rec[s].name
<1>2. rec[s].pc # "off" /\ n \in Name
  BY DEF LifeInv, NamesRight, RecorderTurn, Recording
<1>3. /\ \A t \in Start : /\ rec'[t].name = rec[t].name
                          /\ rec'[t].saved = rec[t].saved
                          /\ rec'[t].asked = rec[t].asked
                          /\ t # s => rec'[t].pc = rec[t].pc
      /\ rec'[s].pc = "done" /\ rec[s].asked
      /\ UNCHANGED <<loop, overran>>
  BY DEF RecorderTurn, Writes
<1>4. disk' = [disk EXCEPT ![n] = [disk[n] EXCEPT !.manifest = rec[s].saved]]
  BY <1>1, <1>2 DEF Writes
<1> HIDE DEF n
<1>5. disk' \in [Name -> Files]
  BY <1>1, <1>2, <1>4 DEF Files, Session
<1>6. /\ \A m \in Name : disk'[m].frames = disk[m].frames
      /\ \A m \in Name \ {n} : disk'[m] = disk[m]
      /\ disk'[n].manifest = rec[s].saved
  BY <1>1, <1>2, <1>4 DEF Files
<1>7. NamesRight'  BY <1>2, <1>3 DEF LifeInv, NamesRight
<1>8. DiskRight'
  <2>1. ASSUME NEW t \in Start, rec'[t].pc # "off", OwnsName(t)'
        PROVE  /\ disk'[rec'[t].name].frames = rec'[t].saved
               /\ rec'[t].pc = "done" /\ t \notin overran' =>
                      disk'[rec'[t].name].manifest = rec'[t].saved
    <3>1. OwnsName(t) /\ rec[t].pc # "off" /\ rec[t].name \in Name
      BY <1>2, <1>3, <2>1 DEF OwnsName, LifeInv, NamesRight
    <3>2. disk'[rec'[t].name].frames = rec'[t].saved
      BY <1>3, <1>6, <3>1 DEF LifeInv, DiskRight
    <3>3. CASE t = s  BY <1>3, <1>6, <3>2, <3>3 DEF n
    <3>4. CASE t # s
      <4>1. rec[t].name # n  BY <3>1, <3>4 DEF OwnsName, n
      <4> QED
        BY <1>3, <1>6, <3>1, <3>2, <3>4, <4>1 DEF LifeInv, DiskRight
    <3> QED  BY <3>3, <3>4
  <2>2. ASSUME NEW m \in Name, \A t \in Start : rec'[t].name # m
        PROVE  disk'[m].frames = 0
    BY <1>3, <1>6, <2>2 DEF LifeInv, DiskRight
  <2> QED  BY <2>1, <2>2 DEF DiskRight
<1> QED  BY <1>5, <1>7, <1>8

\* What keeps the invariant keeps it for every step of a recorder: a manifest
\* is written when the recorder was told to end, after its loop.
LEMMA RecorderKeeps ==
    ASSUME LifeInv, NEW s \in Start, RecorderTurn(s) PROVE LifeInv'
<1> USE DEF RecorderTurn, engine
<1>d. disk' \in [Name -> Files] /\ NamesRight' /\ DiskRight'
  <2>1. CASE disk' = disk /\ rec'[s].pc # "done"
    BY <2>1, DiskStays DEF LifeInv, TypeOK, Recording
  <2>2. CASE Writes(s)  BY <2>2, WritesKeeps
  <2> QED  BY <2>1, <2>2
<1>1. TypeOK'  BY <1>d DEF LifeInv, TypeOK
<1>2. \A t \in Start :
        /\ Going(t)' = Going(t)
        /\ Recording(t)' => Recording(t)
        /\ rec'[t].asked = rec[t].asked /\ rec'[t].saved = rec[t].saved
        /\ rec[t].pc = "off" => rec'[t].pc = "off"
  BY DEF Going, Recording
<1>3. SessionsApart'  BY <1>2 DEF LifeInv, SessionsApart
<1>4. HandlesMatch'  BY DEF LifeInv, HandlesMatch, At
<1>5. StopInOrder'
  <2>1. Going(recorder)' = Going(recorder)  BY DEF Going
  <2> QED  BY <1>2, <2>1 DEF LifeInv, StopInOrder, At
<1>6. OneSession'  BY <1>2 DEF LifeInv, OneSession
<1>7. LoopRunsConfig'  BY DEF LifeInv, LoopRunsConfig, At, Going
<1> QED  BY <1>1, <1>3, <1>4, <1>5, <1>6, <1>7, <1>d DEF LifeInv

-----------------------------------------------------------------------------
(* The commands *)

\* start() up to the binding, and its failure: nothing runs yet.
LEMMA StartingKeeps ==
    ASSUME LifeInv, StartBegin \/ StartFails PROVE LifeInv'
<1> USE DEF StartBegin, StartFails, MayStart, Goto, At, NoCommand
<1>1. TypeOK'  BY DEF LifeInv, TypeOK
<1>2. \A t : Going(t)' = Going(t) /\ Recording(t)' = Recording(t)
  BY DEF Going, Recording
<1>3. state' = "idle" /\ op'.pc \in {"bind", "none"}
  BY DEF LifeInv, HandlesMatch, TypeOK
<1>4. SessionsApart'  BY <1>2 DEF LifeInv, SessionsApart
<1>5. HandlesMatch'  BY <1>3 DEF HandlesMatch
<1>6. StopInOrder'  BY <1>3 DEF StopInOrder
<1>7. OneSession'  BY <1>2 DEF LifeInv, OneSession
<1>8. LoopRunsConfig'  BY <1>3 DEF LoopRunsConfig
<1>9. NamesRight' /\ DiskRight'  BY DiskStays
<1> QED  BY <1>1, <1>4, <1>5, <1>6, <1>7, <1>8, <1>9 DEF LifeInv

\* start() spawns the next loop, and perhaps the next recorder: whatever went
\* before it has been told to end, since the engine was idle.
LEMMA StartRunsKeeps == ASSUME LifeInv, StartRuns PROVE LifeInv'
<1> DEFINE s == starts + 1
<1>0. PICK recording \in BOOLEAN :
        /\ starts' = s /\ capture' = s
        /\ recorder' = IF recording THEN s ELSE 0
        /\ sink' = IF recording THEN s ELSE 0
        /\ IF recording THEN Recorded(s) ELSE UNCHANGED <<rec, disk>>
        /\ loop' = [loop EXCEPT ![s].pc = "opening", ![s].cfg = config,
                                ![s].wrapped = recording]
  BY DEF StartRuns
<1>1. /\ starts \in 0..MaxStarts /\ starts < MaxStarts /\ MaxStarts \in Nat
      /\ s \in Start /\ s > starts /\ s # 0
  BY NumberAssumption DEF LifeInv, TypeOK, StartRuns, Start
<1>2. /\ state = "idle" /\ state' = "running" /\ op' = NoCommand
      /\ UNCHANGED <<window, config, overran>>
  BY DEF StartRuns, LifeInv, HandlesMatch
<1>t. /\ loop \in [Start -> LoopState]
      /\ rec \in [Start -> Session]
      /\ config \in Config /\ window \in Window /\ overran \subseteq Start
      /\ disk \in [Name -> Files] /\ config.name \in Name
  BY ConfigAssumption DEF LifeInv, TypeOK
<1> HIDE DEF s
<1>3. \A t \in Start \ {s} : loop'[t] = loop[t] /\ rec'[t] = rec[t]
  BY <1>0, <1>t DEF Recorded
<1>4. /\ loop'[s].pc = "opening" /\ loop'[s].cfg = config
      /\ rec'[s].asked = rec[s].asked /\ rec'[s].saved = rec[s].saved
      /\ rec'[s].pc \in {"meta", rec[s].pc}
      /\ rec'[s].pc = "meta" => rec[s].pc = "meta" \/ recording
  BY <1>0, <1>1, <1>t DEF LoopState, Session, Recorded
<1>5. rec[s].pc = "off" /\ ~rec[s].asked
  BY <1>1 DEF LifeInv, SessionsApart
<1>6. TypeOK'
  <2>1. loop' \in [Start -> LoopState]
    <3>1. [loop[s] EXCEPT !.pc = "opening", !.cfg = config,
                          !.wrapped = recording] \in LoopState
      BY <1>1, <1>t DEF LoopState
    <3>2. loop' = [loop EXCEPT ![s] = [loop[s] EXCEPT
              !.pc = "opening", !.cfg = config, !.wrapped = recording]]
      BY <1>0, <1>1, <1>t
    <3> QED  BY <1>t, <3>1, <3>2
  <2>2. rec' \in [Start -> Session]
    <3>1. [rec[s] EXCEPT !.pc = "meta", !.name = config.name] \in Session
      BY <1>1, <1>t DEF Session
    <3>2. recording => rec' = [rec EXCEPT ![s] =
              [rec[s] EXCEPT !.pc = "meta", !.name = config.name]]
      BY <1>0, <1>1, <1>t DEF Recorded
    <3> QED  BY <1>0, <1>1, <1>t, <3>1, <3>2
  <2>3. starts' \in 0..MaxStarts /\ capture' \in 0..starts'
        /\ recorder' \in 0..starts' /\ sink' \in 0..starts'
    BY <1>0, <1>1 DEF s
  <2>4. disk' \in [Name -> Files]
    BY <1>0, <1>t, NumberAssumption DEF Recorded, Files
  <2> QED  BY <1>2, <1>t, <2>1, <2>2, <2>3, <2>4 DEF TypeOK, NoCommand
<1>7. \A t \in Start \ {s} : Going(t)' = Going(t) /\ Recording(t)' = Recording(t)
  BY <1>3 DEF Going, Recording
<1>8. SessionsApart'
  <2> SUFFICES ASSUME NEW t \in Start
               PROVE  /\ t > starts' => /\ loop'[t].pc = "off"
                                        /\ rec'[t].pc = "off" /\ ~rec'[t].asked
                      /\ Going(t)' => loop'[t].cfg \in Config
                      /\ rec'[t].asked /\ t \notin overran' => ~Going(t)'
    BY DEF SessionsApart
  <2>1. CASE t = s
    <3>1. ~(t > starts')  BY <1>0, <1>1, <2>1 DEF Start
    <3>2. loop'[t].cfg \in Config  BY <1>4, <1>t, <2>1
    <3>3. ~rec'[t].asked  BY <1>4, <1>5, <2>1
    <3> QED  BY <3>1, <3>2, <3>3
  <2>2. CASE t # s
    <3>1. t > starts' => t > starts  BY <1>0, <1>1 DEF Start, s
    <3> QED  BY <1>2, <1>3, <1>7, <2>2, <3>1 DEF LifeInv, SessionsApart
  <2> QED  BY <2>1, <2>2
<1>9. HandlesMatch'
  BY <1>0, <1>1, <1>2 DEF HandlesMatch, At, NoCommand
<1>10. StopInOrder'  BY <1>2 DEF StopInOrder, At, NoCommand
<1>11. OneSession'
  <2> SUFFICES ASSUME NEW t \in Start
               PROVE  /\ Going(t)' /\ ~loop'[t].asked =>
                            capture' = t /\ state' = "running"
                      /\ Recording(t)' /\ ~rec'[t].asked =>
                            recorder' = t /\ sink' = t /\ state' = "running"
    BY DEF OneSession
  <2>1. CASE t = s
    BY <1>0, <1>2, <1>4, <1>5, <2>1 DEF Recording
  <2>2. CASE t # s
    BY <1>2, <1>3, <1>7, <2>2 DEF LifeInv, OneSession
  <2> QED  BY <2>1, <2>2
<1>12. LoopRunsConfig'  BY <1>0, <1>2, <1>4 DEF LoopRunsConfig
<1>13. NamesRight' /\ DiskRight'
  <2>1. CASE ~recording
    <3>1. UNCHANGED <<rec, disk>>  BY <1>0, <2>1
    <3>2. ~loop'[s].wrapped
      BY <1>0, <1>1, <1>t, <2>1 DEF LoopState
    <3>3. \A t \in Start : loop'[t].wrapped => loop[t].wrapped
      BY <1>3, <3>2
    <3> QED  BY <1>2, <3>1, <3>3, DiskStays
  <2>2. CASE recording
    <3> DEFINE n == config.name
    <3>1. /\ rec'[s].pc = "meta" /\ rec'[s].name = n /\ rec'[s].saved = 0
          /\ \A m \in Name : disk'[m].frames = disk[m].frames
          /\ \A m \in Name \ {n} : disk'[m] = disk[m]
      BY <1>0, <1>1, <1>5, <1>t, <2>2
         DEF Recorded, Session, Files, LifeInv, NamesRight
    <3>2. NamesRight'
      BY <1>3, <1>t, <3>1 DEF LifeInv, NamesRight
    <3>3. ASSUME NEW t \in Start, rec'[t].pc # "off", OwnsName(t)'
          PROVE  /\ disk'[rec'[t].name].frames = rec'[t].saved
                 /\ rec'[t].pc = "done" /\ t \notin overran' =>
                        disk'[rec'[t].name].manifest = rec'[t].saved
      <4>1. CASE t = s
        <5>1. \A u \in Start : rec[u].name # n
          <6>1. rec[s].name = None /\ n # None
            BY <1>1, <1>5, <1>t, ConfigAssumption DEF LifeInv, NamesRight
          <6>2. \A u \in Start \ {s} : rec[u].name # n
            BY <1>3, <3>1, <3>3, <4>1 DEF OwnsName
          <6> QED  BY <6>1, <6>2
        <5>2. disk[n].frames = 0  BY <1>t, <5>1 DEF LifeInv, DiskRight
        <5> QED  BY <1>t, <3>1, <4>1, <5>2
      <4>2. CASE t # s
        <5>1. rec[t].name # n /\ rec[t].pc # "off" /\ rec'[t] = rec[t]
          BY <1>1, <1>3, <3>1, <3>3, <4>2 DEF OwnsName
        <5>2. rec[t].name \in Name  BY <5>1 DEF LifeInv, NamesRight
        <5>3. OwnsName(t)
          <6>1. rec[s].name = None  BY <1>1, <1>5 DEF LifeInv, NamesRight
          <6>2. rec[t].name # None  BY <5>2, ConfigAssumption
          <6> QED  BY <1>3, <3>3, <4>2, <6>1, <6>2 DEF OwnsName
        <5> QED
          BY <1>2, <3>1, <5>1, <5>2, <5>3 DEF LifeInv, DiskRight
      <4> QED  BY <4>1, <4>2
    <3>4. ASSUME NEW m \in Name, \A t \in Start : rec'[t].name # m
          PROVE  disk'[m].frames = 0
      <4>1. rec[s].name # m
        BY <1>1, <1>5, ConfigAssumption DEF LifeInv, NamesRight
      <4>2. \A t \in Start : rec[t].name # m  BY <1>3, <3>4, <4>1
      <4> QED  BY <3>1, <4>2 DEF LifeInv, DiskRight
    <3> QED  BY <3>2, <3>3, <3>4 DEF DiskRight
  <2> QED  BY <2>1, <2>2
<1> QED  BY <1>6, <1>8, <1>9, <1>10, <1>11, <1>12, <1>13 DEF LifeInv

\* What a command that spawns nothing leaves of the sessions: whoever is told
\* to end, nobody begins or goes on otherwise than before.
LEMMA AskKeeps ==
    ASSUME LifeInv, UNCHANGED <<window, starts, disk, overran>>, TypeOK',
           \A s \in Start :
             /\ loop'[s].pc = loop[s].pc /\ loop'[s].cfg = loop[s].cfg
             /\ loop'[s].wrapped = loop[s].wrapped
             /\ rec'[s].pc = rec[s].pc /\ rec'[s].saved = rec[s].saved
             /\ rec'[s].name = rec[s].name
             /\ rec[s].asked => rec'[s].asked
             /\ rec'[s].asked =>
                    rec[s].asked \/ (starts >= s /\ (s \in overran \/ ~Going(s)))
    PROVE  SessionsApart' /\ NamesRight' /\ DiskRight'
<1>1. \A s \in Start : Going(s)' = Going(s)  BY DEF Going
<1>2. \A s \in Start : s \in Nat /\ starts \in Nat
  BY NumberAssumption DEF Start, LifeInv, TypeOK
<1>3. SessionsApart'
  BY <1>1, <1>2 DEF LifeInv, SessionsApart
<1>4. NamesRight' /\ DiskRight'  BY DiskStays
<1> QED  BY <1>3, <1>4

\* capture_stop.send, by stop() or on the way of set_config.
LEMMA BeginStopKeeps ==
    ASSUME LifeInv, At("none"), state = "running",
           NEW next \in Config \cup {None}, BeginStop(next)
    PROVE  LifeInv'
<1> USE DEF BeginStop, AskLoop
<1>1. /\ loop \in [Start -> LoopState] /\ rec \in [Start -> Session]
      /\ capture \in Start /\ starts \in 0..MaxStarts /\ MaxStarts \in Nat
  BY NumberAssumption DEF LifeInv, TypeOK, HandlesMatch, At, Start
<1>2. \A s \in Start :
        /\ loop'[s].pc = loop[s].pc /\ loop'[s].cfg = loop[s].cfg
        /\ loop'[s].asked = (loop[s].asked \/ s = capture)
        /\ loop'[s].wrapped = loop[s].wrapped
  BY <1>1 DEF LoopState
<1>3. TypeOK'
  <2>1. [loop[capture] EXCEPT !.asked = TRUE] \in LoopState
    BY <1>1 DEF LoopState
  <2>2. loop' \in [Start -> LoopState]  BY <1>1, <2>1
  <2> QED  BY <2>2 DEF LifeInv, TypeOK
<1>4. \A s \in Start : Going(s)' => Going(s) /\ loop'[s].asked
  BY <1>2 DEF Going, LifeInv, OneSession
<1>5. SessionsApart' /\ NamesRight' /\ DiskRight'
  BY <1>2, <1>3, AskKeeps
<1>6. HandlesMatch'  BY DEF LifeInv, HandlesMatch, At
<1>7. StopInOrder'  BY <1>4 DEF StopInOrder, At
<1>8. OneSession'  BY <1>4 DEF LifeInv, OneSession, Recording
<1>9. LoopRunsConfig'  BY DEF LoopRunsConfig, At
<1> QED  BY <1>3, <1>5, <1>6, <1>7, <1>8, <1>9 DEF LifeInv

\* The join: the loop has ended, or is one of those that outlived it.
LEMMA StopJoinsKeeps == ASSUME LifeInv, StopJoins PROVE LifeInv'
<1> USE DEF StopJoins, At, Goto
<1>1. capture \in 0..starts /\ starts \in 0..MaxStarts /\ MaxStarts \in Nat
  BY NumberAssumption DEF LifeInv, TypeOK
<1>2. \A s \in Start : (Going(s))' = Going(s) /\ (Recording(s))' = Recording(s)
  BY DEF Going, Recording
<1>3. op' = [op EXCEPT !.pc = "tasks"] /\ op'.pc = "tasks" /\ state = "running"
  BY DEF LifeInv, TypeOK, HandlesMatch
<1>4. recorder # 0 => recorder = capture /\ recorder \in Start
  BY <1>1, <1>3 DEF LifeInv, HandlesMatch, Start
<1>5. TypeOK'
  <2>1. overran' \subseteq Start
    <3>1. capture \in Start  BY <1>1, <1>3 DEF LifeInv, HandlesMatch, Start
    <3> QED  BY <3>1 DEF LifeInv, TypeOK
  <2> QED  BY <1>1, <2>1 DEF LifeInv, TypeOK
<1>6. overran \subseteq overran'  OBVIOUS
<1>7. SessionsApart'  BY <1>2, <1>6 DEF LifeInv, SessionsApart
<1>8. HandlesMatch'  BY <1>3 DEF HandlesMatch
<1>9. StopInOrder'
  <2>1. recorder # 0 => recorder \in overran' \/ ~Going(recorder)'
    BY <1>4 DEF Going
  <2> QED  BY <1>2, <1>3, <2>1 DEF LifeInv, StopInOrder
<1>10. OneSession'  BY <1>2, <1>3 DEF LifeInv, OneSession, StopInOrder
<1>11. LoopRunsConfig'  BY <1>3 DEF LoopRunsConfig
<1>12. NamesRight' /\ DiskRight'  BY <1>6, DiskStays
<1> QED  BY <1>5, <1>7, <1>8, <1>9, <1>10, <1>11, <1>12 DEF LifeInv

\* replay_stop.send, when the loop of the session is through.
LEMMA StopTasksKeeps == ASSUME LifeInv, StopTasks PROVE LifeInv'
<1> USE DEF StopTasks, At, Goto
<1>1. /\ recorder \in 0..starts /\ starts \in 0..MaxStarts /\ MaxStarts \in Nat
      /\ rec \in [Start -> Session]
  BY NumberAssumption DEF LifeInv, TypeOK
<1>2. op'.pc = "finish" /\ state = "running" /\ op.pc = "tasks"
  BY DEF LifeInv, TypeOK, HandlesMatch
<1>3. \A s \in Start :
        /\ (Going(s))' = Going(s) /\ (Recording(s))' = Recording(s)
        /\ rec'[s].pc = rec[s].pc /\ rec'[s].saved = rec[s].saved
        /\ rec'[s].name = rec[s].name
        /\ rec'[s].asked = (rec[s].asked \/ s = recorder)
  <2>1. CASE recorder = 0
    BY <1>1, <2>1 DEF AskRecorder, Going, Recording, Session, Start
  <2>2. CASE recorder # 0
    <3>1. recorder \in Start  BY <1>1, <2>2 DEF Start
    <3> QED
      BY <1>1, <2>2, <3>1 DEF AskRecorder, Going, Recording, Session
  <2> QED  BY <2>1, <2>2
<1>4. TypeOK'
  <2>1. rec' \in [Start -> Session]
    <3>1. CASE recorder = 0  BY <1>1, <3>1 DEF AskRecorder
    <3>2. CASE recorder # 0
      <4>1. recorder \in Start  BY <1>1, <3>2 DEF Start
      <4>2. [rec[recorder] EXCEPT !.asked = TRUE] \in Session
        BY <1>1, <4>1 DEF Session
      <4> QED  BY <1>1, <3>2, <4>1, <4>2 DEF AskRecorder
    <3> QED  BY <3>1, <3>2
  <2> QED  BY <2>1 DEF LifeInv, TypeOK
<1>5. SessionsApart' /\ NamesRight' /\ DiskRight'
  <2>1. \A s \in Start : rec'[s].asked =>
            rec[s].asked \/ (starts >= s /\ (s \in overran \/ ~Going(s)))
    <3> SUFFICES ASSUME NEW s \in Start, s = recorder
                 PROVE  starts >= s /\ (s \in overran \/ ~Going(s))
      BY <1>3
    <3> QED  BY <1>1, <1>2 DEF LifeInv, StopInOrder, Start
  <2> QED  BY <1>3, <1>4, <2>1, AskKeeps
<1>6. HandlesMatch'  BY <1>2 DEF HandlesMatch
<1>7. \A s \in Start : (Recording(s))' => rec'[s].asked
  BY <1>3 DEF LifeInv, OneSession
<1>8. StopInOrder'
  <2>1. (Going(recorder))' = Going(recorder)  BY DEF Going
  <2> QED  BY <1>2, <1>3, <1>7, <2>1 DEF LifeInv, StopInOrder
<1>9. OneSession'  BY <1>3, <1>7 DEF LifeInv, OneSession
<1>10. LoopRunsConfig'  BY <1>2 DEF LoopRunsConfig
<1> QED  BY <1>4, <1>5, <1>6, <1>8, <1>9, <1>10 DEF LifeInv

\* The end of stop(), or of the first half of a restart.
LEMMA StopFinishesKeeps == ASSUME LifeInv, StopFinishes PROVE LifeInv'
<1> USE DEF StopFinishes, At, Goto, NoCommand
<1>1. op'.pc \in {"none", "bind"} /\ state' = "idle" /\ op.pc = "finish"
  BY DEF RestartIfAsked
<1>2. \A s \in Start : (Going(s))' = Going(s) /\ (Recording(s))' = Recording(s)
  BY DEF Going, Recording
<1>3. TypeOK'
  <2>1. op.next \in Config \cup {None}  BY DEF LifeInv, TypeOK
  <2>2. config' \in Config /\ op' \in
           [pc : {"none", "bind", "join", "tasks", "finish"},
            next : Config \cup {None}]
    BY <2>1 DEF RestartIfAsked, LifeInv, TypeOK
  <2>3. starts \in Nat  BY NumberAssumption DEF LifeInv, TypeOK
  <2> QED  BY <2>2, <2>3 DEF LifeInv, TypeOK
<1>4. SessionsApart'  BY <1>2 DEF LifeInv, SessionsApart
<1>5. HandlesMatch'  BY <1>1 DEF HandlesMatch
<1>6. StopInOrder'  BY <1>1 DEF StopInOrder
<1>7. OneSession'  BY <1>1, <1>2 DEF LifeInv, OneSession, StopInOrder
<1>8. LoopRunsConfig'  BY <1>1 DEF LoopRunsConfig
<1>9. NamesRight' /\ DiskRight'  BY DiskStays
<1> QED  BY <1>3, <1>4, <1>5, <1>6, <1>7, <1>8, <1>9 DEF LifeInv

\* set_config: without a restart, what the loop copied is as good as before.
LEMMA SetConfigKeeps ==
    ASSUME LifeInv, NEW c \in Config, SetConfig(c) PROVE LifeInv'
<1>1. CASE state = "running" /\ RestartRequired(c)
  BY <1>1, BeginStopKeeps DEF SetConfig
<1>2. CASE ~(state = "running" /\ RestartRequired(c))
  <2>1. /\ config' = c /\ At("none")
        /\ UNCHANGED <<window, state, op, starts, capture, recorder, sink,
                       loop, rec, disk, overran>>
    BY <1>2 DEF SetConfig
  <2>2. TypeOK'  BY <2>1 DEF LifeInv, TypeOK
  <2>3. \A s : (Going(s))' = Going(s) /\ (Recording(s))' = Recording(s)
    BY <2>1 DEF Going, Recording
  <2>4. SessionsApart'  BY <2>1, <2>3 DEF LifeInv, SessionsApart
  <2>5. HandlesMatch'  BY <2>1 DEF LifeInv, HandlesMatch, At
  <2>6. StopInOrder'  BY <2>1, <2>3 DEF LifeInv, StopInOrder, At
  <2>7. OneSession'  BY <2>1, <2>3 DEF LifeInv, OneSession
  <2>8. LoopRunsConfig'
    <3>1. state = "running" =>
            [c EXCEPT !.rest = 0] = [config EXCEPT !.rest = 0]
      BY <1>2 DEF RestartRequired
    <3> QED  BY <2>1, <2>3, <3>1 DEF LifeInv, LoopRunsConfig
  <2>9. NamesRight' /\ DiskRight'  BY <2>1, DiskStays
  <2> QED  BY <2>2, <2>4, <2>5, <2>6, <2>7, <2>8, <2>9 DEF LifeInv
<1> QED  BY <1>1, <1>2

\* A step in which nothing changes.
LEMMA LifeStutters == ASSUME LifeInv, UNCHANGED vars PROVE LifeInv'
<1> USE DEF vars, engine
<1>1. \A s : (Going(s))' = Going(s) /\ (Recording(s))' = Recording(s)
  BY DEF Going, Recording
<1>2. TypeOK'  BY DEF LifeInv, TypeOK
<1>3. SessionsApart'  BY <1>1 DEF LifeInv, SessionsApart
<1>4. HandlesMatch'  BY DEF LifeInv, HandlesMatch, At
<1>5. StopInOrder'  BY <1>1 DEF LifeInv, StopInOrder, At
<1>6. OneSession'  BY <1>1 DEF LifeInv, OneSession
<1>7. LoopRunsConfig'  BY <1>1 DEF LifeInv, LoopRunsConfig, At
<1>8. NamesRight' /\ DiskRight'  BY DiskStays
<1> QED  BY <1>2, <1>3, <1>4, <1>5, <1>6, <1>7, <1>8 DEF LifeInv

-----------------------------------------------------------------------------
(* The theorems *)

\* The invariant is inductive.
THEOREM LifecycleInvariant == Spec => []LifeInv
<1>1. LifeInv /\ [Next]_vars => LifeInv'
  <2> SUFFICES ASSUME LifeInv, [Next]_vars PROVE LifeInv'  OBVIOUS
  <2>1. ASSUME Command PROVE LifeInv'
    <3>1. CASE StartBegin \/ StartFails  BY <3>1, StartingKeeps
    <3>2. CASE StartRuns  BY <3>2, StartRunsKeeps
    <3>3. CASE StopBegin  BY <3>3, BeginStopKeeps DEF StopBegin
    <3>4. CASE StopJoins  BY <3>4, StopJoinsKeeps
    <3>5. CASE StopTasks  BY <3>5, StopTasksKeeps
    <3>6. CASE StopFinishes  BY <3>6, StopFinishesKeeps
    <3>7. CASE \E c \in Config : SetConfig(c)  BY <3>7, SetConfigKeeps
    <3> QED  BY <2>1, <3>1, <3>2, <3>3, <3>4, <3>5, <3>6, <3>7 DEF Command
  <2>2. ASSUME NEW s \in Start, Loop(s) PROVE LifeInv'
    BY <2>2, LoopsTurn, LoopKeeps
  <2>3. ASSUME NEW s \in Start, Recorder(s) \/ Publish(s) PROVE LifeInv'
    BY <2>3, RecordersTurn, RecorderKeeps
  <2>4. CASE UNCHANGED vars  BY <2>4, LifeStutters
  <2> QED  BY <2>1, <2>2, <2>3, <2>4 DEF Next
<1> QED  BY <1>1, LifeInit, PTL DEF Spec

\* Every variable keeps its type: Engine, capture_loop and ReplayRecorder.
THEOREM LifecycleTypes == Spec => []TypeOK
<1>1. LifeInv => TypeOK  BY DEF LifeInv
<1> QED  BY <1>1, LifecycleInvariant, PTL

\* However start(), stop() and set_config follow each other, a loop or a
\* recorder that nobody has told to stop is the one the engine can tell.
THEOREM SessionsAreTold == Spec => []OneSession
<1>1. LifeInv => OneSession  BY DEF LifeInv
<1> QED  BY <1>1, LifecycleInvariant, PTL

\* Between commands the capture loop runs with the configuration that is set.
THEOREM ConfigTakesEffect == Spec => []LoopRunsConfig
<1>1. LifeInv => LoopRunsConfig  BY DEF LifeInv
<1> QED  BY <1>1, LifecycleInvariant, PTL

\* A finished manifest counts all frames in the directory of its session, if
\* no other start has recorded under its name, unless the session's loop
\* outlived the join of Engine::stop.
THEOREM ManifestsCount == Spec => []FramesCounted
<1>1. LifeInv => FramesCounted
  BY DEF LifeInv, DiskRight, FramesCounted
<1> QED  BY <1>1, LifecycleInvariant, PTL
=============================================================================
