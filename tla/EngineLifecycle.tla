--------------------------- MODULE EngineLifecycle ---------------------------
(***************************************************************************)
(* Starting, stopping and reconfiguring the engine, with the capture loop  *)
(* and the replay recorder that every start spawns and every stop ends     *)
(* (crates/betternte-engine/src/{lib,capture,replay_recorder}.rs).         *)
(*                                                                         *)
(* The commands hold the write guard of the engine's lock while they run,  *)
(* one at a time; loops and recorders run beside them, and a loop whose    *)
(* stop has timed out runs on beside the next one.  A loop and a recorder  *)
(* are known by the start that spawned them; a session's directory by the  *)
(* session_name of the configuration, which several starts may share.      *)
(***************************************************************************)
EXTENDS Naturals, FiniteSets

CONSTANTS
    Method,     \* capture methods that a whitelist names
    Prone,      \* BitBlt and DwmSharedSurface, known to give black frames
    AutoMethod, \* CaptureMethod::Auto
    Config,     \* configurations, see ConfigAssumption
    Name,       \* session_names
    Window,     \* windows: which methods work, which of Prone see it black
    MaxStarts,  \* bound: successful starts in a behaviour
    MaxFrames,  \* bound: frames that a session saves
    None

ASSUME MethodAssumption == Prone \subseteq Method /\ AutoMethod \notin Method
ASSUME WindowAssumption ==
    Window \subseteq [works : SUBSET Method, dark : SUBSET Prone]
ASSUME ConfigAssumption ==
    /\ None \notin Config /\ None \notin Name
    /\ \A c \in Config :
        /\ c.method \in Method \cup {AutoMethod} /\ c.white \subseteq Method
        /\ c.mode \in {"normal", "record", "replay"}
        /\ c.name \in Name
        /\ c.interval \in Nat   \* frame_sample_interval
        /\ c.rest \in Nat       \* what takes effect without a restart
ASSUME NumberAssumption ==
    MaxStarts \in Nat /\ MaxFrames \in Nat

Start == 1..MaxStarts

VARIABLES
    window,     \* the game's window
    state,      \* EngineState
    config,     \* the engine's configuration
    op,         \* the command that runs: where it is, the config it brings
    starts,     \* starts so far that spawned a loop
    capture,    \* capture_stop and capture_join: the start they belong to
    recorder,   \* replay_stop and replay_join: likewise
    sink,       \* the session in the script context
    loop,       \* the capture loops
    rec,        \* the recorders
    disk,       \* the sessions' directories: files, frame_count of the manifest
    overran     \* history: loops that outlived the join of their stop

engine == <<state, config, op, starts, capture, recorder, sink>>
vars   == <<window, engine, loop, rec, disk, overran>>

NoCommand == [pc |-> "none", next |-> None]

NoLoop == [pc |-> "off", asked |-> FALSE, cfg |-> None, method |-> None,
           wrapped |-> FALSE, opened |-> FALSE, grabs |-> 0]
Ended  == [NoLoop EXCEPT !.pc = "done"]  \* nothing reads what it was
NoRec  == [pc |-> "off", asked |-> FALSE, saved |-> 0, pending |-> FALSE,
           name |-> None]

Init ==
    /\ window \in Window
    /\ state = "idle" /\ config \in Config /\ op = NoCommand
    /\ starts = 0 /\ capture = 0 /\ recorder = 0 /\ sink = 0
    /\ loop = [s \in Start |-> NoLoop]
    /\ rec = [s \in Start |-> NoRec]
    /\ disk = [n \in Name |-> [frames |-> 0, manifest |-> 0]]
    /\ overran = {}

At(pc)   == op.pc = pc
Goto(pc) == op' = [op EXCEPT !.pc = pc]

-----------------------------------------------------------------------------
(* start *)

MayStartAgain == At("none")  \* mutant
\* A running engine ignores start().
MayStart == At("none") /\ state = "idle"

\* Scripts and plugins are loaded and the triggers enabled, all of which may
\* fail without an effect on the rest.
StartBegin ==
    /\ MayStart
    /\ Goto("bind")
    /\ UNCHANGED <<window, state, config, starts, capture, recorder, sink,
                   loop, rec, disk, overran>>

\* No title, no window, no input controller, no frames to replay: start()
\* returns the error and the engine stays idle.
StartFails ==
    /\ At("bind")
    /\ op' = NoCommand
    /\ UNCHANGED <<window, state, config, starts, capture, recorder, sink,
                   loop, rec, disk, overran>>

\* try_start_replay_recording: its failure is only a warning.  It writes a new
\* manifest into the directory of the name, and leaves the frames that are in
\* there from an earlier start.
Records(recording) == config.mode # "record" => ~recording
Recorded(s) ==
    /\ rec' = [rec EXCEPT ![s].pc = "meta", ![s].name = config.name]
    /\ disk' = [disk EXCEPT ![config.name].manifest = 0]

StartRuns ==
    /\ At("bind") /\ starts < MaxStarts
    /\ LET s == starts + 1 IN
       \E recording \in BOOLEAN :
        /\ Records(recording)
        /\ starts' = s /\ capture' = s
        /\ recorder' = IF recording THEN s ELSE 0
        /\ sink' = IF recording THEN s ELSE 0
        /\ IF recording THEN Recorded(s) ELSE UNCHANGED <<rec, disk>>
        /\ loop' = [loop EXCEPT ![s].pc = "opening", ![s].cfg = config,
                                ![s].wrapped = recording]
    /\ state' = "running" /\ op' = NoCommand
    /\ UNCHANGED <<window, config, overran>>

-----------------------------------------------------------------------------
(* stop, and set_config that stops and starts *)

AskRecorderNot == rec  \* mutant
AskRecorder ==
    IF recorder = 0 THEN rec ELSE [rec EXCEPT ![recorder].asked = TRUE]

\* mutant: the recorder is told together with the loop.
AskBoth ==
    /\ loop' = [loop EXCEPT ![capture].asked = TRUE]
    /\ rec' = AskRecorder
\* capture_stop.send
AskLoop ==
    /\ loop' = [loop EXCEPT ![capture].asked = TRUE]
    /\ UNCHANGED rec

BeginStop(next) ==
    /\ AskLoop
    /\ op' = [pc |-> "join", next |-> next]
    /\ UNCHANGED <<window, state, config, starts, capture, recorder, sink,
                   disk, overran>>

StopBegin == At("none") /\ state = "running" /\ BeginStop(None)

\* timeout(3 s, capture_join): the loop has ended, or it is left alone.
StopJoins ==
    /\ At("join")
    /\ overran' = IF loop[capture].pc = "done" THEN overran
                                               ELSE overran \cup {capture}
    /\ capture' = 0
    /\ Goto("tasks")
    /\ UNCHANGED <<window, state, config, starts, recorder, sink, loop, rec,
                   disk>>

\* stop_task and shutdown publish the task's end; then replay_stop.send.
StopTasks ==
    /\ At("tasks")
    /\ rec' = AskRecorder
    /\ Goto("finish")
    /\ UNCHANGED <<window, state, config, starts, capture, recorder, sink,
                   loop, disk, overran>>

RestartAlways ==  \* mutant
    op' = [pc |-> "bind", next |-> None] /\ config' = op.next
\* A stop on behalf of set_config goes on with the new configuration and
\* start().
RestartIfAsked ==
    IF op.next = None
      THEN op' = NoCommand /\ UNCHANGED config
      ELSE op' = [pc |-> "bind", next |-> None] /\ config' = op.next

\* replay_join is awaited without a timeout; then the overlay goes.
StopFinishes ==
    /\ At("finish")
    /\ recorder # 0 => rec[recorder].pc \in {"done", "failed"}
    /\ recorder' = 0 /\ sink' = 0 /\ state' = "idle"
    /\ RestartIfAsked
    /\ UNCHANGED <<window, starts, capture, loop, rec, disk, overran>>

\* mutant: a change of the replay settings alone does not restart.
RestartForCapture(c) ==
    c.method # config.method \/ c.white # config.white
\* config_runtime_restart_required
RestartRequired(c) == [c EXCEPT !.rest = 0] # [config EXCEPT !.rest = 0]

SetConfig(c) ==
    /\ At("none") /\ c # config
    /\ IF state = "running" /\ RestartRequired(c)
         THEN BeginStop(c)
         ELSE /\ config' = c
              /\ UNCHANGED <<window, state, op, starts, capture, recorder,
                             sink, loop, rec, disk, overran>>

-----------------------------------------------------------------------------
(* The capture loop *)

Live(s) == loop[s].cfg.mode # "replay"

\* create_and_start_capture_engine: the method of the configuration if it
\* starts, or the fastest of the whitelist, or the loop ends by itself and
\* the engine still says that it runs.
Opens(s) ==
    LET c == loop[s].cfg IN
    IF c.method \in window.works THEN {c.method}
                                 ELSE c.white \cap window.works

\* The frames of a replay come from a ReplayPngScreenCapture, which nobody
\* starts; a live engine is started and gives a warmup frame.
LoopOpens(s) ==
    /\ loop[s].pc = "opening"
    /\ \/ /\ ~Live(s)
          /\ loop' = [loop EXCEPT ![s].pc = "idle"]
       \/ \E m \in Opens(s) :
            /\ Live(s)
            /\ loop' = [loop EXCEPT ![s].pc = "warmup", ![s].method = m,
                                    ![s].opened = TRUE]
       \/ /\ Live(s) /\ Opens(s) = {}
          /\ loop' = [loop EXCEPT ![s] = Ended]
    /\ UNCHANGED <<window, engine, rec, disk, overran>>

\* engine.capture().  One that fails changes nothing and is tried again.
LoopCaptures(s) ==
    /\ loop[s].pc = "idle" /\ loop[s].opened
    /\ loop' = [loop EXCEPT ![s].pc = "captured"]
    /\ UNCHANGED <<window, engine, rec, disk, overran>>

\* RecordingScreenCapture samples every interval-th frame on the way; the
\* files are written on the blocking pool.  They are numbered from 1 in every
\* session, over those of an earlier one in the same directory.
Samples(s) ==
    /\ loop[s].wrapped /\ loop[s].cfg.interval > 0
    /\ (loop[s].grabs + 1) % loop[s].cfg.interval = 0

Sample(s) ==
    IF Samples(s) /\ rec[s].saved < MaxFrames
      THEN /\ rec' = [rec EXCEPT ![s].saved = @ + 1]
           /\ disk' = [disk EXCEPT ![rec[s].name].frames =
                         IF @ > rec[s].saved THEN @ ELSE rec[s].saved + 1]
      ELSE UNCHANGED <<rec, disk>>

Grabbed(s) ==
    IF loop[s].wrapped /\ loop[s].cfg.interval > 0
      THEN (loop[s].grabs + 1) % loop[s].cfg.interval
      ELSE loop[s].grabs

LoopWarmsUp(s) ==
    /\ loop[s].pc = "warmup"
    /\ Sample(s)
    /\ loop' = [loop EXCEPT ![s].pc = "idle", ![s].grabs = Grabbed(s)]
    /\ UNCHANGED <<window, engine, overran>>

\* is_black_frame, with a method known for it.
Black(s) == loop[s].method \in window.dark

OthersAll(s) == loop[s].cfg.white \cap window.works  \* mutant
\* The whitelist without the current method, as far as it works.
Others(s) == (loop[s].cfg.white \ {loop[s].method}) \cap window.works

\* A frame has come.  A black one makes the loop look for another method,
\* and the new engine takes the place of the old one, its wrapper included;
\* without another method the black frame is good enough.
LoopHandles(s) ==
    /\ loop[s].pc = "captured"
    /\ Sample(s)
    /\ \/ \E m \in Others(s) :
            /\ Black(s)
            /\ loop' = [loop EXCEPT ![s].pc = "idle", ![s].method = m,
                                    ![s].wrapped = FALSE, ![s].grabs = 0]
       \/ /\ Black(s) => Others(s) = {}
          /\ loop' = [loop EXCEPT ![s].pc = "ticking",
                                  ![s].grabs = Grabbed(s)]
    /\ UNCHANGED <<window, engine, overran>>

\* tick_triggers has run the hooks, as long as they took.
LoopTicks(s) ==
    /\ loop[s].pc = "ticking"
    /\ loop' = [loop EXCEPT ![s].pc = "idle"]
    /\ UNCHANGED <<window, engine, rec, disk, overran>>

\* The stop is only looked for between two frames.
LoopStops(s) ==
    /\ loop[s].pc = "idle" /\ loop[s].asked
    /\ loop' = [loop EXCEPT ![s] = Ended]
    /\ UNCHANGED <<window, engine, rec, disk, overran>>

-----------------------------------------------------------------------------
(* The recorder *)

Recording(s) == rec[s].pc \in {"meta", "run"}

\* select! is biased: the stop comes before the events that are pending.
HasEvent(s) == rec[s].pc = "run" /\ rec[s].pending /\ ~rec[s].asked

\* Anybody's event on the bus.
Publish(s) ==
    /\ Recording(s)
    /\ rec' = [rec EXCEPT ![s].pending = TRUE]
    /\ UNCHANGED <<window, engine, loop, disk, overran>>

\* An append to the timeline that fails ends the recorder by the ? operator,
\* and the manifest keeps the zeros it was created with.
RecordFails(s) ==
    /\ Recording(s)
    /\ rec[s].pc = "run" => HasEvent(s)
    /\ rec' = [rec EXCEPT ![s].pc = "failed", ![s].pending = FALSE]
    /\ UNCHANGED <<window, engine, loop, disk, overran>>

RecordMeta(s) ==
    /\ rec[s].pc = "meta"
    /\ rec' = [rec EXCEPT ![s].pc = "run"]
    /\ UNCHANGED <<window, engine, loop, disk, overran>>

\* The pending events, or the Lagged error that stands for them.
RecordEvents(s) ==
    /\ HasEvent(s)
    /\ rec' = [rec EXCEPT ![s].pending = FALSE]
    /\ UNCHANGED <<window, engine, loop, disk, overran>>

RecordFinalises(s) ==
    /\ rec[s].pc = "run" /\ rec[s].asked
    /\ rec' = [rec EXCEPT ![s].pc = "done", ![s].pending = FALSE]
    /\ disk' = [disk EXCEPT ![rec[s].name].manifest = rec[s].saved]
    /\ UNCHANGED <<window, engine, loop, overran>>

-----------------------------------------------------------------------------

Command ==
    \/ StartBegin \/ StartFails \/ StartRuns
    \/ StopBegin \/ StopJoins \/ StopTasks \/ StopFinishes
    \/ \E c \in Config : SetConfig(c)

Loop(s) ==
    LoopOpens(s) \/ LoopCaptures(s) \/ LoopWarmsUp(s) \/ LoopHandles(s)
        \/ LoopTicks(s) \/ LoopStops(s)

Recorder(s) ==
    RecordMeta(s) \/ RecordEvents(s) \/ RecordFails(s)
        \/ RecordFinalises(s)

Next == Command \/ \E s \in Start : Loop(s) \/ Recorder(s) \/ Publish(s)

Spec == Init /\ [][Next]_vars

\* A command goes on once begun, a window is found or not; a loop goes on up
\* to the hooks of a tick, which may never return; a window that works can be
\* captured in the end; a recorder takes its turns.
FairSpec ==
    /\ Spec
    /\ WF_vars(StartFails \/ StartRuns)
    /\ WF_vars(StopJoins) /\ WF_vars(StopTasks) /\ WF_vars(StopFinishes)
    /\ \A s \in Start :
        /\ WF_vars(LoopOpens(s)) /\ WF_vars(LoopCaptures(s))
        /\ WF_vars(LoopWarmsUp(s)) /\ WF_vars(LoopHandles(s))
        /\ WF_vars(RecordMeta(s)) /\ WF_vars(RecordFinalises(s))

-----------------------------------------------------------------------------
(* Properties *)

LoopState ==
    [pc : {"off", "opening", "warmup", "idle", "captured", "ticking", "done"},
     asked : BOOLEAN, cfg : Config \cup {None}, method : Method \cup {None},
     wrapped : BOOLEAN, opened : BOOLEAN, grabs : Nat]
Session ==
    [pc : {"off", "meta", "run", "done", "failed"}, asked : BOOLEAN,
     saved : 0..MaxFrames, pending : BOOLEAN, name : Name \cup {None}]
Files == [frames : 0..MaxFrames, manifest : 0..MaxFrames]

\* Every variable keeps its type.
TypeOK ==
    /\ window \in Window
    /\ state \in {"idle", "running"} /\ config \in Config
    /\ op \in [pc : {"none", "bind", "join", "tasks", "finish"},
               next : Config \cup {None}]
    /\ starts \in 0..MaxStarts
    /\ capture \in 0..starts /\ recorder \in 0..starts /\ sink \in 0..starts
    /\ loop \in [Start -> LoopState] /\ rec \in [Start -> Session]
    /\ disk \in [Name -> Files]
    /\ overran \subseteq Start

Going(s) == loop[s].pc \notin {"off", "done"}

\* However starts, stops and changes of the configuration follow each other,
\* a loop or a recorder that was never told to stop is the one the engine can
\* still tell, and there is none while the engine is idle.
OneSession ==
    \A s \in Start :
        /\ Going(s) /\ ~loop[s].asked => capture = s /\ state = "running"
        /\ Recording(s) /\ ~rec[s].asked =>
                recorder = s /\ sink = s /\ state = "running"

\* The loop copies the configuration when it is spawned: between commands the
\* copy agrees with the engine's in all that needs a restart.
LoopRunsConfig ==
    At("none") /\ state = "running" /\ Going(capture) =>
        [loop[capture].cfg EXCEPT !.rest = 0] = [config EXCEPT !.rest = 0]

\* The manifest that a recorder has finished counts every frame that is in
\* the session's directory, because the loop ends before the recorder is told
\* to (lib.rs:246-262), if no other start has recorded under the same name.  A
\* frame comes too late only from a loop that outlived the join; a recorder
\* that fails leaves the count at 0.
OwnsName(s) == \A t \in Start \ {s} : rec[t].name # rec[s].name
FramesCounted ==
    \A s \in Start :
        rec[s].pc = "done" /\ OwnsName(s) /\ s \notin overran =>
            disk[rec[s].name].manifest = disk[rec[s].name].frames

\* Every command gives the engine's lock back, also if the hooks of a tick
\* never return.
CommandsReturn == ~At("none") ~> At("none")

\* At most one method is black, so that a switch of the method helps.
Seen(s) ==
    /\ Live(s)
    /\ Cardinality(window.dark \cap window.works) <= 1

\* A capture loop that runs on a window it can see comes to tick the triggers,
\* with whatever method it ends up, unless it is told to stop.
LoopComesToTick ==
    \A s \in Start :
        (loop[s].pc = "idle" /\ Seen(s))
            ~> (loop[s].pc = "ticking" \/ loop[s].asked)
=============================================================================
