---------------------------- MODULE ScriptContext ----------------------------
(***************************************************************************)
(* The context behind ctx.*: one for all scripts                           *)
(* (crates/betternte-engine/src/script_ctx.rs), and what the runtime does  *)
(* to it before and after JavaScript (betternte-script/src/runtime.rs).    *)
(*                                                                         *)
(* The template directory and the design resolution make the scope that    *)
(* template, recognition and storage calls work in.  Scripts on different  *)
(* threads share it, with the frame of the capture loop and the caches of  *)
(* decoded frames; each field has a mutex of its own, kept for one access. *)
(* A step is the code between two of these accesses.                       *)
(***************************************************************************)
EXTENDS Naturals, FiniteSets, Sequences

CONSTANTS
    Task, Trigger, Library, \* scripts, by type
    Design,     \* design_resolution of each manifest, None if it has none
    Native,     \* the resolution of the window
    Plans,      \* the ctx calls that scripts may make, by script
    LoopKey,    \* frame_keys of the capture loop's frames
    MaxShots,   \* bound: frames captured in a behaviour
    None

Script == Task \cup Trigger  \* scripts with a thread of their own
Vision == {"match", "color", "ocr", "ocrAll"}
Plain  == {"capture", "frame"}        \* capture(true), capture(false), getColor
Stores == {"get", "put"}  \* put: storageSet and storageDelete
Owner  == Script \cup Library
Size   == ({Design[o] : o \in Owner} \ {None}) \cup {Native}

ASSUME KindAssumption ==
    Task \cap Trigger = {} /\ Library \cap Script = {} /\ None \notin Owner
ASSUME SizeAssumption == Native # None
ASSUME PlanAssumption ==
    Plans \subseteq
        [Script -> SUBSET (Vision \cup Plain \cup Stores
                             \cup {"library", "reload"})]
ASSUME ShotAssumption == MaxShots \in Nat /\ LoopKey \subseteq Nat

VARIABLES
    dir, res,   \* template_dir, design_resolution
    shots,      \* frames captured so far: frame_number
    keys,       \* keys[n]: the frame_key of frame n
    shared,     \* shared_frame, 0 before the first
    cached,     \* frame_cache, likewise
    decoded,    \* mat_frame_cache and scaled_frame_cache, by size
    words,      \* ocr_batch_cache
    reader,     \* who holds the mutex of the OCR engine
    enabled,    \* scripts that are enabled
    hook,       \* the script whose hook runs under the registry's lock
    pc,         \* where each script is
    stack,      \* whose code it runs: itself, then the libraries it is in
    saved,      \* previous_template_dir, previous_design_res of each library
    call,       \* locals of its ctx call
    reload,     \* the script that is being reloaded, and how far
    plan,       \* what the scripts that are installed do
    clean       \* history: nobody else has set the scope since it was started

scope  == <<dir, res, clean>>
nested == <<stack, saved>>
frames == <<shots, keys, shared, cached>>
caches == <<decoded, words, reader>>
state  == <<enabled, hook>>
rest   == <<reload, plan>>
vars   == <<scope, frames, caches, state, pc, nested, call, rest>>

Top(s)    == stack[s][Len(stack[s])]
Target(r) == IF r = None THEN Native ELSE r
Goes(s, l) == pc' = [pc EXCEPT ![s] = l]

NoCall == [op |-> "none", shot |-> 0, image |-> None, tag |-> None,
           from |-> None, to |-> None]
Returns(s) == Goes(s, "js") /\ call' = [call EXCEPT ![s] = NoCall]

NoReload == [of |-> None, at |-> "none"]

Init ==
    /\ dir = None /\ res = None
    /\ shots = 0 /\ keys = [n \in 1..MaxShots |-> 0]
    /\ shared = 0 /\ cached = 0
    /\ decoded = [k \in {"mat", "image"} |-> [z \in Size |-> None]]
    /\ words = None /\ reader = None
    /\ enabled = {} /\ hook = None
    /\ pc = [s \in Script |-> "idle"] /\ call = [s \in Script |-> NoCall]
    /\ stack = [s \in Script |-> <<>>] /\ saved = [s \in Script |-> <<>>]
    /\ clean = [s \in Script |-> FALSE]
    /\ reload = NoReload
    /\ plan \in Plans

-----------------------------------------------------------------------------
(* Scripts and their scope *)

\* The registry: a script is taken out of it for start_task and tick_triggers;
\* enable_script and disable_script keep its lock while their hook runs.
InRegistry(s) == pc[s] = "idle" /\ hook = None
Runs(s, l) ==
    /\ stack' = [stack EXCEPT ![s] = <<s>>]
    /\ Goes(s, l)
    /\ UNCHANGED <<scope, frames, caches, saved, call, rest>>

\* start_task, which enables a trigger.  The slot for one task is left out: a
\* task that was stopped may still run when the next one starts.
StartTask(s) ==
    /\ InRegistry(s)
    /\ enabled' = enabled \cup ({s} \cap Trigger) /\ hook' = hook
    /\ Runs(s, "dir")

EnableScript(s) ==
    /\ InRegistry(s) /\ s \notin enabled
    /\ hook' = s /\ enabled' = enabled
    /\ Runs(s, "dir")

\* disable_script and tick_triggers: JavaScript runs in the scope it finds.
DisableScript(s) ==
    /\ InRegistry(s) /\ s \in enabled
    /\ hook' = s /\ enabled' = enabled
    /\ Runs(s, "js")

TickTrigger(s) ==
    /\ InRegistry(s) /\ s \in enabled \cap Trigger
    /\ UNCHANGED state
    /\ Runs(s, "js")

\* A hook's success or failure decides whether the script is enabled, and so
\* does an error of onCapture; the hook of a reload does not.
End(s) ==
    /\ pc[s] = "js" /\ Len(stack[s]) = 1
    /\ stack' = [stack EXCEPT ![s] = <<>>]
    /\ IF reload = [of |-> s, at |-> "hook"]
         THEN enabled' = enabled /\ reload' = NoReload
         ELSE /\ enabled' \in IF s \in Trigger \/ hook = s
                                THEN {enabled \cup {s}, enabled \ {s}}
                                ELSE {enabled}
              /\ reload' = reload
    /\ hook' = IF hook = s THEN None ELSE hook
    /\ Goes(s, "idle")
    /\ UNCHANGED <<scope, frames, caches, saved, call, plan>>

\* Nobody else's scope is what it was set to.
Disturbs(s, own) == clean' = [t \in Script |-> t = s /\ own]

SetDir(s) ==
    /\ pc[s] = "dir"
    /\ dir' = Top(s)
    /\ Disturbs(s, clean[s] \/ Len(stack[s]) = 1)
    /\ Goes(s, "res")
    /\ UNCHANGED <<res, frames, caches, state, nested, call, rest>>

SetRes(s) ==
    /\ pc[s] = "res"
    /\ res' = Design[Top(s)]
    /\ Disturbs(s, clean[s])
    /\ Goes(s, "js")
    /\ UNCHANGED <<dir, frames, caches, state, nested, call, rest>>

\* call_library takes the library out of the registry, and keeps the template
\* directory and then the design resolution that it finds.
CallLibrary(s, l) ==
    /\ pc[s] = "js" /\ hook = None /\ "library" \in plan[s]
    /\ \A t \in Script : \A i \in DOMAIN stack[t] : stack[t][i] # l
    /\ stack' = [stack EXCEPT ![s] = Append(@, l)]
    /\ saved' = [saved EXCEPT ![s] = Append(@, [dir |-> dir, res |-> None])]
    /\ Goes(s, "keep")
    /\ UNCHANGED <<scope, frames, caches, state, call, rest>>

KeepRes(s) ==
    /\ pc[s] = "keep"
    /\ saved' = [saved EXCEPT ![s][Len(saved[s])].res = res]
    /\ Goes(s, "dir")
    /\ UNCHANGED <<scope, frames, caches, state, stack, call, rest>>

LeaveUnrestored(s) ==                                      \* mutant
    /\ pc[s] = "js" /\ Len(stack[s]) > 1
    /\ stack' = [stack EXCEPT ![s] = SubSeq(@, 1, Len(@) - 1)]
    /\ saved' = [saved EXCEPT ![s] = SubSeq(@, 1, Len(@) - 1)]
    /\ UNCHANGED <<scope, frames, caches, state, pc, call, rest>>

\* Also when the function has failed.
LeaveLibrary(s) ==
    /\ pc[s] = "js" /\ Len(stack[s]) > 1
    /\ Goes(s, "undir")
    /\ UNCHANGED <<scope, frames, caches, state, nested, call, rest>>

RestoreDir(s) ==
    /\ pc[s] = "undir"
    /\ dir' = saved[s][Len(saved[s])].dir
    /\ Disturbs(s, clean[s])
    /\ Goes(s, "unres")
    /\ UNCHANGED <<res, frames, caches, state, nested, call, rest>>

RestoreRes(s) ==
    /\ pc[s] = "unres"
    /\ res' = saved[s][Len(saved[s])].res
    /\ Disturbs(s, clean[s])
    /\ stack' = [stack EXCEPT ![s] = SubSeq(@, 1, Len(@) - 1)]
    /\ saved' = [saved EXCEPT ![s] = SubSeq(@, 1, Len(@) - 1)]
    /\ Goes(s, "js")
    /\ UNCHANGED <<dir, frames, caches, state, call, rest>>

\* reload_single_script sets the scope for the onEnable of an enabled script
\* before it asks for the registry's lock, and does not look where the script
\* is by then.
Reload(s) ==
    /\ reload = NoReload /\ "reload" \in plan[s]
    /\ InRegistry(s) /\ s \in enabled
    /\ reload' = [of |-> s, at |-> "dir"]
    /\ UNCHANGED <<scope, frames, caches, state, pc, nested, call, plan>>

ReloadSetsDir ==
    /\ reload.at = "dir"
    /\ dir' = reload.of /\ res' = res /\ Disturbs(reload.of, FALSE)
    /\ reload' = [reload EXCEPT !.at = "res"]
    /\ UNCHANGED <<frames, caches, state, pc, nested, call, plan>>

ReloadSetsRes ==
    /\ reload.at = "res"
    /\ res' = Design[reload.of] /\ dir' = dir /\ Disturbs(reload.of, FALSE)
    /\ reload' = [reload EXCEPT !.at = "lock"]
    /\ UNCHANGED <<frames, caches, state, pc, nested, call, plan>>

ReloadEnables ==
    /\ reload.at = "lock" /\ hook = None
    /\ LET s == reload.of
       IN IF pc[s] # "idle"
          THEN reload' = NoReload /\ UNCHANGED <<hook, stack, pc>>
          ELSE /\ hook' = s /\ Goes(s, "js")
               /\ stack' = [stack EXCEPT ![s] = <<s>>]
               /\ reload' = [reload EXCEPT !.at = "hook"]
    /\ UNCHANGED <<scope, frames, caches, enabled, saved, call, plan>>

-----------------------------------------------------------------------------
(* Frames *)

\* A frame gets the next number.
NewFrame(key) == /\ shots < MaxShots /\ shots' = shots + 1
                 /\ keys' = [keys EXCEPT ![shots'] = key]

\* update_shared_frame, with a frame that the capture loop has just taken.  It
\* leaves the frame's sequence as it comes: 0 from the capture methods, so
\* that its key is made of the millisecond and of its width and height, or a
\* replay's own number.  Two frames may have one key.
Publish ==
    /\ \E k \in LoopKey : NewFrame(k)
    /\ shared' = shots'
    /\ UNCHANGED <<scope, cached, caches, state, pc, nested, call, rest>>

AskVision(s) ==
    /\ pc[s] = "js"
    /\ \E op \in plan[s] \cap (Vision \cup Plain) :
         /\ call' = [call EXCEPT ![s].op = op]
         /\ Goes(s, IF op = "capture" THEN "grab" ELSE "shared")
    /\ UNCHANGED <<scope, frames, caches, state, nested, rest>>

Took(s, f) ==
    \/ /\ call[s].op \in Vision
       /\ call' = [call EXCEPT ![s].shot = f] /\ Goes(s, "decode")
    \/ call[s].op \in Plain /\ Returns(s)

\* get_cached_core_frame: the frame of the capture loop, or else the last one
\* that a script captured, or else one that is captured now, unless the
\* fallback is switched off.
TakeShared(s) ==
    /\ pc[s] = "shared"
    /\ \/ shared # 0 /\ Took(s, shared)
       \/ shared = 0 /\ Goes(s, "cached") /\ UNCHANGED call
    /\ UNCHANGED <<scope, frames, caches, state, nested, rest>>

TakeCached(s) ==
    /\ pc[s] = "cached"
    /\ \/ cached # 0 /\ Took(s, cached)
       \/ cached = 0 /\ Goes(s, "grab") /\ UNCHANGED call
       \/ cached = 0 /\ Returns(s)
    /\ UNCHANGED <<scope, frames, caches, state, nested, rest>>

\* do_capture_core, which fails without a window, numbers its frames.
Grab(s) ==
    /\ pc[s] = "grab"
    /\ \/ /\ NewFrame(shots + 1)
          /\ call' = [call EXCEPT ![s].shot = shots'] /\ Goes(s, "store")
       \/ Returns(s) /\ UNCHANGED <<shots, keys>>
    /\ UNCHANGED <<scope, shared, cached, caches, state, nested, rest>>

Store(s) ==
    /\ pc[s] = "store"
    /\ cached' = call[s].shot
    /\ Took(s, call[s].shot)
    /\ UNCHANGED <<scope, shots, keys, shared, caches, state, nested, rest>>

IsOcr(s) == call[s].op \in {"ocr", "ocrAll"}
Form(s)  == IF IsOcr(s) THEN "image" ELSE "mat"
Use(s)   == CASE call[s].op = "ocr"    -> "batch"
              [] call[s].op = "ocrAll" -> "engine"
              [] OTHER                 -> call[s].op

Key(s) == keys[call[s].shot]

AnyHit(s, entry) == entry # None                           \* mutant
Hit(s, entry) == entry # None /\ entry.key = Key(s)

\* get_decoded_mat_for_vision, or get_decoded_frame_for_vision for OCR: looks
\* into the cache for the size of the design resolution; decodes and resizes.
Decode(s) ==
    /\ pc[s] = "decode"
    /\ LET z == Target(res)
           entry == decoded[Form(s)][z]
       IN \/ /\ Hit(s, entry)
             /\ call' = [call EXCEPT ![s].image = entry.image]
             /\ Goes(s, Use(s))
          \/ /\ ~Hit(s, entry)
             /\ call' = [call EXCEPT ![s].image =
                           [shot |-> call[s].shot, size |-> z]]
             /\ Goes(s, "insert")
          \/ ~Hit(s, entry) /\ Returns(s)  \* its data cannot be decoded
    /\ UNCHANGED <<scope, frames, caches, state, nested, rest>>

Insert(s) ==
    /\ pc[s] = "insert"
    /\ decoded' = [decoded EXCEPT ![Form(s)][call[s].image.size] =
                     [key |-> Key(s), image |-> call[s].image]]
    /\ Goes(s, Use(s))
    /\ UNCHANGED <<scope, frames, words, reader, state, nested, call, rest>>

\* findTemplate and its kind load the template from the directory of now.
Match(s) ==
    /\ pc[s] = "match"
    /\ Returns(s)
    /\ UNCHANGED <<scope, frames, caches, state, nested, rest>>

\* waitForTemplate and its kind begin anew until they find or give up.
WaitAgain(s) ==
    /\ pc[s] \in {"match", "color"}
    /\ call' = [call EXCEPT ![s] = [NoCall EXCEPT !.op = call[s].op]]
    /\ Goes(s, "shared")
    /\ UNCHANGED <<scope, frames, caches, state, nested, rest>>

\* The color checks count and compare pixels of the image alone.
Colors(s) ==
    /\ pc[s] = "color"
    /\ Returns(s)
    /\ UNCHANGED <<scope, frames, caches, state, nested, rest>>

-----------------------------------------------------------------------------
(* Recognition *)

\* ocr answers from the results kept for this frame and design resolution.
Batch(s) ==
    /\ pc[s] = "batch"
    /\ IF words # None /\ words.key = Key(s) /\ words.res = res
       THEN Returns(s)
       ELSE /\ call' = [call EXCEPT ![s].tag = res]
            /\ Goes(s, "engine")
    /\ UNCHANGED <<scope, frames, caches, state, nested, rest>>

ShareEngine(s) ==                                          \* mutant
    /\ pc[s] = "engine"
    /\ reader' = s
    /\ Goes(s, "read")
    /\ UNCHANGED <<scope, frames, decoded, words, state, nested, call, rest>>

LockEngine(s) ==
    /\ pc[s] = "engine" /\ reader = None
    /\ reader' = s
    /\ Goes(s, "read")
    /\ UNCHANGED <<scope, frames, decoded, words, state, nested, call, rest>>

\* The engine fails to start or to read, or the region is small and read by
\* itself: nothing is kept.
ReadAlone(s) ==
    /\ pc[s] = "read"
    /\ reader' = None
    /\ Returns(s)
    /\ UNCHANGED <<scope, frames, decoded, words, state, nested, rest>>

\* The whole image is read and its results are kept.
KeepWords(s, r) ==
    /\ words' = [key |-> Key(s), image |-> call[s].image, res |-> r]
    /\ reader' = None
    /\ Returns(s)
    /\ UNCHANGED <<scope, frames, decoded, state, nested, rest>>

OcrReads(s) ==
    /\ pc[s] = "read" /\ call[s].op = "ocr"
    /\ KeepWords(s, call[s].tag)

\* ocrAll looks only now at the design resolution.
OcrAllReads(s) ==
    /\ pc[s] = "read" /\ call[s].op = "ocrAll"
    /\ KeepWords(s, res)

-----------------------------------------------------------------------------
(* Storage *)

AskStorage(s) ==
    /\ pc[s] = "js"
    /\ \E op \in plan[s] \cap Stores : call' = [call EXCEPT ![s].op = op]
    /\ Goes(s, "load")
    /\ UNCHANGED <<scope, frames, caches, state, nested, rest>>

\* read_storage_data, from the directory of the moment.
Load(s) ==
    /\ pc[s] = "load"
    /\ \/ call[s].op = "get" /\ Returns(s)
       \/ /\ call[s].op = "put"
          /\ call' = [call EXCEPT ![s].from = dir]
          /\ Goes(s, "path")
    /\ UNCHANGED <<scope, frames, caches, state, nested, rest>>

\* write_storage_data takes the path anew.
Path(s) ==
    /\ pc[s] = "path"
    /\ call' = [call EXCEPT ![s].to = dir]
    /\ Goes(s, "write")
    /\ UNCHANGED <<scope, frames, caches, state, nested, rest>>

Write(s) ==
    /\ pc[s] = "write"
    /\ Returns(s)
    /\ UNCHANGED <<scope, frames, caches, state, nested, rest>>

-----------------------------------------------------------------------------
Step(s) ==
    \/ StartTask(s) \/ EnableScript(s) \/ DisableScript(s) \/ TickTrigger(s)
    \/ End(s) \/ Reload(s)
    \/ SetDir(s) \/ SetRes(s)
    \/ \E l \in Library : CallLibrary(s, l)
    \/ KeepRes(s) \/ LeaveLibrary(s) \/ RestoreDir(s) \/ RestoreRes(s)
    \/ AskVision(s) \/ TakeShared(s) \/ TakeCached(s) \/ Grab(s) \/ Store(s)
    \/ Decode(s) \/ Insert(s)
    \/ Match(s) \/ WaitAgain(s) \/ Colors(s)
    \/ Batch(s) \/ LockEngine(s) \/ ReadAlone(s)
    \/ OcrReads(s) \/ OcrAllReads(s)
    \/ AskStorage(s) \/ Load(s) \/ Path(s) \/ Write(s)

Next ==
    \/ Publish
    \/ ReloadSetsDir \/ ReloadSetsRes \/ ReloadEnables
    \/ \E s \in Script : Step(s)

Spec == Init /\ [][Next]_vars

-----------------------------------------------------------------------------
(* Properties *)

Labels == {"idle", "dir", "res", "js", "keep", "undir", "unres",
           "shared", "cached", "grab", "store", "decode", "insert",
           "match", "color", "batch", "engine", "read",
           "load", "path", "write"}
Image  == [shot : Nat, size : Size]
Locals == [op : Vision \cup Plain \cup Stores \cup {"none"}, shot : Nat,
           image : Image \cup {None}, tag : Size \cup {None},
           from : Owner \cup {None}, to : Owner \cup {None}]
Kept   == [dir : Owner \cup {None}, res : Size \cup {None}]
Words  == [key : Nat, image : Image, res : Size \cup {None}]

\* Every variable keeps its type; who reads with the OCR engine holds its
\* mutex, and nobody else does (script_ctx.rs:1614).
TypeOK ==
    /\ dir \in Owner \cup {None} /\ res \in Size \cup {None}
    /\ shots \in 0..MaxShots /\ keys \in [1..MaxShots -> Nat]
    /\ shared \in 0..shots /\ cached \in 0..shots
    /\ decoded \in [{"mat", "image"} ->
                    [Size -> [key : Nat, image : Image] \cup {None}]]
    /\ words \in Words \cup {None}
    /\ \A s \in Script : pc[s] = "read" <=> reader = s
    /\ reader \in Script \cup {None}
    /\ enabled \subseteq Script /\ hook \in Script \cup {None}
    /\ pc \in [Script -> Labels]
    /\ stack \in [Script -> Seq(Owner)]
    /\ saved \in [Script -> Seq(Kept)]
    /\ call \in [Script -> Locals]
    /\ reload \in [of : Script \cup {None},
                  at : {"none", "dir", "res", "lock", "hook"}]
    /\ clean \in [Script -> BOOLEAN] /\ plan \in Plans

\* Whatever a vision call works on, from a cache or decoded, is of the key of
\* the frame that it took; what the caches hold is of the key and the size
\* they hold it for, however the calls of several scripts fill them
\* (script_ctx.rs:736).  So it is that frame, unless another one has its key.
Alone(n) == \A m \in 1..shots : keys[m] = keys[n] => m = n
VisionOfFrame ==
    /\ \A s \in Script : call[s].image # None =>
            /\ keys[call[s].image.shot] = Key(s)
            /\ Alone(call[s].shot) => call[s].image.shot = call[s].shot
    /\ \A k \in {"mat", "image"}, z \in Size : decoded[k][z] # None =>
            /\ decoded[k][z].image.size = z
            /\ keys[decoded[k][z].image.shot] = decoded[k][z].key
    /\ words # None => keys[words.image.shot] = words.key

\* A script that nobody interferes with works in its own scope, or in that of
\* the library it is in, wherever it is in a call: however deep libraries
\* call each other, and whether they fail or not, each finds its own again
\* (runtime.rs:410-420).
Here(s) == IF stack[s] = <<>> THEN s ELSE Top(s)
ScopeIsOwn ==
    \A s \in Script :
        clean[s] /\ pc[s] \notin {"keep", "dir", "res", "undir", "unres"} =>
            /\ dir = Here(s) /\ res = Design[Here(s)]
            /\ call[s].image # None => call[s].image.size = Target(res)
            /\ pc[s] = "read" /\ call[s].op = "ocr" => call[s].tag = res
            /\ pc[s] \in {"path", "write"} => call[s].from = Here(s)
            /\ pc[s] = "write" => call[s].to = Here(s)

\* docs/scripting-guide_EN.md:427 "Data is stored in
\* {script_directory}/storage.json": what a script stores goes to its own.
StoredAtHome ==
    \A s \in Script : pc[s] = "write" => call[s].to = Top(s)
=============================================================================
