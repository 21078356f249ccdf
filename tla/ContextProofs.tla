---------------------------- MODULE ContextProofs ----------------------------
(***************************************************************************)
(* What the scripts share and what stays theirs: the invariant of          *)
(* ScriptContext, and the theorems about it.                               *)
(***************************************************************************)
EXTENDS ScriptContext, SequenceTheorems, TLAPS

-----------------------------------------------------------------------------
(* The invariant *)

\* Where a script is in a ctx call, and where that has an image.
Outside == {"idle", "dir", "res", "js", "keep", "undir", "unres"}
Setting == {"dir", "res", "keep", "undir", "unres"}
Seeing  == {"insert", "match", "color", "batch", "engine", "read"}

\* A frame that was captured, and the key it has got.
Captured(f, k) == f \in 1..shots /\ keys[f] = k

\* The locals of a call: nothing is left of an earlier one, and an image of
\* its frame's key is there from where it is made to where the call ends.
CallRight(s) ==
    /\ pc[s] \in Outside => call[s] = NoCall
    /\ pc[s] \in Seeing => /\ call[s].image \in Image
                            /\ Captured(call[s].image.shot, Key(s))
    /\ pc[s] \notin Seeing => call[s].image = None
    /\ pc[s] \in Seeing \cup {"decode"} => call[s].op \in Vision
    /\ pc[s] \in Seeing \cup {"decode", "store"} => call[s].shot # 0
    /\ call[s].shot <= shots

\* A script runs on its own thread, and each library it is in has kept
\* something to restore.
StackRight(s) ==
    /\ pc[s] = "idle" <=> Len(stack[s]) = 0
    /\ Len(stack[s]) > 0 => stack[s][1] = s
    /\ Len(saved[s]) = IF Len(stack[s]) = 0 THEN 0 ELSE Len(stack[s]) - 1
    /\ pc[s] \in {"keep", "undir", "unres"} => Len(stack[s]) > 1

\* While nobody else sets the scope: what is kept is of the caller below; each
\* step of setting and restoring finds what the last one has left; and a call
\* has taken the scope that is still set.
KeptRight(s) ==
    \A i \in 1..Len(saved[s]) :
        /\ saved[s][i].dir = stack[s][i]
        /\ i < Len(saved[s]) \/ pc[s] # "keep" =>
                saved[s][i].res = Design[stack[s][i]]
PlaceRight(s) ==
    /\ pc[s] = "res" => dir = Top(s)
    /\ pc[s] = "keep" => res = Design[stack[s][Len(stack[s]) - 1]]
    /\ pc[s] = "unres" => dir = stack[s][Len(stack[s]) - 1]
    /\ pc[s] \notin Setting => dir = Here(s) /\ res = Design[Here(s)]
SeenRight(s) ==
    /\ pc[s] \in Seeing => call[s].image.size = Target(res)
    /\ pc[s] \in {"engine", "read"} /\ call[s].op = "ocr" =>
            call[s].tag = res
    /\ pc[s] \in {"path", "write"} => call[s].from = dir
    /\ pc[s] = "write" => call[s].to = dir
ScopeRight(s) == clean[s] => KeptRight(s) /\ PlaceRight(s) /\ SeenRight(s)

Right(s) == CallRight(s) /\ StackRight(s) /\ ScopeRight(s)

\* What the caches hold is what they hold it for.
CachesRight ==
    /\ \A k \in {"mat", "image"}, z \in Size : decoded[k][z] # None =>
            /\ decoded[k][z].image.size = z
            /\ Captured(decoded[k][z].image.shot, decoded[k][z].key)
    /\ words # None => Captured(words.image.shot, words.key)

\* The inductive invariant.
CtxInv ==
    /\ TypeOK
    /\ CachesRight
    /\ \A s \in Script : Right(s)
    /\ reload.at # "none" => reload.of \in Script

\* The parts of the type invariant that most steps leave alone.
FramesTyped ==
    /\ shots \in 0..MaxShots /\ keys \in [1..MaxShots -> Nat]
    /\ shared \in 0..shots /\ cached \in 0..shots
CachesTyped ==
    /\ decoded \in [{"mat", "image"} ->
                    [Size -> [key : Nat, image : Image] \cup {None}]]
    /\ words \in Words \cup {None}
ReaderTyped ==
    /\ \A s \in Script : pc[s] = "read" <=> reader = s
    /\ reader \in Script \cup {None}

\* The frames captured so far keep their keys.
FramesKept == shots <= shots' /\ \A n \in 1..shots : keys'[n] = keys[n]

\* A step inside a ctx call of script s, from or to JavaScript or not.
CallTurn(s) ==
    /\ pc' \in [Script -> Labels] /\ call' \in [Script -> Locals]
    /\ \A t \in Script \ {s} : pc'[t] = pc[t] /\ call'[t] = call[t]
    /\ {pc[s], pc'[s]} \cap (Outside \ {"js"}) = {}
    /\ FramesKept
    /\ UNCHANGED <<scope, nested, state, rest>>

-----------------------------------------------------------------------------
(* Lemmas *)

\* Every size that is decoded for is one that the caches know.
LEMMA SizesTyped ==
    /\ Native \in Size
    /\ \A o \in Owner : Design[o] \in Size \cup {None}
    /\ \A r \in Size \cup {None} : Target(r) \in Size
BY SizeAssumption DEF Size, Target

\* A local of a call can be set to anything of its type.
LEMMA LocalsTyped ==
    /\ NoCall \in Locals
    /\ \A c \in Locals :
        /\ \A x \in Vision \cup Plain \cup Stores :
                [c EXCEPT !.op = x] \in Locals
        /\ \A x \in Nat : [c EXCEPT !.shot = x] \in Locals
        /\ \A x \in Image : [c EXCEPT !.image = x] \in Locals
        /\ \A x \in Size \cup {None} : [c EXCEPT !.tag = x] \in Locals
        /\ \A x \in Owner \cup {None} : [c EXCEPT !.from = x] \in Locals
        /\ \A x \in Owner \cup {None} : [c EXCEPT !.to = x] \in Locals
<1>1. NoCall \in Locals  BY DEF NoCall, Locals
<1>2. ASSUME NEW c \in Locals, NEW x \in Vision \cup Plain \cup Stores
      PROVE  [c EXCEPT !.op = x] \in Locals
  BY DEF Locals
<1>3. ASSUME NEW c \in Locals, NEW x \in Nat
      PROVE  [c EXCEPT !.shot = x] \in Locals
  BY DEF Locals
<1>4. ASSUME NEW c \in Locals, NEW x \in Image
      PROVE  [c EXCEPT !.image = x] \in Locals
  BY DEF Locals
<1>5. ASSUME NEW c \in Locals, NEW x \in Size \cup {None}
      PROVE  [c EXCEPT !.tag = x] \in Locals
  BY DEF Locals
<1>6. ASSUME NEW c \in Locals, NEW x \in Owner \cup {None}
      PROVE  [c EXCEPT !.from = x] \in Locals /\ [c EXCEPT !.to = x] \in Locals
  BY DEF Locals
<1>7. QED  BY <1>1, <1>2, <1>3, <1>4, <1>5, <1>6

\* A frame that was captured stays so.
LEMMA CapturedKeeps ==
    ASSUME NEW f, NEW k, Captured(f, k), shots \in Nat, shots' \in Nat,
           FramesKept
    PROVE  f \in 1..shots' /\ keys'[f] = k
BY DEF Captured, FramesKept

\* So the caches stay right while nobody fills them.
LEMMA CachesKept ==
    ASSUME CachesRight, shots \in Nat, shots' \in Nat, FramesKept,
           UNCHANGED <<decoded, words>>
    PROVE  CachesRight'
<1>1. ASSUME NEW k \in {"mat", "image"}, NEW z \in Size,
             decoded[k][z] # None
      PROVE  /\ decoded[k][z].image.size = z
             /\ Captured(decoded[k][z].image.shot, decoded[k][z].key)'
  BY <1>1, CapturedKeeps DEF CachesRight, Captured
<1>2. ASSUME words # None PROVE Captured(words.image.shot, words.key)'
  BY <1>2, CapturedKeeps DEF CachesRight, Captured
<1>3. QED  BY <1>1, <1>2 DEF CachesRight

\* A step of another script that leaves the scope alone, or that a script
\* notices in its history, disturbs nothing of what is right about it.
LEMMA OthersKeep ==
    ASSUME NEW t \in Script, Right(t), shots \in Nat, shots' \in Nat,
           call[t].shot \in Nat, FramesKept,
           pc'[t] = pc[t], stack'[t] = stack[t], saved'[t] = saved[t],
           call'[t] = call[t],
           UNCHANGED <<dir, res, clean[t]>> \/ ~clean'[t]
    PROVE  Right(t)'
<1>1. CallRight(t)'
  <2>1. CallRight(t) /\ pc'[t] = pc[t] /\ call'[t] = call[t]  BY DEF Right
  <2>2. call[t].shot <= shots'  BY <2>1 DEF CallRight, FramesKept
  <2>3. ASSUME pc[t] \in Seeing
        PROVE  Captured(call[t].image.shot, Key(t))'
    <3>1. call[t].shot \in 1..shots /\ Captured(call[t].image.shot, Key(t))
      BY <2>1, <2>3 DEF CallRight
    <3>2. QED  BY <2>1, <3>1, CapturedKeeps DEF Captured, Key, FramesKept
  <2>4. QED  BY <2>1, <2>2, <2>3 DEF CallRight
<1>2. StackRight(t)'  BY DEF Right, StackRight
<1>3. ASSUME UNCHANGED <<dir, res, clean[t]>>, clean'[t]
      PROVE  KeptRight(t)' /\ PlaceRight(t)' /\ SeenRight(t)'
  <2>1. KeptRight(t)'  BY <1>3 DEF Right, ScopeRight, KeptRight
  <2>2. PlaceRight(t)'
    BY <1>3 DEF Right, ScopeRight, PlaceRight, Here, Top
  <2>3. SeenRight(t)'  BY <1>3 DEF Right, ScopeRight, SeenRight, Target
  <2>4. QED  BY <2>1, <2>2, <2>3
<1>4. ScopeRight(t)'  BY <1>3 DEF ScopeRight
<1>5. QED  BY <1>1, <1>2, <1>4 DEF Right

\* A step inside a call only has to get the call and the caches right.
LEMMA TurnKeeps ==
    ASSUME CtxInv, NEW s \in Script, CallTurn(s),
           CallRight(s)', clean[s] => SeenRight(s)',
           FramesTyped', CachesTyped', ReaderTyped', CachesRight'
    PROVE  CtxInv'
<1> USE DEF scope, nested, state, rest
<1>1. pc' \in [Script -> Labels] /\ call' \in [Script -> Locals]
  BY DEF CallTurn, CtxInv, TypeOK
<1>2. TypeOK'
  BY <1>1 DEF CtxInv, TypeOK, CallTurn, FramesTyped, CachesTyped, ReaderTyped
<1>3. ASSUME NEW t \in Script \ {s} PROVE Right(t)'
  <2>1. shots \in Nat /\ shots' \in Nat /\ call[t].shot \in Nat
    BY ShotAssumption DEF CtxInv, TypeOK, Locals, FramesTyped
  <2>2. pc'[t] = pc[t] /\ call'[t] = call[t]
    BY DEF CtxInv, TypeOK, CallTurn
  <2>3. QED  BY <2>1, <2>2, OthersKeep DEF CtxInv, CallTurn
<1>4. StackRight(s)'
  BY DEF CallTurn, CtxInv, Right, StackRight, TypeOK, Outside
<1>5. ScopeRight(s)'
  <2>1. pc'[s] \notin Outside \ {"js"} /\ pc[s] \notin Outside \ {"js"}
    BY DEF CallTurn, CtxInv, TypeOK
  <2>2. ASSUME clean[s] PROVE KeptRight(s)' /\ PlaceRight(s)'
    BY <2>1, <2>2 DEF CallTurn, CtxInv, Right, ScopeRight, KeptRight,
       PlaceRight, Here, Top, Outside, Setting
  <2>3. QED  BY <2>2 DEF CallTurn, ScopeRight
<1>6. QED  BY <1>2, <1>3, <1>4, <1>5 DEF CtxInv, Right, CallTurn

\* The first state.
LEMMA CtxInit == Init => CtxInv
<1> SUFFICES ASSUME Init PROVE CtxInv  OBVIOUS
<1> USE DEF Init
<1>1. TypeOK
  <2>1. FramesTyped /\ CachesTyped /\ ReaderTyped
    BY KindAssumption, ShotAssumption
       DEF FramesTyped, CachesTyped, ReaderTyped, Script, Owner
  <2>2. call \in [Script -> Locals]  BY DEF NoCall, Locals
  <2>3. pc \in [Script -> Labels]  BY DEF Labels
  <2>4. reload \in [of : Script \cup {None},
                    at : {"none", "dir", "res", "lock", "hook"}]
    BY DEF NoReload
  <2>5. QED
    BY <2>1, <2>2, <2>3, <2>4
       DEF TypeOK, FramesTyped, CachesTyped, ReaderTyped
<1>2. CachesRight  BY DEF CachesRight
<1>3. ASSUME NEW s \in Script PROVE Right(s)
  BY ShotAssumption DEF Right, CallRight, StackRight, ScopeRight, NoCall, Seeing
<1>4. reload.at = "none"  BY DEF NoReload
<1>5. QED  BY <1>1, <1>2, <1>3, <1>4 DEF CtxInv

-----------------------------------------------------------------------------
(* Inside a ctx call *)

\* A call that has its frame, and one that is over.
LEMMA TookRight ==
    ASSUME CtxInv, NEW s \in Script, pc[s] \in {"shared", "cached", "store"},
           shots' \in Nat, NEW f \in 1..shots', Took(s, f)
    PROVE  /\ call' \in [Script -> Locals] /\ pc'[s] \in {"decode", "js"}
           /\ CallRight(s)' /\ SeenRight(s)'
<1> USE DEF Seeing, Outside
<1> TypeOK /\ CallRight(s)  BY DEF CtxInv, Right
<1>1. CASE /\ call[s].op \in Vision /\ Goes(s, "decode")
           /\ call' = [call EXCEPT ![s].shot = f]
  <2>1. call[s] \in Locals /\ call[s].image = None  BY DEF TypeOK, CallRight
  <2>2. call'[s] = [call[s] EXCEPT !.shot = f]  BY <1>1 DEF TypeOK
  <2>3. call'[s].image = None /\ call'[s].op \in Vision /\ call'[s].shot = f
    BY <1>1, <2>1, <2>2 DEF Locals
  <2>4. call' \in [Script -> Locals]
    BY <1>1, <2>1, LocalsTyped DEF TypeOK
  <2>5. pc'[s] = "decode"  BY <1>1 DEF TypeOK, Goes
  <2>6. QED  BY <2>3, <2>4, <2>5 DEF CallRight, SeenRight
<1>2. CASE Returns(s)
  <2>1. call'[s] = NoCall /\ pc'[s] = "js"
    BY <1>2 DEF TypeOK, Returns, Goes
  <2>2. call' \in [Script -> Locals]
    BY <1>2, LocalsTyped DEF TypeOK, Returns
  <2>3. QED  BY <2>1, <2>2 DEF CallRight, SeenRight, NoCall
<1>3. QED  BY <1>1, <1>2 DEF Took

\* A call that is over has no locals left.
LEMMA ReturnsRight ==
    ASSUME CtxInv, NEW s \in Script, shots' \in Nat, Returns(s)
    PROVE  /\ call' \in [Script -> Locals] /\ pc'[s] = "js"
           /\ CallRight(s)' /\ SeenRight(s)'
<1>1. call'[s] = NoCall /\ pc'[s] = "js"
  BY DEF CtxInv, TypeOK, Returns, Goes
<1>2. call' \in [Script -> Locals]
  BY LocalsTyped DEF CtxInv, TypeOK, Returns
<1>3. QED  BY <1>1, <1>2 DEF CallRight, SeenRight, NoCall, Seeing, Outside

\* A call that goes on from where it has an image, or to there.
LEMMA SeesOn ==
    ASSUME CtxInv, NEW s \in Script, UNCHANGED <<shots, keys, call>>,
           pc'[s] \in Seeing, pc[s] \in Seeing
    PROVE  CallRight(s)'
BY DEF CtxInv, Right, CallRight, Captured, Key, Seeing, Outside

\* A step that changes nothing but where a call is, and its locals.
Quiet == UNCHANGED <<scope, frames, caches, state, nested, rest>>

\* Where a script is in a ctx call.
Inside == Labels \ Outside

\* Such a step is a turn of the call as soon as the locals are right.
LEMMA QuietKeeps ==
    ASSUME CtxInv, NEW s \in Script, Quiet,
           NEW l \in (Inside \cup {"js"}) \ {"read"}, Goes(s, l),
           pc[s] \in (Inside \cup {"js"}) \ {"read"},
           NEW c \in Locals, call' = [call EXCEPT ![s] = c],
           CallRight(s)', clean[s] => SeenRight(s)'
    PROVE  CtxInv'
<1> TypeOK  BY DEF CtxInv
<1> USE DEF Quiet
<1>1. FramesTyped' /\ CachesTyped' /\ CachesRight'
  BY DEF CtxInv, TypeOK, FramesTyped, CachesTyped, CachesRight, Captured,
         frames, caches
<1>2. ReaderTyped'  BY DEF TypeOK, ReaderTyped, Goes, caches
<1>3. CallTurn(s)
  <2>1. FramesKept  BY ShotAssumption DEF TypeOK, FramesKept, frames
  <2>2. /\ pc' \in [Script -> Labels] /\ call' \in [Script -> Locals]
        /\ \A t \in Script \ {s} : pc'[t] = pc[t] /\ call'[t] = call[t]
        /\ {pc[s], pc'[s]} \cap (Outside \ {"js"}) = {}
    BY DEF TypeOK, Goes, Inside, Labels, Outside
  <2>3. QED  BY <2>1, <2>2 DEF CallTurn
<1>4. QED  BY <1>1, <1>2, <1>3, TurnKeeps

\* The end of a call, when it changes nothing else.
LEMMA ReturnKeeps ==
    ASSUME CtxInv, NEW s \in Script, Quiet, Returns(s),
           pc[s] \in Inside \ {"read"}
    PROVE  CtxInv'
<1>1. shots' \in Nat
  BY ShotAssumption DEF CtxInv, TypeOK, Quiet, frames
<1>2. CallRight(s)' /\ SeenRight(s)'  BY <1>1, ReturnsRight
<1>3. Goes(s, "js") /\ call' = [call EXCEPT ![s] = NoCall]
  BY DEF Returns
<1>4. "js" \in (Inside \cup {"js"}) \ {"read"}
  OBVIOUS
<1>5. QED  BY <1>2, <1>3, <1>4, LocalsTyped, QuietKeeps

\* A call goes on without an image: so far only its locals for storage are
\* to be compared with the scope.
LEMMA BlindKeeps ==
    ASSUME CtxInv, NEW s \in Script, Quiet,
           pc[s] \in (Inside \cup {"js"}) \ Seeing,
           NEW l \in Inside \ Seeing, Goes(s, l),
           NEW c \in Locals, call' = [call EXCEPT ![s] = c],
           c.image = None, c.shot \in 0..shots,
           l = "decode" => c.op \in Vision,
           l \in {"decode", "store"} => c.shot # 0,
           clean[s] /\ l \in {"path", "write"} => c.from = dir,
           clean[s] /\ l = "write" => c.to = dir
    PROVE  CtxInv'
<1>1. shots \in Nat /\ UNCHANGED <<shots, dir, res>>
  BY ShotAssumption DEF CtxInv, TypeOK, Quiet, frames, scope
<1>2. call'[s] = c /\ pc'[s] = l  BY DEF CtxInv, TypeOK, Goes
<1>3. CallRight(s)'
  BY <1>1, <1>2 DEF CallRight, Inside, Outside, Seeing
<1>4. clean[s] => SeenRight(s)'
  BY <1>1, <1>2 DEF SeenRight, Inside, Outside, Seeing
<1>5. l # "read" /\ pc[s] # "read"  BY DEF Seeing
<1>6. QED  BY <1>3, <1>4, <1>5, QuietKeeps

\* What a script may call from JavaScript starts with no local set.
LEMMA AskVisionKeeps ==
    ASSUME CtxInv, NEW s \in Script, AskVision(s) PROVE CtxInv'
<1>1. Quiet /\ pc[s] = "js"  BY DEF AskVision, Quiet
<1>2. PICK op \in Vision \cup Plain :
         /\ call' = [call EXCEPT ![s].op = op]
         /\ Goes(s, IF op = "capture" THEN "grab" ELSE "shared")
  BY DEF AskVision
<1> DEFINE c == [call[s] EXCEPT !.op = op]
           l == IF op = "capture" THEN "grab" ELSE "shared"
<1>3. call[s] = NoCall  BY <1>1 DEF CtxInv, Right, CallRight, Outside
<1>4. c \in Locals /\ c.image = None /\ c.shot = 0
  BY <1>3, LocalsTyped DEF NoCall
<1>5. call' = [call EXCEPT ![s] = c]  BY <1>2 DEF CtxInv, TypeOK
<1>6. l \in Inside \ Seeing /\ l \notin {"decode", "store", "path", "write"}
  BY DEF Inside, Labels, Outside, Seeing
<1>7. 0 \in 0..shots  BY ShotAssumption DEF CtxInv, TypeOK
<1> HIDE DEF c, l
<1>8. Goes(s, l)  BY <1>2 DEF l
<1>9. QED
  BY <1>1, <1>4, <1>5, <1>6, <1>7, <1>8, BlindKeeps DEF Seeing

\* Likewise for the storage.
LEMMA AskStorageKeeps ==
    ASSUME CtxInv, NEW s \in Script, AskStorage(s) PROVE CtxInv'
<1>1. Quiet /\ pc[s] = "js" /\ Goes(s, "load")  BY DEF AskStorage, Quiet
<1>2. PICK op \in Stores : call' = [call EXCEPT ![s].op = op]
  BY DEF AskStorage
<1> DEFINE c == [call[s] EXCEPT !.op = op]
<1>3. call[s] = NoCall  BY <1>1 DEF CtxInv, Right, CallRight, Outside
<1>4. c \in Locals /\ c.image = None /\ c.shot = 0
  BY <1>3, LocalsTyped DEF NoCall
<1>5. call' = [call EXCEPT ![s] = c]  BY <1>2 DEF CtxInv, TypeOK
<1>6. "load" \in Inside \ Seeing  BY DEF Inside, Labels, Outside, Seeing
<1>7. 0 \in 0..shots  BY ShotAssumption DEF CtxInv, TypeOK
<1> HIDE DEF c
<1>8. QED  BY <1>1, <1>4, <1>5, <1>6, <1>7, BlindKeeps DEF Seeing

\* A call that takes frame f, and may have to decode it.
LEMMA TookKeeps ==
    ASSUME CtxInv, NEW s \in Script, Quiet, pc[s] \in {"shared", "cached"},
           NEW f \in 1..shots, Took(s, f)
    PROVE  CtxInv'
<1> shots \in Nat  BY ShotAssumption DEF CtxInv, TypeOK
<1>a. shots' = shots /\ shots' \in Nat  BY DEF Quiet, frames
<1>b. pc[s] \in Inside \ {"read"} /\ pc[s] \notin Seeing
  BY DEF Inside, Labels, Outside, Seeing
<1>1. /\ shots' = shots /\ shots' \in Nat
      /\ pc[s] \in Inside \ {"read"} /\ pc[s] \notin Seeing
  BY <1>a, <1>b
<1>2. CASE Returns(s)  BY <1>1, <1>2, ReturnKeeps
<1>3. CASE /\ call[s].op \in Vision /\ Goes(s, "decode")
           /\ call' = [call EXCEPT ![s].shot = f]
  <2> DEFINE c == [call[s] EXCEPT !.shot = f]
  <2>1. call[s] \in Locals /\ call[s].image = None
    BY <1>1 DEF CtxInv, TypeOK, Right, CallRight
  <2>2. /\ c \in Locals /\ c.shot = f /\ c.image = None /\ c.shot # 0
        /\ c.op = call[s].op /\ c.shot \in 0..shots
    BY <1>1, <2>1, LocalsTyped DEF Locals
  <2>3. call' = [call EXCEPT ![s] = c]  BY <1>3 DEF CtxInv, TypeOK
  <2>4. "decode" \in Inside \ Seeing
    BY DEF Inside, Labels, Outside, Seeing
  <2> HIDE DEF c
  <2>5. QED  BY <1>1, <1>3, <2>2, <2>3, <2>4, BlindKeeps
<1>4. QED  BY <1>2, <1>3 DEF Took

\* A call that looks for a frame elsewhere.
LEMMA LooksKeeps ==
    ASSUME CtxInv, NEW s \in Script, Quiet, pc[s] \in {"shared", "cached"},
           NEW l \in {"cached", "grab"}, Goes(s, l), call' = call
    PROVE  CtxInv'
<1>1. /\ pc[s] \in Inside /\ pc[s] \notin Seeing /\ l \in Inside \ Seeing
      /\ l \notin {"decode", "store", "path", "write"}
  BY DEF Inside, Labels, Outside, Seeing
<1>2. /\ call[s] \in Locals /\ call[s].image = None
      /\ call[s].shot \in 0..shots
  BY <1>1, ShotAssumption DEF CtxInv, TypeOK, Right, CallRight, Locals
<1>3. call' = [call EXCEPT ![s] = call[s]]  BY DEF CtxInv, TypeOK
<1>4. QED  BY <1>1, <1>2, <1>3, BlindKeeps

\* The frame of the capture loop, if there is one.
LEMMA TakeSharedKeeps ==
    ASSUME CtxInv, NEW s \in Script, TakeShared(s) PROVE CtxInv'
<1>1. Quiet /\ pc[s] = "shared" /\ shared \in 0..shots /\ shots \in Nat
  BY ShotAssumption DEF TakeShared, Quiet, CtxInv, TypeOK
<1>2. CASE shared # 0 /\ Took(s, shared)  BY <1>1, <1>2, TookKeeps
<1>3. CASE Goes(s, "cached") /\ UNCHANGED call  BY <1>1, <1>3, LooksKeeps
<1>4. QED  BY <1>2, <1>3 DEF TakeShared

\* The last frame that a script captured, if there is one.
LEMMA TakeCachedKeeps ==
    ASSUME CtxInv, NEW s \in Script, TakeCached(s) PROVE CtxInv'
<1>1. Quiet /\ pc[s] = "cached" /\ cached \in 0..shots /\ shots \in Nat
  BY ShotAssumption DEF TakeCached, Quiet, CtxInv, TypeOK
<1>2. CASE cached # 0 /\ Took(s, cached)  BY <1>1, <1>2, TookKeeps
<1>3. CASE Goes(s, "grab") /\ UNCHANGED call  BY <1>1, <1>3, LooksKeeps
<1>4. CASE Returns(s)
  BY <1>1, <1>4, ReturnKeeps DEF Inside, Labels, Outside
<1>5. QED  BY <1>2, <1>3, <1>4 DEF TakeCached

\* A new frame leaves the others as they are.
LEMMA NewFrameKeeps ==
    ASSUME FramesTyped, NEW k \in Nat, NewFrame(k)
    PROVE  /\ shots' \in 0..MaxShots /\ shots' = shots + 1
           /\ keys' \in [1..MaxShots -> Nat] /\ FramesKept
BY ShotAssumption DEF FramesTyped, NewFrame, FramesKept

\* A frame that is captured for the call.
LEMMA GrabKeeps ==
    ASSUME CtxInv, NEW s \in Script, Grab(s) PROVE CtxInv'
<1> TypeOK /\ CallRight(s)  BY DEF CtxInv, Right
<1>1. call[s] \in Locals /\ shots \in Nat /\ pc[s] = "grab"
  BY ShotAssumption DEF TypeOK, Grab
<1>2. FramesTyped' /\ shots' \in Nat /\ FramesKept
  <2>1. CASE NewFrame(shots + 1)
    <3>1. FramesTyped /\ shots + 1 \in Nat
      BY <1>1 DEF TypeOK, FramesTyped
    <3>2. /\ shots' \in 0..MaxShots /\ shots' = shots + 1
          /\ keys' \in [1..MaxShots -> Nat] /\ FramesKept
      BY <2>1, <3>1, NewFrameKeeps
    <3>3. QED  BY <1>1, <3>2 DEF TypeOK, Grab, FramesTyped
  <2>2. CASE UNCHANGED <<shots, keys>>
    BY <1>1, <2>2 DEF TypeOK, Grab, FramesTyped, FramesKept
  <2>3. QED  BY <2>1, <2>2 DEF Grab
<1>3. /\ call' \in [Script -> Locals] /\ pc'[s] \in {"store", "js"}
      /\ CallRight(s)' /\ SeenRight(s)'
  <2>1. CASE /\ NewFrame(shots + 1) /\ Goes(s, "store")
             /\ call' = [call EXCEPT ![s].shot = shots']
    <3>1. call'[s] = [call[s] EXCEPT !.shot = shots'] /\ pc'[s] = "store"
      BY <2>1 DEF TypeOK, Goes
    <3>2. call' \in [Script -> Locals]
      BY <1>1, <1>2, <2>1, LocalsTyped DEF TypeOK
    <3>3. /\ call'[s].image = call[s].image /\ call'[s].shot = shots'
          /\ shots' = shots + 1
      BY <1>1, <2>1, <3>1 DEF Locals, NewFrame
    <3>4. QED
      BY <1>1, <1>2, <3>1, <3>2, <3>3 DEF CallRight, SeenRight, Seeing, Outside
  <2>2. CASE Returns(s)  BY <1>2, <2>2, ReturnsRight
  <2>3. QED  BY <2>1, <2>2 DEF Grab
<1>4. CallTurn(s)
  <2>1. \A t \in Script \ {s} : pc'[t] = pc[t] /\ call'[t] = call[t]
    BY DEF TypeOK, Grab, Returns, Goes
  <2>2. pc' \in [Script -> Labels]
    BY DEF TypeOK, Grab, Returns, Goes, Labels
  <2>3. /\ {pc[s], pc'[s]} \cap (Outside \ {"js"}) = {}
        /\ UNCHANGED <<scope, nested, state, rest>>
    BY <1>1, <1>3 DEF Grab, Outside
  <2>4. QED  BY <2>1, <2>2, <2>3, <1>2, <1>3 DEF CallTurn
<1>5. CachesTyped' /\ CachesRight' /\ ReaderTyped'
  <2>1. CachesTyped' /\ ReaderTyped'
    BY <1>1, <1>3 DEF TypeOK, Grab, Returns, Goes, CachesTyped, ReaderTyped,
       caches
  <2>2. QED  BY <1>1, <1>2, <2>1, CachesKept DEF CtxInv, Grab, caches
<1>6. QED  BY <1>2, <1>3, <1>4, <1>5, TurnKeeps

\* It becomes the frame that others fall back to.
LEMMA StoreKeeps ==
    ASSUME CtxInv, NEW s \in Script, Store(s) PROVE CtxInv'
<1> TypeOK /\ CallRight(s)  BY DEF CtxInv, Right
<1>1. /\ call[s].shot \in 1..shots /\ shots \in Nat
      /\ shots' = shots /\ FramesKept /\ pc[s] = "store"
  BY ShotAssumption DEF TypeOK, Store, Locals, CallRight, FramesKept
<1>2. FramesTyped'  BY <1>1 DEF TypeOK, Store, FramesTyped
<1>3. /\ call' \in [Script -> Locals] /\ pc'[s] \in {"decode", "js"}
      /\ CallRight(s)' /\ SeenRight(s)'
  BY <1>1, TookRight DEF Store
<1>4. CallTurn(s)
  <2>1. \A t \in Script \ {s} : pc'[t] = pc[t] /\ call'[t] = call[t]
    BY DEF TypeOK, Store, Took, Returns, Goes
  <2>2. pc' \in [Script -> Labels]
    BY DEF TypeOK, Store, Took, Returns, Goes, Labels
  <2>3. /\ {pc[s], pc'[s]} \cap (Outside \ {"js"}) = {}
        /\ UNCHANGED <<scope, nested, state, rest>>
    BY <1>1, <1>3 DEF Store, Outside
  <2>4. QED  BY <2>1, <2>2, <2>3, <1>1, <1>3 DEF CallTurn
<1>5. CachesTyped' /\ CachesRight' /\ ReaderTyped'
  <2>1. CachesTyped' /\ ReaderTyped'
    BY <1>1, <1>3 DEF TypeOK, Store, Took, Returns, Goes, CachesTyped,
       ReaderTyped, caches
  <2>2. QED  BY <1>1, <2>1, CachesKept DEF CtxInv, Store, caches
<1>6. QED  BY <1>2, <1>3, <1>4, <1>5, TurnKeeps

\* A call that gets an image of its frame's key, in the size of the scope.
LEMMA ImageKeeps ==
    ASSUME CtxInv, NEW s \in Script, Quiet, pc[s] = "decode",
           NEW l \in Seeing \ {"read"}, Goes(s, l),
           l = "engine" => call[s].op # "ocr",
           NEW i \in Image, call' = [call EXCEPT ![s].image = i],
           Captured(i.shot, Key(s)), i.size = Target(res)
    PROVE  CtxInv'
<1> DEFINE c == [call[s] EXCEPT !.image = i]
<1>1. /\ call[s] \in Locals /\ call[s].op \in Vision
      /\ call[s].shot <= shots /\ call[s].shot # 0
      /\ UNCHANGED <<shots, keys, dir, res>>
  BY DEF CtxInv, TypeOK, Right, CallRight, Quiet, frames, scope
<1>2. /\ c \in Locals /\ c.image = i /\ c.op = call[s].op
      /\ c.shot = call[s].shot
  BY <1>1, LocalsTyped DEF Locals
<1>3. call' = [call EXCEPT ![s] = c]  BY DEF CtxInv, TypeOK
<1> HIDE DEF c
<1>4. call'[s] = c /\ pc'[s] = l  BY <1>3 DEF CtxInv, TypeOK, Goes
<1>5. CallRight(s)'
  BY <1>1, <1>2, <1>4 DEF CallRight, Captured, Key, Seeing, Outside
<1>6. SeenRight(s)'
  BY <1>1, <1>2, <1>4 DEF SeenRight, Seeing, Target
<1>7. /\ l \in (Inside \cup {"js"}) \ {"read"}
      /\ pc[s] \in (Inside \cup {"js"}) \ {"read"}
  BY DEF Inside, Labels, Outside, Seeing
<1>8. QED  BY <1>2, <1>3, <1>5, <1>6, <1>7, QuietKeeps

\* Vision gets its image from the cache for the size of the scope, or decodes.
LEMMA DecodeKeeps ==
    ASSUME CtxInv, NEW s \in Script, Decode(s) PROVE CtxInv'
<1> DEFINE z == Target(res)
           entry == decoded[Form(s)][z]
<1>1. /\ call[s] \in Locals /\ Quiet /\ pc[s] = "decode"
      /\ call[s].op \in Vision /\ z \in Size
      /\ entry \in [key : Nat, image : Image] \cup {None}
      /\ Use(s) \in Seeing \ {"insert", "read"}
      /\ Use(s) = "engine" => call[s].op # "ocr"
  BY SizesTyped
     DEF CtxInv, TypeOK, Decode, Right, CallRight, Seeing, Form, Use, Vision,
         Quiet
<1>2. CASE /\ Hit(s, entry) /\ call' = [call EXCEPT ![s].image = entry.image]
           /\ Goes(s, Use(s))
  <2>1. entry.image.size = z /\ Captured(entry.image.shot, entry.key)
    BY <1>1, <1>2 DEF CtxInv, CachesRight, Hit, Form
  <2>2. entry.image \in Image /\ entry.key = Key(s)
    BY <1>1, <1>2 DEF Hit
  <2>3. QED  BY <1>1, <1>2, <2>1, <2>2, ImageKeeps
<1>3. CASE /\ Goes(s, "insert")
           /\ call' = [call EXCEPT ![s].image =
                         [shot |-> call[s].shot, size |-> z]]
  <2>1. [shot |-> call[s].shot, size |-> z] \in Image
    BY <1>1 DEF Image, Locals
  <2>2. "insert" \in Seeing \ {"read"}  BY DEF Seeing
  <2>3. Captured(call[s].shot, Key(s))
    BY <1>1, ShotAssumption
       DEF CtxInv, TypeOK, Right, CallRight, Captured, Key, Locals
  <2>4. QED  BY <1>1, <1>3, <2>1, <2>2, <2>3, ImageKeeps
<1>4. CASE Returns(s)
  BY <1>1, <1>4, ReturnKeeps DEF Inside, Labels, Outside
<1>5. QED  BY <1>2, <1>3, <1>4 DEF Decode

\* The image that was decoded is kept under its frame's key and its size.
LEMMA InsertKeeps ==
    ASSUME CtxInv, NEW s \in Script, Insert(s) PROVE CtxInv'
<1> TypeOK /\ CallRight(s) /\ ScopeRight(s)  BY DEF CtxInv, Right
<1> USE DEF Seeing
<1>1. /\ call[s] \in Locals /\ shots \in Nat /\ pc[s] = "insert"
      /\ call[s].op \in Vision /\ call[s].image \in Image
      /\ call[s].shot \in 1..shots /\ Captured(call[s].image.shot, Key(s))
      /\ Use(s) \in Seeing \ {"insert", "read"}
      /\ Use(s) = "engine" => call[s].op = "ocrAll"
  BY ShotAssumption DEF TypeOK, Insert, CallRight, Use, Vision, Locals
<1>2. /\ FramesTyped' /\ FramesKept /\ pc'[s] = Use(s)
      /\ UNCHANGED <<shots, keys, call, clean, dir, res>>
  BY <1>1 DEF TypeOK, Insert, FramesTyped, FramesKept, frames, scope, Goes
<1>3. CallRight(s)'  BY <1>1, <1>2, SeesOn
<1>4. clean[s] => SeenRight(s)'
  BY <1>1, <1>2 DEF ScopeRight, SeenRight, Target
<1>5. CallTurn(s)
  BY <1>1, <1>2 DEF CallTurn, Insert, Goes, TypeOK, Labels, Outside
<1>6. CachesTyped' /\ CachesRight'
  <2> DEFINE k == Form(s)
             z == call[s].image.size
             e == [key |-> Key(s), image |-> call[s].image]
  <2>1. /\ k \in {"mat", "image"} /\ z \in Size
        /\ e \in [key : Nat, image : Image]
        /\ e.image.size = z /\ Captured(e.image.shot, e.key)
    <3>1. Key(s) \in Nat
      BY <1>1, ShotAssumption DEF TypeOK, Key, FramesTyped
    <3>2. QED  BY <1>1, <3>1 DEF Form, Image, Locals
  <2>2. decoded' = [decoded EXCEPT ![k][z] = e] /\ words' = words
    BY DEF Insert
  <2> HIDE DEF k, z, e
  <2>3. decoded' \in [{"mat", "image"} ->
                      [Size -> [key : Nat, image : Image] \cup {None}]]
    BY <2>1, <2>2 DEF TypeOK
  <2>4. CachesTyped'  BY <2>2, <2>3 DEF CachesTyped, TypeOK
  <2>5. ASSUME NEW j \in {"mat", "image"}, NEW y \in Size
        PROVE  decoded'[j][y] = IF j = k /\ y = z THEN e ELSE decoded[j][y]
    BY <2>1, <2>2 DEF TypeOK
  <2>6. CachesRight'
    BY <1>2, <2>1, <2>2, <2>5 DEF CtxInv, CachesRight, Captured
  <2>7. QED  BY <2>4, <2>6
<1>7. ReaderTyped'
  BY <1>1, <1>2 DEF TypeOK, Insert, Goes, ReaderTyped
<1>8. QED  BY <1>2, <1>3, <1>4, <1>5, <1>6, <1>7, TurnKeeps

\* The calls that only look at the image end without a trace.
LEMMA MatchKeeps ==
    ASSUME CtxInv, NEW s \in Script, Match(s) PROVE CtxInv'
BY ReturnKeeps DEF Match, Quiet, Inside, Labels, Outside

\* Likewise for the color checks.
LEMMA ColorsKeeps ==
    ASSUME CtxInv, NEW s \in Script, Colors(s) PROVE CtxInv'
BY ReturnKeeps DEF Colors, Quiet, Inside, Labels, Outside

\* A call that begins anew forgets the frame and the image.
LEMMA WaitAgainKeeps ==
    ASSUME CtxInv, NEW s \in Script, WaitAgain(s) PROVE CtxInv'
<1> DEFINE c == [NoCall EXCEPT !.op = call[s].op]
<1>1. /\ Quiet /\ pc[s] \in {"match", "color"} /\ Goes(s, "shared")
      /\ call' = [call EXCEPT ![s] = c]
  BY DEF WaitAgain, Quiet
<1>2. call[s].op \in Vision /\ 0 \in 0..shots
  BY <1>1, ShotAssumption DEF CtxInv, TypeOK, Right, CallRight, Seeing
<1>3. c \in Locals /\ c.image = None /\ c.shot = 0
  BY <1>2, LocalsTyped DEF NoCall
<1>4. "shared" \in Inside \ Seeing /\ pc[s] \in Inside
  BY <1>1 DEF Inside, Labels, Outside, Seeing
<1> HIDE DEF c
<1>5. call'[s] = c /\ pc'[s] = "shared"
  BY <1>1 DEF CtxInv, TypeOK, Goes
<1>6. CallRight(s)'
  BY <1>1, <1>2, <1>3, <1>5 DEF CallRight, Outside, Seeing, Quiet, frames
<1>7. SeenRight(s)'  BY <1>5 DEF SeenRight, Seeing
<1>8. QED  BY <1>1, <1>3, <1>4, <1>6, <1>7, QuietKeeps

\* ocr remembers the resolution it has looked for.
LEMMA BatchKeeps ==
    ASSUME CtxInv, NEW s \in Script, Batch(s) PROVE CtxInv'
<1>1. Quiet /\ pc[s] = "batch"  BY DEF Batch, Quiet
<1>2. CASE Returns(s)
  BY <1>1, <1>2, ReturnKeeps DEF Inside, Labels, Outside
<1>3. CASE call' = [call EXCEPT ![s].tag = res] /\ Goes(s, "engine")
  <2> DEFINE c == [call[s] EXCEPT !.tag = res]
  <2>1. /\ call[s] \in Locals /\ CallRight(s) /\ ScopeRight(s)
        /\ res \in Size \cup {None} /\ UNCHANGED <<shots, keys, dir, res>>
    BY <1>1 DEF CtxInv, TypeOK, Right, Quiet, frames, scope
  <2>2. /\ c \in Locals /\ c.tag = res /\ c.image = call[s].image
        /\ c.shot = call[s].shot /\ c.op = call[s].op
    BY <2>1, LocalsTyped DEF Locals
  <2>3. call' = [call EXCEPT ![s] = c]  BY <1>3 DEF CtxInv, TypeOK
  <2> HIDE DEF c
  <2>4. call'[s] = c /\ pc'[s] = "engine"
    BY <1>3, <2>3 DEF CtxInv, TypeOK, Goes
  <2>5. CallRight(s)'
    BY <1>1, <2>1, <2>2, <2>4
       DEF CallRight, Captured, Key, Seeing, Outside
  <2>6. clean[s] => SeenRight(s)'
    BY <1>1, <2>1, <2>2, <2>4
       DEF ScopeRight, SeenRight, Seeing, Target
  <2>7. {"engine", pc[s]} \subseteq (Inside \cup {"js"}) \ {"read"}
    BY <1>1 DEF Inside, Labels, Outside
  <2>8. QED  BY <1>1, <1>3, <2>2, <2>3, <2>5, <2>6, <2>7, QuietKeeps
<1>4. QED  BY <1>2, <1>3 DEF Batch

\* The mutex of the engine has one holder.
LEMMA LockEngineKeeps ==
    ASSUME CtxInv, NEW s \in Script, LockEngine(s) PROVE CtxInv'
<1> TypeOK /\ CallRight(s) /\ ScopeRight(s)  BY DEF CtxInv, Right
<1>1. /\ FramesKept /\ pc[s] = "engine" /\ pc'[s] = "read"
      /\ UNCHANGED <<shots, keys, call, dir, res, clean>>
  BY ShotAssumption DEF TypeOK, LockEngine, Goes, FramesKept, frames, scope
<1>2. FramesTyped' /\ CachesTyped' /\ CachesRight'
  BY <1>1 DEF CtxInv, TypeOK, LockEngine, FramesTyped, CachesTyped,
     CachesRight, Captured, frames
<1>3. ReaderTyped'
  BY KindAssumption DEF TypeOK, LockEngine, Goes, ReaderTyped, Owner
<1>4. CallRight(s)'  BY <1>1, SeesOn DEF Seeing
<1>5. clean[s] => SeenRight(s)'
  BY <1>1 DEF ScopeRight, SeenRight, Seeing, Target
<1>6. CallTurn(s)
  BY <1>1 DEF CallTurn, LockEngine, Goes, TypeOK, Labels, Outside
<1>7. QED  BY <1>2, <1>3, <1>4, <1>5, <1>6, TurnKeeps

\* A reading that leaves no results gives the mutex back.
LEMMA ReadAloneKeeps ==
    ASSUME CtxInv, NEW s \in Script, ReadAlone(s) PROVE CtxInv'
<1> TypeOK  BY DEF CtxInv
<1>1. /\ shots \in Nat /\ UNCHANGED <<shots, keys>> /\ FramesKept
      /\ pc[s] = "read" /\ Returns(s)
  BY ShotAssumption DEF TypeOK, ReadAlone, FramesKept, frames
<1>2. /\ call' \in [Script -> Locals] /\ pc'[s] = "js"
      /\ CallRight(s)' /\ SeenRight(s)'
  BY <1>1, ReturnsRight
<1>3. FramesTyped' /\ CachesTyped' /\ CachesRight'
  BY <1>1 DEF CtxInv, TypeOK, ReadAlone, FramesTyped, CachesTyped,
     CachesRight, Captured, frames
<1>4. ReaderTyped'
  BY KindAssumption DEF TypeOK, ReadAlone, Returns, Goes, ReaderTyped, Owner
<1>5. CallTurn(s)
  BY <1>1, <1>2
     DEF CallTurn, ReadAlone, Returns, Goes, TypeOK, Labels, Outside
<1>6. QED  BY <1>2, <1>3, <1>4, <1>5, TurnKeeps

\* The results of a whole image are kept for its frame.
LEMMA WordsKept ==
    ASSUME CtxInv, NEW s \in Script, NEW r \in Size \cup {None},
           pc[s] = "read", KeepWords(s, r)
    PROVE  CtxInv'
<1> TypeOK /\ CallRight(s)  BY DEF CtxInv, Right
<1>1. /\ call[s].shot \in 1..shots /\ shots \in Nat /\ Key(s) \in Nat
      /\ call[s].image \in Image /\ Captured(call[s].image.shot, Key(s))
  BY ShotAssumption DEF TypeOK, CallRight, Seeing, Locals, Key
<1>2. FramesTyped' /\ UNCHANGED <<shots, keys>> /\ FramesKept
  BY <1>1 DEF TypeOK, KeepWords, FramesTyped, FramesKept, frames
<1>3. /\ call' \in [Script -> Locals] /\ pc'[s] = "js"
      /\ CallRight(s)' /\ SeenRight(s)'
  BY <1>1, <1>2, ReturnsRight DEF KeepWords
<1>4. CallTurn(s)
  BY <1>1, <1>2, <1>3
     DEF CallTurn, KeepWords, Returns, Goes, TypeOK, Labels, Outside
<1>5. CachesTyped' /\ CachesRight'
  BY <1>1, <1>2 DEF CtxInv, TypeOK, KeepWords, CachesTyped, CachesRight,
     Captured, Words
<1>6. ReaderTyped'
  BY KindAssumption DEF TypeOK, KeepWords, Returns, Goes, ReaderTyped, Owner
<1>7. QED  BY <1>2, <1>3, <1>4, <1>5, <1>6, TurnKeeps

\* ocr keeps them under the resolution it has looked for.
LEMMA OcrReadsKeeps ==
    ASSUME CtxInv, NEW s \in Script, OcrReads(s) PROVE CtxInv'
<1>1. call[s].tag \in Size \cup {None}  BY DEF CtxInv, TypeOK, Locals
<1>2. QED  BY <1>1, WordsKept DEF OcrReads

\* ocrAll keeps them under the resolution of the moment.
LEMMA OcrAllReadsKeeps ==
    ASSUME CtxInv, NEW s \in Script, OcrAllReads(s) PROVE CtxInv'
BY WordsKept DEF CtxInv, TypeOK, OcrAllReads

\* Both storage calls note the directory of the moment.
LEMMA LoadKeeps ==
    ASSUME CtxInv, NEW s \in Script, Load(s) PROVE CtxInv'
<1>1. Quiet /\ pc[s] = "load" /\ dir \in Owner \cup {None}
  BY DEF Load, Quiet, CtxInv, TypeOK
<1>2. CASE Returns(s)
  BY <1>1, <1>2, ReturnKeeps DEF Inside, Labels, Outside
<1>3. CASE call' = [call EXCEPT ![s].from = dir] /\ Goes(s, "path")
  <2> DEFINE c == [call[s] EXCEPT !.from = dir]
  <2>1. /\ call[s] \in Locals /\ shots \in Nat /\ CallRight(s)
    BY ShotAssumption DEF CtxInv, TypeOK, Right
  <2>2. call[s].image = None /\ call[s].shot \in 0..shots
    BY <1>1, <2>1 DEF CallRight, Seeing, Locals
  <2>3. /\ c \in Locals /\ c.from = dir /\ c.image = None
        /\ c.shot = call[s].shot
    BY <1>1, <2>1, <2>2, LocalsTyped DEF Locals
  <2>4. call' = [call EXCEPT ![s] = c]  BY <1>3 DEF CtxInv, TypeOK
  <2>5. /\ "path" \in Inside \ Seeing
        /\ pc[s] \in (Inside \cup {"js"}) \ Seeing
    BY <1>1 DEF Inside, Labels, Outside, Seeing
  <2> HIDE DEF c
  <2>6. QED  BY <1>1, <1>3, <2>2, <2>3, <2>4, <2>5, BlindKeeps
<1>4. QED  BY <1>2, <1>3 DEF Load

\* The second look at the directory finds what the first one found.
LEMMA PathKeeps ==
    ASSUME CtxInv, NEW s \in Script, Path(s) PROVE CtxInv'
<1>1. /\ Quiet /\ pc[s] = "path" /\ dir \in Owner \cup {None}
      /\ call' = [call EXCEPT ![s].to = dir] /\ Goes(s, "write")
  BY DEF Path, Quiet, CtxInv, TypeOK
<1> DEFINE c == [call[s] EXCEPT !.to = dir]
<1>2. /\ call[s] \in Locals /\ shots \in Nat
      /\ CallRight(s) /\ ScopeRight(s)
  BY ShotAssumption DEF CtxInv, TypeOK, Right
<1>3. /\ call[s].image = None /\ call[s].shot \in 0..shots
      /\ clean[s] => call[s].from = dir
  BY <1>1, <1>2 DEF CallRight, Seeing, Locals, ScopeRight, SeenRight
<1>4. /\ c \in Locals /\ c.to = dir /\ c.image = None
      /\ c.shot = call[s].shot /\ c.from = call[s].from
  BY <1>1, <1>2, <1>3, LocalsTyped DEF Locals
<1>5. call' = [call EXCEPT ![s] = c]  BY <1>1 DEF CtxInv, TypeOK
<1>6. /\ "write" \in Inside \ Seeing
      /\ pc[s] \in (Inside \cup {"js"}) \ Seeing
  BY <1>1 DEF Inside, Labels, Outside, Seeing
<1> HIDE DEF c
<1>7. /\ c.shot \in 0..shots
      /\ clean[s] => c.from = dir
  BY <1>3, <1>4
<1>8. QED  BY <1>1, <1>4, <1>5, <1>6, <1>7, BlindKeeps

\* The end of a write.
LEMMA WriteKeeps ==
    ASSUME CtxInv, NEW s \in Script, Write(s) PROVE CtxInv'
BY ReturnKeeps DEF Write, Quiet, Inside, Labels, Outside

-----------------------------------------------------------------------------
(* Between ctx calls *)

\* A reload that is under way is of a script.
ReloadTyped ==
    /\ reload \in [of : Script \cup {None},
                  at : {"none", "dir", "res", "lock", "hook"}]
    /\ reload.at # "none" => reload.of \in Script

\* A step of script s outside of ctx calls: if it sets the scope, the others
\* have it in their history.
PlaceTurn(s) ==
    /\ pc' \in [Script -> Labels] /\ {pc[s], pc'[s]} \subseteq Outside
    /\ stack' \in [Script -> Seq(Owner)] /\ saved' \in [Script -> Seq(Kept)]
    /\ \A t \in Script \ {s} :
            /\ pc'[t] = pc[t]
            /\ stack'[t] = stack[t] /\ saved'[t] = saved[t]
    /\ dir' \in Owner \cup {None} /\ res' \in Size \cup {None}
    /\ clean' \in [Script -> BOOLEAN]
    /\ \/ UNCHANGED <<dir, res, clean>>
       \/ \A t \in Script \ {s} : ~clean'[t]
    /\ enabled' \subseteq Script /\ hook' \in Script \cup {None}
    /\ UNCHANGED <<frames, caches, call, plan>>

\* A step between calls only has to get the place of its script right.
LEMMA PlaceKeeps ==
    ASSUME CtxInv, NEW s \in Script, PlaceTurn(s), ReloadTyped',
           StackRight(s)', clean'[s] => KeptRight(s)' /\ PlaceRight(s)'
    PROVE  CtxInv'
<1> TypeOK  BY DEF CtxInv
<1> USE DEF frames, caches
<1>1. \A t \in Script : pc'[t] = "read" <=> reader' = t
  BY DEF TypeOK, PlaceTurn, Outside
<1>2. TypeOK'
  BY <1>1 DEF TypeOK, PlaceTurn, ReloadTyped
<1>3. CachesRight'  BY DEF CtxInv, CachesRight, Captured, PlaceTurn
<1>4. shots \in Nat /\ shots' \in Nat /\ FramesKept
  BY ShotAssumption DEF TypeOK, PlaceTurn, FramesKept
<1>5. ASSUME NEW t \in Script \ {s} PROVE Right(t)'
  <2>1. Right(t) /\ call[t].shot \in Nat  BY DEF CtxInv, TypeOK, Locals
  <2>2. UNCHANGED <<dir, res, clean[t]>> \/ ~clean'[t]  BY DEF PlaceTurn
  <2>3. call'[t] = call[t]  BY DEF PlaceTurn
  <2>4. QED  BY <1>4, <2>1, <2>2, <2>3, OthersKeep DEF PlaceTurn
<1>6. CallRight(s)' /\ SeenRight(s)'
  <2>1. CallRight(s) /\ call' = call /\ UNCHANGED <<shots, keys>>
    BY DEF CtxInv, Right, PlaceTurn
  <2>2. QED
    BY <2>1 DEF CallRight, SeenRight, PlaceTurn, Outside, Seeing
<1>7. QED
  BY <1>2, <1>3, <1>5, <1>6 DEF CtxInv, Right, ScopeRight, ReloadTyped

\* A step that leaves the scope and what is kept alone.
LEMMA StayKeeps ==
    ASSUME CtxInv, NEW s \in Script, UNCHANGED <<scope, saved>>,
           pc[s] \in Outside, NEW l \in Outside, Goes(s, l),
           NEW q \in Seq(Owner), stack' = [stack EXCEPT ![s] = q],
           enabled' \subseteq Script, hook' \in Script \cup {None},
           UNCHANGED <<frames, caches, call, plan>>, ReloadTyped',
           StackRight(s)', clean[s] => PlaceRight(s)',
           \A i \in 1..Len(saved[s]) : q[i] = stack[s][i],
           clean[s] /\ pc[s] = "keep" => l = "keep"
    PROVE  CtxInv'
<1> TypeOK  BY DEF CtxInv
<1>1. PlaceTurn(s)
  <2>1. pc' \in [Script -> Labels] /\ pc'[s] = l
    BY DEF TypeOK, Goes, Outside, Labels
  <2>2. stack' \in [Script -> Seq(Owner)] /\ stack'[s] = q  BY DEF TypeOK
  <2>3. \A t \in Script \ {s} : pc'[t] = pc[t] /\ stack'[t] = stack[t]
    BY DEF TypeOK, Goes
  <2>4. QED  BY <2>1, <2>2, <2>3 DEF TypeOK, PlaceTurn, scope
<1>2. ASSUME clean'[s] PROVE KeptRight(s)' /\ PlaceRight(s)'
  <2>1. clean[s] /\ saved' = saved  BY <1>2 DEF scope
  <2>2. KeptRight(s)  BY <2>1 DEF CtxInv, Right, ScopeRight
  <2>3. stack'[s] = q /\ pc'[s] = l  BY DEF TypeOK, Goes
  <2>4. KeptRight(s)'  BY <2>1, <2>2, <2>3 DEF KeptRight
  <2>5. QED  BY <2>1, <2>4
<1>3. QED  BY <1>1, <1>2, PlaceKeeps

\* A script that runs gets a stack of its own.
LEMMA RunsKeeps ==
    ASSUME CtxInv, NEW s \in Script, pc[s] = "idle",
           NEW l \in {"dir", "js"}, Goes(s, l),
           stack' = [stack EXCEPT ![s] = <<s>>],
           UNCHANGED <<scope, frames, caches, saved, call, plan>>,
           enabled' \subseteq Script, hook' \in Script \cup {None},
           ReloadTyped',
           l = "js" => UNCHANGED <<dir, res>>
    PROVE  CtxInv'
<1> TypeOK /\ StackRight(s) /\ ScopeRight(s)  BY DEF CtxInv, Right
<1>1. /\ stack'[s] = <<s>> /\ pc'[s] = l /\ saved'[s] = saved[s]
      /\ Len(stack[s]) = 0 /\ Len(saved[s]) = 0
  BY DEF TypeOK, Goes, StackRight
<1>2. StackRight(s)'  BY <1>1 DEF StackRight
<1>3. clean[s] => PlaceRight(s)'
  BY <1>1 DEF TypeOK, ScopeRight, PlaceRight, Setting, Here, Top, scope
<1>4. <<s>> \in Seq(Owner)  BY DEF Owner
<1>5. pc[s] \in Outside /\ l \in Outside  BY DEF Outside
<1>6. \A i \in 1..Len(saved[s]) : <<s>>[i] = stack[s][i]  BY <1>1
<1>7. QED  BY <1>2, <1>3, <1>4, <1>5, <1>6, StayKeeps

\* start_task takes the script from the registry.
LEMMA StartTaskKeeps ==
    ASSUME CtxInv, NEW s \in Script, StartTask(s) PROVE CtxInv'
<1>1. enabled' \subseteq Script /\ hook' \in Script \cup {None}
  BY DEF CtxInv, TypeOK, StartTask, Script
<1>2. ReloadTyped'
  BY DEF CtxInv, TypeOK, ReloadTyped, StartTask, Runs, rest
<1>3. QED  BY <1>1, <1>2, RunsKeeps DEF StartTask, Runs, InRegistry, rest

\* enable_script runs its hook under the registry's lock.
LEMMA EnableScriptKeeps ==
    ASSUME CtxInv, NEW s \in Script, EnableScript(s) PROVE CtxInv'
<1>1. enabled' \subseteq Script /\ hook' \in Script \cup {None}
  BY DEF CtxInv, TypeOK, EnableScript
<1>2. ReloadTyped'
  BY DEF CtxInv, TypeOK, ReloadTyped, EnableScript, Runs, rest
<1>3. QED  BY <1>1, <1>2, RunsKeeps DEF EnableScript, Runs, InRegistry, rest

\* So does disable_script, in the scope that it finds.
LEMMA DisableScriptKeeps ==
    ASSUME CtxInv, NEW s \in Script, DisableScript(s) PROVE CtxInv'
<1>1. enabled' \subseteq Script /\ hook' \in Script \cup {None}
  BY DEF CtxInv, TypeOK, DisableScript
<1>2. ReloadTyped'
  BY DEF CtxInv, TypeOK, ReloadTyped, DisableScript, Runs, rest
<1>3. QED
  BY <1>1, <1>2, RunsKeeps
     DEF DisableScript, Runs, InRegistry, rest, scope

\* tick_triggers takes the script from the registry.
LEMMA TickTriggerKeeps ==
    ASSUME CtxInv, NEW s \in Script, TickTrigger(s) PROVE CtxInv'
<1>1. enabled' \subseteq Script /\ hook' \in Script \cup {None}
  BY DEF CtxInv, TypeOK, TickTrigger, state
<1>2. ReloadTyped'
  BY DEF CtxInv, TypeOK, ReloadTyped, TickTrigger, Runs, rest
<1>3. QED
  BY <1>1, <1>2, RunsKeeps
     DEF TickTrigger, Runs, InRegistry, rest, scope

\* The end of a hook or a task empties the stack.
LEMMA EndKeeps ==
    ASSUME CtxInv, NEW s \in Script, End(s) PROVE CtxInv'
<1> TypeOK /\ StackRight(s) /\ ScopeRight(s)  BY DEF CtxInv, Right
<1>1. /\ pc[s] = "js" /\ Len(stack[s]) = 1 /\ Goes(s, "idle")
      /\ stack' = [stack EXCEPT ![s] = <<>>]
      /\ UNCHANGED <<scope, frames, caches, saved, call, plan>>
  BY DEF End
<1>2. enabled' \subseteq Script /\ hook' \in Script \cup {None}
  BY DEF TypeOK, End
<1>3. ReloadTyped'  BY DEF CtxInv, TypeOK, ReloadTyped, End, NoReload
<1>4. /\ stack'[s] = <<>> /\ pc'[s] = "idle" /\ saved'[s] = saved[s]
      /\ Len(saved[s]) = 0 /\ stack[s][1] = s
  BY <1>1 DEF TypeOK, Goes, StackRight
<1>5. StackRight(s)'  BY <1>4 DEF StackRight
<1>6. clean[s] => PlaceRight(s)'
  BY <1>1, <1>4 DEF TypeOK, ScopeRight, PlaceRight, Setting, Here, Top, scope
<1>7. {"js", "idle"} \subseteq Outside  BY DEF Outside
<1>8. \A i \in 1..Len(saved[s]) : <<>>[i] = stack[s][i]  BY <1>4
<1>9. QED
  BY <1>1, <1>2, <1>3, <1>5, <1>6, <1>7, <1>8, StayKeeps, EmptySeq

\* The function of a library has come to its end.
LEMMA LeaveLibraryKeeps ==
    ASSUME CtxInv, NEW s \in Script, LeaveLibrary(s) PROVE CtxInv'
<1> TypeOK /\ StackRight(s)  BY DEF CtxInv, Right
<1>1. /\ pc[s] = "js" /\ Len(stack[s]) > 1 /\ Goes(s, "undir")
      /\ UNCHANGED <<scope, saved, frames, caches, call, plan>>
      /\ stack' = [stack EXCEPT ![s] = stack[s]] /\ stack[s] \in Seq(Owner)
      /\ UNCHANGED state
  BY DEF LeaveLibrary, nested, rest, TypeOK
<1>2. enabled' \subseteq Script /\ hook' \in Script \cup {None}
  BY <1>1 DEF TypeOK, state
<1>3. ReloadTyped'
  BY DEF CtxInv, TypeOK, ReloadTyped, LeaveLibrary, rest
<1>4. stack'[s] = stack[s] /\ pc'[s] = "undir" /\ saved'[s] = saved[s]
  BY <1>1 DEF TypeOK, Goes
<1>5. StackRight(s)'  BY <1>1, <1>4 DEF StackRight
<1>6. PlaceRight(s)'  BY <1>4 DEF PlaceRight, Setting
<1>7. {"js", "undir"} \subseteq Outside  BY DEF Outside
<1>8. QED  BY <1>1, <1>2, <1>3, <1>5, <1>6, <1>7, StayKeeps

\* A step that sets the scope, as its script does.
LEMMA SetsKeeps ==
    ASSUME CtxInv, NEW s \in Script, pc[s] \in Outside \ {"keep"},
           NEW l \in Outside \ {"keep"}, Goes(s, l),
           dir' \in Owner \cup {None}, res' \in Size \cup {None},
           NEW own \in BOOLEAN, Disturbs(s, own),
           own => clean[s] \/ Len(saved[s]) = 0,
           UNCHANGED <<frames, caches, state, nested, call, rest>>,
           l \in {"undir", "unres"} => Len(stack[s]) > 1,
           pc[s] # "idle", l # "idle", clean'[s] => PlaceRight(s)'
    PROVE  CtxInv'
<1> TypeOK /\ StackRight(s) /\ ScopeRight(s)  BY DEF CtxInv, Right
<1> USE DEF nested, state, rest
<1>1. pc'[s] = l /\ clean'[s] = own  BY DEF TypeOK, Goes, Disturbs
<1>2. PlaceTurn(s)
  <2>1. pc' \in [Script -> Labels]  BY DEF TypeOK, Goes, Outside, Labels
  <2>2. clean' \in [Script -> BOOLEAN]  BY DEF Disturbs
  <2>3. \A t \in Script \ {s} : ~clean'[t] /\ pc'[t] = pc[t]
    BY DEF TypeOK, Goes, Disturbs
  <2>4. QED  BY <1>1, <2>1, <2>2, <2>3 DEF TypeOK, PlaceTurn
<1>3. StackRight(s)'  BY <1>1 DEF StackRight
<1>4. clean'[s] => KeptRight(s)'
  <2>1. CASE clean[s]  BY <1>1, <2>1 DEF ScopeRight, KeptRight
  <2>2. CASE Len(saved[s]) = 0  BY <2>2 DEF KeptRight
  <2>3. QED  BY <1>1, <2>1, <2>2
<1>5. ReloadTyped'  BY DEF CtxInv, TypeOK, ReloadTyped
<1>6. QED  BY <1>2, <1>3, <1>4, <1>5, PlaceKeeps

\* The directory is set first; for a script itself this begins its history.
LEMMA SetDirKeeps ==
    ASSUME CtxInv, NEW s \in Script, SetDir(s) PROVE CtxInv'
<1> TypeOK /\ StackRight(s) /\ ScopeRight(s)  BY DEF CtxInv, Right
<1> DEFINE own == clean[s] \/ Len(stack[s]) = 1
<1>1. /\ pc[s] = "dir" /\ dir' = Top(s) /\ res' = res /\ Goes(s, "res")
      /\ Disturbs(s, own)
      /\ UNCHANGED <<frames, caches, state, nested, call, rest>>
  BY DEF SetDir
<1>2. Len(stack[s]) > 0 /\ stack[s] \in Seq(Owner)
  BY <1>1 DEF TypeOK, StackRight
<1>3. dir' \in Owner \cup {None} /\ res' \in Size \cup {None}
  BY <1>1, <1>2, ElementOfSeq DEF TypeOK, Top
<1>4. own => clean[s] \/ Len(saved[s]) = 0  BY DEF StackRight
<1>5. pc'[s] = "res" /\ stack' = stack  BY <1>1 DEF TypeOK, Goes, nested
<1>6. PlaceRight(s)'  BY <1>1, <1>5 DEF PlaceRight, Setting, Top
<1>7. own \in BOOLEAN  BY DEF TypeOK
<1>8. {"dir", "res"} \subseteq Outside \ {"keep"}  BY DEF Outside
<1> HIDE DEF own
<1>9. QED  BY <1>1, <1>3, <1>4, <1>6, <1>7, <1>8, SetsKeeps

\* With the resolution the scope is complete.
LEMMA SetResKeeps ==
    ASSUME CtxInv, NEW s \in Script, SetRes(s) PROVE CtxInv'
<1> TypeOK /\ StackRight(s) /\ ScopeRight(s)  BY DEF CtxInv, Right
<1>1. /\ pc[s] = "res" /\ dir' = dir /\ res' = Design[Top(s)]
      /\ Goes(s, "js") /\ Disturbs(s, clean[s])
      /\ UNCHANGED <<frames, caches, state, nested, call, rest>>
  BY DEF SetRes
<1>2. Len(stack[s]) > 0 /\ stack[s] \in Seq(Owner)
  BY <1>1 DEF TypeOK, StackRight
<1>3. Top(s) \in Owner  BY <1>2, ElementOfSeq DEF Top
<1>4. dir' \in Owner \cup {None} /\ res' \in Size \cup {None}
  BY <1>1, <1>3, SizesTyped DEF TypeOK
<1>5. pc'[s] = "js" /\ stack' = stack /\ clean'[s] = clean[s]
  BY <1>1 DEF TypeOK, Goes, nested, Disturbs
<1>6. clean'[s] => PlaceRight(s)'
  BY <1>1, <1>2, <1>5 DEF PlaceRight, ScopeRight, Setting, Top, Here
<1>7. clean[s] \in BOOLEAN  BY DEF TypeOK
<1>8. {"res", "js"} \subseteq Outside \ {"keep"}  BY DEF Outside
<1>9. QED  BY <1>1, <1>4, <1>6, <1>7, <1>8, SetsKeeps

\* The way back from a library: its caller is below it in the stack.
LEMMA RestoreDirKeeps ==
    ASSUME CtxInv, NEW s \in Script, RestoreDir(s) PROVE CtxInv'
<1> TypeOK /\ StackRight(s) /\ ScopeRight(s)  BY DEF CtxInv, Right
<1> DEFINE n == Len(saved[s])
<1>1. /\ pc[s] = "undir" /\ dir' = saved[s][n].dir /\ res' = res
      /\ Goes(s, "unres") /\ Disturbs(s, clean[s])
      /\ UNCHANGED <<frames, caches, state, nested, call, rest>>
  BY DEF RestoreDir
<1>2. saved[s] \in Seq(Kept) /\ stack[s] \in Seq(Owner)  BY DEF TypeOK
<1>3. pc[s] = "undir"  BY <1>1
<1>4. Len(stack[s]) > 1 /\ n = Len(stack[s]) - 1
  BY <1>2, <1>3 DEF StackRight
<1>5. n \in 1..n  BY <1>4, <1>2
<1>6. saved[s][n] \in Kept  BY <1>2, <1>5, ElementOfSeq
<1>7. dir' \in Owner \cup {None} /\ res' \in Size \cup {None}
  BY <1>1, <1>6 DEF TypeOK, Kept
<1>8. pc'[s] = "unres" /\ stack' = stack /\ clean'[s] = clean[s]
  BY <1>1 DEF TypeOK, Goes, nested, Disturbs
<1>9. clean'[s] => PlaceRight(s)'
  BY <1>1, <1>4, <1>2, <1>5, <1>8
     DEF PlaceRight, ScopeRight, KeptRight, Setting
<1>10. clean[s] \in BOOLEAN  BY DEF TypeOK
<1>11. {"undir", "unres"} \subseteq Outside \ {"keep"}  BY DEF Outside
<1>12. QED  BY <1>1, <1>4, <1>7, <1>9, <1>10, <1>11, SetsKeeps

\* With the resolution the scope is the caller's again.
LEMMA RestoreResKeeps ==
    ASSUME CtxInv, NEW s \in Script, RestoreRes(s) PROVE CtxInv'
<1> TypeOK /\ StackRight(s) /\ ScopeRight(s)  BY DEF CtxInv, Right
<1> DEFINE n == Len(saved[s])
<1>1. /\ pc[s] = "unres" /\ dir' = dir /\ res' = saved[s][n].res
      /\ Goes(s, "js") /\ Disturbs(s, clean[s])
      /\ stack' = [stack EXCEPT ![s] = SubSeq(@, 1, Len(@) - 1)]
      /\ saved' = [saved EXCEPT ![s] = SubSeq(@, 1, Len(@) - 1)]
      /\ UNCHANGED <<frames, caches, state, call, rest>>
  BY DEF RestoreRes
<1>2. /\ Len(stack[s]) = n + 1 /\ n \in Nat \ {0} /\ n \in 1..n
      /\ saved[s] \in Seq(Kept) /\ stack[s] \in Seq(Owner)
      /\ stack[s][1] = s
  <2>1. saved[s] \in Seq(Kept) /\ stack[s] \in Seq(Owner)  BY DEF TypeOK
  <2>2. Len(stack[s]) > 1  BY <1>1 DEF StackRight
  <2>3. Len(stack[s]) = n + 1 /\ stack[s][1] = s
    BY <2>1, <2>2 DEF StackRight
  <2>4. QED  BY <2>1, <2>2, <2>3
<1>3. /\ pc'[s] = "js" /\ clean'[s] = clean[s]
      /\ stack'[s] = SubSeq(stack[s], 1, n)
      /\ saved'[s] = SubSeq(saved[s], 1, n - 1)
  BY <1>1, <1>2 DEF TypeOK, Goes, Disturbs
<1>4. /\ stack'[s] \in Seq(Owner) /\ Len(stack'[s]) = n
      /\ \A i \in 1..n : stack'[s][i] = stack[s][i]
  <2>1. \A i \in 1..n : stack[s][i] \in Owner  BY <1>2, ElementOfSeq
  <2>2. QED  BY <1>2, <1>3, <2>1, SubSeqProperties
<1>5. /\ saved'[s] \in Seq(Kept) /\ Len(saved'[s]) = n - 1
      /\ \A i \in 1..(n - 1) : saved'[s][i] = saved[s][i]
  <2>1. \A i \in 1..(n - 1) : saved[s][i] \in Kept
    BY <1>2, ElementOfSeq
  <2>2. n - 1 \in Int /\ 1 \in Int  BY <1>2
  <2>3. /\ SubSeq(saved[s], 1, n - 1) \in Seq(Kept)
        /\ Len(SubSeq(saved[s], 1, n - 1)) =
             IF 1 <= n - 1 THEN (n - 1) - 1 + 1 ELSE 0
        /\ \A i \in 1..(n - 1) - 1 + 1 :
             SubSeq(saved[s], 1, n - 1)[i] = saved[s][1 + i - 1]
    BY <2>1, <2>2, SubSeqProperties
  <2>4. QED  BY <1>2, <1>3, <2>3
<1> HIDE DEF n
<1>6. saved[s][n] \in Kept  BY <1>2, ElementOfSeq DEF n
<1>7. PlaceTurn(s)
  <2>1. pc' \in [Script -> Labels] /\ {pc[s], pc'[s]} \subseteq Outside
    BY <1>1, <1>3 DEF TypeOK, Goes, Labels, Outside
  <2>2. stack' \in [Script -> Seq(Owner)] /\ saved' \in [Script -> Seq(Kept)]
    BY <1>1, <1>4, <1>5 DEF TypeOK
  <2>3. \A t \in Script \ {s} :
            /\ pc'[t] = pc[t] /\ ~clean'[t]
            /\ stack'[t] = stack[t] /\ saved'[t] = saved[t]
    BY <1>1 DEF TypeOK, Goes, Disturbs
  <2>4. /\ dir' \in Owner \cup {None} /\ res' \in Size \cup {None}
        /\ clean' \in [Script -> BOOLEAN]
    BY <1>1, <1>6 DEF TypeOK, Kept, Disturbs
  <2>5. QED
    BY <1>1, <2>1, <2>2, <2>3, <2>4 DEF TypeOK, PlaceTurn, state, rest
<1>8. StackRight(s)'  BY <1>2, <1>3, <1>4, <1>5 DEF StackRight
<1>9. ASSUME clean'[s] PROVE KeptRight(s)' /\ PlaceRight(s)'
  <2>1. KeptRight(s) /\ PlaceRight(s)  BY <1>3, <1>9 DEF ScopeRight
  <2>2. KeptRight(s)'
    BY <1>1, <1>2, <1>3, <1>4, <1>5, <2>1 DEF KeptRight, n
  <2>3. Len(stack[s]) - 1 = n  BY <1>2
  <2>4. dir = stack[s][n]  BY <1>1, <2>1, <2>3 DEF PlaceRight
  <2>5. saved[s][n].res = Design[stack[s][n]]
    BY <1>1, <1>2, <2>1 DEF KeptRight, n
  <2>6. dir = stack[s][n] /\ res' = Design[stack[s][n]]
    BY <1>1, <2>4, <2>5
  <2>7. stack'[s][Len(stack'[s])] = stack[s][n] /\ stack'[s] # <<>>
    BY <1>2, <1>4
  <2>8. PlaceRight(s)'
    BY <1>1, <1>3, <2>6, <2>7 DEF PlaceRight, Here, Top, Setting, n
  <2>9. QED  BY <2>2, <2>8
<1>10. ReloadTyped'  BY <1>1 DEF CtxInv, TypeOK, ReloadTyped, rest
<1>11. QED  BY <1>7, <1>8, <1>9, <1>10, PlaceKeeps

\* A library that is called goes on the stack, with what its caller has set.
LEMMA CallLibraryKeeps ==
    ASSUME CtxInv, NEW s \in Script, NEW l \in Library, CallLibrary(s, l)
    PROVE  CtxInv'
<1> TypeOK /\ StackRight(s) /\ ScopeRight(s)  BY DEF CtxInv, Right
<1> DEFINE k == [dir |-> dir, res |-> None]
           n == Len(stack[s])
<1>1. /\ pc[s] = "js" /\ Goes(s, "keep")
      /\ stack' = [stack EXCEPT ![s] = Append(stack[s], l)]
      /\ saved' = [saved EXCEPT ![s] = Append(saved[s], k)]
      /\ UNCHANGED <<scope, frames, caches, state, call, rest>>
  BY DEF CallLibrary, TypeOK
<1>2. stack[s] \in Seq(Owner) /\ saved[s] \in Seq(Kept)
  BY DEF TypeOK
<1>3. /\ n \in Nat /\ n > 0 /\ Len(saved[s]) = n - 1 /\ stack[s][1] = s
  BY <1>1, <1>2 DEF StackRight
<1>4. k \in Kept /\ l \in Owner  BY DEF TypeOK, Kept, Owner
<1> HIDE DEF k, n
<1>5. /\ pc'[s] = "keep" /\ stack'[s] = Append(stack[s], l)
      /\ saved'[s] = Append(saved[s], k) /\ clean'[s] = clean[s]
  BY <1>1 DEF TypeOK, Goes, scope
<1>6. /\ stack'[s] \in Seq(Owner) /\ Len(stack'[s]) = n + 1
      /\ \A i \in 1..n : stack'[s][i] = stack[s][i]
  BY <1>2, <1>4, <1>5, AppendProperties DEF n
<1>7. /\ saved'[s] \in Seq(Kept) /\ Len(saved'[s]) = n
      /\ \A i \in 1..(n - 1) : saved'[s][i] = saved[s][i]
      /\ saved'[s][n] = k
  <2>1. /\ Append(saved[s], k) \in Seq(Kept)
        /\ Len(Append(saved[s], k)) = Len(saved[s]) + 1
        /\ \A i \in 1..Len(saved[s]) : Append(saved[s], k)[i] = saved[s][i]
        /\ Append(saved[s], k)[Len(saved[s]) + 1] = k
    BY <1>2, <1>4, AppendProperties
  <2>2. Len(saved[s]) + 1 = n  BY <1>3
  <2>3. QED  BY <1>3, <1>5, <2>1, <2>2
<1>8. PlaceTurn(s)
  <2>1. pc' \in [Script -> Labels] /\ {pc[s], pc'[s]} \subseteq Outside
    BY <1>1, <1>5 DEF TypeOK, Goes, Labels, Outside
  <2>2. stack' \in [Script -> Seq(Owner)] /\ saved' \in [Script -> Seq(Kept)]
    BY <1>1, <1>5, <1>6, <1>7 DEF TypeOK
  <2>3. \A t \in Script \ {s} :
            /\ pc'[t] = pc[t]
            /\ stack'[t] = stack[t] /\ saved'[t] = saved[t]
    BY <1>1 DEF TypeOK, Goes
  <2>4. QED
    BY <1>1, <2>1, <2>2, <2>3 DEF TypeOK, PlaceTurn, scope, state, rest
<1>9. StackRight(s)'
  BY <1>3, <1>5, <1>6, <1>7 DEF StackRight
<1>10. ASSUME clean'[s] PROVE KeptRight(s)' /\ PlaceRight(s)'
  <2>1. /\ dir = stack[s][n] /\ res = Design[stack[s][n]]
        /\ KeptRight(s) /\ dir' = dir /\ res' = res
    <3>1. stack[s] # <<>>  BY <1>3 DEF n
    <3>2. QED
      BY <1>1, <1>5, <1>10, <3>1
         DEF ScopeRight, PlaceRight, Here, Top, Setting, n, scope
  <2>2. ASSUME NEW i \in 1..Len(saved[s])'
        PROVE  /\ saved'[s][i].dir = stack'[s][i]
               /\ i < Len(saved'[s]) =>
                    saved'[s][i].res = Design[stack'[s][i]]
    <3>1. CASE i = n
      BY <1>3, <1>6, <1>7, <2>1, <3>1 DEF k
    <3>2. CASE i # n
      <4>1. i \in 1..(n - 1) /\ i \in 1..n  BY <1>3, <1>7, <2>2, <3>2
      <4>2. saved'[s][i] = saved[s][i] /\ stack'[s][i] = stack[s][i]
        BY <1>6, <1>7, <4>1
      <4>3. QED  BY <1>1, <1>3, <2>1, <4>1, <4>2 DEF KeptRight
    <3>3. QED  BY <3>1, <3>2
  <2>3. KeptRight(s)'  BY <1>5, <2>2 DEF KeptRight
  <2>4. stack'[s][Len(stack'[s]) - 1] = stack[s][n]
    BY <1>3, <1>6
  <2>5. PlaceRight(s)'  BY <1>5, <2>1, <2>4 DEF PlaceRight, Setting
  <2>6. QED  BY <2>3, <2>5
<1>11. ReloadTyped'  BY <1>1 DEF CtxInv, TypeOK, ReloadTyped, rest
<1>12. QED  BY <1>8, <1>9, <1>10, <1>11, PlaceKeeps

\* The resolution is kept next: the scope of the caller, as a whole.
LEMMA KeepResKeeps ==
    ASSUME CtxInv, NEW s \in Script, KeepRes(s) PROVE CtxInv'
<1> TypeOK /\ StackRight(s) /\ ScopeRight(s)  BY DEF CtxInv, Right
<1> DEFINE n == Len(saved[s])
           k == [saved[s][n] EXCEPT !.res = res]
<1>1. /\ pc[s] = "keep" /\ Goes(s, "dir")
      /\ saved' = [saved EXCEPT ![s][n].res = res]
      /\ UNCHANGED <<scope, frames, caches, state, stack, call, rest>>
  BY DEF KeepRes
<1>2. /\ saved[s] \in Seq(Kept) /\ stack[s] \in Seq(Owner)
      /\ Len(stack[s]) > 1 /\ n = Len(stack[s]) - 1
  BY <1>1 DEF TypeOK, StackRight
<1>3. n \in 1..n  BY <1>2
<1>4. saved[s][n] \in Kept  BY <1>2, <1>3, ElementOfSeq
<1>5. k \in Kept /\ k.dir = saved[s][n].dir /\ k.res = res
  BY <1>4 DEF TypeOK, Kept
<1>6. saved'[s] = [saved[s] EXCEPT ![n] = k]  BY <1>1 DEF TypeOK
<1> HIDE DEF n, k
<1>7. /\ saved'[s] \in Seq(Kept) /\ Len(saved'[s]) = n
      /\ \A i \in 1..n : saved'[s][i] = IF i = n THEN k ELSE saved[s][i]
  BY <1>2, <1>3, <1>5, <1>6, ExceptSeq DEF n
<1>8. pc'[s] = "dir" /\ stack'[s] = stack[s] /\ clean'[s] = clean[s]
  BY <1>1 DEF TypeOK, Goes, scope
<1>9. PlaceTurn(s)
  <2>1. pc' \in [Script -> Labels] /\ {pc[s], pc'[s]} \subseteq Outside
    BY <1>1, <1>8 DEF TypeOK, Goes, Labels, Outside
  <2>2. \A t \in Script \ {s} : pc'[t] = pc[t] /\ saved'[t] = saved[t]
    BY <1>1 DEF TypeOK, Goes
  <2>3. saved' \in [Script -> Seq(Kept)]
    BY <1>1, <1>7, <2>2 DEF TypeOK
  <2>4. QED
    BY <1>1, <2>1, <2>2, <2>3 DEF TypeOK, PlaceTurn, scope, state, rest
<1>10. StackRight(s)'
  BY <1>1, <1>2, <1>7, <1>8 DEF StackRight, n
<1>11. ASSUME clean'[s] PROVE KeptRight(s)' /\ PlaceRight(s)'
  <2>1. KeptRight(s) /\ PlaceRight(s)  BY <1>8, <1>11 DEF ScopeRight
  <2>2. res = Design[stack[s][n]]  BY <1>1, <1>2, <2>1 DEF PlaceRight
  <2>3. ASSUME NEW i \in 1..n
        PROVE  /\ saved'[s][i].dir = stack[s][i]
               /\ saved'[s][i].res = Design[stack[s][i]]
    <3>1. saved[s][i].dir = stack[s][i]  BY <2>1 DEF KeptRight, n
    <3>2. CASE i = n  BY <1>5, <1>7, <2>2, <3>1, <3>2
    <3>3. CASE i # n
      <4>1. saved'[s][i] = saved[s][i] /\ i < Len(saved[s])
        BY <1>2, <1>7, <3>3 DEF n
      <4>2. QED  BY <2>1, <3>1, <4>1 DEF KeptRight, n
    <3>4. QED  BY <3>2, <3>3
  <2>4. KeptRight(s)'  BY <1>7, <1>8, <2>3 DEF KeptRight
  <2>5. PlaceRight(s)'  BY <1>8 DEF PlaceRight, Setting
  <2>6. QED  BY <2>4, <2>5
<1>12. ReloadTyped'  BY <1>1 DEF CtxInv, TypeOK, ReloadTyped, rest
<1>13. QED  BY <1>9, <1>10, <1>11, <1>12, PlaceKeeps

-----------------------------------------------------------------------------
(* Reloads, and the capture loop *)

\* A reload begins: no script moves.
LEMMA ReloadKeeps ==
    ASSUME CtxInv, NEW s \in Script, Reload(s) PROVE CtxInv'
<1> TypeOK /\ StackRight(s) /\ ScopeRight(s)  BY DEF CtxInv, Right
<1>1. /\ pc[s] = "idle" /\ Goes(s, "idle")
      /\ stack' = [stack EXCEPT ![s] = stack[s]] /\ stack[s] \in Seq(Owner)
      /\ UNCHANGED <<scope, saved, frames, caches, state, call, plan>>
      /\ UNCHANGED <<pc, stack>>
  BY DEF Reload, InRegistry, nested, TypeOK, Goes
<1>2. enabled' \subseteq Script /\ hook' \in Script \cup {None}
  BY <1>1 DEF TypeOK, state
<1>3. ReloadTyped'  BY DEF CtxInv, TypeOK, ReloadTyped, Reload
<1>4. StackRight(s)'  BY <1>1 DEF StackRight
<1>5. clean[s] => PlaceRight(s)'
  BY <1>1 DEF ScopeRight, PlaceRight, Setting, Here, Top, scope
<1>6. "idle" \in Outside  BY DEF Outside
<1>7. QED  BY <1>1, <1>2, <1>3, <1>4, <1>5, <1>6, StayKeeps

\* A step that no script takes: all scripts have it in their history if it
\* sets the scope.
LEMMA AsideKeeps ==
    ASSUME CtxInv, ReloadTyped', FramesTyped', FramesKept,
           dir' \in Owner \cup {None}, res' \in Size \cup {None},
           clean' \in [Script -> BOOLEAN],
           \A t \in Script : UNCHANGED <<dir, res, clean[t]>> \/ ~clean'[t],
           UNCHANGED <<caches, state, pc, nested, call, plan>>
    PROVE  CtxInv'
<1> TypeOK  BY DEF CtxInv
<1> USE DEF caches, state, nested
<1>1. shots \in Nat /\ shots' \in Nat
  BY ShotAssumption DEF TypeOK, FramesTyped
<1>2. TypeOK'  BY DEF TypeOK, FramesTyped, ReloadTyped
<1>3. CachesRight'  BY <1>1, CachesKept DEF CtxInv
<1>4. ASSUME NEW t \in Script PROVE Right(t)'
  <2>1. Right(t) /\ call[t].shot \in Nat  BY DEF CtxInv, TypeOK, Locals
  <2>2. QED  BY <1>1, <2>1, OthersKeep
<1>5. QED  BY <1>2, <1>3, <1>4 DEF CtxInv, ReloadTyped

\* A reload sets the directory; the script comes from the registry.
LEMMA ReloadSetsDirKeeps == ASSUME CtxInv, ReloadSetsDir PROVE CtxInv'
<1> TypeOK  BY DEF CtxInv
<1>1. reload.of \in Script  BY DEF CtxInv, ReloadSetsDir
<1>2. ReloadTyped'  BY <1>1 DEF TypeOK, ReloadSetsDir, ReloadTyped
<1>3. FramesTyped' /\ FramesKept
  BY ShotAssumption
     DEF TypeOK, ReloadSetsDir, FramesTyped, FramesKept, frames
<1>4. /\ dir' \in Owner \cup {None} /\ res' \in Size \cup {None}
      /\ clean' \in [Script -> BOOLEAN] /\ \A t \in Script : ~clean'[t]
  BY <1>1 DEF TypeOK, ReloadSetsDir, Disturbs, Owner
<1>5. QED  BY <1>2, <1>3, <1>4, AsideKeeps DEF ReloadSetsDir

\* A reload sets the resolution.
LEMMA ReloadSetsResKeeps == ASSUME CtxInv, ReloadSetsRes PROVE CtxInv'
<1> TypeOK  BY DEF CtxInv
<1>1. reload.of \in Script  BY DEF CtxInv, ReloadSetsRes
<1>2. ReloadTyped'  BY <1>1 DEF TypeOK, ReloadSetsRes, ReloadTyped
<1>3. FramesTyped' /\ FramesKept
  BY ShotAssumption
     DEF TypeOK, ReloadSetsRes, FramesTyped, FramesKept, frames
<1>4. Design[reload.of] \in Size \cup {None}
  BY <1>1, SizesTyped DEF Owner
<1>5. /\ dir' \in Owner \cup {None} /\ res' \in Size \cup {None}
      /\ clean' \in [Script -> BOOLEAN] /\ \A t \in Script : ~clean'[t]
  BY <1>4 DEF TypeOK, ReloadSetsRes, Disturbs
<1>6. QED  BY <1>2, <1>3, <1>5, AsideKeeps DEF ReloadSetsRes

\* A reload runs the hook of its script, if that is still idle.
LEMMA ReloadEnablesKeeps == ASSUME CtxInv, ReloadEnables PROVE CtxInv'
<1> TypeOK  BY DEF CtxInv
<1> DEFINE s == reload.of
<1>1. /\ s \in Script
      /\ UNCHANGED <<scope, frames, caches, enabled, saved, call, plan>>
  BY DEF CtxInv, ReloadEnables
<1>2. ReloadTyped'
  <2>1. reload' = NoReload \/ reload' = [reload EXCEPT !.at = "hook"]
    BY DEF ReloadEnables
  <2>2. reload \in [of : Script \cup {None},
                    at : {"none", "dir", "res", "lock", "hook"}]
    BY DEF TypeOK
  <2>3. CASE reload' = NoReload  BY <2>3 DEF ReloadTyped, NoReload
  <2>4. CASE reload' = [reload EXCEPT !.at = "hook"]
    <3>1. reload'.of = reload.of  BY <2>2, <2>4
    <3>2. QED  BY <1>1, <2>2, <2>4, <3>1 DEF ReloadTyped
  <2>5. QED  BY <2>1, <2>3, <2>4
<1> HIDE DEF s
<1>3. CASE pc[s] # "idle"
  <2>1. UNCHANGED <<hook, stack, pc>>  BY <1>3 DEF ReloadEnables, s
  <2>2. FramesTyped' /\ FramesKept
    BY <1>1, ShotAssumption DEF TypeOK, FramesTyped, FramesKept, frames
  <2>3. QED
    BY <1>1, <1>2, <2>1, <2>2, AsideKeeps DEF TypeOK, scope, state, nested
<1>4. CASE pc[s] = "idle"
  <2>1. /\ hook' = s /\ Goes(s, "js")
        /\ stack' = [stack EXCEPT ![s] = <<s>>]
    BY <1>4 DEF ReloadEnables, s
  <2>2. enabled' \subseteq Script /\ hook' \in Script \cup {None}
    BY <1>1, <2>1 DEF TypeOK
  <2>3. QED  BY <1>1, <1>2, <1>4, <2>1, <2>2, RunsKeeps DEF scope
<1>5. QED  BY <1>3, <1>4

\* A new frame of the capture loop: the calls keep those they took.
LEMMA PublishKeeps == ASSUME CtxInv, Publish PROVE CtxInv'
<1> TypeOK  BY DEF CtxInv
<1>1. FramesTyped' /\ FramesKept
  <2>1. PICK k \in LoopKey : NewFrame(k)  BY DEF Publish
  <2>2. k \in Nat /\ FramesTyped
    BY ShotAssumption DEF TypeOK, FramesTyped
  <2>3. /\ shots' \in 0..MaxShots /\ shots' = shots + 1
        /\ keys' \in [1..MaxShots -> Nat] /\ FramesKept
    BY <2>1, <2>2, NewFrameKeeps
  <2>4. QED
    BY <2>3, ShotAssumption DEF TypeOK, Publish, FramesTyped
<1>2. ReloadTyped'  BY DEF CtxInv, TypeOK, ReloadTyped, Publish, rest
<1>3. QED
  BY <1>1, <1>2, AsideKeeps DEF TypeOK, Publish, scope, rest

-----------------------------------------------------------------------------
(* Theorems *)

\* All steps of a script.
LEMMA StepKeeps == ASSUME CtxInv, NEW s \in Script, Step(s) PROVE CtxInv'
<1>1. CASE \/ StartTask(s) \/ EnableScript(s) \/ DisableScript(s)
           \/ TickTrigger(s) \/ End(s) \/ Reload(s)
  BY <1>1, StartTaskKeeps, EnableScriptKeeps, DisableScriptKeeps,
     TickTriggerKeeps, EndKeeps, ReloadKeeps
<1>2. CASE \/ SetDir(s) \/ SetRes(s) \/ \E l \in Library : CallLibrary(s, l)
           \/ KeepRes(s) \/ LeaveLibrary(s) \/ RestoreDir(s) \/ RestoreRes(s)
  BY <1>2, SetDirKeeps, SetResKeeps, CallLibraryKeeps, KeepResKeeps,
     LeaveLibraryKeeps, RestoreDirKeeps, RestoreResKeeps
<1>3. CASE \/ AskVision(s) \/ TakeShared(s) \/ TakeCached(s) \/ Grab(s)
           \/ Store(s) \/ Decode(s) \/ Insert(s)
  BY <1>3, AskVisionKeeps, TakeSharedKeeps, TakeCachedKeeps, GrabKeeps,
     StoreKeeps, DecodeKeeps, InsertKeeps
<1>4. CASE \/ Match(s) \/ WaitAgain(s) \/ Colors(s) \/ Batch(s)
           \/ LockEngine(s) \/ ReadAlone(s) \/ OcrReads(s) \/ OcrAllReads(s)
  BY <1>4, MatchKeeps, WaitAgainKeeps, ColorsKeeps, BatchKeeps,
     LockEngineKeeps, ReadAloneKeeps, OcrReadsKeeps, OcrAllReadsKeeps
<1>5. CASE AskStorage(s) \/ Load(s) \/ Path(s) \/ Write(s)
  BY <1>5, AskStorageKeeps, LoadKeeps, PathKeeps, WriteKeeps
<1>6. QED  BY <1>1, <1>2, <1>3, <1>4, <1>5 DEF Step

\* The invariant holds, however many scripts, libraries, sizes and frames.
THEOREM CtxInvariant == Spec => []CtxInv
<1>1. CtxInv /\ [Next]_vars => CtxInv'
  <2>1. SUFFICES ASSUME CtxInv, [Next]_vars PROVE CtxInv'  OBVIOUS
  <2>2. CASE Publish  BY <2>1, <2>2, PublishKeeps
  <2>3. CASE ReloadSetsDir  BY <2>1, <2>3, ReloadSetsDirKeeps
  <2>4. CASE ReloadSetsRes  BY <2>1, <2>4, ReloadSetsResKeeps
  <2>5. CASE ReloadEnables  BY <2>1, <2>5, ReloadEnablesKeeps
  <2>6. CASE \E s \in Script : Step(s)  BY <2>1, <2>6, StepKeeps
  <2>7. CASE UNCHANGED vars
    <3>1. /\ UNCHANGED <<scope, frames, caches, state, pc, nested, call, rest>>
          /\ UNCHANGED <<dir, res, clean, shots, keys, shared, cached, plan>>
      BY <2>7 DEF vars, scope, frames, rest
    <3>2. FramesTyped' /\ FramesKept
      BY <2>1, <3>1, ShotAssumption
         DEF CtxInv, TypeOK, FramesTyped, FramesKept
    <3>3. ReloadTyped'
      BY <2>1, <3>1 DEF CtxInv, TypeOK, ReloadTyped, rest
    <3>4. QED
      BY <2>1, <3>1, <3>2, <3>3, AsideKeeps DEF CtxInv, TypeOK
  <2>8. QED  BY <2>1, <2>2, <2>3, <2>4, <2>5, <2>6, <2>7 DEF Next
<1>2. QED  BY CtxInit, <1>1, PTL DEF Spec

\* Every variable keeps its type, and the mutex of the OCR engine has one
\* holder, who is the one that reads with it.
THEOREM ContextTypes == Spec => []TypeOK
<1>1. CtxInv => TypeOK  BY DEF CtxInv
<1>2. QED  BY CtxInvariant, <1>1, PTL

\* What a vision call works on has the key of the frame it took, and is that
\* frame unless another one has the same key; what the caches hold is of the
\* key and the size they hold it for, however many scripts fill them at once.
THEOREM VisionsMatch == Spec => []VisionOfFrame
<1>1. ASSUME CtxInv, NEW s \in Script, call[s].image # None
      PROVE  /\ keys[call[s].image.shot] = Key(s)
             /\ Alone(call[s].shot) => call[s].image.shot = call[s].shot
  <2>1. Captured(call[s].image.shot, Key(s))
    BY <1>1 DEF CtxInv, Right, CallRight
  <2>2. QED  BY <2>1 DEF Captured, Key, Alone
<1>2. CtxInv => VisionOfFrame
  BY <1>1 DEF CtxInv, CachesRight, Captured, VisionOfFrame
<1>3. QED  BY CtxInvariant, <1>2, PTL

\* A script that nobody interferes with works in its own scope or that of the
\* library it is in, however deep the libraries call each other.
THEOREM ScopesKept == Spec => []ScopeIsOwn
<1>1. ASSUME CtxInv, NEW s \in Script, clean[s], pc[s] \notin Setting
      PROVE  /\ dir = Here(s) /\ res = Design[Here(s)]
             /\ call[s].image # None => call[s].image.size = Target(res)
             /\ pc[s] = "read" /\ call[s].op = "ocr" => call[s].tag = res
             /\ pc[s] \in {"path", "write"} => call[s].from = Here(s)
             /\ pc[s] = "write" => call[s].to = Here(s)
  <2>1. CallRight(s) /\ PlaceRight(s) /\ SeenRight(s)
    BY <1>1 DEF CtxInv, Right, ScopeRight
  <2>2. dir = Here(s) /\ res = Design[Here(s)]
    BY <1>1, <2>1 DEF PlaceRight
  <2>3. call[s].image # None => call[s].image.size = Target(res)
    BY <2>1 DEF CallRight, SeenRight
  <2>4. QED  BY <2>1, <2>2, <2>3 DEF SeenRight
<1>2. CtxInv => ScopeIsOwn  BY <1>1 DEF ScopeIsOwn, Setting
<1>3. QED  BY CtxInvariant, <1>2, PTL
=============================================================================
