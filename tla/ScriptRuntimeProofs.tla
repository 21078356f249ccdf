------------------------- MODULE ScriptRuntimeProofs -------------------------
(***************************************************************************)
(* Theorems about ScriptRuntime, for every set of scripts, kinds, callers  *)
(* and operations.                                                         *)
(***************************************************************************)
EXTENDS ScriptRuntime, TLAPS

\* Where a caller works on no particular script.
Keyless == {"idle", "s_token", "s_name", "s_clear", "s_both", "x_list"}

KeyWhere  == \A c \in Caller : pc[c] \notin Keyless => key[c] \in Script
TypeInv == Typed /\ HeldWhere /\ KeyWhere /\ HookUnderLock

-----------------------------------------------------------------------------
(* Entries, and what a step on active_cancel does to all of them.          *)

\* What load_from_dirs inserts is an entry.
LEMMA FreshEntry ==
    /\ Fresh \in Entry /\ ~Fresh.enabled
    /\ \A v \in BOOLEAN : [Fresh EXCEPT !.enabled = v] \in Entry
BY DEF Entry, Fresh

\* Setting a flag of an entry changes that flag only.
LEMMA SetFlag ==
    ASSUME NEW e \in Entry, NEW v \in BOOLEAN
    PROVE  /\ e.enabled \in BOOLEAN
           /\ [e EXCEPT !.enabled = v] \in Entry
           /\ [e EXCEPT !.enabled = v].enabled <=> v
           /\ [e EXCEPT !.cancelled = v] \in Entry
           /\ [e EXCEPT !.cancelled = v].enabled <=> e.enabled
           /\ [e EXCEPT !.cancelled = v].cancelled <=> v
           /\ [e EXCEPT !.active = v] \in Entry
           /\ [e EXCEPT !.active = v].enabled <=> e.enabled
           /\ [e EXCEPT !.active = v].cancelled <=> e.cancelled
BY DEF Entry

\* g has f's entries, in the same places, none of them un-cancelled.
SameEntries(f, g, S) ==
    /\ g \in [S -> Entry \cup {NoEntry}]
    /\ \A x \in S : g[x] = NoEntry <=> f[x] = NoEntry
    /\ \A x \in S : f[x] # NoEntry => /\ g[x].enabled <=> f[x].enabled
                                      /\ f[x].cancelled => g[x].cancelled

\* Clearing active_cancel changes no entry otherwise.
LEMMA DetachKeeps ==
    ASSUME NEW S, NEW f \in [S -> Entry \cup {NoEntry}]
    PROVE  SameEntries(f, Detach(f), S)
BY NullAssumption DEF Detach, SameEntries, Entry

\* Cancelling the token in active_cancel keeps enabled and never uncancels.
LEMMA CancelKeeps ==
    ASSUME NEW S, NEW f \in [S -> Entry \cup {NoEntry}]
    PROVE  SameEntries(f, CancelActive(f), S)
BY NullAssumption DEF CancelActive, SameEntries, Entry

\* Nor does making active_cancel the token of one entry.
LEMMA AttachKeeps ==
    ASSUME NEW S, NEW f \in [S -> Entry \cup {NoEntry}],
           NEW y \in S, f[y] # NoEntry
    PROVE  SameEntries(f, Attach(f, y), S)
<1> DEFINE D == Detach(f)
           e == [D[y] EXCEPT !.active = TRUE]
<1>1. SameEntries(f, D, S) BY DetachKeeps
<1>2. Attach(f, y) = [D EXCEPT ![y] = e] BY DEF Attach
<1> HIDE DEF D
<1>3. D[y] \in Entry BY <1>1 DEF SameEntries
<1>4. e \in Entry /\ (e.enabled <=> D[y].enabled)
                  /\ (e.cancelled <=> D[y].cancelled)
  BY <1>3, SetFlag
<1> HIDE DEF e
<1>5. QED BY <1>1, <1>2, <1>4, NullAssumption DEF SameEntries

\* The steps that write active_cancel or cancel its token.
LEMMA TokenSteps ==
    ASSUME TypeInv, NEW c \in Caller,
           \/ EnableToken(c) \/ StartToken(c) \/ StartClear(c)
           \/ StopToken(c) \/ StopClear(c)
    PROVE  /\ SameEntries(scripts, scripts', Script)
           /\ SameEntries(held, held', Caller)
           /\ SameEntries(tick, tick', Script)
<1>1. /\ scripts \in [Script -> Entry \cup {NoEntry}]
      /\ held \in [Caller -> Entry \cup {NoEntry}]
      /\ tick \in [Script -> Entry \cup {NoEntry}]
  BY DEF TypeInv, Typed
<1>2. CASE EnableToken(c)
  <2>1. key[c] \in Script /\ scripts[key[c]] # NoEntry
    BY <1>2 DEF EnableToken, TypeInv, HookUnderLock, InHook, Present
  <2>2. QED BY <1>1, <1>2, <2>1, DetachKeeps, AttachKeeps DEF EnableToken
<1>3. CASE StartToken(c)
  <2>1. held[c] # NoEntry
    BY <1>3 DEF StartToken, TypeInv, HeldWhere, Holding
  <2>2. QED BY <1>1, <1>3, <2>1, DetachKeeps, AttachKeeps DEF StartToken
<1>4. CASE StartClear(c) \/ StopClear(c)
  BY <1>1, <1>4, DetachKeeps DEF StartClear, StopClear, DetachAll
<1>5. CASE StopToken(c)
  BY <1>1, <1>5, CancelKeeps DEF StopToken
<1>6. QED BY <1>2, <1>3, <1>4, <1>5

-----------------------------------------------------------------------------
(* TypeInv: one lemma per operation of the runtime.                        *)

\* The initial state.
LEMMA InitTypeInv == ASSUME Init PROVE TypeInv
<1>1. Typed BY DEF Init, Typed, Label
<1>2. HeldWhere BY DEF Init, HeldWhere, Holding
<1>3. KeyWhere BY DEF Init, KeyWhere, Keyless
<1>4. HookUnderLock BY NullAssumption DEF Init, HookUnderLock, InHook
<1>5. QED BY <1>1, <1>2, <1>3, <1>4 DEF TypeInv

\* load_from_dirs and reload_single_script.
LEMMA ReloadKeepsTypeInv ==
    ASSUME TypeInv, NEW c \in Caller,
           \/ LoadDirs(c) \/ ReloadSnapshot(c) \/ ReloadSwap(c)
           \/ ReloadEnter(c) \/ ReloadHook(c)
    PROVE  TypeInv'
<1> USE NullAssumption, KindAssumption
    DEF TypeInv, Typed, HeldWhere, KeyWhere, HookUnderLock, Label, InSlot,
        InHook, Holding, Keyless, Call, Goto, Hold, Store, Present, Unlocked,
        Drop, registry, slot, ticker
<1>1. CASE LoadDirs(c)
  <2>1. Typed' BY <1>1, FreshEntry DEF LoadDirs
  <2>2. HeldWhere' BY <1>1, FreshEntry DEF LoadDirs
  <2>3. KeyWhere' BY <1>1, FreshEntry DEF LoadDirs
  <2>4. HookUnderLock' BY <1>1, FreshEntry DEF LoadDirs
  <2>5. QED BY <2>1, <2>2, <2>3, <2>4
<1>2. CASE ReloadSnapshot(c)
  <2>1. PICK s \in Script :
           /\ pc[c] = "idle" /\ pc' = [pc EXCEPT ![c] = "r_swap"]
           /\ key' = [key EXCEPT ![c] = s] /\ Present(s)
           /\ held' = [held EXCEPT ![c] =
                         [Fresh EXCEPT !.enabled = scripts[s].enabled]]
    BY <1>2 DEF ReloadSnapshot
  <2>2. [Fresh EXCEPT !.enabled = scripts[s].enabled] \in Entry
    <3>1. scripts[s] \in Entry BY <2>1
    <3>2. scripts[s].enabled \in BOOLEAN BY <3>1, SetFlag
    <3>3. QED BY <3>2, FreshEntry
  <2>3. UNCHANGED <<registry, slot, ctxCancel, ticker, doomed, gone>>
    BY <1>2 DEF ReloadSnapshot
  <2>4. Typed' BY <2>1, <2>2, <2>3
  <2>5. HeldWhere' BY <2>1, <2>2, <2>3
  <2>6. KeyWhere' BY <2>1, <2>3
  <2>7. HookUnderLock' BY <2>1, <2>3
  <2>8. QED BY <2>4, <2>5, <2>6, <2>7
<1>3. CASE ReloadSwap(c)
  <2>1. Typed' BY <1>3 DEF ReloadSwap
  <2>2. HeldWhere' BY <1>3 DEF ReloadSwap
  <2>3. KeyWhere' BY <1>3 DEF ReloadSwap
  <2>4. HookUnderLock' BY <1>3 DEF ReloadSwap
  <2>5. QED BY <2>1, <2>2, <2>3, <2>4
<1>4. CASE ReloadEnter(c)
  <2>1. Typed' BY <1>4 DEF ReloadEnter
  <2>2. HeldWhere' BY <1>4 DEF ReloadEnter
  <2>3. KeyWhere' BY <1>4 DEF ReloadEnter
  <2>4. HookUnderLock' BY <1>4 DEF ReloadEnter
  <2>5. QED BY <2>1, <2>2, <2>3, <2>4
<1>5. CASE ReloadHook(c)
  <2>1. Typed' BY <1>5 DEF ReloadHook
  <2>2. HeldWhere' BY <1>5 DEF ReloadHook
  <2>3. KeyWhere' BY <1>5 DEF ReloadHook
  <2>4. HookUnderLock' BY <1>5 DEF ReloadHook
  <2>5. QED BY <2>1, <2>2, <2>3, <2>4
<1> QED BY <1>1, <1>2, <1>3, <1>4, <1>5

\* enable_script.
LEMMA EnableKeepsTypeInv ==
    ASSUME TypeInv, NEW c \in Caller,
           \/ EnableResolve(c) \/ EnableEnter(c) \/ EnableToken(c)
           \/ EnableHook(c)
    PROVE  TypeInv'
<1> USE NullAssumption, KindAssumption
    DEF TypeInv, Typed, HeldWhere, KeyWhere, HookUnderLock, Label, InSlot,
        InHook, Holding, Keyless, Call, Goto, Hold, Store, Present, Unlocked,
        Drop, registry, slot, ticker
<1>1. CASE EnableResolve(c)
  <2>1. Typed' BY <1>1 DEF EnableResolve
  <2>2. HeldWhere' BY <1>1 DEF EnableResolve
  <2>3. KeyWhere' BY <1>1 DEF EnableResolve
  <2>4. HookUnderLock' BY <1>1 DEF EnableResolve
  <2>5. QED BY <2>1, <2>2, <2>3, <2>4
<1>2. CASE EnableEnter(c)
  <2>1. Typed' BY <1>2 DEF EnableEnter, MayEnable
  <2>2. HeldWhere' BY <1>2 DEF EnableEnter, MayEnable
  <2>3. KeyWhere' BY <1>2 DEF EnableEnter, MayEnable
  <2>4. HookUnderLock' BY <1>2 DEF EnableEnter, MayEnable
  <2>5. QED BY <2>1, <2>2, <2>3, <2>4
<1>3. CASE EnableToken(c)
  <2>1. /\ SameEntries(scripts, scripts', Script)
        /\ SameEntries(held, held', Caller) /\ SameEntries(tick, tick', Script)
    BY <1>3, TokenSteps
  <2>2. Typed' BY <1>3, <2>1 DEF EnableToken, SameEntries
  <2>3. HeldWhere' BY <1>3, <2>1 DEF EnableToken, SameEntries
  <2>4. KeyWhere' BY <1>3, <2>1 DEF EnableToken, SameEntries
  <2>5. HookUnderLock' BY <1>3, <2>1 DEF EnableToken, SameEntries
  <2>6. QED BY <2>2, <2>3, <2>4, <2>5
<1>4. CASE EnableHook(c)
  <2>1. scripts[key[c]] \in Entry BY <1>4 DEF EnableHook
  <2>2. [scripts[key[c]] EXCEPT !.enabled = TRUE] \in Entry
    BY <2>1, SetFlag
  <2>3. scripts' \in [Script -> Entry \cup {NoEntry}]
    BY <1>4, <2>1, <2>2 DEF EnableHook
  <2>4. Typed' BY <1>4, <2>1, <2>2, <2>3 DEF EnableHook
  <2>5. HeldWhere' BY <1>4, <2>1, <2>2, <2>3 DEF EnableHook
  <2>6. KeyWhere' BY <1>4, <2>1, <2>2, <2>3 DEF EnableHook
  <2>7. HookUnderLock' BY <1>4, <2>1, <2>2, <2>3 DEF EnableHook
  <2>8. QED BY <2>4, <2>5, <2>6, <2>7
<1> QED BY <1>1, <1>2, <1>3, <1>4

\* disable_script.
LEMMA DisableKeepsTypeInv ==
    ASSUME TypeInv, NEW c \in Caller,
           \/ DisableResolve(c) \/ DisableEnter(c) \/ DisableHook(c)
    PROVE  TypeInv'
<1> USE NullAssumption, KindAssumption
    DEF TypeInv, Typed, HeldWhere, KeyWhere, HookUnderLock, Label, InSlot,
        InHook, Holding, Keyless, Call, Goto, Hold, Store, Present, Unlocked,
        Drop, registry, slot, ticker
<1>1. CASE DisableResolve(c)
  <2>1. Typed' BY <1>1 DEF DisableResolve
  <2>2. HeldWhere' BY <1>1 DEF DisableResolve
  <2>3. KeyWhere' BY <1>1 DEF DisableResolve
  <2>4. HookUnderLock' BY <1>1 DEF DisableResolve
  <2>5. QED BY <2>1, <2>2, <2>3, <2>4
<1>2. CASE DisableEnter(c)
  <2>1. Typed' BY <1>2 DEF DisableEnter
  <2>2. HeldWhere' BY <1>2 DEF DisableEnter
  <2>3. KeyWhere' BY <1>2 DEF DisableEnter
  <2>4. HookUnderLock' BY <1>2 DEF DisableEnter
  <2>5. QED BY <2>1, <2>2, <2>3, <2>4
<1>3. CASE DisableHook(c)
  <2>1. scripts[key[c]] \in Entry BY <1>3 DEF DisableHook
  <2>2. [scripts[key[c]] EXCEPT !.enabled = FALSE] \in Entry
    BY <2>1, SetFlag
  <2>3. scripts' \in [Script -> Entry \cup {NoEntry}]
    BY <1>3, <2>1, <2>2 DEF DisableHook
  <2>4. Typed' BY <1>3, <2>1, <2>2, <2>3 DEF DisableHook
  <2>5. HeldWhere' BY <1>3, <2>1, <2>2, <2>3 DEF DisableHook
  <2>6. KeyWhere' BY <1>3, <2>1, <2>2, <2>3 DEF DisableHook
  <2>7. HookUnderLock' BY <1>3, <2>1, <2>2, <2>3 DEF DisableHook
  <2>8. QED BY <2>4, <2>5, <2>6, <2>7
<1> QED BY <1>1, <1>2, <1>3

\* start_task.
LEMMA StartKeepsTypeInv ==
    ASSUME TypeInv, NEW c \in Caller,
           \/ StartResolve(c) \/ StartClaim(c) \/ StartTake(c)
           \/ StartPutLibrary(c) \/ StartToken(c) \/ StartReset(c)
           \/ StartEnable(c) \/ RunEnds(c) \/ RunCancelled(c)
           \/ StartClear(c) \/ StartPut(c) \/ StartRelease(c)
           \/ StartDropped(c)
    PROVE  TypeInv'
<1> USE NullAssumption, KindAssumption
    DEF TypeInv, Typed, HeldWhere, KeyWhere, HookUnderLock, Label, InSlot,
        InHook, Holding, Keyless, Call, Goto, Hold, Store, Present, Unlocked,
        Drop, registry, slot, ticker
<1>1. CASE StartResolve(c)
  <2>1. Typed' BY <1>1 DEF StartResolve
  <2>2. HeldWhere' BY <1>1 DEF StartResolve
  <2>3. KeyWhere' BY <1>1 DEF StartResolve
  <2>4. HookUnderLock' BY <1>1 DEF StartResolve
  <2>5. QED BY <2>1, <2>2, <2>3, <2>4
<1>2. CASE StartClaim(c)
  <2>1. Typed' BY <1>2 DEF StartClaim, SlotFree
  <2>2. HeldWhere' BY <1>2 DEF StartClaim, SlotFree
  <2>3. KeyWhere' BY <1>2 DEF StartClaim, SlotFree
  <2>4. HookUnderLock' BY <1>2 DEF StartClaim, SlotFree
  <2>5. QED BY <2>1, <2>2, <2>3, <2>4
<1>3. CASE StartTake(c)
  <2>1. Typed' BY <1>3 DEF StartTake, AfterTake
  <2>2. HeldWhere' BY <1>3 DEF StartTake, AfterTake
  <2>3. KeyWhere' BY <1>3 DEF StartTake, AfterTake
  <2>4. HookUnderLock' BY <1>3 DEF StartTake, AfterTake
  <2>5. QED BY <2>1, <2>2, <2>3, <2>4
<1>4. CASE StartPutLibrary(c)
  <2>1. Typed' BY <1>4 DEF StartPutLibrary
  <2>2. HeldWhere' BY <1>4 DEF StartPutLibrary
  <2>3. KeyWhere' BY <1>4 DEF StartPutLibrary
  <2>4. HookUnderLock' BY <1>4 DEF StartPutLibrary
  <2>5. QED BY <2>1, <2>2, <2>3, <2>4
<1>5. CASE StartToken(c)
  <2>1. /\ SameEntries(scripts, scripts', Script)
        /\ SameEntries(held, held', Caller) /\ SameEntries(tick, tick', Script)
    BY <1>5, TokenSteps
  <2>2. Typed' BY <1>5, <2>1 DEF StartToken, SameEntries
  <2>3. HeldWhere' BY <1>5, <2>1 DEF StartToken, SameEntries
  <2>4. KeyWhere' BY <1>5, <2>1 DEF StartToken, SameEntries
  <2>5. HookUnderLock' BY <1>5, <2>1 DEF StartToken, SameEntries
  <2>6. QED BY <2>2, <2>3, <2>4, <2>5
<1>6. CASE StartReset(c)
  <2>1. held[c] \in Entry BY <1>6 DEF StartReset, ResetToken
  <2>2. [held[c] EXCEPT !.cancelled = FALSE] \in Entry
    BY <2>1, SetFlag
  <2>3. held' \in [Caller -> Entry \cup {NoEntry}]
    BY <1>6, <2>1, <2>2 DEF StartReset, ResetToken
  <2>4. Typed' BY <1>6, <2>1, <2>2, <2>3 DEF StartReset, ResetToken
  <2>5. HeldWhere' BY <1>6, <2>1, <2>2, <2>3 DEF StartReset, ResetToken
  <2>6. KeyWhere' BY <1>6, <2>1, <2>2, <2>3 DEF StartReset, ResetToken
  <2>7. HookUnderLock' BY <1>6, <2>1, <2>2, <2>3 DEF StartReset, ResetToken
  <2>8. QED BY <2>4, <2>5, <2>6, <2>7
<1>7. CASE StartEnable(c)
  <2>1. held[c] \in Entry BY <1>7 DEF StartEnable
  <2>2. [held[c] EXCEPT !.enabled = TRUE] \in Entry
    BY <2>1, SetFlag
  <2>3. held' \in [Caller -> Entry \cup {NoEntry}]
    BY <1>7, <2>1, <2>2 DEF StartEnable
  <2>4. Typed' BY <1>7, <2>1, <2>2, <2>3 DEF StartEnable
  <2>5. HeldWhere'
    <3>1. CASE /\ pc' = [pc EXCEPT ![c] = "run"]
               /\ held' = [held EXCEPT ![c] =
                             [held[c] EXCEPT !.enabled = TRUE]]
      BY <1>7, <2>2, <3>1
    <3>2. CASE pc' = [pc EXCEPT ![c] = "idle"] /\ Hold(c, NoEntry)
      BY <1>7, <3>2
    <3>3. QED BY <1>7, <3>1, <3>2 DEF StartEnable
  <2>6. KeyWhere' BY <1>7, <2>1, <2>2, <2>3 DEF StartEnable
  <2>7. HookUnderLock' BY <1>7, <2>1, <2>2, <2>3 DEF StartEnable
  <2>8. QED BY <2>4, <2>5, <2>6, <2>7
<1>8. CASE RunEnds(c)
  <2>1. Typed' BY <1>8 DEF RunEnds
  <2>2. HeldWhere' BY <1>8 DEF RunEnds
  <2>3. KeyWhere' BY <1>8 DEF RunEnds
  <2>4. HookUnderLock' BY <1>8 DEF RunEnds
  <2>5. QED BY <2>1, <2>2, <2>3, <2>4
<1>9. CASE RunCancelled(c)
  <2>1. Typed' BY <1>9 DEF RunCancelled, SeesCancel
  <2>2. HeldWhere' BY <1>9 DEF RunCancelled, SeesCancel
  <2>3. KeyWhere' BY <1>9 DEF RunCancelled, SeesCancel
  <2>4. HookUnderLock' BY <1>9 DEF RunCancelled, SeesCancel
  <2>5. QED BY <2>1, <2>2, <2>3, <2>4
<1>10. CASE StartClear(c)
  <2>1. /\ SameEntries(scripts, scripts', Script)
        /\ SameEntries(held, held', Caller) /\ SameEntries(tick, tick', Script)
    BY <1>10, TokenSteps
  <2>2. Typed' BY <1>10, <2>1 DEF StartClear, SameEntries
  <2>3. HeldWhere' BY <1>10, <2>1 DEF StartClear, SameEntries
  <2>4. KeyWhere' BY <1>10, <2>1 DEF StartClear, SameEntries
  <2>5. HookUnderLock' BY <1>10, <2>1 DEF StartClear, SameEntries
  <2>6. QED BY <2>2, <2>3, <2>4, <2>5
<1>11. CASE StartPut(c)
  <2>1. Typed' BY <1>11 DEF StartPut
  <2>2. HeldWhere' BY <1>11 DEF StartPut
  <2>3. KeyWhere' BY <1>11 DEF StartPut
  <2>4. HookUnderLock' BY <1>11 DEF StartPut
  <2>5. QED BY <2>1, <2>2, <2>3, <2>4
<1>12. CASE StartRelease(c)
  <2>1. Typed' BY <1>12 DEF StartRelease
  <2>2. HeldWhere' BY <1>12 DEF StartRelease
  <2>3. KeyWhere' BY <1>12 DEF StartRelease
  <2>4. HookUnderLock' BY <1>12 DEF StartRelease
  <2>5. QED BY <2>1, <2>2, <2>3, <2>4
<1>13. CASE StartDropped(c)
  <2>1. Typed' BY <1>13 DEF StartDropped
  <2>2. HeldWhere' BY <1>13 DEF StartDropped
  <2>3. KeyWhere' BY <1>13 DEF StartDropped
  <2>4. HookUnderLock' BY <1>13 DEF StartDropped
  <2>5. QED BY <2>1, <2>2, <2>3, <2>4
<1> QED BY <1>1, <1>2, <1>3, <1>4, <1>5, <1>6, <1>7, <1>8, <1>9, <1>10, <1>11, <1>12, <1>13

\* stop_task.
LEMMA StopKeepsTypeInv ==
    ASSUME TypeInv, NEW c \in Caller,
           \/ StopRequest(c) \/ StopToken(c) \/ StopName(c) \/ StopTake(c)
           \/ StopPut(c) \/ StopLock(c) \/ StopClear(c)
    PROVE  TypeInv'
<1> USE NullAssumption, KindAssumption
    DEF TypeInv, Typed, HeldWhere, KeyWhere, HookUnderLock, Label, InSlot,
        InHook, Holding, Keyless, Call, Goto, Hold, Store, Present, Unlocked,
        Drop, registry, slot, ticker
<1>1. CASE StopRequest(c)
  <2>1. Typed' BY <1>1 DEF StopRequest
  <2>2. HeldWhere' BY <1>1 DEF StopRequest
  <2>3. KeyWhere' BY <1>1 DEF StopRequest
  <2>4. HookUnderLock' BY <1>1 DEF StopRequest
  <2>5. QED BY <2>1, <2>2, <2>3, <2>4
<1>2. CASE StopToken(c)
  <2>1. /\ SameEntries(scripts, scripts', Script)
        /\ SameEntries(held, held', Caller) /\ SameEntries(tick, tick', Script)
    BY <1>2, TokenSteps
  <2>2. Typed' BY <1>2, <2>1 DEF StopToken, SameEntries
  <2>3. HeldWhere' BY <1>2, <2>1 DEF StopToken, SameEntries
  <2>4. KeyWhere' BY <1>2, <2>1 DEF StopToken, SameEntries
  <2>5. HookUnderLock' BY <1>2, <2>1 DEF StopToken, SameEntries
  <2>6. QED BY <2>2, <2>3, <2>4, <2>5
<1>3. CASE StopName(c)
  <2>1. Typed' BY <1>3 DEF StopName, DropRead
  <2>2. HeldWhere' BY <1>3 DEF StopName, DropRead
  <2>3. KeyWhere' BY <1>3 DEF StopName, DropRead
  <2>4. HookUnderLock' BY <1>3 DEF StopName, DropRead
  <2>5. QED BY <2>1, <2>2, <2>3, <2>4
<1>4. CASE StopTake(c)
  <2>1. Present(key[c]) => scripts[key[c]] \in Entry BY <1>4 DEF StopTake
  <2>2. Present(key[c]) => [scripts[key[c]] EXCEPT !.cancelled = TRUE] \in Entry
    BY <2>1, SetFlag
  <2>3. held' \in [Caller -> Entry \cup {NoEntry}]
    BY <1>4, <2>1, <2>2 DEF StopTake
  <2>4. Typed' BY <1>4, <2>1, <2>2, <2>3 DEF StopTake
  <2>5. HeldWhere' BY <1>4, <2>1, <2>2, <2>3 DEF StopTake
  <2>6. KeyWhere' BY <1>4, <2>1, <2>2, <2>3 DEF StopTake
  <2>7. HookUnderLock' BY <1>4, <2>1, <2>2, <2>3 DEF StopTake
  <2>8. QED BY <2>4, <2>5, <2>6, <2>7
<1>5. CASE StopPut(c)
  <2>1. Typed' BY <1>5 DEF StopPut
  <2>2. HeldWhere' BY <1>5 DEF StopPut
  <2>3. KeyWhere' BY <1>5 DEF StopPut
  <2>4. HookUnderLock' BY <1>5 DEF StopPut
  <2>5. QED BY <2>1, <2>2, <2>3, <2>4
<1>6. CASE StopClear(c)
  <2>1. /\ SameEntries(scripts, scripts', Script)
        /\ SameEntries(held, held', Caller) /\ SameEntries(tick, tick', Script)
    BY <1>6, TokenSteps
  <2>2. Typed' BY <1>6, <2>1 DEF StopClear, SameEntries
  <2>3. HeldWhere' BY <1>6, <2>1 DEF StopClear, SameEntries
  <2>4. KeyWhere' BY <1>6, <2>1 DEF StopClear, SameEntries
  <2>5. HookUnderLock' BY <1>6, <2>1 DEF StopClear, SameEntries
  <2>6. QED BY <2>2, <2>3, <2>4, <2>5
<1>7. CASE StopLock(c)
  <2>1. Typed' BY <1>7 DEF StopLock
  <2>2. HeldWhere' BY <1>7 DEF StopLock
  <2>3. KeyWhere' BY <1>7 DEF StopLock
  <2>4. HookUnderLock' BY <1>7 DEF StopLock
  <2>5. QED BY <2>1, <2>2, <2>3, <2>4
<1> QED BY <1>1, <1>2, <1>3, <1>4, <1>5, <1>6, <1>7

\* call_library.
LEMMA LibraryKeepsTypeInv ==
    ASSUME TypeInv, NEW c \in Caller,
           \/ LibResolve(c) \/ LibTake(c) \/ LibReturns(c) \/ LibPut(c)
    PROVE  TypeInv'
<1> USE NullAssumption, KindAssumption
    DEF TypeInv, Typed, HeldWhere, KeyWhere, HookUnderLock, Label, InSlot,
        InHook, Holding, Keyless, Call, Goto, Hold, Store, Present, Unlocked,
        Drop, registry, slot, ticker
<1>1. CASE LibResolve(c)
  <2>1. Typed' BY <1>1 DEF LibResolve
  <2>2. HeldWhere' BY <1>1 DEF LibResolve
  <2>3. KeyWhere' BY <1>1 DEF LibResolve
  <2>4. HookUnderLock' BY <1>1 DEF LibResolve
  <2>5. QED BY <2>1, <2>2, <2>3, <2>4
<1>2. CASE LibTake(c)
  <2>1. Typed' BY <1>2 DEF LibTake, AfterLibTake
  <2>2. HeldWhere' BY <1>2 DEF LibTake, AfterLibTake
  <2>3. KeyWhere' BY <1>2 DEF LibTake, AfterLibTake
  <2>4. HookUnderLock' BY <1>2 DEF LibTake, AfterLibTake
  <2>5. QED BY <2>1, <2>2, <2>3, <2>4
<1>3. CASE LibReturns(c)
  <2>1. Typed' BY <1>3 DEF LibReturns
  <2>2. HeldWhere' BY <1>3 DEF LibReturns
  <2>3. KeyWhere' BY <1>3 DEF LibReturns
  <2>4. HookUnderLock' BY <1>3 DEF LibReturns
  <2>5. QED BY <2>1, <2>2, <2>3, <2>4
<1>4. CASE LibPut(c)
  <2>1. Typed' BY <1>4 DEF LibPut
  <2>2. HeldWhere' BY <1>4 DEF LibPut
  <2>3. KeyWhere' BY <1>4 DEF LibPut
  <2>4. HookUnderLock' BY <1>4 DEF LibPut
  <2>5. QED BY <2>1, <2>2, <2>3, <2>4
<1> QED BY <1>1, <1>2, <1>3, <1>4

\* tick_triggers.
LEMMA TickKeepsTypeInv ==
    ASSUME TypeInv, NEW s \in Script,
            TickTake(s) \/ TickCapture(s) \/ TickJoin(s)
    PROVE  TypeInv'
<1> USE NullAssumption, KindAssumption
    DEF TypeInv, Typed, HeldWhere, KeyWhere, HookUnderLock, Label, InSlot,
        InHook, Holding, Keyless, Call, Goto, Hold, Store, Present, Unlocked,
        Drop, registry, slot, ticker
<1>1. CASE TickTake(s)
  <2>1. Typed' BY <1>1 DEF TickTake
  <2>2. HeldWhere' BY <1>1 DEF TickTake
  <2>3. KeyWhere' BY <1>1 DEF TickTake
  <2>4. HookUnderLock' BY <1>1 DEF TickTake
  <2>5. QED BY <2>1, <2>2, <2>3, <2>4
<1>2. CASE TickCapture(s)
  <2>1. Typed' BY <1>2 DEF TickCapture
  <2>2. HeldWhere' BY <1>2 DEF TickCapture
  <2>3. KeyWhere' BY <1>2 DEF TickCapture
  <2>4. HookUnderLock' BY <1>2 DEF TickCapture
  <2>5. QED BY <2>1, <2>2, <2>3, <2>4
<1>3. CASE TickJoin(s)
  <2>1. tick[s] \in Entry BY <1>3 DEF TickJoin
  <2>2. [tick[s] EXCEPT !.enabled = FALSE] \in Entry
    BY <2>1, SetFlag
  <2>3. scripts' \in [Script -> Entry \cup {NoEntry}]
    BY <1>3, <2>1, <2>2 DEF TickJoin
  <2>4. Typed' BY <1>3, <2>1, <2>2, <2>3 DEF TickJoin
  <2>5. HeldWhere' BY <1>3, <2>1, <2>2, <2>3 DEF TickJoin
  <2>6. KeyWhere' BY <1>3, <2>1, <2>2, <2>3 DEF TickJoin
  <2>7. HookUnderLock'
    <3>1. CASE UNCHANGED scripts BY <1>3, <3>1 DEF TickJoin
    <3>2. CASE Unlocked BY <1>3, <3>2 DEF TickJoin
    <3>3. QED BY <1>3, <3>1, <3>2 DEF TickJoin
  <2>8. QED BY <2>4, <2>5, <2>6, <2>7
<1> QED BY <1>1, <1>2, <1>3

\* shutdown.
LEMMA ShutdownKeepsTypeInv ==
    ASSUME TypeInv, NEW c \in Caller,
           \/ ShutdownList(c) \/ ShutdownTake(c) \/ ShutdownDrop(c)
           \/ ShutdownDone(c)
    PROVE  TypeInv'
<1> USE NullAssumption, KindAssumption
    DEF TypeInv, Typed, HeldWhere, KeyWhere, HookUnderLock, Label, InSlot,
        InHook, Holding, Keyless, Call, Goto, Hold, Store, Present, Unlocked,
        Drop, registry, slot, ticker
<1>1. CASE ShutdownList(c)
  <2>1. Typed' BY <1>1 DEF ShutdownList
  <2>2. HeldWhere' BY <1>1 DEF ShutdownList
  <2>3. KeyWhere' BY <1>1 DEF ShutdownList
  <2>4. HookUnderLock' BY <1>1 DEF ShutdownList
  <2>5. QED BY <2>1, <2>2, <2>3, <2>4
<1>2. CASE ShutdownTake(c)
  <2>1. Typed' BY <1>2 DEF ShutdownTake
  <2>2. HeldWhere' BY <1>2 DEF ShutdownTake
  <2>3. KeyWhere' BY <1>2 DEF ShutdownTake
  <2>4. HookUnderLock' BY <1>2 DEF ShutdownTake
  <2>5. QED BY <2>1, <2>2, <2>3, <2>4
<1>3. CASE ShutdownDrop(c)
  <2>1. Typed' BY <1>3 DEF ShutdownDrop
  <2>2. HeldWhere' BY <1>3 DEF ShutdownDrop
  <2>3. KeyWhere' BY <1>3 DEF ShutdownDrop
  <2>4. HookUnderLock' BY <1>3 DEF ShutdownDrop
  <2>5. QED BY <2>1, <2>2, <2>3, <2>4
<1>4. CASE ShutdownDone(c)
  <2>1. Typed' BY <1>4 DEF ShutdownDone
  <2>2. HeldWhere' BY <1>4 DEF ShutdownDone
  <2>3. KeyWhere' BY <1>4 DEF ShutdownDone
  <2>4. HookUnderLock' BY <1>4 DEF ShutdownDone
  <2>5. QED BY <2>1, <2>2, <2>3, <2>4
<1> QED BY <1>1, <1>2, <1>3, <1>4

\* Every step keeps TypeInv.
LEMMA NextTypeInv == ASSUME TypeInv, [Next]_vars PROVE TypeInv'
<1>1. CASE UNCHANGED vars
  BY <1>1 DEF vars, registry, slot, ticker, TypeInv, Typed, HeldWhere,
              KeyWhere, HookUnderLock, Present
<1>2. ASSUME NEW c \in Caller, Begin(c) PROVE TypeInv'
  BY <1>2, ReloadKeepsTypeInv, EnableKeepsTypeInv, DisableKeepsTypeInv,
     StartKeepsTypeInv, StopKeepsTypeInv, LibraryKeepsTypeInv,
     ShutdownKeepsTypeInv DEF Begin
<1>3. ASSUME NEW c \in Caller, Proceed(c) PROVE TypeInv'
  BY <1>3, ReloadKeepsTypeInv, EnableKeepsTypeInv, DisableKeepsTypeInv,
     StartKeepsTypeInv, StopKeepsTypeInv, LibraryKeepsTypeInv,
     ShutdownKeepsTypeInv DEF Proceed
<1>4. ASSUME NEW c \in Caller, Leave(c) PROVE TypeInv'
  BY <1>4, StartKeepsTypeInv DEF Leave
<1>5. ASSUME NEW s \in Script, TickStep(s) PROVE TypeInv'
  BY <1>5, TickKeepsTypeInv DEF TickStep
<1>6. CASE TickCollect
  BY <1>6 DEF TickCollect, registry, slot, TypeInv, Typed, HeldWhere,
              KeyWhere, HookUnderLock, Present
<1>7. QED BY <1>1, <1>2, <1>3, <1>4, <1>5, <1>6 DEF Next

\* The inductive invariant: types, who holds an entry, whose key is set, and
\* who keeps the registry's write lock (runtime.rs:15-28, 227-281).
THEOREM TypeInvariant == Spec => []TypeInv
<1>1. Init => TypeInv BY InitTypeInv
<1>2. TypeInv /\ [Next]_vars => TypeInv' BY NextTypeInv
<1>3. QED BY <1>1, <1>2, PTL DEF Spec

\* Every variable keeps its type (runtime.rs:15-28), and an operation that
\* goes on with an entry has one that its own remove has found.
THEOREM TypeCorrect == Spec => []TypeOK
<1>1. TypeInv => TypeOK BY DEF TypeInv, TypeOK
<1>2. QED BY <1>1, TypeInvariant, PTL

\* A hook under the registry's write lock has the lock to itself and finds
\* its entry there; those of enable_script and disable_script find it in the
\* state that was checked.
THEOREM HooksExclusive == Spec => []HookUnderLock
<1>1. TypeInv => HookUnderLock BY DEF TypeInv
<1>2. QED BY <1>1, TypeInvariant, PTL

-----------------------------------------------------------------------------
(* The task slot: who owns it, and that a stop is not undone.              *)

\* Who is in start_task, and for which script, is left alone by everything
\* but the steps that claim, give back or abandon the slot.
SameTasks == \A c \in Caller : /\ pc'[c] \in InSlot <=> pc[c] \in InSlot
                               /\ pc[c] \in InSlot => key'[c] = key[c]
SlotKept == SameTasks /\ UNCHANGED <<activeTask, stopped>>

\* Operations other than start_task and stop_task leave the slot alone.
LEMMA OthersKeepSlot ==
    ASSUME TypeInv, NEW c \in Caller,
           \/ LoadDirs(c) \/ ReloadSnapshot(c) \/ ReloadSwap(c)
           \/ ReloadEnter(c) \/ ReloadHook(c)
           \/ EnableResolve(c) \/ EnableEnter(c) \/ EnableToken(c)
           \/ EnableHook(c) \/ DisableResolve(c) \/ DisableEnter(c)
           \/ DisableHook(c)
           \/ StopRequest(c) \/ StopToken(c) \/ StopName(c) \/ StopTake(c)
           \/ StopPut(c) \/ StopLock(c)
           \/ LibResolve(c) \/ LibTake(c) \/ LibReturns(c) \/ LibPut(c)
           \/ ShutdownList(c) \/ ShutdownTake(c) \/ ShutdownDrop(c)
           \/ ShutdownDone(c)
    PROVE  SlotKept
<1> USE DEF TypeInv, Typed, Call, Goto, InSlot, slot, SlotKept, SameTasks
<1>1. CASE LoadDirs(c) \/ ReloadSnapshot(c) \/ ReloadSwap(c)
           \/ ReloadEnter(c) \/ ReloadHook(c)
  BY <1>1 DEF LoadDirs, ReloadSnapshot, ReloadSwap, ReloadEnter, ReloadHook
<1>2. CASE EnableResolve(c) \/ EnableEnter(c) \/ EnableToken(c)
           \/ EnableHook(c)
  BY <1>2 DEF EnableResolve, EnableEnter, EnableToken, EnableHook
<1>3. CASE DisableResolve(c) \/ DisableEnter(c) \/ DisableHook(c)
  BY <1>3 DEF DisableResolve, DisableEnter, DisableHook
<1>4. CASE StopRequest(c) \/ StopToken(c) \/ StopName(c) \/ StopTake(c)
           \/ StopPut(c) \/ StopLock(c)
  BY <1>4 DEF StopRequest, StopToken, StopName, StopTake, StopPut, StopLock
<1>5. CASE LibResolve(c) \/ LibTake(c) \/ LibReturns(c) \/ LibPut(c)
  BY <1>5 DEF LibResolve, LibTake, LibReturns, LibPut, AfterLibTake
<1>6. CASE ShutdownList(c) \/ ShutdownTake(c) \/ ShutdownDrop(c)
           \/ ShutdownDone(c)
  BY <1>6 DEF ShutdownList, ShutdownTake, ShutdownDrop, ShutdownDone
<1>7. QED BY <1>1, <1>2, <1>3, <1>4, <1>5, <1>6

\* start_task leaves it alone between its claim and its release.
LEMMA TasksKeepSlot ==
    ASSUME TypeInv, NEW c \in Caller,
           \/ StartResolve(c) \/ StartTake(c) \/ StartPutLibrary(c)
           \/ StartToken(c) \/ StartReset(c) \/ RunEnds(c)
           \/ RunCancelled(c) \/ StartClear(c) \/ StartPut(c)
    PROVE  SlotKept
<1> USE DEF TypeInv, Typed, Call, Goto, InSlot, slot, SlotKept, SameTasks
<1>1. CASE StartResolve(c) \/ StartTake(c) \/ StartPutLibrary(c)
  BY <1>1 DEF StartResolve, StartTake, AfterTake, StartPutLibrary
<1>2. CASE StartToken(c) \/ StartReset(c)
  BY <1>2 DEF StartToken, StartReset
<1>3. CASE RunEnds(c) \/ RunCancelled(c) \/ StartClear(c) \/ StartPut(c)
  BY <1>3 DEF RunEnds, RunCancelled, StartClear, StartPut
<1>4. QED BY <1>1, <1>2, <1>3

\* So does tick_triggers.
LEMMA TicksKeepSlot ==
    ASSUME TickCollect \/ \E s \in Script : TickStep(s)
    PROVE  SlotKept
BY DEF TickCollect, TickStep, TickTake, TickCapture, TickJoin, SlotKept,
       SameTasks, slot

\* The cases every step falls into.
LEMMA SlotCases ==
    ASSUME TypeInv, [Next]_vars
    PROVE  \/ SlotKept
           \/ \E c \in Caller : \/ StartClaim(c) \/ StartEnable(c)
                                \/ StartRelease(c) \/ StartDropped(c)
                                \/ StopClear(c)
<1>1. CASE UNCHANGED vars
  BY <1>1 DEF vars, slot, SlotKept, SameTasks
<1>2. CASE TickCollect \/ \E s \in Script : TickStep(s)
  BY <1>2, TicksKeepSlot
<1>3. ASSUME NEW c \in Caller,
             Begin(c) \/ Proceed(c) \/ Leave(c)
      PROVE  \/ SlotKept
             \/ StartClaim(c) \/ StartEnable(c) \/ StartRelease(c)
             \/ StartDropped(c) \/ StopClear(c)
  BY <1>3, OthersKeepSlot, TasksKeepSlot DEF Begin, Proceed, Leave
<1>4. QED BY <1>1, <1>2, <1>3 DEF Next

-----------------------------------------------------------------------------
\* "Atomic check-and-set" (runtime.rs:294): while no stop_task has emptied
\* the slot, one caller at most is between its claim and its release.
THEOREM OneTask == Spec => []OneTaskUnlessStopped
<1>1. Init => OneTaskUnlessStopped
  BY DEF Init, OneTaskUnlessStopped, InSlot
<1>2. ASSUME TypeInv, OneTaskUnlessStopped, [Next]_vars
      PROVE  OneTaskUnlessStopped'
  <2>1. CASE SlotKept
    BY <1>2, <2>1 DEF SlotKept, SameTasks, slot, OneTaskUnlessStopped
  <2>2. ASSUME NEW c \in Caller, StartClaim(c) PROVE OneTaskUnlessStopped'
    <3> USE DEF TypeInv, Typed, KeyWhere, Keyless, InSlot, Goto
    <3>1. CASE SlotFree
      BY <1>2, <2>2, <3>1, NullAssumption
         DEF StartClaim, SlotFree, OneTaskUnlessStopped
    <3>2. CASE ~SlotFree
      BY <1>2, <2>2, <3>2 DEF StartClaim, OneTaskUnlessStopped
    <3>3. QED BY <3>1, <3>2
  <2>3. ASSUME NEW c \in Caller,
               StartEnable(c) \/ StartRelease(c) \/ StartDropped(c)
        PROVE  OneTaskUnlessStopped'
    BY <1>2, <2>3 DEF TypeInv, Typed, InSlot, Goto, StartEnable,
       StartRelease, StartDropped, slot, OneTaskUnlessStopped
  <2>4. ASSUME NEW c \in Caller, StopClear(c) PROVE OneTaskUnlessStopped'
    BY <2>4 DEF StopClear, OneTaskUnlessStopped
  <2>5. QED BY <1>2, <2>1, <2>2, <2>3, <2>4, SlotCases
<1>3. TypeInv /\ OneTaskUnlessStopped /\ [Next]_vars => OneTaskUnlessStopped'
  BY <1>2
<1>4. QED BY <1>1, <1>3, TypeInvariant, PTL DEF Spec

-----------------------------------------------------------------------------
\* Only a trigger's on_enable is awaited inside start_task.
EnablesTrigger == \A c \in Caller : pc[c] = "enable" => Kind[key[c]] = "Trigger"

\* start_task calls on_enable for triggers only (runtime.rs:344).
LEMMA EnablesTriggerKept ==
    ASSUME TypeInv, EnablesTrigger, [Next]_vars PROVE EnablesTrigger'
<1> USE DEF TypeInv, Typed, Goto, Call, EnablesTrigger
<1>1. CASE UNCHANGED vars BY <1>1 DEF vars
<1>2. CASE TickCollect \/ \E s \in Script : TickStep(s)
  BY <1>2 DEF TickCollect, TickStep, TickTake, TickCapture, TickJoin
<1>3. ASSUME NEW c \in Caller, Begin(c) PROVE EnablesTrigger'
  BY <1>3 DEF Begin, LoadDirs, ReloadSnapshot, EnableResolve, DisableResolve,
     StartResolve, StopRequest, LibResolve, ShutdownList
<1>4. ASSUME NEW c \in Caller, Leave(c) PROVE EnablesTrigger'
  BY <1>4 DEF Leave, RunEnds, RunCancelled, StartDropped
<1>5. ASSUME NEW c \in Caller, Proceed(c) PROVE EnablesTrigger'
  <2>1. CASE ReloadSwap(c) \/ ReloadEnter(c) \/ ReloadHook(c)
    BY <2>1 DEF ReloadSwap, ReloadEnter, ReloadHook
  <2>2. CASE EnableEnter(c) \/ EnableToken(c) \/ EnableHook(c)
    BY <2>2 DEF EnableEnter, EnableToken, EnableHook
  <2>3. CASE DisableEnter(c) \/ DisableHook(c)
    BY <2>3 DEF DisableEnter, DisableHook
  <2>4. CASE StartClaim(c) \/ StartTake(c) \/ StartPutLibrary(c)
    BY <2>4 DEF StartClaim, StartTake, AfterTake, StartPutLibrary
  <2>5. CASE StartToken(c) BY <2>5 DEF StartToken
  <2>6. CASE StartReset(c) \/ StartEnable(c)
    BY <2>6 DEF StartReset, StartEnable
  <2>7. CASE StartClear(c) \/ StartPut(c) \/ StartRelease(c)
    BY <2>7 DEF StartClear, StartPut, StartRelease
  <2>8. CASE StopToken(c) \/ StopName(c) \/ StopTake(c) \/ StopPut(c)
             \/ StopLock(c) \/ StopClear(c)
    BY <2>8 DEF StopToken, StopName, StopTake, StopPut, StopLock, StopClear
  <2>9. CASE LibTake(c) \/ LibReturns(c) \/ LibPut(c)
    BY <2>9 DEF LibTake, AfterLibTake, LibReturns, LibPut
  <2>10. CASE ShutdownTake(c) \/ ShutdownDrop(c) \/ ShutdownDone(c)
    BY <2>10 DEF ShutdownTake, ShutdownDrop, ShutdownDone
  <2>11. QED BY <1>5, <2>1, <2>2, <2>3, <2>4, <2>5, <2>6, <2>7, <2>8, <2>9,
                <2>10 DEF Proceed
<1>6. QED BY <1>1, <1>2, <1>3, <1>4, <1>5 DEF Next

\* Where no future can be dropped, a slot that names no trigger names a
\* script that some caller is running: it cannot stay taken for ever.
THEOREM SlotNotOrphaned == Spec => []SlotOwned
<1>1. Init => EnablesTrigger /\ SlotOwned
  BY DEF Init, EnablesTrigger, SlotOwned
<1>2. ASSUME TypeInv, EnablesTrigger, SlotOwned, [Next]_vars
      PROVE  SlotOwned'
  <2>1. CASE SlotKept
    BY <1>2, <2>1 DEF SlotKept, SameTasks, SlotOwned, MayOrphan
  <2>2. ASSUME NEW c \in Caller, StartClaim(c) PROVE SlotOwned'
    <3> USE DEF TypeInv, Typed, InSlot, Goto
    <3>1. CASE SlotFree
      BY <1>2, <2>2, <3>1 DEF StartClaim, SlotOwned
    <3>2. CASE ~SlotFree
      BY <1>2, <2>2, <3>2 DEF StartClaim, SlotOwned, MayOrphan
    <3>3. QED BY <3>1, <3>2
  <2>3. ASSUME NEW c \in Caller, StartRelease(c) \/ StopClear(c)
        PROVE  SlotOwned'
    BY <2>3 DEF StartRelease, StopClear, SlotOwned
  <2>4. ASSUME NEW c \in Caller, StartEnable(c) PROVE SlotOwned'
    <3>1. Kind[key[c]] = "Trigger" /\ UNCHANGED activeTask
      BY <1>2, <2>4 DEF EnablesTrigger, StartEnable, slot
    <3>2. \A d \in Caller \ {c} : pc'[d] = pc[d] /\ key'[d] = key[d]
      BY <1>2, <2>4 DEF TypeInv, Typed, Goto, StartEnable
    <3>3. QED BY <1>2, <3>1, <3>2 DEF SlotOwned, MayOrphan
  <2>5. ASSUME NEW c \in Caller, StartDropped(c) PROVE SlotOwned'
    BY <2>5 DEF StartDropped, SlotOwned, MayOrphan
  <2>6. QED BY <1>2, <2>1, <2>2, <2>3, <2>4, <2>5, SlotCases
<1>3. TypeInv /\ EnablesTrigger /\ SlotOwned /\ [Next]_vars
        => EnablesTrigger' /\ SlotOwned'
  BY <1>2, EnablesTriggerKept
<1>4. QED BY <1>1, <1>3, TypeInvariant, PTL DEF Spec

-----------------------------------------------------------------------------
\* What a step does to the entry of a caller that runs a script before and
\* after it.
RunnersKept ==
    \A c \in Caller : pc[c] = "run" /\ pc'[c] = "run" /\ held[c].cancelled
                        => held'[c].cancelled

\* A step that keeps every entry's flags undoes no cancellation.
LEMMA RunnersKeptWhenSame ==
    ASSUME TypeInv, SameEntries(held, held', Caller) PROVE RunnersKept
BY DEF TypeInv, Typed, HeldWhere, Holding, SameEntries, RunnersKept

\* No operation but start_task's own undoes one.
LEMMA OperationsKeepRunners ==
    ASSUME TypeInv, NEW c \in Caller, Begin(c) \/ Proceed(c)
    PROVE  RunnersKept
<1> USE DEF TypeInv, Typed, Call, Goto, Hold, RunnersKept
<1>1. CASE Begin(c)
  BY <1>1 DEF Begin, LoadDirs, ReloadSnapshot, EnableResolve, DisableResolve,
     StartResolve, StopRequest, LibResolve, ShutdownList
<1>2. CASE ReloadSwap(c) \/ ReloadEnter(c) \/ ReloadHook(c)
  BY <1>2 DEF ReloadSwap, ReloadEnter, ReloadHook
<1>3. CASE EnableEnter(c) \/ EnableHook(c) \/ DisableEnter(c) \/ DisableHook(c)
  BY <1>3 DEF EnableEnter, EnableHook, DisableEnter, DisableHook
<1>4. CASE EnableToken(c) \/ StartToken(c) \/ StartClear(c) \/ StopToken(c)
           \/ StopClear(c)
  BY <1>4, TokenSteps, RunnersKeptWhenSame
<1>5. CASE StartClaim(c) \/ StartTake(c) \/ StartPutLibrary(c)
  BY <1>5 DEF StartClaim, StartTake, AfterTake, StartPutLibrary
<1>6. CASE StartReset(c) BY <1>6 DEF StartReset, ResetToken
<1>7. CASE StartEnable(c)
  <2>1. pc[c] = "enable" /\ \A d \in Caller \ {c} : held'[d] = held[d]
    BY <1>7 DEF StartEnable, Drop
  <2>2. QED BY <2>1
<1>8. CASE StartPut(c) \/ StartRelease(c)
  BY <1>8 DEF StartPut, StartRelease
<1>9. CASE StopName(c) \/ StopTake(c) \/ StopPut(c) \/ StopLock(c)
  BY <1>9 DEF StopName, StopTake, StopPut, StopLock
<1>10. CASE LibTake(c) \/ LibReturns(c) \/ LibPut(c)
  BY <1>10 DEF LibTake, AfterLibTake, LibReturns, LibPut
<1>11. CASE ShutdownTake(c) \/ ShutdownDrop(c) \/ ShutdownDone(c)
  BY <1>11 DEF ShutdownTake, ShutdownDrop, Drop, ShutdownDone
<1>12. QED BY <1>1, <1>2, <1>3, <1>4, <1>5, <1>6, <1>7, <1>8, <1>9, <1>10,
              <1>11 DEF Proceed

\* A stop that reached the token of a running task is never undone while the
\* task runs: only Script::start resets a token, before its script runs.
THEOREM StopIsFinal == Spec => StopSticks
<1>1. ASSUME TypeInv, [Next]_vars PROVE RunnersKept
  <2>1. CASE UNCHANGED vars BY <2>1 DEF vars, RunnersKept
  <2>2. CASE TickCollect \/ \E s \in Script : TickStep(s)
    BY <2>2 DEF TickCollect, TickStep, TickTake, TickCapture, TickJoin,
       RunnersKept
  <2>3. ASSUME NEW c \in Caller, Begin(c) \/ Proceed(c) PROVE RunnersKept
    BY <1>1, <2>3, OperationsKeepRunners
  <2>4. ASSUME NEW c \in Caller, Leave(c) PROVE RunnersKept
    BY <1>1, <2>4 DEF TypeInv, Typed, Goto, Hold, Drop, Leave, RunEnds,
       RunCancelled, StartDropped, RunnersKept
  <2>5. QED BY <1>1, <2>1, <2>2, <2>3, <2>4 DEF Next
<1>2. TypeInv /\ [Next]_vars => [RunnersKept]_vars
  BY <1>1
<1>3. Spec => [][RunnersKept]_vars
  BY <1>2, TypeInvariant, PTL DEF Spec
<1>4. QED BY <1>3, PTL DEF StopSticks, RunnersKept

-----------------------------------------------------------------------------
(* No loaded script gets lost: an entry taken out of the registry is       *)
(* always in the hands of someone who will put it back.                    *)

\* A name tick_triggers has still to visit has no entry of its own out.
TodoNotOut == \A s \in tickTodo : tick[s] = NoEntry
KeepInv == NeverLost /\ TodoNotOut

\* At first no script has been loaded, so none can be lost.
LEMMA InitKeep == ASSUME Init PROVE KeepInv
BY DEF Init, KeepInv, NeverLost, TodoNotOut

\* Steps on active_cancel move no entry, and no caller to or from r_swap.
LEMMA SameEntriesKeep ==
    ASSUME TypeInv, KeepInv,
           SameEntries(scripts, scripts', Script),
           SameEntries(held, held', Caller), SameEntries(tick, tick', Script),
           \A d \in Caller : held[d] # NoEntry =>
              key'[d] = key[d] /\ (pc'[d] = "r_swap" => pc[d] = "r_swap"),
           UNCHANGED <<tickTodo, gone>>
    PROVE  KeepInv'
<1>1. TodoNotOut'
  BY DEF KeepInv, TodoNotOut, SameEntries, TypeInv, Typed
<1>2. NeverLost'
  <2> SUFFICES ASSUME NEW s \in Script \ gone,
                      ~Present(s)', tick'[s] = NoEntry
               PROVE  \E d \in Caller : /\ key'[d] = s /\ held'[d] # NoEntry
                                        /\ pc'[d] # "r_swap"
    BY DEF NeverLost
  <2>1. PICK d \in Caller : key[d] = s /\ held[d] # NoEntry /\ pc[d] # "r_swap"
    BY DEF KeepInv, NeverLost, Present, SameEntries
  <2>2. QED BY <2>1 DEF SameEntries
<1>3. QED BY <1>1, <1>2 DEF KeepInv

\* Overwriting, clearing and cancelling active_cancel loses no entry.
LEMMA TokenStepsKeep ==
    ASSUME TypeInv, KeepInv, NEW c \in Caller,
           \/ EnableToken(c) \/ StartToken(c) \/ StartClear(c)
           \/ StopToken(c) \/ StopClear(c)
    PROVE  KeepInv'
<1>1. \A d \in Caller : held[d] # NoEntry =>
         key'[d] = key[d] /\ (pc'[d] = "r_swap" => pc[d] = "r_swap")
  BY DEF TypeInv, Typed, HeldWhere, Holding, EnableToken, StartToken,
     StartClear, StopToken, StopClear, Goto
<1>2. UNCHANGED <<tickTodo, gone>>
  BY DEF EnableToken, StartToken, StartClear, StopToken, StopClear
<1>3. QED BY <1>1, <1>2, TokenSteps, SameEntriesKeep

\* A step of caller c that leaves the other callers and the ticker alone
\* keeps every script, if it keeps the one it works on.
OwnStep(c) ==
    /\ \A d \in Caller \ {c} : /\ key'[d] = key[d] /\ held'[d] = held[d]
                               /\ pc'[d] = pc[d]
    /\ UNCHANGED <<tickTodo, tick>> /\ gone \subseteq gone'
    /\ \A s \in Script : s # key[c] /\ Present(s) => Present(s)' \/ key'[c] = s
    /\ \A s \in ({key[c], key'[c]} \cap Script) \ gone' :
          Present(s) \/ (key[c] = s /\ held[c] # NoEntry /\ pc[c] # "r_swap")
             => Present(s)' \/ (key'[c] = s /\ held'[c] # NoEntry
                                /\ pc'[c] # "r_swap")

\* A step that changes one caller loses nothing if its entry goes back,
\* stays in its hands, or is counted as dropped.
LEMMA OwnStepKeeps ==
    ASSUME TypeInv, KeepInv, NEW c \in Caller, OwnStep(c)
    PROVE  KeepInv'
<1>1. TodoNotOut' BY DEF KeepInv, TodoNotOut, OwnStep
<1>2. NeverLost'
  <2> SUFFICES ASSUME NEW s \in Script \ gone', ~Present(s)', tick'[s] = NoEntry
               PROVE  \E d \in Caller : /\ key'[d] = s /\ held'[d] # NoEntry
                                        /\ pc'[d] # "r_swap"
    BY DEF NeverLost
  <2>1. s \in Script \ gone /\ tick[s] = NoEntry
    BY DEF OwnStep
  <2>2. CASE Present(s) BY <2>2 DEF OwnStep
  <2>3. CASE ~Present(s)
    <3>1. PICK d \in Caller : /\ key[d] = s /\ held[d] # NoEntry
                              /\ pc[d] # "r_swap"
      BY <2>1, <2>3 DEF KeepInv, NeverLost
    <3>2. CASE d = c BY <3>1, <3>2 DEF OwnStep
    <3>3. CASE d # c BY <3>1, <3>3 DEF OwnStep
    <3>4. QED BY <3>2, <3>3
  <2>4. QED BY <2>2, <2>3
<1>3. QED BY <1>1, <1>2 DEF KeepInv

-----------------------------------------------------------------------------
\* Loading, reloading, enabling and disabling lose nothing.
LEMMA OthersKeep ==
    ASSUME TypeInv, KeepInv, NEW c \in Caller,
           \/ LoadDirs(c) \/ ReloadSnapshot(c) \/ ReloadSwap(c)
           \/ ReloadEnter(c) \/ ReloadHook(c)
           \/ EnableResolve(c) \/ EnableEnter(c) \/ EnableHook(c)
           \/ DisableResolve(c) \/ DisableEnter(c) \/ DisableHook(c)
    PROVE  KeepInv'
<1> USE NullAssumption
    DEF TypeInv, Typed, HeldWhere, KeyWhere, HookUnderLock, Holding, Keyless,
        InHook, Call, Goto, Hold, Store, Present, registry, slot, ticker,
        OwnStep
<1>1. CASE LoadDirs(c)
  <2>1. /\ \A s \in Script : Present(s) => Present(s)'
        /\ \A s \in gone \ gone' : Present(s)'
    BY <1>1, FreshEntry DEF LoadDirs
  <2>2. UNCHANGED <<pc, key, held, tickTodo, tick>>
    BY <1>1 DEF LoadDirs
  <2>3. QED BY <2>1, <2>2 DEF KeepInv, NeverLost, TodoNotOut
<1>2. CASE ReloadSnapshot(c)
  <2>1. OwnStep(c) BY <1>2 DEF ReloadSnapshot
  <2>2. QED BY <2>1, OwnStepKeeps
<1>3. CASE ReloadSwap(c)
  <2>1. OwnStep(c) BY <1>3 DEF ReloadSwap
  <2>2. QED BY <2>1, OwnStepKeeps
<1>4. CASE ReloadEnter(c) \/ ReloadHook(c)
  <2>1. OwnStep(c) BY <1>4 DEF ReloadEnter, ReloadHook
  <2>2. QED BY <2>1, OwnStepKeeps
<1>5. CASE EnableResolve(c) \/ EnableEnter(c)
  <2>1. OwnStep(c) BY <1>5 DEF EnableResolve, EnableEnter, MayEnable
  <2>2. QED BY <2>1, OwnStepKeeps
<1>6. CASE EnableHook(c)
  <2>1. scripts[key[c]] \in Entry BY <1>6 DEF EnableHook
  <2>2. PICK e \in Entry : e = [scripts[key[c]] EXCEPT !.enabled = TRUE]
    BY <2>1, SetFlag
  <2>3. /\ key[c] \in Script /\ Present(key[c])
        /\ scripts' = scripts \/ scripts' = [scripts EXCEPT ![key[c]] = e]
    BY <1>6, <2>2 DEF EnableHook
  <2>4. scripts'[key[c]] # NoEntry BY <2>3
  <2>5. \A s \in Script : s # key[c] => scripts'[s] = scripts[s]
    BY <2>3
  <2>6. UNCHANGED <<held, ticker, gone>> /\ Goto(c, "idle")
    BY <1>6 DEF EnableHook
  <2>7. held[c] = NoEntry BY <1>6 DEF EnableHook
  <2>8. key'[c] \notin Script BY <2>6
  <2>9. OwnStep(c) BY <2>3, <2>4, <2>5, <2>6, <2>7, <2>8
  <2>10. QED BY <2>9, OwnStepKeeps
<1>7. CASE DisableResolve(c) \/ DisableEnter(c)
  <2>1. OwnStep(c) BY <1>7 DEF DisableResolve, DisableEnter
  <2>2. QED BY <2>1, OwnStepKeeps
<1>8. CASE DisableHook(c)
  <2>1. scripts[key[c]] \in Entry BY <1>8 DEF DisableHook
  <2>2. PICK e \in Entry : e = [scripts[key[c]] EXCEPT !.enabled = FALSE]
    BY <2>1, SetFlag
  <2>3. /\ key[c] \in Script /\ Present(key[c])
        /\ scripts' = scripts \/ scripts' = [scripts EXCEPT ![key[c]] = e]
    BY <1>8, <2>2 DEF DisableHook
  <2>4. scripts'[key[c]] # NoEntry BY <2>3
  <2>5. \A s \in Script : s # key[c] => scripts'[s] = scripts[s]
    BY <2>3
  <2>6. UNCHANGED <<held, ticker, gone>> /\ Goto(c, "idle")
    BY <1>8 DEF DisableHook
  <2>7. held[c] = NoEntry BY <1>8 DEF DisableHook
  <2>8. key'[c] \notin Script BY <2>6
  <2>9. OwnStep(c) BY <2>3, <2>4, <2>5, <2>6, <2>7, <2>8
  <2>10. QED BY <2>9, OwnStepKeeps
<1>9. QED BY <1>1, <1>2, <1>3, <1>4, <1>5, <1>6, <1>7, <1>8

\* start_task loses nothing but what Drop counts.
LEMMA TasksKeep ==
    ASSUME TypeInv, KeepInv, NEW c \in Caller,
           \/ StartResolve(c) \/ StartClaim(c) \/ StartTake(c)
           \/ StartPutLibrary(c) \/ StartReset(c) \/ StartEnable(c)
           \/ RunEnds(c) \/ RunCancelled(c) \/ StartPut(c)
           \/ StartRelease(c) \/ StartDropped(c)
    PROVE  KeepInv'
<1> USE NullAssumption
    DEF TypeInv, Typed, HeldWhere, KeyWhere, Holding, Keyless, Call, Goto,
        Hold, Store, Present, registry, slot, ticker, OwnStep
<1>1. CASE StartResolve(c) \/ StartClaim(c)
  <2>1. OwnStep(c) BY <1>1 DEF StartResolve, StartClaim
  <2>2. QED BY <2>1, OwnStepKeeps
<1>2. CASE StartTake(c)
  <2>1. OwnStep(c) BY <1>2 DEF StartTake, AfterTake
  <2>2. QED BY <2>1, OwnStepKeeps
<1>3. CASE StartPutLibrary(c) \/ StartPut(c)
  <2>1. OwnStep(c) BY <1>3 DEF StartPutLibrary, StartPut
  <2>2. QED BY <2>1, OwnStepKeeps
<1>4. CASE StartReset(c)
  <2>1. held[c] \in Entry BY <1>4 DEF StartReset
  <2>2. [held[c] EXCEPT !.cancelled = FALSE] \in Entry BY <2>1, SetFlag
  <2>3. OwnStep(c) BY <1>4, <2>2 DEF StartReset, ResetToken
  <2>4. QED BY <2>3, OwnStepKeeps
<1>5. CASE StartEnable(c)
  <2>1. held[c] \in Entry BY <1>5 DEF StartEnable
  <2>2. [held[c] EXCEPT !.enabled = TRUE] \in Entry BY <2>1, SetFlag
  <2>3. CASE /\ Hold(c, [held[c] EXCEPT !.enabled = TRUE])
             /\ Goto(c, "run") /\ UNCHANGED gone
    BY <1>5, <2>2, <2>3, OwnStepKeeps DEF StartEnable
  <2>4. CASE Goto(c, "idle") /\ Drop(c)
    BY <1>5, <2>1, <2>4, OwnStepKeeps DEF StartEnable, Drop
  <2>5. QED BY <1>5, <2>3, <2>4 DEF StartEnable
<1>6. CASE RunEnds(c) \/ RunCancelled(c) \/ StartRelease(c)
  <2>1. OwnStep(c) BY <1>6 DEF RunEnds, RunCancelled, StartRelease
  <2>2. QED BY <2>1, OwnStepKeeps
<1>7. CASE StartDropped(c)
  <2>1. OwnStep(c) BY <1>7 DEF StartDropped, Drop
  <2>2. QED BY <2>1, OwnStepKeeps
<1>8. QED BY <1>1, <1>2, <1>3, <1>4, <1>5, <1>6, <1>7

\* stop_task loses nothing.
LEMMA StopsKeep ==
    ASSUME TypeInv, KeepInv, NEW c \in Caller,
           \/ StopRequest(c) \/ StopName(c) \/ StopTake(c) \/ StopPut(c)
           \/ StopLock(c)
    PROVE  KeepInv'
<1> USE NullAssumption
    DEF TypeInv, Typed, HeldWhere, KeyWhere, Holding, Keyless, Call, Goto,
        Hold, Store, Present, registry, slot, ticker, OwnStep
<1>1. CASE StopRequest(c) \/ StopName(c) \/ StopLock(c)
  <2>1. OwnStep(c) BY <1>1 DEF StopRequest, StopName, StopLock
  <2>2. QED BY <2>1, OwnStepKeeps
<1>2. CASE StopTake(c)
  <2>1. key[c] \in Script /\ (Present(key[c]) => scripts[key[c]] \in Entry)
    BY <1>2 DEF StopTake
  <2>2. Present(key[c]) =>
           [scripts[key[c]] EXCEPT !.cancelled = TRUE] \in Entry
    BY <2>1, SetFlag
  <2>3. OwnStep(c) BY <1>2, <2>1, <2>2 DEF StopTake
  <2>4. QED BY <2>3, OwnStepKeeps
<1>3. CASE StopPut(c)
  <2>1. OwnStep(c) BY <1>3 DEF StopPut
  <2>2. QED BY <2>1, OwnStepKeeps
<1>4. QED BY <1>1, <1>2, <1>3

\* call_library loses nothing.
LEMMA LibrariesKeep ==
    ASSUME TypeInv, KeepInv, NEW c \in Caller,
           \/ LibResolve(c) \/ LibTake(c) \/ LibReturns(c) \/ LibPut(c)
    PROVE  KeepInv'
<1> USE NullAssumption
    DEF TypeInv, Typed, HeldWhere, KeyWhere, Holding, Keyless, Call, Goto,
        Hold, Store, Present, registry, slot, ticker, OwnStep
<1>1. CASE LibResolve(c) \/ LibReturns(c)
  <2>1. OwnStep(c) BY <1>1 DEF LibResolve, LibReturns
  <2>2. QED BY <2>1, OwnStepKeeps
<1>2. CASE LibTake(c)
  <2>1. OwnStep(c) BY <1>2 DEF LibTake, AfterLibTake
  <2>2. QED BY <2>1, OwnStepKeeps
<1>3. CASE LibPut(c)
  <2>1. OwnStep(c) BY <1>3 DEF LibPut
  <2>2. QED BY <2>1, OwnStepKeeps
<1>4. QED BY <1>1, <1>2, <1>3

\* shutdown counts what it destroys.
LEMMA ShutdownKeeps ==
    ASSUME TypeInv, KeepInv, NEW c \in Caller,
           \/ ShutdownList(c) \/ ShutdownTake(c) \/ ShutdownDrop(c)
           \/ ShutdownDone(c)
    PROVE  KeepInv'
<1> USE NullAssumption
    DEF TypeInv, Typed, HeldWhere, KeyWhere, Holding, Keyless, Call, Goto,
        Hold, Store, Present, registry, slot, ticker, OwnStep
<1>1. CASE ShutdownList(c) \/ ShutdownDone(c)
  <2>1. OwnStep(c) BY <1>1 DEF ShutdownList, ShutdownDone
  <2>2. QED BY <2>1, OwnStepKeeps
<1>2. CASE ShutdownTake(c)
  <2>1. OwnStep(c) BY <1>2 DEF ShutdownTake
  <2>2. QED BY <2>1, OwnStepKeeps
<1>3. CASE ShutdownDrop(c)
  <2>1. OwnStep(c) BY <1>3 DEF ShutdownDrop, Drop
  <2>2. QED BY <2>1, OwnStepKeeps
<1>4. QED BY <1>1, <1>2, <1>3

\* tick_triggers loses nothing but a trigger that panics.
LEMMA TicksKeep ==
    ASSUME TypeInv, KeepInv, TickCollect \/ \E s \in Script : TickStep(s)
    PROVE  KeepInv'
<1> USE NullAssumption
    DEF TypeInv, Typed, Store, Present, registry, slot, KeepInv, NeverLost,
        TodoNotOut
<1>1. CASE TickCollect BY <1>1 DEF TickCollect, Ticking
<1>2. ASSUME NEW s \in Script, TickTake(s) PROVE KeepInv'
  BY <1>2 DEF TickTake
<1>3. ASSUME NEW s \in Script, TickCapture(s) PROVE KeepInv'
  BY <1>3 DEF TickCapture
<1>4. ASSUME NEW s \in Script, TickJoin(s) PROVE KeepInv'
  <2>1. tick[s] \in Entry BY <1>4 DEF TickJoin
  <2>2. PICK e \in Entry : e = [tick[s] EXCEPT !.enabled = FALSE]
    BY <2>1, SetFlag
  <2>3. /\ tick' = [tick EXCEPT ![s] = NoEntry]
        /\ \/ UNCHANGED scripts /\ s \in gone' /\ gone \subseteq gone'
           \/ \E x \in {e, tick[s]} : /\ scripts' = [scripts EXCEPT ![s] = x]
                                     /\ UNCHANGED gone
        /\ UNCHANGED <<tickTodo, pc, key, held>>
    BY <1>4, <2>2 DEF TickJoin
  <2>4. TodoNotOut' BY <2>3
  <2>5. NeverLost' BY <2>1, <2>3
  <2>6. QED BY <2>4, <2>5
<1>5. QED BY <1>1, <1>2, <1>3, <1>4 DEF TickStep

-----------------------------------------------------------------------------
\* Every step keeps the invariant.
LEMMA NextKeeps == ASSUME TypeInv, KeepInv, [Next]_vars PROVE KeepInv'
<1>1. CASE UNCHANGED vars
  BY <1>1 DEF vars, registry, slot, ticker, KeepInv, NeverLost, TodoNotOut,
     Present
<1>2. ASSUME NEW c \in Caller,
             Begin(c) \/ Proceed(c) \/ Leave(c)
      PROVE  KeepInv'
  BY <1>2, OthersKeep, TokenStepsKeep, TasksKeep, StopsKeep, LibrariesKeep,
     ShutdownKeeps DEF Begin, Proceed, Leave
<1>3. QED BY <1>1, <1>2, TicksKeep DEF Next

\* A loaded script is in the registry or with a caller or a tick that puts
\* it back, unless it was dropped for one of the known reasons.
THEOREM NothingLost == Spec => []NeverLost
<1>1. Init => KeepInv BY InitKeep
<1>2. TypeInv /\ KeepInv /\ [Next]_vars => KeepInv' BY NextKeeps
<1>3. KeepInv => NeverLost BY DEF KeepInv
<1>4. QED BY <1>1, <1>2, <1>3, TypeInvariant, PTL DEF Spec

-----------------------------------------------------------------------------
(* The slot is TaskSlot's.                                                 *)

\* What a caller works on when it goes elsewhere.
LEMMA WorkingMoves ==
    ASSUME TypeInv, NEW c \in Caller, NEW l \in Label, Goto(c, l)
    PROVE  Working' = [Working EXCEPT ![c] =
                           IF l \in InSlot THEN key[c] ELSE NoScript]
BY DEF TypeInv, Typed, Goto, Working, InSlot

\* Nobody takes up another task when the tasks are the same.
LEMMA WorkingStays ==
    ASSUME SameTasks
    PROVE  Working' = Working
BY DEF SameTasks, Working

\* Who is between claim and release works on a script; others do not.
LEMMA WorkingFacts ==
    ASSUME TypeInv, NEW c \in Caller
    PROVE  Working[c] # NoScript <=> pc[c] \in InSlot
BY NullAssumption DEF TypeInv, KeyWhere, Keyless, InSlot, Working

\* Every step is a step of TaskSlot, or does not show there.
LEMMA SlotStepIsSeen ==
    ASSUME TypeInv, [Next]_vars
    PROVE  Tasks!Next \/ UNCHANGED <<activeTask, Working, stopped>>
<1> USE DEF Tasks!Next
<1>1. CASE SlotKept  BY <1>1, WorkingStays DEF SlotKept, slot
<1>2. ASSUME NEW c \in Caller, StartClaim(c)
      PROVE  Tasks!Next \/ UNCHANGED <<activeTask, Working, stopped>>
  <2>1. pc[c] = "claim" /\ key[c] \in Script /\ Working[c] = NoScript
    BY <1>2, WorkingFacts DEF StartClaim, TypeInv, KeyWhere, Keyless, InSlot
  <2>2. CASE SlotFree
    <3>1. Working' = [Working EXCEPT ![c] = key[c]]
      BY <1>2, <2>2, WorkingMoves DEF StartClaim, Label, InSlot
    <3>2. Tasks!Claim(c, key[c])
      BY <1>2, <2>1, <2>2, <3>1 DEF StartClaim, SlotFree, Tasks!Claim
    <3>3. QED  BY <2>1, <3>2
  <2>3. CASE ~SlotFree
    <3>1. Working' = [Working EXCEPT ![c] = NoScript]
      BY <1>2, <2>3, WorkingMoves DEF StartClaim, Label, InSlot
    <3>2. QED  BY <1>2, <2>1, <2>3, <3>1 DEF StartClaim, Working
  <2>4. QED  BY <2>2, <2>3
<1>3. ASSUME NEW c \in Caller, StartRelease(c) PROVE Tasks!Next
  <2>1. Working' = [Working EXCEPT ![c] = NoScript]
    BY <1>3, WorkingMoves DEF StartRelease, Label, InSlot
  <2>2. Working[c] # NoScript  BY <1>3, WorkingFacts DEF StartRelease, InSlot
  <2>3. Tasks!Release(c)
    BY <1>3, <2>1, <2>2 DEF StartRelease, Tasks!Release, Tasks!Stops
  <2>4. QED  BY <2>3
<1>4. ASSUME NEW c \in Caller, pc[c] \in InSlot, Goto(c, "idle"), UNCHANGED slot
      PROVE  Tasks!Next
  <2>1. Working' = [Working EXCEPT ![c] = NoScript]
    BY <1>4, WorkingMoves DEF Label, InSlot
  <2>2. Working[c] # NoScript  BY <1>4, WorkingFacts
  <2>3. Tasks!Fail(c)
    BY <1>4, <2>1, <2>2 DEF slot, Tasks!Fail, Tasks!Stops
  <2>4. QED  BY <2>3
<1>5. ASSUME NEW c \in Caller, StartDropped(c) PROVE Tasks!Next
  BY <1>4, <1>5 DEF StartDropped, InSlot
<1>6. ASSUME NEW c \in Caller, StartEnable(c)
      PROVE  Tasks!Next \/ UNCHANGED <<activeTask, Working, stopped>>
  <2>1. pc[c] = "enable" /\ UNCHANGED slot  BY <1>6 DEF StartEnable
  <2>2. CASE Goto(c, "run")
    <3>1. Working' = [Working EXCEPT ![c] = key[c]]
      BY <2>2, WorkingMoves DEF Label, InSlot
    <3>2. Working[c] = key[c]  BY <2>1 DEF Working, InSlot
    <3>3. QED  BY <2>1, <3>1, <3>2 DEF Working, slot
  <2>3. CASE Goto(c, "idle")  BY <1>4, <2>1, <2>3 DEF InSlot
  <2>4. QED  BY <1>6, <2>2, <2>3 DEF StartEnable
<1>7. ASSUME NEW c \in Caller, StopClear(c) PROVE Tasks!Next
  <2>1. Working' = [Working EXCEPT ![c] = NoScript]
    BY <1>7, WorkingMoves DEF StopClear, Label, InSlot
  <2>2. Working[c] = NoScript  BY <1>7, WorkingFacts DEF StopClear, InSlot
  <2>3. UNCHANGED Working  BY <2>1, <2>2 DEF Working
  <2>4. Tasks!Force  BY <1>7, <2>3 DEF StopClear, Tasks!Force
  <2>5. QED  BY <2>4
<1>8. QED  BY <1>1, <1>2, <1>3, <1>5, <1>6, <1>7, SlotCases

\* Whatever interleaves with it, the runtime's slot is claimed only when it
\* is free, for a task that its claimer then works on until it ends, and is
\* emptied only by somebody's release or by stop_task.
THEOREM RuntimeHasTaskSlot == Spec => Slot
<1>1. Init => Tasks!Init  BY DEF Init, Tasks!Init, Working, InSlot
<1>2. QED
  BY <1>1, TypeInvariant, SlotStepIsSeen, PTL DEF Spec, Slot, Tasks!Spec
=============================================================================
