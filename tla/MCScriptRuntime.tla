--------------------------- MODULE MCScriptRuntime ---------------------------
(* Instances of ScriptRuntime for TLC. *)
EXTENDS ScriptRuntime, TLC

CONSTANTS a, t, l, c1, c2

TaskScripts == {a, t}
TaskKind    == (a :> "Task") @@ (t :> "Trigger")
HookScripts == {t, l}
HookKind    == (t :> "Trigger") @@ (l :> "Library")
Callers     == Permutations({c1, c2})
=============================================================================
