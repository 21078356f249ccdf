--------------------------- MODULE MCEngineControl ---------------------------
(* Instances of EngineControl for TLC. *)
EXTENDS EngineControl

CONSTANTS c1, c2, c3

\* A hotkey client and a command client, each with its own operations.
FlowCalls == ({c1} \X {"toggle", "stopAll"})
               \cup ({c2} \X {"script", "stopTask", "flow"})
HotkeyCalls == {<<c1, "script">>, <<c2, "toggle">>, <<c3, "stopAll">>}
CommandCalls == {c1} \X {"flow", "stopFlow"}
=============================================================================
