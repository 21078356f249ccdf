--------------------------- MODULE MCInputPipeline ---------------------------
(* Instances of InputPipeline for TLC. *)
EXTENDS InputPipeline

CONSTANTS c1, k1

\* With and without a queue; without either a queue or a fallback.
SomeConfigs == {<<TRUE, TRUE>>, <<FALSE, TRUE>>, <<FALSE, FALSE>>}
=============================================================================
