--------------------------- MODULE MCScriptContext ---------------------------
(* Instances of ScriptContext for TLC. *)
EXTENDS ScriptContext, TLC

CONSTANTS a, t, l, m, hd

Designs == (a :> hd) @@ (t :> None) @@ (l :> None) @@ (m :> hd)

Plan(task, trigger) == (a :> task) @@ (t :> trigger)

\* A task and a trigger that read text, that match, that store, and a task
\* that uses libraries while the trigger comes and goes.
Mixed == {Plan({"ocr"}, {"ocrAll"}),
          Plan({"match"}, {"match", "capture", "frame"}),
          Plan({"put"}, {"get", "put"}),
          Plan({"color", "library"}, {}),
          Plan({"put", "library"}, {"reload"})}

Storing == {Plan({"put"}, {"put"})}
=============================================================================
