-------------------------- MODULE MCEngineLifecycle --------------------------
(* Instances of EngineLifecycle for TLC. *)
EXTENDS EngineLifecycle

CONSTANTS BitBlt, PrintWindow

\* BitBlt first: two recordings of every frame, by name, and no recording,
\* twice, with a difference that needs no restart.
SomeConfigs ==
    {[method |-> BitBlt, white |-> Method, mode |-> m, name |-> n,
      interval |-> 1, rest |-> r] :
        <<m, n, r>> \in {<<"record", 1, 0>>, <<"record", 2, 0>>,
                        <<"normal", 1, 0>>, <<"normal", 1, 1>>}}

\* All methods work, BitBlt on a black picture; BitBlt does not; none does.
SomeWindows ==
    {[works |-> Method, dark |-> {BitBlt}],
     [works |-> {PrintWindow}, dark |-> {}], [works |-> {}, dark |-> {}]}
=============================================================================
