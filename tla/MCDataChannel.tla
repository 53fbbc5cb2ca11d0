---------------------------- MODULE MCDataChannel ----------------------------
(* DataChannel with a few messages and a few corruptions. *)
EXTENDS DataChannel

\* The shortest object, and one with another inside.
SomeMessages ==
    {<<"open", "close">>, <<"open", "other", "open", "close", "close">>}

\* A stray brace of each kind, and a byte that is none.
SomeNoise == {<<"open">>, <<"close">>, <<"other">>}

=============================================================================
