------------------------------ MODULE MCStore ------------------------------
(* Instances of Store for TLC.                                             *)
EXTENDS Store, TLC

\* One build of three triples: one of them free, the first again or one more;
\* and a store that is rebuilt with other names.
apb == <<"a", "p", "b">>
bqL == <<"b", "q", "L">>
MCTriples == {"a", "b"} \X {"p", "q"} \X {"a", "b", "L"}
MCInserts == {apb, <<"b", "p", "b">>, <<"a", "q", "L">>, <<"b", "q", "a">>, <<"c", "p", "a">>,
              <<"a", "r", "M">>}
MCInputs == {<<<<t, apb, t>>>> : t \in MCTriples}
            \cup {<<<<bqL, apb, t, u>>>> : t \in MCTriples, u \in {<<"b", "p", "a">>, <<"a", "q", "a">>}}
            \cup {<<<<apb>>, <<bqL, apb>>>>}
=============================================================================
