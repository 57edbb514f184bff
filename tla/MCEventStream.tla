---------------------------- MODULE MCEventStream ----------------------------
(***************************************************************************)
(* Answers of up to two texts, whose lines start with a space or not and   *)
(* break anywhere or have a mark in them, and an end: none, the sentinel,  *)
(* an error, or one after the other.                                       *)
(***************************************************************************)
EXTENDS EventStream

MCTexts == {<<"t">>, <<"s", "t">>, <<"n", "s">>, <<"s", "n">>, <<"n", "n">>,
            <<"s", "t", "n", "n", "s", "r">>, <<"s", "E", "n", "s", "t">>, <<"r", "n", "s", "D">>}
MCEnds == {<<>>, << <<"D">> >>, << <<"E", "t">> >>, << <<"D">>, <<"E", "t">> >>}
MCAnswers == {a \o e : a \in UNION {[1..n -> MCTexts] : n \in 0..2}, e \in MCEnds}
=============================================================================
