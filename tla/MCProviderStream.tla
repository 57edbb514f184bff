-------------------------- MODULE MCProviderStream --------------------------
(***************************************************************************)
(* Streams of up to three lines: a text with or without a word or nothing, *)
(* counts of zero, of input only and of both.                              *)
(***************************************************************************)
EXTENDS ProviderStream

Says(r, n) == [role |-> r, words |-> n]
Counts(i, o) == [input |-> i, output |-> o]

MCPrompts == {<<Says("user", 1)>>,
              <<Says("system", 1), Says("user", 2), Says("assistant", 0), Says("user", 0)>>}
MCTexts == {<<>>, <<" ">>, <<"w">>}
MCUsages == {Counts(0, 0), Counts(2, 0), Counts(1, 2)}
=============================================================================
