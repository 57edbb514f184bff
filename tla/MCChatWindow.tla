---------------------------- MODULE MCChatWindow ----------------------------
(***************************************************************************)
(* Two windows, of one user or of two.                                     *)
(***************************************************************************)
EXTENDS ChatWindow, TLC

CONSTANTS w1, w2, alice, bob

MCTwoUsers == w1 :> alice @@ w2 :> bob
MCOneUser == w1 :> alice @@ w2 :> alice

SessionSymmetry == Permutations(Sessions)

\* With two users, also the two windows with theirs: UserOf is the same.
Swap == w1 :> w2 @@ w2 :> w1 @@ alice :> bob @@ bob :> alice
Stay == w1 :> w1 @@ w2 :> w2 @@ alice :> alice @@ bob :> bob
TwoUsersSymmetry == {p @@ q : p \in SessionSymmetry, q \in {Stay, Swap}}
=============================================================================
