----------------------------- MODULE MCChatPage -----------------------------
(***************************************************************************)
(* A page of a user with two models, one of which has one token left that  *)
(* others may spend, and a session that used it.                           *)
(***************************************************************************)
EXTENDS ChatPage, TLC

CONSTANTS old, new1, new2, get1, get2

MCModels == {"gpt", "claude"}
MCQuotas == <<"alice", "gpt">> :> [quota_tokens |-> 5, used_tokens |-> 2]
         @@ <<"alice", "claude">> :> [quota_tokens |-> 1, used_tokens |-> 0]
\* The other model does not run out, and is as good as free.
MCCosts == <<"alice", "gpt">> :> {0} @@ <<"alice", "claude">> :> {1}
MCLastRows == [s \in SessionIds |-> IF s = old THEN "claude" ELSE NoModel]

Symmetry == Permutations({new1, new2}) \cup Permutations({get1, get2})
=============================================================================
