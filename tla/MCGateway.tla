----------------------------- MODULE MCGateway -----------------------------
(***************************************************************************)
(* Small instances of Gateway: one or two users on one routed model, next  *)
(* to a model that is not routed.                                          *)
(***************************************************************************)
EXTENDS Gateway, TLC

Body(u, m, s, st) == [user |-> u, model |-> m, session |-> s, stream |-> st]
Tokens(i, o, t) == [input |-> i, output |-> o, total |-> t]
Account(i, k) == [id |-> i, model_id |-> "gpt", api_key |-> k, label |-> "manual",
                  is_active |-> TRUE]

MCModels == {"gpt", "bogus"}
MCHash == [s \in SessionIds |-> 1]
MCNoKeys == [m \in SyncModels |-> NoKey]
MCKeys == [m \in SyncModels |-> "k1"]
MCAccounts == {Account(1, "k1"), Account(2, "k2")}

MCQuotas == <<"alice", "gpt">> :> [quota_tokens |-> 2, used_tokens |-> 0]
MCTwoQuotas == <<"alice", "gpt">> :> [quota_tokens |-> 2, used_tokens |-> 0]
               @@ <<"bob", "gpt">> :> [quota_tokens |-> 1, used_tokens |-> 1]

MCStreamBodies == {Body("alice", "gpt", "s1", TRUE), Body("alice", "gpt", NoSession, FALSE)}
MCAllBodies == {Body(u, m, s, st) : u \in Users, m \in Models, s \in {"s1"}, st \in BOOLEAN}

\* Totals that add up, nothing at all included.
MCUsages == {Tokens(0, 0, 0), Tokens(1, 1, 2)}
\* A total that does not.
MCOddUsages == {Tokens(1, 0, 1), Tokens(1, 1, 3)}

RequestSymmetry == Permutations(Requests)
=============================================================================
