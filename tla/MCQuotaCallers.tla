--------------------------- MODULE MCQuotaCallers ---------------------------
(***************************************************************************)
(* Small tables for QuotaCallers: a row with quota left, a row already     *)
(* overspent, and a user and model without a row.                          *)
(***************************************************************************)
EXTENDS QuotaCallers, TLC

MCUsers == {"alice", "bob"}
MCModels == {"gpt"}
MCQuotas == <<"alice", "gpt">> :> [quota_tokens |-> 3, used_tokens |-> 1]

MCModelsWide == {"gpt", "qwen"}
MCQuotasWide ==
  <<"alice", "gpt">> :> [quota_tokens |-> 2, used_tokens |-> 0]
  @@ <<"bob", "gpt">> :> [quota_tokens |-> 1, used_tokens |-> 3]
=============================================================================
