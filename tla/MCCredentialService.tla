------------------------ MODULE MCCredentialService ------------------------
(***************************************************************************)
(* A pool whose table already holds a manual account and the config row a  *)
(* former process left, for a model that is synchronised, next to a model  *)
(* that is synchronised but missing from table models.                     *)
(***************************************************************************)
EXTENDS CredentialService, TLC

Row(i, m, k, l) == [id |-> i, model_id |-> m, api_key |-> k, label |-> l, is_active |-> TRUE]

MCModels == {"gpt", "gpt5"}
MCCredentials == {Row(1, "gpt", "k1", "config"), Row(2, "gpt", "k2", "manual")}
MCOneModel == {"gpt"}

\* The key k1 for every model, or another one, or none.
MCConfigs == {[m \in SyncModels |-> "k1"], [m \in SyncModels |-> "k3"],
              [m \in SyncModels |-> NoKey]}
MCOneConfig == {[m \in SyncModels |-> "k1"]}

\* Session ids are named after what their hash is modulo six.
MCHash == [s \in SessionIds |-> IF s = "s1" THEN 1 ELSE 2]
=============================================================================
