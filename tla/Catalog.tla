------------------------------ MODULE Catalog ------------------------------
(***************************************************************************)
(* What a user is told about the models: model.Handler on the table        *)
(* user_quotas.  It only reads, and the rows come in no particular order.  *)
(*                                                                         *)
(* The table models is not asked, although its column is_active and        *)
(* Repository.ListActive are there: a model is listed if the user has a    *)
(* row with something left.                                                *)
(***************************************************************************)
EXTENDS QuotaStore

\* The rows of a user, by model.  GET /api/quota answers them as they are.
ListByUser(u) == [m \in {n \in Models : HasRow(<<u, n>>)} |-> user_quotas[<<u, m>>]]

Left(row) == row.quota_tokens - row.used_tokens

\* Wrong list: a model with its last token left is taken for used up.
ListModelsOffByOne(u) ==
  LET rows == ListByUser(u)
  IN  [m \in {n \in DOMAIN rows : Left(rows[n]) > 1} |-> Left(rows[m])]

\* GET /api/models: the models with something left, and how much.
ListModels(u) ==
  LET rows == ListByUser(u)
  IN  [m \in {n \in DOMAIN rows : Left(rows[n]) > 0} |-> Left(rows[m])]
=============================================================================
