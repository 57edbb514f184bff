------------------------- MODULE GatewayRefinement -------------------------
(***************************************************************************)
(* Gateway implements ChatAudit.  A request is idle until Check lets it    *)
(* pass, open during the provider call, owing while its goroutine is to    *)
(* deduct and booked while it is to save; what a crash kills is closed.    *)
(***************************************************************************)
EXTENDS Gateway

Phase(r) ==
  CASE job[r] = "deduct" -> "owed"
    [] job[r] = "save" -> "booked"
    [] job[r] \in {"done", "killed"} -> "closed"
    [] job[r] = "none" /\ pc[r] \in {"new", "check"} -> "idle"
    [] job[r] = "none" /\ pc[r] \in {"pick", "call"} -> "open"
    [] OTHER -> "closed"

Audit == INSTANCE ChatAudit
  WITH Accounts <- QuotaKeys,
       Quota <- [k \in QuotaKeys |-> InitialQuotas[k].quota_tokens],
       Opening <- [k \in QuotaKeys |-> InitialQuotas[k].used_tokens],
       MaxBill <- MaxTokens,
       NoAccount <- None,
       phase <- [r \in Requests |-> Phase(r)],
       account <- [r \in Requests |->
                     IF Phase(r) \in {"open", "owed", "booked"} THEN Key(r) ELSE None],
       bill <- [r \in Requests |-> IF Phase(r) = "owed" THEN CostOf(r) ELSE 0],
       ledger <- [k \in QuotaKeys |-> user_quotas[k].used_tokens],
       journal <- Logged

\* Every step of the gateway is a step of the books or none of their business,
\* and what is owed gets settled.
ImplementsAudit == Audit!FairSpec
=============================================================================
