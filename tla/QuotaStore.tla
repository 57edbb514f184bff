----------------------------- MODULE QuotaStore -----------------------------
(***************************************************************************)
(* The user_quotas table and the operations of quota.Service on it.  Each  *)
(* operation is one SQL statement on one row, so it is one atomic step.    *)
(*                                                                         *)
(* No code writes quota_tokens, inserts or deletes a row, or applies       *)
(* reset_period and reset_date: administrators do all that by hand.  A     *)
(* behaviour of the specification runs between two such interventions.     *)
(***************************************************************************)
EXTENDS Domain, Integers

CONSTANTS Users,
          InitialQuotas    \* the table as the administrators left it

VARIABLE user_quotas

QuotaRow == [quota_tokens : Int, used_tokens : Nat]
QuotaKeys == DOMAIN InitialQuotas

ASSUME QuotaAssumption == /\ QuotaKeys \subseteq Users \X Models
                          /\ InitialQuotas \in [QuotaKeys -> QuotaRow]

QuotaTypeOK == user_quotas \in [QuotaKeys -> QuotaRow]
QuotaInit == user_quotas = InitialQuotas
-----------------------------------------------------------------------------
HasRow(k) == k \in DOMAIN user_quotas

Remaining(k) == user_quotas[k].quota_tokens - user_quotas[k].used_tokens

\* Wrong variants of the operations below, for testing the properties: a check
\* that forgets what is used, a sign error, a SET for an increment, and a WHERE
\* clause without its condition.
CheckIgnoringUse(k) == IF ~HasRow(k) THEN "ErrNoRows"
                       ELSE IF user_quotas[k].quota_tokens <= 0 THEN "ErrQuotaExceeded"
                       ELSE "ok"
DeductNegated(k, n) ==
  user_quotas' = IF HasRow(k) THEN [user_quotas EXCEPT ![k].used_tokens = @ - n]
                 ELSE user_quotas
DeductOverwrites(k, n) ==
  user_quotas' = IF HasRow(k) THEN [user_quotas EXCEPT ![k].used_tokens = n]
                 ELSE user_quotas
CanTryDeductAny(k) == HasRow(k)

\* The error of Service.Check: that of Get when there is no row, then the test.
Check(k) == IF ~HasRow(k) THEN "ErrNoRows"
            ELSE IF Remaining(k) <= 0 THEN "ErrQuotaExceeded"
            ELSE "ok"

\* UPDATE ... SET used_tokens = used_tokens + n: adds without any ceiling, and
\* an absent row is not an error.
Deduct(k, n) ==
  user_quotas' = IF HasRow(k)
                 THEN [user_quotas EXCEPT ![k].used_tokens = @ + n]
                 ELSE user_quotas

\* The WHERE clause of TryDeduct; it does not look at the amount to deduct.
CanTryDeduct(k) == HasRow(k) /\ Remaining(k) > 0

\* The error of TryDeduct: zero rows affected is ErrQuotaExceeded.
TryDeductResult(k) == IF CanTryDeduct(k) THEN "ok" ELSE "ErrQuotaExceeded"

TryDeduct(k, n) ==
  user_quotas' = IF CanTryDeduct(k)
                 THEN [user_quotas EXCEPT ![k].used_tokens = @ + n]
                 ELSE user_quotas
=============================================================================
