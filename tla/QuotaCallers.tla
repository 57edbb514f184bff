---------------------------- MODULE QuotaCallers ----------------------------
(***************************************************************************)
(* Concurrent users of quota.Service.  A two-phase caller follows the      *)
(* protocol of proxy.Handler.Chat: Check, then a call of unbounded         *)
(* duration, then Deduct of what the call turned out to cost.  A strict    *)
(* caller uses TryDeduct, the single-statement alternative the service     *)
(* offers.  Both work for ever on the same rows.                           *)
(***************************************************************************)
EXTENDS QuotaStore, FiniteSets

CONSTANTS TwoPhase,        \* callers doing Check ... Deduct
          Strict,          \* callers doing TryDeduct
          MaxTokens,       \* the most tokens one call costs
          NoCall           \* not a quota key

ASSUME CallersAssumption == /\ IsFiniteSet(TwoPhase)
                            /\ MaxTokens \in Nat
                            /\ NoCall \notin Users \X Models

VARIABLES window,          \* the key a two-phase caller passed Check for
          answer           \* what a caller asked for last, and what it was told

vars == <<user_quotas, window, answer>>

Callers == TwoPhase \cup Strict
Keys == Users \X Models
Answer == [key : Keys \cup {NoCall}, err : {"ok", "ErrQuotaExceeded", "ErrNoRows"}]

TypeOK == /\ QuotaTypeOK
          /\ window \in [TwoPhase -> QuotaKeys \cup {NoCall}]
          /\ answer \in [Callers -> Answer]

Init == /\ QuotaInit
        /\ window = [c \in TwoPhase |-> NoCall]
        /\ answer = [c \in Callers |-> [key |-> NoCall, err |-> "ok"]]
-----------------------------------------------------------------------------
Tell(c, k, e) == answer' = [answer EXCEPT ![c] = [key |-> k, err |-> e]]

Admit(c, k) == /\ window[c] = NoCall
               /\ Check(k) = "ok"
               /\ window' = [window EXCEPT ![c] = k]
               /\ Tell(c, k, "ok")
               /\ UNCHANGED user_quotas

Refuse(c, k) == /\ window[c] = NoCall
                /\ Check(k) # "ok"
                /\ Tell(c, k, Check(k))
                /\ UNCHANGED <<user_quotas, window>>

Settle(c, n) == /\ window[c] # NoCall
                /\ Deduct(window[c], n)
                /\ window' = [window EXCEPT ![c] = NoCall]
                /\ UNCHANGED answer

\* The call failed, or the Deduct did and its error was dropped.
GiveUp(c) == /\ window[c] # NoCall
             /\ window' = [window EXCEPT ![c] = NoCall]
             /\ UNCHANGED <<user_quotas, answer>>

DeductStrictly(c, k, n) == /\ TryDeduct(k, n)
                           /\ Tell(c, k, TryDeductResult(k))
                           /\ UNCHANGED window

Next == \/ \E c \in TwoPhase : \/ \E k \in Keys : Admit(c, k) \/ Refuse(c, k)
                               \/ \E n \in 0..MaxTokens : Settle(c, n)
                               \/ GiveUp(c)
        \/ \E c \in Strict, k \in Keys, n \in 0..MaxTokens : DeductStrictly(c, k, n)

Spec == Init /\ [][Next]_vars
-----------------------------------------------------------------------------
(***************************************************************************)
(* How far a row can be overspent.  The callers between Check and Deduct   *)
(* hold promises the table knows nothing of: each may still add MaxTokens. *)
(***************************************************************************)
Window(k) == {c \in TwoPhase : window[c] = k}

\* The callers that can push one row over its quota together: every two-phase
\* caller, and one strict caller, since TryDeduct looks again each time.
Slack == Cardinality(TwoPhase) + (IF Strict = {} THEN 0 ELSE 1)

WithinEither(n, a, b) == n <= a \/ n <= b

Promised(k) == user_quotas[k].used_tokens + MaxTokens * Cardinality(Window(k))

Ceiling(k) == InitialQuotas[k].quota_tokens - 1 + MaxTokens * Slack

\* What is used plus everything promised stays below the ceiling: this is the
\* inductive form of OverspendBounded.
PromisesBounded ==
  \A k \in QuotaKeys :
    WithinEither(Promised(k), InitialQuotas[k].used_tokens, Ceiling(k))

\* The window between Check and Deduct is wide open (Repository.Deduct's TOCTOU
\* note), but the overspend it allows is bounded: at most the last token of
\* the quota plus one maximal call for each concurrent caller.
OverspendBounded ==
  \A k \in QuotaKeys :
    WithinEither(user_quotas[k].used_tokens, InitialQuotas[k].used_tokens, Ceiling(k))

\* An answer "quota exceeded" never goes stale: whatever the other callers
\* check, settle or give up afterwards, the row stays exhausted, because no
\* path of the service gives tokens back.
RefusalIsFinal ==
  \A c \in Callers :
    answer[c].err = "ErrQuotaExceeded" /\ HasRow(answer[c].key)
      => Remaining(answer[c].key) <= 0
=============================================================================
