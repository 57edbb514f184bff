------------------------- MODULE QuotaCallersProofs -------------------------
(***************************************************************************)
(* For any table, any number of callers and any cost of a call: the        *)
(* overspend is bounded and a refusal is final.                            *)
(***************************************************************************)
EXTENDS QuotaCallers, DataLemmas

\* The table only ever changes by adding to one row's used_tokens.
LEMMA RowAfterAdd ==
  ASSUME QuotaTypeOK, NEW k \in QuotaKeys, NEW n \in Nat,
         user_quotas' = [user_quotas EXCEPT ![k].used_tokens = @ + n]
  PROVE  /\ QuotaTypeOK'
         /\ user_quotas'[k].used_tokens = user_quotas[k].used_tokens + n
         /\ user_quotas'[k].quota_tokens = user_quotas[k].quota_tokens
         /\ \A j \in QuotaKeys \ {k} : user_quotas'[j] = user_quotas[j]
BY DEF QuotaTypeOK, QuotaRow

\* No step of any caller changes the quota of a row or lowers its use, and the
\* table keeps its type.
LEMMA Steps ==
  ASSUME TypeOK, [Next]_vars
  PROVE  /\ QuotaTypeOK'
         /\ \A k \in QuotaKeys :
              /\ user_quotas'[k].quota_tokens = user_quotas[k].quota_tokens
              /\ user_quotas'[k].used_tokens >= user_quotas[k].used_tokens
<1> DEFINE Goal == /\ QuotaTypeOK'
                   /\ \A k \in QuotaKeys :
                        /\ user_quotas'[k].quota_tokens = user_quotas[k].quota_tokens
                        /\ user_quotas'[k].used_tokens >= user_quotas[k].used_tokens
<1>1. CASE user_quotas' = user_quotas
  BY <1>1 DEF TypeOK, QuotaTypeOK, QuotaRow
<1>2. CASE \E k \in QuotaKeys, n \in 0..MaxTokens :
             user_quotas' = [user_quotas EXCEPT ![k].used_tokens = @ + n]
  <2>1. PICK k \in QuotaKeys, n \in 0..MaxTokens :
               user_quotas' = [user_quotas EXCEPT ![k].used_tokens = @ + n]
    BY <1>2
  <2>2. n \in Nat
    BY CallersAssumption
  <2>3. /\ QuotaTypeOK'
        /\ user_quotas'[k].used_tokens = user_quotas[k].used_tokens + n
        /\ user_quotas'[k].quota_tokens = user_quotas[k].quota_tokens
        /\ \A j \in QuotaKeys \ {k} : user_quotas'[j] = user_quotas[j]
    BY <2>1, <2>2, RowAfterAdd DEF TypeOK
  <2>4. \A j \in QuotaKeys : user_quotas[j].used_tokens \in Nat
    BY DEF TypeOK, QuotaTypeOK, QuotaRow
  <2> QED
    BY <2>2, <2>3, <2>4
<1>3. DOMAIN user_quotas = QuotaKeys
  BY DEF TypeOK, QuotaTypeOK
<1>4. ASSUME NEW c \in TwoPhase, NEW n \in 0..MaxTokens, Settle(c, n)
      PROVE  Goal
  <2>1. window[c] \in QuotaKeys
    BY <1>4 DEF Settle, TypeOK
  <2> QED
    BY <1>2, <1>3, <1>4, <2>1 DEF Settle, Deduct, HasRow
<1>5. ASSUME NEW c \in Strict, NEW k \in Keys, NEW n \in 0..MaxTokens,
             DeductStrictly(c, k, n)
      PROVE  Goal
  BY <1>1, <1>2, <1>3, <1>5 DEF DeductStrictly, TryDeduct, CanTryDeduct, HasRow
<1> QED
  BY <1>1, <1>4, <1>5 DEF Next, Admit, Refuse, GiveUp, vars

\* Every value stays in its type.
THEOREM TypeCorrect == Spec => []TypeOK
<1>1. Init => TypeOK
  BY QuotaAssumption DEF Init, QuotaInit, TypeOK, QuotaTypeOK, Answer
<1>2. TypeOK /\ [Next]_vars => TypeOK'
  <2> SUFFICES ASSUME TypeOK, [Next]_vars PROVE TypeOK'
    OBVIOUS
  <2>1. QuotaTypeOK'
    BY Steps
  <2>2. \A k : Check(k) \in {"ok", "ErrQuotaExceeded", "ErrNoRows"}
              /\ TryDeductResult(k) \in {"ok", "ErrQuotaExceeded"}
    BY DEF Check, TryDeductResult
  <2>3. \A k : Check(k) = "ok" => k \in QuotaKeys
    BY DEF Check, HasRow, TypeOK, QuotaTypeOK
  <2>4. window' \in [TwoPhase -> QuotaKeys \cup {NoCall}]
    BY <2>3 DEF TypeOK, Next, vars, Admit, Refuse, Settle, GiveUp, DeductStrictly
  <2>5. answer' \in [Callers -> Answer]
    <3>1. ASSUME NEW c \in Callers, NEW k \in Keys,
                 NEW e \in {"ok", "ErrQuotaExceeded", "ErrNoRows"}, Tell(c, k, e)
          PROVE  answer' \in [Callers -> Answer]
      BY <3>1 DEF Tell, TypeOK, Answer
    <3> QED
      BY <2>2, <3>1 DEF TypeOK, Next, vars, Admit, Refuse, Settle, GiveUp,
                        DeductStrictly, Callers
  <2> QED
    BY <2>1, <2>4, <2>5 DEF TypeOK
<1> QED
  BY <1>1, <1>2, PTL DEF Spec
-----------------------------------------------------------------------------
(***************************************************************************)
(* The overspend.  PromisesBounded counts, next to what a row has used,    *)
(* MaxTokens for every caller between Check and Deduct.  Only Admit raises *)
(* that sum by a promise, and Admit saw a row below its quota; Settle      *)
(* trades a promise for at most as many tokens.                            *)
(***************************************************************************)

\* The callers in the window of a row are finitely many, at most all of them.
LEMMA WindowFinite ==
  ASSUME NEW k
  PROVE  /\ IsFiniteSet(Window(k))
         /\ Cardinality(TwoPhase) \in Nat
         /\ Cardinality(Window(k)) \in Nat
         /\ Cardinality(Window(k)') \in Nat
         /\ Cardinality(Window(k)) <= Cardinality(TwoPhase)
<1>1. Window(k) \subseteq TwoPhase /\ Window(k)' \subseteq TwoPhase
  BY DEF Window
<1> QED
  BY <1>1, CallersAssumption, FS_Subset, FS_CardinalityType

\* Promises only leave a window: nothing is promised anew.
LEMMA WindowShrinks ==
  ASSUME NEW k, Window(k)' \subseteq Window(k)
  PROVE  /\ Cardinality(Window(k)') \in Nat
         /\ Cardinality(Window(k)') <= Cardinality(Window(k))
BY WindowFinite, FS_Subset, FS_CardinalityType

\* The bound holds at the start, when nothing is promised.
LEMMA PromisesBoundedInit == Init => PromisesBounded
<1> SUFFICES ASSUME Init, NEW k \in QuotaKeys
             PROVE  Promised(k) <= InitialQuotas[k].used_tokens
  BY DEF PromisesBounded, WithinEither
<1>1. Window(k) = {}
  BY CallersAssumption, QuotaAssumption DEF Window, Init
<1>2. Cardinality(Window(k)) = 0
  BY <1>1, FS_EmptySet
<1>3. user_quotas[k].used_tokens = InitialQuotas[k].used_tokens
      /\ InitialQuotas[k].used_tokens \in Nat
  BY QuotaAssumption DEF Init, QuotaInit, QuotaRow
<1> QED
  BY <1>2, <1>3, CallersAssumption DEF Promised

\* A row that neither grows nor gains a promise keeps its bound.
LEMMA BoundKept ==
  ASSUME TypeOK, TypeOK', NEW k \in QuotaKeys,
         user_quotas'[k].used_tokens = user_quotas[k].used_tokens,
         Window(k)' \subseteq Window(k)
  PROVE  Promised(k)' <= Promised(k)
<1>1. Cardinality(Window(k)') \in Nat /\ Cardinality(Window(k)) \in Nat
      /\ Cardinality(Window(k)') <= Cardinality(Window(k))
  BY WindowShrinks, WindowFinite
<1>2. MaxTokens * Cardinality(Window(k)') <= MaxTokens * Cardinality(Window(k))
  BY <1>1, CallersAssumption, TimesMonotone
<1>3. user_quotas[k].used_tokens \in Nat
  BY DEF TypeOK, QuotaTypeOK, QuotaRow
<1>4. MaxTokens * Cardinality(Window(k)) \in Int /\ MaxTokens * Cardinality(Window(k)') \in Int
  BY <1>1, CallersAssumption
<1> QED
  BY <1>2, <1>3, <1>4 DEF Promised

\* A row with something left stays under the ceiling when j callers hold
\* promises on it, j being within the slack.
LEMMA AdmittedBelow ==
  ASSUME TypeOK, NEW k \in QuotaKeys, Remaining(k) > 0,
         user_quotas[k].quota_tokens = InitialQuotas[k].quota_tokens,
         NEW j \in Nat, j <= Slack
  PROVE  user_quotas[k].used_tokens + MaxTokens * j <= Ceiling(k)
<1>1. user_quotas[k].used_tokens \in Nat /\ user_quotas[k].quota_tokens \in Int
  BY DEF TypeOK, QuotaTypeOK, QuotaRow
<1>2. user_quotas[k].used_tokens <= InitialQuotas[k].quota_tokens - 1
  BY <1>1 DEF Remaining
<1>3. Slack \in Nat
  BY CallersAssumption, FS_CardinalityType DEF Slack
<1>4. MaxTokens * j <= MaxTokens * Slack
  BY <1>3, CallersAssumption, TimesMonotone
<1>5. MaxTokens * j \in Int /\ MaxTokens * Slack \in Int
  BY <1>3, CallersAssumption
<1> QED
  BY <1>1, <1>2, <1>4, <1>5 DEF Ceiling

\* Nobody rewrites a quota.
QuotasKept ==
  \A k \in QuotaKeys : user_quotas[k].quota_tokens = InitialQuotas[k].quota_tokens

OverspendInv == QuotasKept /\ PromisesBounded

\* Each step of each caller keeps the bound of each row.
LEMMA OverspendStep ==
  ASSUME TypeOK, TypeOK', OverspendInv, [Next]_vars
  PROVE  OverspendInv'
<1>1. QuotasKept'
  BY Steps DEF OverspendInv, QuotasKept
<1>2. PromisesBounded'
  <2> SUFFICES ASSUME NEW k \in QuotaKeys
               PROVE  WithinEither(Promised(k)', InitialQuotas[k].used_tokens, Ceiling(k))
    BY DEF PromisesBounded
  <2> DEFINE Goal == WithinEither(Promised(k)', InitialQuotas[k].used_tokens, Ceiling(k))
  <2>1. WithinEither(Promised(k), InitialQuotas[k].used_tokens, Ceiling(k))
    BY DEF OverspendInv, PromisesBounded
  <2>2. /\ user_quotas[k].used_tokens \in Nat
        /\ user_quotas'[k].used_tokens \in Nat
        /\ InitialQuotas[k].used_tokens \in Nat
        /\ InitialQuotas[k].quota_tokens \in Int
    BY QuotaAssumption DEF TypeOK, QuotaTypeOK, QuotaRow
  <2>3. /\ Cardinality(Window(k)) \in Nat /\ Cardinality(Window(k)') \in Nat
        /\ Cardinality(TwoPhase) \in Nat /\ Slack \in Nat
        /\ Cardinality(Window(k)) <= Slack
    BY WindowFinite DEF Slack
  <2>4. /\ Promised(k) \in Int /\ Promised(k)' \in Int /\ Ceiling(k) \in Int
    BY <2>2, <2>3, CallersAssumption DEF Promised, Ceiling
  <2>5. Promised(k)' <= Promised(k) => Goal
    BY <2>1, <2>2, <2>4 DEF WithinEither
  <2>6. DOMAIN user_quotas = QuotaKeys
    BY DEF TypeOK, QuotaTypeOK
  <2>7. user_quotas[k].quota_tokens = InitialQuotas[k].quota_tokens
    BY DEF OverspendInv, QuotasKept
  <2>8. ASSUME user_quotas' = user_quotas, Window(k)' \subseteq Window(k)
        PROVE  Goal
    BY <2>5, <2>8, BoundKept
  <2>9. ASSUME NEW c \in TwoPhase, NEW j \in Keys, Admit(c, j)
        PROVE  Goal
    <3>1. CASE j = k
      <4>1. Remaining(k) > 0
        BY <2>2, <2>7, <2>9, <3>1 DEF Admit, Check, Remaining
      <4>2. Window(k)' = Window(k) \cup {c} /\ c \notin Window(k)
        BY <2>9, <3>1, CallersAssumption, QuotaAssumption DEF Admit, Window, TypeOK
      <4>3. Cardinality(Window(k)') = Cardinality(Window(k)) + 1
        BY <4>2, WindowFinite, FS_AddElement
      <4>4. Window(k)' \subseteq TwoPhase
        BY <2>9, <4>2 DEF Window
      <4>5. Cardinality(Window(k)') <= Cardinality(TwoPhase)
        BY <4>4, CallersAssumption, FS_Subset
      <4>6. Cardinality(Window(k)') <= Slack
        BY <2>3, <4>5 DEF Slack
      <4>7. user_quotas[k].used_tokens + MaxTokens * Cardinality(Window(k)') <= Ceiling(k)
        BY <2>3, <2>7, <4>1, <4>6, AdmittedBelow
      <4> QED
        BY <2>9, <4>7 DEF Admit, Promised, WithinEither
    <3>2. CASE j # k
      <4>1. Window(k)' \subseteq Window(k) /\ user_quotas' = user_quotas
        BY <2>9, <3>2 DEF Admit, Window, TypeOK
      <4> QED
        BY <2>8, <4>1
    <3> QED
      BY <3>1, <3>2
  <2>10. ASSUME NEW c \in TwoPhase, NEW n \in 0..MaxTokens, Settle(c, n)
         PROVE  Goal
    <3>1. window[c] \in QuotaKeys /\ n \in Nat /\ n <= MaxTokens
      BY <2>10, CallersAssumption DEF Settle, TypeOK
    <3>2. user_quotas' = [user_quotas EXCEPT ![window[c]].used_tokens = @ + n]
      BY <2>6, <2>10, <3>1 DEF Settle, Deduct, HasRow
    <3>3. CASE window[c] = k
      <4>1. user_quotas'[k].used_tokens = user_quotas[k].used_tokens + n
        BY <3>1, <3>2, <3>3, RowAfterAdd DEF TypeOK
      <4>2. c \in Window(k) /\ Window(k)' = Window(k) \ {c}
        BY <2>10, <3>3, CallersAssumption, QuotaAssumption DEF Settle, Window, TypeOK
      <4>3. Cardinality(Window(k)') = Cardinality(Window(k)) - 1
        BY <4>2, WindowFinite, FS_RemoveElement
      <4>4. MaxTokens * Cardinality(Window(k))
              = MaxTokens * Cardinality(Window(k)') + MaxTokens
        BY <2>3, <4>3, CallersAssumption, TimesSuccessor
      <4>5. MaxTokens * Cardinality(Window(k)') \in Int /\ MaxTokens \in Nat
        BY <2>3, CallersAssumption
      <4>6. Promised(k)' <= Promised(k)
        BY <2>2, <3>1, <4>1, <4>4, <4>5 DEF Promised
      <4> QED
        BY <2>5, <4>6
    <3>4. CASE window[c] # k
      <4>1. user_quotas'[k].used_tokens = user_quotas[k].used_tokens
        BY <3>1, <3>2, <3>4, RowAfterAdd DEF TypeOK
      <4>2. Window(k)' \subseteq Window(k)
        BY <2>10, <3>4, CallersAssumption, QuotaAssumption DEF Settle, Window, TypeOK
      <4> QED
        BY <2>5, <4>1, <4>2, BoundKept
    <3> QED
      BY <3>3, <3>4
  <2>11. ASSUME NEW c \in TwoPhase, GiveUp(c)
         PROVE  Goal
    <3>1. Window(k)' \subseteq Window(k) /\ user_quotas' = user_quotas
      BY <2>11, CallersAssumption, QuotaAssumption DEF GiveUp, Window, TypeOK
    <3> QED
      BY <2>8, <3>1
  <2>12. ASSUME NEW c \in Strict, NEW j \in Keys, NEW n \in 0..MaxTokens,
                DeductStrictly(c, j, n)
         PROVE  Goal
    <3>1. Window(k)' = Window(k)
      BY <2>12 DEF DeductStrictly, Window
    <3>2. CASE j = k /\ CanTryDeduct(j)
      <4>1. user_quotas' = [user_quotas EXCEPT ![k].used_tokens = @ + n] /\ n \in Nat
        BY <2>12, <3>2, CallersAssumption DEF DeductStrictly, TryDeduct
      <4>2. user_quotas'[k].used_tokens = user_quotas[k].used_tokens + n
        BY <4>1, RowAfterAdd DEF TypeOK
      <4>3. Cardinality(Window(k)) + 1 <= Slack
        BY <2>3, <2>12, WindowFinite DEF Slack
      <4>4. user_quotas[k].used_tokens + MaxTokens * (Cardinality(Window(k)) + 1)
              <= Ceiling(k)
        BY <2>3, <2>7, <3>2, <4>3, AdmittedBelow DEF CanTryDeduct
      <4>5. MaxTokens * (Cardinality(Window(k)) + 1)
              = MaxTokens * Cardinality(Window(k)) + MaxTokens
        BY <2>3, CallersAssumption, TimesSuccessor
      <4>6. MaxTokens * Cardinality(Window(k)) \in Int /\ MaxTokens \in Nat
        BY <2>3, CallersAssumption
      <4>7. Promised(k)' <= Ceiling(k)
        BY <2>2, <2>4, <2>12, <3>1, <4>1, <4>2, <4>4, <4>5, <4>6 DEF Promised
      <4> QED
        BY <4>7 DEF WithinEither
    <3>3. CASE ~(j = k /\ CanTryDeduct(j))
      <4>1. user_quotas'[k].used_tokens = user_quotas[k].used_tokens
        <5>1. CASE ~CanTryDeduct(j)
          BY <2>12, <5>1 DEF DeductStrictly, TryDeduct
        <5>2. CASE CanTryDeduct(j)
          <6>1. j # k /\ j \in QuotaKeys /\ n \in Nat
            BY <2>6, <2>12, <3>3, <5>2, CallersAssumption DEF CanTryDeduct, HasRow
          <6>2. user_quotas' = [user_quotas EXCEPT ![j].used_tokens = @ + n]
            BY <2>12, <5>2 DEF DeductStrictly, TryDeduct
          <6> QED
            BY <6>1, <6>2, RowAfterAdd DEF TypeOK
        <5> QED
          BY <5>1, <5>2
      <4> QED
        BY <2>5, <3>1, <4>1, BoundKept
    <3> QED
      BY <3>2, <3>3
  <2>13. ASSUME UNCHANGED <<user_quotas, window>>
         PROVE  Goal
    BY <2>8, <2>13 DEF Window
  <2> QED
    BY <2>9, <2>10, <2>11, <2>12, <2>13 DEF Next, Refuse, vars
<1> QED
  BY <1>1, <1>2 DEF OverspendInv

\* However many callers race between Check and Deduct, a row is overspent by at
\* most one maximal call for each of them (TOCTOU note of Repository.Deduct).
THEOREM OverspendIsBounded == Spec => []OverspendBounded
<1>1. Init => OverspendInv
  BY PromisesBoundedInit DEF OverspendInv, QuotasKept, Init, QuotaInit
<1>2. TypeOK /\ TypeOK' /\ OverspendInv /\ [Next]_vars => OverspendInv'
  BY OverspendStep
<1>3. TypeOK /\ OverspendInv => OverspendBounded
  <2> SUFFICES ASSUME TypeOK, PromisesBounded, NEW k \in QuotaKeys
               PROVE  WithinEither(user_quotas[k].used_tokens,
                                   InitialQuotas[k].used_tokens, Ceiling(k))
    BY DEF OverspendBounded, OverspendInv
  <2>1. Cardinality(Window(k)) \in Nat /\ Slack \in Nat
    BY WindowFinite DEF Slack
  <2>2. MaxTokens * 0 <= MaxTokens * Cardinality(Window(k))
    BY <2>1, CallersAssumption, TimesMonotone
  <2>3. MaxTokens * Cardinality(Window(k)) \in Int /\ MaxTokens * 0 = 0
        /\ MaxTokens * Slack \in Int
    BY <2>1, CallersAssumption
  <2>4. user_quotas[k].used_tokens <= Promised(k)
    BY <2>2, <2>3 DEF Promised, TypeOK, QuotaTypeOK, QuotaRow
  <2>5. /\ Promised(k) \in Int /\ Ceiling(k) \in Int
        /\ user_quotas[k].used_tokens \in Int /\ InitialQuotas[k].used_tokens \in Int
    BY <2>3, QuotaAssumption DEF Promised, Ceiling, TypeOK, QuotaTypeOK, QuotaRow
  <2> QED
    BY <2>4, <2>5 DEF PromisesBounded, WithinEither
<1> QED
  BY <1>1, <1>2, <1>3, TypeCorrect, PTL DEF Spec
-----------------------------------------------------------------------------
\* "quota exceeded" stays true: no later step of any caller makes room again.
THEOREM RefusalsAreFinal == Spec => []RefusalIsFinal
<1>1. Init => RefusalIsFinal
  BY DEF Init, RefusalIsFinal
<1>2. TypeOK /\ RefusalIsFinal /\ [Next]_vars => RefusalIsFinal'
  <2> SUFFICES ASSUME TypeOK, RefusalIsFinal, [Next]_vars,
                      NEW c \in Callers, NEW k, k = answer'[c].key,
                      answer'[c].err = "ErrQuotaExceeded", HasRow(k)'
               PROVE  Remaining(k)' <= 0
    BY DEF RefusalIsFinal, HasRow, Remaining
  <2>1. k \in QuotaKeys /\ HasRow(k)
    BY Steps DEF HasRow, QuotaTypeOK, TypeOK
  <2>2. Remaining(k) <= 0 => Remaining(k)' <= 0
    BY <2>1, Steps DEF Remaining, QuotaTypeOK, TypeOK, QuotaRow
  <2>3. CASE answer'[c] = answer[c]
    BY <2>1, <2>2, <2>3 DEF RefusalIsFinal
  <2>4. CASE answer'[c] # answer[c]
    <3>1. PICK j \in Keys : \/ answer'[c] = [key |-> j, err |-> Check(j)]
                            \/ answer'[c] = [key |-> j, err |-> TryDeductResult(j)]
      BY <2>4 DEF Next, vars, Admit, Refuse, Settle, GiveUp, DeductStrictly, Tell,
                  TypeOK, Callers
    <3>2. j = k /\ (Check(k) = "ErrQuotaExceeded" \/ TryDeductResult(k) = "ErrQuotaExceeded")
      BY <3>1
    <3>3. Remaining(k) <= 0
      BY <2>1, <3>2 DEF Check, TryDeductResult, CanTryDeduct, Remaining,
                        TypeOK, QuotaTypeOK, QuotaRow
    <3> QED
      BY <2>2, <3>3
  <2> QED
    BY <2>3, <2>4
<1> QED
  BY <1>1, <1>2, TypeCorrect, PTL DEF Spec
=============================================================================
