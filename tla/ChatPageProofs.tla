--------------------------- MODULE ChatPageProofs ---------------------------
(***************************************************************************)
(* For any table, any costs and any number of sessions and requests: lists *)
(* of models err on one side only, and users pay for the model displayed.  *)
(*                                                                         *)
(* Both rest on the same two facts.  The table changes only by adding to   *)
(* used_tokens, so what is refused stays refused; and what is selected     *)
(* without being an option was left out by the list.                       *)
(***************************************************************************)
EXTENDS ChatPage, TLAPS

\* A charge adds to one row, or changes nothing if there is no row.
LEMMA DeductAdds ==
  ASSUME QuotaTypeOK, NEW k, NEW n, k \in QuotaKeys => n \in Nat, Deduct(k, n)
  PROVE  /\ QuotaTypeOK'
         /\ \A j \in QuotaKeys :
              /\ user_quotas'[j].quota_tokens = user_quotas[j].quota_tokens
              /\ user_quotas'[j].used_tokens >= user_quotas[j].used_tokens
<1>1. CASE ~HasRow(k)
  BY <1>1 DEF Deduct, QuotaTypeOK, QuotaRow
<1>2. CASE HasRow(k)
  <2>1. k \in QuotaKeys
    BY <1>2 DEF HasRow, QuotaTypeOK
  <2>2. user_quotas' = [user_quotas EXCEPT ![k].used_tokens = @ + n]
    BY <1>2 DEF Deduct
  <2>3. \A j \in QuotaKeys : user_quotas[j].used_tokens \in Nat
    BY DEF QuotaTypeOK, QuotaRow
  <2>4. QuotaTypeOK'
    BY <2>1, <2>2 DEF QuotaTypeOK, QuotaRow
  <2>5. /\ user_quotas'[k].used_tokens = user_quotas[k].used_tokens + n
        /\ user_quotas'[k].quota_tokens = user_quotas[k].quota_tokens
        /\ \A j \in QuotaKeys \ {k} : user_quotas'[j] = user_quotas[j]
    BY <2>1, <2>2 DEF QuotaTypeOK, QuotaRow
  <2> QED
    BY <2>1, <2>3, <2>4, <2>5
<1> QED
  BY <1>1, <1>2

\* Every step leaves the table alone or charges one row.
LEMMA TableStep ==
  ASSUME TypeOK, [Next]_vars
  PROVE  /\ QuotaTypeOK'
         /\ \A j \in QuotaKeys :
              /\ user_quotas'[j].quota_tokens = user_quotas[j].quota_tokens
              /\ user_quotas'[j].used_tokens >= user_quotas[j].used_tokens
<1>1. CASE user_quotas' = user_quotas
  BY <1>1 DEF TypeOK, QuotaTypeOK, QuotaRow
<1>2. CASE \E k : \E n \in Costs[k] : Deduct(k, n)
  <2>1. PICK k, n : n \in Costs[k] /\ Deduct(k, n)
    BY <1>2
  <2>2. k \in QuotaKeys => n \in Nat
    BY <2>1, PageAssumption
  <2> QED
    BY <2>1, <2>2, DeductAdds DEF TypeOK
<1>3. CASE Page
  BY <1>1, <1>3 DEF Page, AnswerListing, ListingArrives, ListingFails, Select, NewSession,
                    AnswerLoad, LoadArrives, LoadFails, ChooseModel, Submit, StreamDone
<1>4. CASE Server
  BY <1>1, <1>2, <1>4 DEF Server, PassCheck, FailCheck, CallFails, CallEnds, Settle,
                          OthersSpend
<1> QED
  BY <1>1, <1>3, <1>4 DEF Next, vars

\* Hence what is left of a row only shrinks, and a refusal stays true.
LEMMA RefusalStays ==
  ASSUME TypeOK, [Next]_vars, NEW k
  PROVE  /\ HasRow(k)' <=> HasRow(k)
         /\ HasRow(k) => Remaining(k)' <= Remaining(k)
         /\ Check(k) # "ok" => Check(k)' # "ok"
<1>1. DOMAIN user_quotas = QuotaKeys /\ DOMAIN user_quotas' = QuotaKeys
  BY TableStep DEF TypeOK, QuotaTypeOK
<1>2. ASSUME k \in QuotaKeys
      PROVE  /\ user_quotas[k].quota_tokens \in Int /\ user_quotas[k].used_tokens \in Nat
             /\ user_quotas'[k].used_tokens \in Nat
             /\ user_quotas'[k].quota_tokens = user_quotas[k].quota_tokens
             /\ user_quotas'[k].used_tokens >= user_quotas[k].used_tokens
  BY <1>2, TableStep DEF TypeOK, QuotaTypeOK, QuotaRow
<1> QED
  BY <1>1, <1>2 DEF HasRow, Remaining, Check
-----------------------------------------------------------------------------
(***************************************************************************)
(* Types.                                                                  *)
(***************************************************************************)

\* What the server answers to GET /api/models is a list.
LEMMA ListModelsType ==
  ASSUME TypeOK
  PROVE  /\ IsList(ListModels(PageUser))
         /\ \A m \in Models :
              /\ m \in DOMAIN ListModels(PageUser) <=>
                   HasRow(<<PageUser, m>>) /\ Remaining(<<PageUser, m>>) > 0
              /\ m \in DOMAIN ListModels(PageUser) =>
                   ListModels(PageUser)[m] = Remaining(<<PageUser, m>>)
<1>1. \A m \in Models : HasRow(<<PageUser, m>>) => Remaining(<<PageUser, m>>) \in Int
  BY DEF TypeOK, QuotaTypeOK, QuotaRow, HasRow, Remaining
<1>2. \A m \in Models : m \in DOMAIN ListByUser(PageUser) =>
        Left(ListByUser(PageUser)[m]) = Remaining(<<PageUser, m>>)
  BY DEF ListByUser, Left, Remaining
<1>3. DOMAIN ListByUser(PageUser) = {m \in Models : HasRow(<<PageUser, m>>)}
  BY DEF ListByUser
<1>4. /\ DOMAIN ListModels(PageUser) =
           {m \in DOMAIN ListByUser(PageUser) : Left(ListByUser(PageUser)[m]) > 0}
      /\ ListModels(PageUser) = [m \in DOMAIN ListModels(PageUser) |->
                                   Left(ListByUser(PageUser)[m])]
  BY DEF ListModels
<1>5. \A m \in DOMAIN ListModels(PageUser) :
        ListModels(PageUser)[m] = Left(ListByUser(PageUser)[m])
  BY <1>4
<1>6. \A m \in DOMAIN ListModels(PageUser) : ListModels(PageUser)[m] \in Int
  BY <1>1, <1>2, <1>3, <1>4, <1>5
<1>7. ListModels(PageUser) \in [DOMAIN ListModels(PageUser) -> Int]
  BY <1>4, <1>5, <1>6
<1> QED
  BY <1>2, <1>3, <1>4, <1>5, <1>7 DEF IsList

\* An empty list is one.
LEMMA NothingIsList == IsList(Nothing) /\ DOMAIN Nothing = {}
BY DEF IsList, Nothing

\* The page opens with everything in its type.
LEMMA TypeInit == Init => TypeOK
<1> SUFFICES ASSUME Init PROVE TypeOK
  OBVIOUS
<1>1. QuotaTypeOK
  BY QuotaAssumption DEF Init, QuotaInit, QuotaTypeOK
<1>2. NoLoad \in Load /\ Asked(currentSession) \in Load /\ NoTurn \in Turn
  BY DEF Init, NoLoad, NoTurn, Asked, Load, Turn, MaybeModel, RequestSessions
<1>3. loads \in [Slots -> Load]
  BY <1>2 DEF Init
<1>4. turns \in [Turns -> Turn]
  BY <1>2 DEF Init
<1>5. 0 \in 0..MaxTurns
  BY PageAssumption
<1> QED
  BY <1>1, <1>3, <1>4, <1>5, NothingIsList DEF Init, TypeOK, MaybeModel

\* Changing the session keeps the types of what it changes.
LEMMA ShowType ==
  ASSUME TypeOK, NEW s \in SessionIds, Show(s)
  PROVE  /\ currentSession' \in SessionIds /\ sessionHasMessages' \in BOOLEAN
         /\ loads' \in [Slots -> Load] /\ careless' \in BOOLEAN
<1>1. Asked(s) \in Load
  BY DEF Asked, Load, RequestSessions, MaybeModel
<1> QED
  BY <1>1 DEF Show, TypeOK, CarelessIf

\* A step of the server on a turn keeps it in its type.
LEMMA MoveType ==
  ASSUME TypeOK, NEW n \in Turns, NEW from,
         NEW to \in {"refused", "called", "settling", "saved", "lost"}, Move(n, from, to)
  PROVE  turns' \in [Turns -> Turn] /\ UNCHANGED pageVars
BY DEF Move, TypeOK, Turn

LEMMA TypeStep == TypeOK /\ [Next]_vars => TypeOK'
<1> SUFFICES ASSUME TypeOK, [Next]_vars PROVE TypeOK'
  OBVIOUS
<1> USE TableStep
<1>1. CASE AnswerListing \/ ListingFails
  <2>1. listing'.stage \in {"asked", "answered", "done"} /\ IsList(listing'.models)
    BY <1>1, ListModelsType, NothingIsList DEF AnswerListing, ListingFails
  <2> QED
    BY <1>1, <2>1 DEF AnswerListing, ListingFails, TypeOK, sessionVars, IsList
<1>2. CASE ListingArrives
  BY <1>2 DEF ListingArrives, TypeOK, sessionVars, IsList, MaybeModel, Nothing
<1>3. ASSUME NEW s \in SessionIds, Select(s) \/ NewSession(s)
      PROVE  TypeOK'
  BY <1>3, ShowType DEF Select, NewSession, MakeSession, TypeOK, listVars
<1>4. ASSUME NEW i \in Slots, AnswerLoad(i) \/ LoadArrives(i) \/ LoadFails(i)
      PROVE  TypeOK'
  <2>1. NoLoad \in Load
    BY DEF NoLoad, Load, RequestSessions, MaybeModel
  <2>2. CASE AnswerLoad(i)
    BY <2>2 DEF AnswerLoad, TypeOK, listVars, sessionVars, CarelessIf, Load
  <2>3. CASE LoadArrives(i)
    BY <2>1, <2>3 DEF LoadArrives, TypeOK, listVars, sessionVars, Load
  <2>4. CASE LoadFails(i)
    BY <2>1, <2>4 DEF LoadFails, TypeOK, listVars, sessionVars, CarelessIf
  <2> QED
    BY <1>4, <2>2, <2>3, <2>4
<1>5. ASSUME NEW m \in Models, ChooseModel(m)
      PROVE  TypeOK'
  <2>1. CASE sessionHasMessages
    BY <1>5, <2>1, ShowType DEF ChooseModel, MakeSession, TypeOK, listVars, MaybeModel
  <2>2. CASE ~sessionHasMessages
    BY <1>5, <2>2 DEF ChooseModel, TypeOK, listVars, sessionVars, MaybeModel
  <2> QED
    BY <2>1, <2>2
<1>6. ASSUME NEW n \in Turns, Submit(n)
      PROVE  TypeOK'
  <2>1. Displayed \in MaybeModel
    BY DEF Displayed, TypeOK
  <2>2. turns' \in [Turns -> Turn]
    BY <1>6, <2>1 DEF Submit, TypeOK, Turn, RequestSessions
  <2>3. n \in 0..MaxTurns
    BY PageAssumption DEF Turns
  <2> QED
    BY <1>6, <2>2, <2>3 DEF Submit, TypeOK, listVars, sessionVars, CarelessIf
<1>7. CASE StreamDone
  BY <1>7, PageAssumption DEF StreamDone, TypeOK, listVars, sessionVars
<1>8. CASE Server
  <2>1. ASSUME UNCHANGED pageVars, turns' \in [Turns -> Turn]
        PROVE  TypeOK'
    BY <2>1 DEF pageVars, TypeOK, listVars, sessionVars
  <2>2. ASSUME NEW n \in Turns, \/ PassCheck(n) \/ FailCheck(n) \/ CallFails(n)
                                \/ CallEnds(n) \/ Settle(n)
        PROVE  TypeOK'
    BY <2>1, <2>2, MoveType DEF PassCheck, FailCheck, CallFails, CallEnds, Settle
  <2>3. ASSUME NEW k \in QuotaKeys, OthersSpend(k)
        PROVE  TypeOK'
    BY <2>1, <2>3 DEF OthersSpend, TypeOK
  <2> QED
    BY <1>8, <2>2, <2>3 DEF Server
<1>9. CASE UNCHANGED vars
  BY <1>9 DEF vars, TypeOK, listVars, sessionVars
<1> QED
  BY <1>1, <1>2, <1>3, <1>4, <1>5, <1>6, <1>7, <1>8, <1>9 DEF Next, Page

\* The page's state and the table keep their types.
THEOREM TypeCorrect == Spec => []TypeOK
BY TypeInit, TypeStep, PTL DEF Spec
-----------------------------------------------------------------------------
(***************************************************************************)
(* The list.                                                               *)
(***************************************************************************)

\* A list that erred on the good side goes on doing so.
LEMMA OptimisticStays ==
  ASSUME TypeOK, [Next]_vars, NEW l, IsList(l), Optimistic(l)
  PROVE  Optimistic(l)'
<1> SUFFICES ASSUME NEW m \in Models
             PROVE  IF m \in DOMAIN l
                    THEN HasRow(<<PageUser, m>>)' /\ Remaining(<<PageUser, m>>)' <= l[m]
                    ELSE Check(<<PageUser, m>>)' # "ok"
  BY DEF Optimistic
<1>1. CASE m \notin DOMAIN l
  BY <1>1, RefusalStays DEF Optimistic
<1>2. CASE m \in DOMAIN l
  <2> DEFINE k == <<PageUser, m>>
  <2>1. HasRow(k) /\ Remaining(k) <= l[m] /\ l[m] \in Int
    BY <1>2 DEF Optimistic, IsList
  <2>2. k \in QuotaKeys
    BY <2>1 DEF HasRow, TypeOK, QuotaTypeOK
  <2>3. HasRow(k)' /\ Remaining(k)' <= Remaining(k)
    BY <2>1, RefusalStays
  <2>4. Remaining(k)' \in Int /\ Remaining(k) \in Int
    BY <2>2, TableStep DEF Remaining, TypeOK, QuotaTypeOK, QuotaRow
  <2> QED
    BY <1>2, <2>1, <2>3, <2>4
<1> QED
  BY <1>1, <1>2

\* What the server answers tells the truth when it is answered.
LEMMA AnswerIsOptimistic ==
  ASSUME TypeOK
  PROVE  Optimistic(ListModels(PageUser))
<1>1. \A m \in Models : HasRow(<<PageUser, m>>) => Remaining(<<PageUser, m>>) \in Int
  BY DEF TypeOK, QuotaTypeOK, QuotaRow, HasRow, Remaining
<1>2. \A m \in Models : HasRow(<<PageUser, m>>) /\ ~(Remaining(<<PageUser, m>>) > 0)
                          => Check(<<PageUser, m>>) # "ok"
  BY <1>1 DEF Check
<1>3. \A m \in Models : ~HasRow(<<PageUser, m>>) => Check(<<PageUser, m>>) # "ok"
  BY DEF Check
<1>4. ASSUME NEW m \in Models, m \in DOMAIN ListModels(PageUser)
      PROVE  /\ HasRow(<<PageUser, m>>)
             /\ Remaining(<<PageUser, m>>) <= ListModels(PageUser)[m]
  BY <1>1, <1>4, ListModelsType
<1>5. ASSUME NEW m \in Models, m \notin DOMAIN ListModels(PageUser)
      PROVE  Check(<<PageUser, m>>) # "ok"
  BY <1>2, <1>3, <1>5, ListModelsType
<1> QED
  BY <1>4, <1>5 DEF Optimistic

\* What the selector falls back on: nothing, as long as there is no option.
TopInv == /\ listing.stage # "done" => DOMAIN models = {}
          /\ DOMAIN models = {} => top = NoModel

ListInv == TypeOK /\ ListingIsOptimistic /\ TopInv

LEMMA ListInit == Init => ListInv
<1> SUFFICES ASSUME Init PROVE ListInv
  OBVIOUS
<1>1. listing.stage = "asked" /\ DOMAIN models = {} /\ top = NoModel
  BY NothingIsList DEF Init
<1> QED
  BY <1>1, TypeInit DEF ListInv, ListingIsOptimistic, TopInv

\* The list that is answered or shown after a step was true before it.
LEMMA ListStep ==
  ASSUME ListInv, [Next]_vars
  PROVE  /\ listing'.stage = "answered" => Optimistic(listing'.models)
         /\ DOMAIN models' # {} => Optimistic(models')
         /\ TopInv'
<1> USE DEF ListInv, ListingIsOptimistic, TopInv
<1>1. CASE AnswerListing
  BY <1>1, AnswerIsOptimistic DEF AnswerListing
<1>2. CASE ListingArrives
  <2>1. listing'.stage = "done" /\ models' = listing.models /\ listing.stage = "answered"
    BY <1>2 DEF ListingArrives, TypeOK
  <2> QED
    BY <1>2, <2>1 DEF ListingArrives
<1>3. CASE ListingFails
  BY <1>3 DEF ListingFails
<1>4. CASE UNCHANGED listVars
  BY <1>4 DEF listVars
<1> QED
  BY <1>1, <1>2, <1>3, <1>4
  DEF Next, Page, Server, Select, NewSession, AnswerLoad, LoadArrives, LoadFails, ChooseModel,
      Submit, StreamDone, PassCheck, FailCheck, CallFails, CallEnds, Settle, OthersSpend, Move,
      pageVars, vars

LEMMA ListInvStep == ListInv /\ [Next]_vars => ListInv'
<1> SUFFICES ASSUME ListInv, [Next]_vars PROVE ListInv'
  OBVIOUS
<1>1. TypeOK /\ TypeOK'
  BY TypeStep DEF ListInv
<1>2. IsList(listing'.models) /\ IsList(models')
  BY <1>1 DEF TypeOK, IsList
<1>3. listing'.stage = "answered" => Optimistic(listing.models)'
  <2> SUFFICES ASSUME listing'.stage = "answered" PROVE Optimistic(listing.models)'
    OBVIOUS
  <2>1. PICK l : l = listing'.models
    OBVIOUS
  <2>2. Optimistic(l)'
    BY <1>1, <1>2, <2>1, ListStep, OptimisticStays
  <2> QED
    BY <2>1, <2>2 DEF Optimistic
<1>4. DOMAIN models' # {} => Optimistic(models)'
  <2> SUFFICES ASSUME DOMAIN models' # {} PROVE Optimistic(models)'
    OBVIOUS
  <2>1. PICK l : l = models'
    OBVIOUS
  <2>2. Optimistic(l)'
    BY <1>1, <1>2, <2>1, ListStep, OptimisticStays
  <2> QED
    BY <2>1, <2>2 DEF Optimistic
<1> QED
  BY <1>1, <1>3, <1>4, ListStep DEF ListInv, ListingIsOptimistic

\* A list of models never understates what is left, and what it leaves out is
\* refused, however late it arrives and whoever spends meanwhile.
THEOREM ListingsAreOptimistic == Spec => []ListingIsOptimistic
<1>1. ListInv => ListingIsOptimistic
  BY DEF ListInv
<1> QED
  BY <1>1, ListInit, ListInvStep, PTL DEF Spec
-----------------------------------------------------------------------------
(***************************************************************************)
(* What is paid for.                                                       *)
(***************************************************************************)

\* A turn whose model was not the one displayed is to be refused.
Honest(n) ==
  turns[n].stage # "none" /\ turns[n].shown \notin {turns[n].model, NoModel}
    => turns[n].stage \in {"asked", "refused"} /\ Check(Key(n)) # "ok"

PayInv == ListInv /\ \A n \in Turns : Honest(n)

\* An option that is selected is displayed; another model is not on the list.
LEMMA SelectedOrRefused ==
  ASSUME ListInv, selectedModel # NoModel
  PROVE  \/ Displayed \in {selectedModel, NoModel}
         \/ Check(<<PageUser, selectedModel>>) # "ok"
<1>1. CASE selectedModel \in DOMAIN models
  BY <1>1 DEF Displayed
<1>2. CASE selectedModel \notin DOMAIN models /\ DOMAIN models = {}
  BY <1>2 DEF Displayed, ListInv, TopInv
<1>3. CASE selectedModel \notin DOMAIN models /\ DOMAIN models # {}
  <2>1. selectedModel \in Models
    BY DEF ListInv, TypeOK, MaybeModel
  <2> QED
    BY <1>3, <2>1 DEF ListInv, ListingIsOptimistic, Optimistic
<1> QED
  BY <1>1, <1>2, <1>3

\* Turns that a step leaves alone stay honest, as refusals stay true.
LEMMA HonestStays ==
  ASSUME TypeOK, [Next]_vars, NEW n \in Turns, Honest(n), turns'[n] = turns[n]
  PROVE  Honest(n)'
<1>1. Key(n)' = Key(n)
  BY DEF Key
<1>2. PICK k : k = Key(n)
  OBVIOUS
<1>3. Check(k) # "ok" => Check(k)' # "ok"
  BY RefusalStays
<1>4. Check(Key(n)) # "ok" => Check(Key(n))' # "ok"
  BY <1>1, <1>2, <1>3
<1> QED
  BY <1>4 DEF Honest

\* Before each step of a turn its model has been on display, or it is refused.
LEMMA PayStep == PayInv /\ [Next]_vars => PayInv'
<1> SUFFICES ASSUME PayInv, [Next]_vars, NEW n \in Turns PROVE Honest(n)'
  BY ListInvStep DEF PayInv
<1>0. TypeOK /\ ListInv /\ Honest(n)
  BY DEF PayInv, ListInv
<1>1. CASE turns'[n] = turns[n]
  BY <1>0, <1>1, HonestStays
<1>2. ASSUME NEW k \in Turns, Submit(k)
      PROVE  Honest(n)'
  <2>1. CASE n = k
    <3>1. turns'[n] = [stage |-> "asked", session |-> currentSession,
                       model |-> selectedModel, shown |-> Displayed]
      BY <1>0, <1>2, <2>1 DEF Submit, TypeOK
    <3>2. PICK j : j = <<PageUser, selectedModel>>
      OBVIOUS
    <3>3. Displayed \in {selectedModel, NoModel} \/ Check(j)' # "ok"
      BY <1>0, <1>2, <3>2, SelectedOrRefused, RefusalStays DEF Submit
    <3>4. Key(n)' = j
      BY <3>1, <3>2 DEF Key
    <3>5. Check(Key(n))' = Check(j)'
      BY <3>4
    <3> QED
      BY <3>1, <3>3, <3>5 DEF Honest
  <2>2. CASE n # k
    BY <1>0, <1>1, <1>2, <2>2 DEF Submit, TypeOK
  <2> QED
    BY <2>1, <2>2
<1>3. ASSUME NEW k \in Turns, NEW from, NEW to, Move(k, from, to),
             from = "asked" => to = "refused" \/ Check(Key(k)) = "ok",
             from \in {"asked", "called", "settling"}
      PROVE  Honest(n)'
  <2>1. CASE n = k
    <3>1. /\ turns[n].stage = from
          /\ turns'[n].model = turns[n].model /\ turns'[n].shown = turns[n].shown
          /\ turns'[n].stage = to
      BY <1>0, <1>3, <2>1 DEF Move, TypeOK, Turn
    <3>2. CASE turns[n].shown \in {turns[n].model, NoModel}
      BY <3>1, <3>2 DEF Honest
    <3>3. CASE turns[n].shown \notin {turns[n].model, NoModel}
      <4>1. from = "asked" /\ Check(Key(n)) # "ok" /\ to = "refused"
        BY <1>0, <1>3, <2>1, <3>1, <3>3 DEF Honest
      <4>2. PICK j : j = Key(n)
        OBVIOUS
      <4>3. Key(n)' = j /\ Check(j)' # "ok"
        BY <1>0, <3>1, <4>1, <4>2, RefusalStays DEF Key
      <4>4. Check(Key(n))' # "ok"
        BY <4>3
      <4> QED
        BY <3>1, <4>1, <4>4 DEF Honest
    <3> QED
      BY <3>2, <3>3
  <2>2. CASE n # k
    BY <1>0, <1>1, <1>3, <2>2 DEF Move, TypeOK
  <2> QED
    BY <2>1, <2>2
<1>4. CASE Page
  BY <1>1, <1>2, <1>4
  DEF Page, AnswerListing, ListingArrives, ListingFails, Select, NewSession, AnswerLoad,
      LoadArrives, LoadFails, ChooseModel, StreamDone
<1>5. CASE Server
  <2>1. ASSUME NEW k \in Turns, \/ PassCheck(k) \/ FailCheck(k) \/ CallFails(k)
                                \/ CallEnds(k) \/ Settle(k)
        PROVE  Honest(n)'
    BY <1>3, <2>1 DEF PassCheck, FailCheck, CallFails, CallEnds, Settle
  <2> QED
    BY <1>1, <1>5, <2>1 DEF Server, OthersSpend
<1> QED
  BY <1>1, <1>4, <1>5 DEF Next, vars

\* A request whose model is not the one the selector shows is never called,
\* charged or saved, in any order of lists, histories, choices and charges.
THEOREM PaysTheDisplayed == Spec => []ChargedAsDisplayed
<1>1. Init => PayInv
  <2> SUFFICES ASSUME Init, NEW n \in Turns PROVE Honest(n)
    BY ListInit DEF PayInv
  <2> QED
    BY DEF Init, NoTurn, Honest
<1>2. PayInv => ChargedAsDisplayed
  BY DEF PayInv, Honest, ChargedAsDisplayed
<1> QED
  BY <1>1, <1>2, PayStep, PTL DEF Spec
-----------------------------------------------------------------------------
(***************************************************************************)
(* One model per session.                                                  *)
(*                                                                         *)
(* What counts is not only the rows a session has but also those it may    *)
(* still get.  While the page is used with care, the model selected is the *)
(* model of all of them once the history is there, and a session without   *)
(* messages on display has none.                                           *)
(***************************************************************************)

\* The turns that have a row or may get one.
Live(s) == {n \in Turns : /\ turns[n].session = s
                          /\ turns[n].stage \in {"asked", "called", "settling", "saved"}}

IsOf(s, m) == LastRows[s] \in {m, NoModel} /\ \A n \in Live(s) : turns[n].model = m
Blank(s) == LastRows[s] = NoModel /\ Live(s) = {}

\* A history on its way is that of the session shown, and the only one.
OneLoad == \A i \in Slots : loads[i].stage # "free" =>
             /\ loads[i].session = currentSession
             /\ \A j \in Slots : loads[j].stage # "free" => j = i

\* Before the list is there nothing was said in the session shown; with the list
\* and the history there, the selected model is the session's.
Selected == /\ listing.stage # "done" => Blank(currentSession)
            /\ ~Loading => /\ IsOf(currentSession, selectedModel)
                           /\ Blank(currentSession) \/ sessionHasMessages

\* A history that was answered has the model of the session, if it has any.
Answered == \A i \in Slots : loads[i].stage = "answered" =>
              /\ IsOf(currentSession, loads[i].model)
              /\ Blank(currentSession) \/ loads[i].model # NoModel

Uniform == \A s \in SessionIds : \E m \in MaybeModel : IsOf(s, m)

Asking == \A n \in Turns : turns[n].stage # "none" => turns[n].model # NoModel

ModelInv == TypeOK /\ Asking /\ (~careless => OneLoad /\ Selected /\ Answered /\ Uniform)

\* A session that loses a turn that may get a row remains of its model.
LEMMA FewerTurns ==
  ASSUME NEW s, NEW m, Live(s)' \subseteq Live(s),
         \A n \in Turns : turns'[n].model = turns[n].model
  PROVE  (IsOf(s, m) => IsOf(s, m)') /\ (Blank(s) => Blank(s)')
<1>1. \A n \in Live(s)' : n \in Turns /\ n \in Live(s)
  BY DEF Live
<1> QED
  BY <1>1 DEF IsOf, Blank

\* A session of nothing is of any model.
LEMMA BlankIsOf == ASSUME NEW s, NEW m, Blank(s) PROVE IsOf(s, m)
BY DEF Blank, IsOf

LEMMA ModelInit == Init => ModelInv
<1> SUFFICES ASSUME Init PROVE ModelInv
  OBVIOUS
<1>1. \A n \in Turns : turns[n].stage = "none"
  BY DEF Init, NoTurn
<1>2. \A s : Live(s) = {}
  BY <1>1 DEF Live
<1>3. Blank(currentSession)
  BY <1>2 DEF Init, Blank
<1>4. Selected
  BY <1>3, BlankIsOf DEF Selected
<1>5. OneLoad /\ Answered
  <2>1. PICK i \in Slots :
          loads = [[j \in Slots |-> NoLoad] EXCEPT ![i] = Asked(currentSession)]
    BY DEF Init
  <2>2. \A j \in Slots : loads[j] = IF j = i THEN Asked(currentSession) ELSE NoLoad
    BY <2>1
  <2> QED
    BY <2>2 DEF OneLoad, Answered, Asked, NoLoad
<1>6. Uniform
  BY <1>2, PageAssumption DEF Uniform, IsOf, MaybeModel
<1> QED
  BY <1>1, <1>4, <1>5, <1>6, TypeInit DEF ModelInv, Asking

\* A turn moves on: the sessions keep what they are of.
LEMMA MoveKeeps ==
  ASSUME ModelInv, NEW n \in Turns, NEW from \in {"asked", "called", "settling"}, NEW to,
         to # "none", Move(n, from, to)
  PROVE  /\ Asking'
         /\ ~careless' => (OneLoad /\ Selected /\ Answered /\ Uniform)'
<1>1. /\ \A k \in Turns : /\ turns'[k].model = turns[k].model
                          /\ turns'[k].session = turns[k].session
                          /\ k # n => turns'[k].stage = turns[k].stage
      /\ turns[n].stage = from /\ turns'[n].stage = to
  BY DEF Move, ModelInv, TypeOK, Turn
<1>2. ASSUME NEW s, NEW m PROVE (IsOf(s, m) => IsOf(s, m)') /\ (Blank(s) => Blank(s)')
  <2>1. Live(s)' \subseteq Live(s)
    BY <1>1 DEF Live
  <2> QED
    BY <1>1, <2>1, FewerTurns
<1>3. /\ UNCHANGED <<loads, currentSession, selectedModel, sessionHasMessages, careless>>
      /\ listing' = listing
  BY DEF Move, pageVars, listVars, sessionVars
<1>4. Asking'
  BY <1>1 DEF Asking, ModelInv
<1>5. ASSUME ~careless PROVE (OneLoad /\ Selected /\ Answered /\ Uniform)'
  <2>1. OneLoad /\ Selected /\ Answered /\ Uniform
    BY <1>5 DEF ModelInv
  <2>2. PICK c, d : c = currentSession /\ d = selectedModel
    OBVIOUS
  <2>3. OneLoad'
    BY <1>3, <2>1 DEF OneLoad
  <2>4. Selected'
    <3>1. Blank(c) => Blank(c)'
      BY <1>2
    <3>2. IsOf(c, d) => IsOf(c, d)'
      BY <1>2
    <3>3. /\ Blank(currentSession) = Blank(c) /\ Blank(currentSession)' = Blank(c)'
          /\ IsOf(currentSession, selectedModel) = IsOf(c, d)
          /\ IsOf(currentSession, selectedModel)' = IsOf(c, d)'
      BY <1>3, <2>2
    <3>4. Loading' <=> Loading
      BY <1>3 DEF Loading
    <3> QED
      BY <1>3, <2>1, <3>1, <3>2, <3>3, <3>4 DEF Selected
  <2>5. Answered'
    <3> SUFFICES ASSUME NEW i \in Slots, loads[i].stage = "answered"
                 PROVE  /\ IsOf(currentSession, loads[i].model)'
                        /\ Blank(currentSession)' \/ loads[i].model # NoModel
      BY <1>3 DEF Answered
    <3>1. PICK m : m = loads[i].model
      OBVIOUS
    <3>2. (IsOf(c, m) => IsOf(c, m)') /\ (Blank(c) => Blank(c)')
      BY <1>2
    <3>3. /\ Blank(currentSession) = Blank(c) /\ Blank(currentSession)' = Blank(c)'
          /\ IsOf(currentSession, loads[i].model) = IsOf(c, m)
          /\ IsOf(currentSession, loads[i].model)' = IsOf(c, m)'
      BY <1>3, <2>2, <3>1
    <3> QED
      BY <2>1, <3>2, <3>3 DEF Answered
  <2>6. Uniform'
    BY <1>2, <2>1 DEF Uniform
  <2> QED
    BY <2>3, <2>4, <2>5, <2>6
<1> QED
  BY <1>3, <1>4, <1>5

LEMMA SameTurns ==
  ASSUME turns' = turns, NEW s, NEW m
  PROVE  (IsOf(s, m)' <=> IsOf(s, m)) /\ (Blank(s)' <=> Blank(s))
BY DEF IsOf, Blank, Live

\* What the steps on the list of models leave alone.
LEMMA ListingKeeps ==
  ASSUME ModelInv, AnswerListing \/ ListingArrives \/ ListingFails, ~careless'
  PROVE  (OneLoad /\ Selected /\ Answered /\ Uniform)'
<1>1. /\ UNCHANGED <<turns, loads, currentSession, sessionHasMessages, careless>>
      /\ listing'.stage # "done" => listing.stage # "done" /\ selectedModel' = selectedModel
      /\ listing.stage # "done"
  BY DEF AnswerListing, ListingArrives, ListingFails, sessionVars
<1>2. OneLoad /\ Selected /\ Answered /\ Uniform
  BY <1>1 DEF ModelInv
<1>3. PICK c, d : c = currentSession /\ d = selectedModel'
  OBVIOUS
<1>4. Blank(c) /\ Blank(c)' /\ IsOf(c, d)'
  BY <1>1, <1>2, <1>3, BlankIsOf, SameTurns DEF Selected
<1>5. Blank(currentSession)' /\ IsOf(currentSession, selectedModel)'
  BY <1>1, <1>3, <1>4
<1>6. Selected'
  BY <1>5 DEF Selected
<1>7. Answered'
  BY <1>1, <1>2, SameTurns DEF Answered, IsOf, Blank, Live
<1>8. OneLoad' /\ Uniform'
  BY <1>1, <1>2, SameTurns DEF OneLoad, Uniform
<1> QED
  BY <1>6, <1>7, <1>8

\* A change of session with care: the only history on its way is the new one.
LEMMA ShowKeeps ==
  ASSUME ModelInv, NEW s \in SessionIds, Show(s), UNCHANGED <<listing, turns>>, ~careless'
  PROVE  (OneLoad /\ Selected /\ Answered /\ Uniform)'
<1>1. ~careless /\ ~Loading /\ listing.stage = "done"
  BY DEF Show, CarelessIf
<1>2. PICK i \in Slots : loads' = [loads EXCEPT ![i] = Asked(s)]
  BY DEF Show
<1>3. \A j \in Slots : loads'[j].stage # "free" =>
        j = i /\ loads'[j].session = s /\ loads'[j].stage = "asked"
  BY <1>1, <1>2 DEF Loading, ModelInv, TypeOK, Asked
<1>4. loads'[i].stage = "asked" /\ currentSession' = s
  BY <1>2 DEF Show, Asked, ModelInv, TypeOK
<1>5. OneLoad' /\ Answered'
  BY <1>3, <1>4 DEF OneLoad, Answered
<1>6. Selected'
  BY <1>1, <1>4 DEF Selected, Loading
<1>7. Uniform'
  BY <1>1, SameTurns DEF Uniform, ModelInv
<1> QED
  BY <1>5, <1>6, <1>7

\* The model of the last row is that of all turns, if no other row is to come.
LEMMA AnswerKeeps ==
  ASSUME ModelInv, NEW i \in Slots, AnswerLoad(i), ~careless'
  PROVE  (OneLoad /\ Selected /\ Answered /\ Uniform)'
<1>1. ~careless /\ ~Pending(loads[i].session)
  BY DEF AnswerLoad, CarelessIf
<1>2. OneLoad /\ Selected /\ Answered /\ Uniform
  BY <1>1 DEF ModelInv
<1>3. PICK m \in MaybeModel :
        /\ IsLastModel(loads[i].session, m)
        /\ loads' = [loads EXCEPT ![i].stage = "answered", ![i].model = m]
  BY DEF AnswerLoad
<1>4. /\ \A j \in Slots \ {i} : loads'[j] = loads[j]
      /\ loads'[i].stage = "answered" /\ loads'[i].model = m
      /\ loads'[i].session = loads[i].session
      /\ loads[i].stage = "asked"
  BY <1>3 DEF ModelInv, TypeOK, Load, AnswerLoad
<1>5. UNCHANGED <<turns, listing, selectedModel, currentSession, sessionHasMessages>>
  BY DEF AnswerLoad, listVars, sessionVars
<1>6. loads[i].session = currentSession
  BY <1>2, <1>4 DEF OneLoad
<1>7. OneLoad'
  BY <1>2, <1>4, <1>5 DEF OneLoad
<1>8. PICK c \in SessionIds : c = currentSession
  BY DEF ModelInv, TypeOK
<1>9. Live(c) = Saved(c)
  BY <1>1, <1>6, <1>8 DEF Live, Saved, Pending
<1>10. IsOf(c, m) /\ (Blank(c) \/ m # NoModel)
  <2>1. CASE Saved(c) = {}
    BY <1>3, <1>6, <1>8, <1>9, <2>1 DEF IsLastModel, IsOf, Blank
  <2>2. CASE Saved(c) # {}
    <3>1. PICK n \in Saved(c) : m = turns[n].model
      BY <1>3, <1>6, <1>8, <2>2 DEF IsLastModel
    <3>2. m # NoModel
      BY <3>1 DEF Saved, ModelInv, Asking
    <3>3. PICK o \in MaybeModel : IsOf(c, o)
      BY <1>2 DEF Uniform
    <3> QED
      BY <1>9, <3>1, <3>2, <3>3 DEF IsOf
  <2> QED
    BY <2>1, <2>2
<1>11. IsOf(c, m)' /\ (Blank(c)' \/ m # NoModel)
  BY <1>5, <1>10, SameTurns
<1>12. Answered'
  <2>1. \A j \in Slots : loads'[j].stage = "answered" => j = i
    BY <1>4, <1>7 DEF OneLoad
  <2>2. loads'[i].model = m /\ currentSession' = c
    BY <1>4, <1>5, <1>8
  <2> QED
    BY <1>11, <2>1, <2>2 DEF Answered
<1>13. Selected'
  <2>1. Loading'
    BY <1>4 DEF Loading
  <2>2. Blank(currentSession)' <=> Blank(currentSession)
    BY <1>5 DEF Blank, Live
  <2> QED
    BY <1>2, <1>5, <2>1, <2>2 DEF Selected
<1>14. Uniform'
  BY <1>2, <1>5, SameTurns DEF Uniform
<1> QED
  BY <1>7, <1>12, <1>13, <1>14

\* The history is the only one on its way, so the model it selects is the one.
LEMMA ArrivalKeeps ==
  ASSUME ModelInv, NEW i \in Slots, LoadArrives(i), ~careless'
  PROVE  (OneLoad /\ Selected /\ Answered /\ Uniform)'
<1>1. /\ ~careless /\ loads[i].stage = "answered"
      /\ UNCHANGED <<turns, listing, currentSession>>
      /\ loads' = [loads EXCEPT ![i] = NoLoad]
      /\ sessionHasMessages' = (loads[i].model # NoModel)
      /\ selectedModel' = IF loads[i].model # NoModel THEN loads[i].model ELSE selectedModel
  BY DEF LoadArrives, listVars, sessionVars
<1>2. OneLoad /\ Selected /\ Answered /\ Uniform
  BY <1>1 DEF ModelInv
<1>3. \A j \in Slots : loads'[j].stage = "free"
  BY <1>1, <1>2 DEF OneLoad, ModelInv, TypeOK, NoLoad
<1>4. OneLoad' /\ Answered'
  BY <1>3 DEF OneLoad, Answered
<1>5. PICK c, m : c = currentSession /\ m = loads[i].model
  OBVIOUS
<1>6. IsOf(c, m)' /\ (Blank(c)' \/ m # NoModel)
  BY <1>1, <1>2, <1>5, SameTurns DEF Answered
<1>7. Selected'
  <2>1. listing'.stage # "done" => Blank(currentSession)'
    BY <1>1, <1>2 DEF Selected, Blank, Live
  <2>2. Blank(currentSession)' \/ sessionHasMessages'
    BY <1>1, <1>5, <1>6
  <2>3. CASE m # NoModel
    BY <1>1, <1>5, <1>6, <2>1, <2>2, <2>3 DEF Selected
  <2>4. CASE m = NoModel
    <3>1. PICK d : d = selectedModel'
      OBVIOUS
    <3>2. IsOf(c, d)'
      BY <1>6, <2>4 DEF IsOf, Blank
    <3>3. IsOf(currentSession, selectedModel)'
      BY <1>1, <1>5, <3>1, <3>2
    <3> QED
      BY <2>1, <2>2, <3>3 DEF Selected
  <2> QED
    BY <2>3, <2>4
<1>8. Uniform'
  BY <1>1, <1>2, SameTurns DEF Uniform
<1> QED
  BY <1>4, <1>7, <1>8

\* A request is of the model selected, which with care is the session's.
LEMMA SubmitKeeps ==
  ASSUME ModelInv, NEW n \in Turns, Submit(n)
  PROVE  /\ Asking'
         /\ ~careless' => (OneLoad /\ Selected /\ Answered /\ Uniform)'
<1>1. /\ selectedModel # NoModel /\ sessionHasMessages' = TRUE
      /\ UNCHANGED <<listing, selectedModel, currentSession, loads>>
  BY DEF Submit, listVars, sessionVars
<1>2. /\ turns'[n] = [stage |-> "asked", session |-> currentSession,
                      model |-> selectedModel, shown |-> Displayed]
      /\ \A k \in Turns \ {n} : turns'[k] = turns[k]
  BY DEF Submit, ModelInv, TypeOK
<1>3. Asking'
  BY <1>1, <1>2 DEF Asking, ModelInv
<1>4. ASSUME ~careless' PROVE (OneLoad /\ Selected /\ Answered /\ Uniform)'
  <2>1. ~careless /\ ~Loading /\ listing.stage = "done"
    BY <1>4 DEF Submit, CarelessIf
  <2>2. OneLoad /\ Selected /\ Answered /\ Uniform
    BY <2>1 DEF ModelInv
  <2>3. PICK c \in SessionIds, d \in MaybeModel : c = currentSession /\ d = selectedModel
    BY DEF ModelInv, TypeOK
  <2>4. Live(c)' \subseteq Live(c) \cup {n} /\ turns'[n].model = d
    BY <1>2, <2>3 DEF Live
  <2>5. IsOf(c, d)'
    <3>1. IsOf(c, d)
      BY <2>1, <2>2, <2>3 DEF Selected
    <3>2. \A k \in Live(c) \ {n} : turns'[k].model = turns[k].model
      BY <1>2 DEF Live
    <3> QED
      BY <2>4, <3>1, <3>2 DEF IsOf
  <2>6. ASSUME NEW t \in SessionIds, t # c, NEW m, IsOf(t, m)
        PROVE  IsOf(t, m)'
    <3>1. \A k \in Live(t)' : k \in Live(t) /\ turns'[k].model = turns[k].model
      BY <1>2, <2>3, <2>6 DEF Live
    <3> QED
      BY <2>6, <3>1 DEF IsOf
  <2>7. Uniform'
    BY <2>2, <2>3, <2>5, <2>6 DEF Uniform
  <2>8. \A i \in Slots : loads'[i].stage = "free"
    BY <1>1, <2>1 DEF Loading
  <2>9. OneLoad' /\ Answered'
    BY <2>8 DEF OneLoad, Answered
  <2>10. Selected'
    <3>1. IsOf(currentSession, selectedModel)'
      BY <1>1, <2>3, <2>5
    <3> QED
      BY <1>1, <2>1, <3>1 DEF Selected
  <2> QED
    BY <2>7, <2>9, <2>10
<1> QED
  BY <1>3, <1>4

\* A choice in place is made only in a session that is of no model yet.
LEMMA ChooseKeeps ==
  ASSUME ModelInv, NEW m \in Models, ChooseModel(m), ~sessionHasMessages, ~careless'
  PROVE  (OneLoad /\ Selected /\ Answered /\ Uniform)'
<1>1. UNCHANGED <<listing, turns, currentSession, sessionHasMessages, loads, careless>>
  BY DEF ChooseModel, listVars, sessionVars
<1>2. OneLoad /\ Selected /\ Answered /\ Uniform
  BY <1>1 DEF ModelInv
<1>3. OneLoad' /\ Answered' /\ Uniform'
  BY <1>1, <1>2, SameTurns DEF OneLoad, Answered, Uniform, IsOf, Blank, Live
<1>4. Selected'
  <2>1. Loading' <=> Loading
    BY <1>1 DEF Loading
  <2>2. Blank(currentSession)' <=> Blank(currentSession)
    BY <1>1 DEF Blank, Live
  <2>3. Blank(currentSession)' => IsOf(currentSession, selectedModel)'
    BY DEF Blank, IsOf
  <2> QED
    BY <1>1, <1>2, <2>1, <2>2, <2>3 DEF Selected
<1> QED
  BY <1>3, <1>4

LEMMA ModelStep == ModelInv /\ [Next]_vars => ModelInv'
<1> SUFFICES ASSUME ModelInv, [Next]_vars
             PROVE  /\ Asking'
                    /\ ~careless' => (OneLoad /\ Selected /\ Answered /\ Uniform)'
  BY TypeStep DEF ModelInv
<1>1. ASSUME turns' = turns PROVE Asking'
  BY <1>1 DEF Asking, ModelInv
<1>2. CASE AnswerListing \/ ListingArrives \/ ListingFails
  BY <1>1, <1>2, ListingKeeps DEF AnswerListing, ListingArrives, ListingFails
<1>3. ASSUME NEW s \in SessionIds, Select(s) \/ NewSession(s)
      PROVE  Asking' /\ (~careless' => (OneLoad /\ Selected /\ Answered /\ Uniform)')
  BY <1>1, <1>3, ShowKeeps DEF Select, NewSession, MakeSession, listVars
<1>4. ASSUME NEW i \in Slots, AnswerLoad(i) \/ LoadArrives(i) \/ LoadFails(i)
      PROVE  Asking' /\ (~careless' => (OneLoad /\ Selected /\ Answered /\ Uniform)')
  BY <1>1, <1>4, AnswerKeeps, ArrivalKeeps DEF AnswerLoad, LoadArrives, LoadFails, CarelessIf
<1>5. ASSUME NEW m \in Models, ChooseModel(m)
      PROVE  Asking' /\ (~careless' => (OneLoad /\ Selected /\ Answered /\ Uniform)')
  <2>1. CASE sessionHasMessages
    BY <1>1, <1>5, <2>1, ShowKeeps DEF ChooseModel, MakeSession, listVars
  <2>2. CASE ~sessionHasMessages
    BY <1>1, <1>5, <2>2, ChooseKeeps DEF ChooseModel
  <2> QED
    BY <2>1, <2>2
<1>6. ASSUME NEW n \in Turns, Submit(n)
      PROVE  Asking' /\ (~careless' => (OneLoad /\ Selected /\ Answered /\ Uniform)')
  BY <1>6, SubmitKeeps
<1>7. CASE /\ UNCHANGED <<turns, listing, loads, currentSession, selectedModel>>
           /\ UNCHANGED <<sessionHasMessages, careless>>
  BY <1>1, <1>7, SameTurns
  DEF ModelInv, OneLoad, Selected, Answered, Uniform, Loading, IsOf, Blank, Live
<1>8. ASSUME NEW n \in Turns, \/ PassCheck(n) \/ FailCheck(n) \/ CallFails(n) \/ CallEnds(n)
                              \/ Settle(n)
      PROVE  Asking' /\ (~careless' => (OneLoad /\ Selected /\ Answered /\ Uniform)')
  BY <1>8, MoveKeeps DEF PassCheck, FailCheck, CallFails, CallEnds, Settle
<1>9. CASE StreamDone \/ (\E k \in QuotaKeys : OthersSpend(k)) \/ UNCHANGED vars
  BY <1>7, <1>9 DEF StreamDone, OthersSpend, vars, pageVars, listVars, sessionVars
<1> QED
  BY <1>2, <1>3, <1>4, <1>5, <1>6, <1>8, <1>9 DEF Next, Page, Server

\* The rows of a session are of one model, in any order of answers, choices and
\* settlements, for a user who waits for the list and for histories that succeed.
THEOREM SessionsHaveOneModel == Spec => []OneModelPerSession
<1>1. ModelInv => OneModelPerSession
  <2> SUFFICES ASSUME ModelInv, ~careless, NEW s \in SessionIds, NEW n \in Saved(s)
               PROVE  /\ LastRows[s] \in {turns[n].model, NoModel}
                      /\ \A k \in Saved(s) : turns[k].model = turns[n].model
    BY DEF OneModelPerSession
  <2>1. PICK m \in MaybeModel : IsOf(s, m)
    BY DEF ModelInv, Uniform
  <2>2. Saved(s) \subseteq Live(s)
    BY DEF Saved, Live
  <2> QED
    BY <2>1, <2>2 DEF IsOf
<1> QED
  BY <1>1, ModelInit, ModelStep, PTL DEF Spec
=============================================================================
