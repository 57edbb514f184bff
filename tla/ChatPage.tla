------------------------------ MODULE ChatPage ------------------------------
(***************************************************************************)
(* The page around the chat window: ChatPage, ModelSelector and            *)
(* SessionList, and the parts of ChatWindow that choose a model.           *)
(*                                                                         *)
(* Two answers set the selected model, in whatever order they come: the    *)
(* list of models, asked for once when the page is loaded, its first one;  *)
(* and the history of a session, asked for at each change of session, the  *)
(* model of its last row.  The selector shows the selected model if it is  *)
(* an option, and else its first option, as <select> elements do.          *)
(*                                                                         *)
(* Meanwhile the quotas are spent, by this page's requests and by others   *)
(* of the same user.  The messages are the subject of module ChatWindow.   *)
(***************************************************************************)
EXTENDS Catalog

CONSTANTS PageUser,
          NoModel,
          LastRows,     \* the model of the last row of each session, when the page opens
          Costs,        \* what requests cost, by the row they are charged to
          MaxTurns,     \* bound on the page's requests
          Slots,        \* for the histories in flight, a bound on their number
          MaxUsed       \* others stop spending a row that has used as much

ASSUME PageAssumption ==
  /\ PageUser \in Users
  /\ NoModel \notin Models
  /\ LastRows \in [SessionIds -> Models \cup {NoModel}]
  /\ Costs \in [QuotaKeys -> SUBSET Nat]
  /\ MaxTurns \in Nat /\ MaxUsed \in Nat

VARIABLES listing,      \* getModels: where it is and what it answered
          models,       \* the models listed, and what is said to be left
          top,          \* the first of them
          selectedModel,
          currentSession,
          created,      \* sessions made by newSession
          sessionHasMessages,
          loads,        \* getSession calls: where they are and what they answered
          streaming,    \* the turn whose stream is open, or 0
          turns,        \* the page's requests and how far the server is with them
          careless      \* history: the page was used in a way that may confuse it

listVars == <<listing, models, top>>
sessionVars == <<currentSession, created>>
vars == <<user_quotas, listVars, selectedModel, sessionVars, sessionHasMessages, loads,
          streaming, turns, careless>>

Turns == 1..MaxTurns
MaybeModel == Models \cup {NoModel}
Nothing == [m \in {} |-> 0]    \* no model at all
IsList(l) == DOMAIN l \subseteq Models /\ l \in [DOMAIN l -> Int]

NoLoad == [stage |-> "free", session |-> NoSession, model |-> NoModel]
Asked(s) == [stage |-> "asked", session |-> s, model |-> NoModel]
NoTurn == [stage |-> "none", session |-> NoSession, model |-> NoModel, shown |-> NoModel]

Load == [stage : {"free", "asked", "answered"}, session : RequestSessions,
         model : MaybeModel]
Turn == [stage : {"none", "asked", "refused", "called", "settling", "saved", "lost"},
         session : RequestSessions, model : MaybeModel, shown : MaybeModel]

TypeOK ==
  /\ QuotaTypeOK
  /\ listing.stage \in {"asked", "answered", "done"} /\ IsList(listing.models)
  /\ IsList(models)
  /\ top \in MaybeModel /\ selectedModel \in MaybeModel
  /\ currentSession \in SessionIds /\ created \subseteq SessionIds
  /\ sessionHasMessages \in BOOLEAN
  /\ loads \in [Slots -> Load]
  /\ streaming \in 0..MaxTurns
  /\ turns \in [Turns -> Turn]
  /\ careless \in BOOLEAN

\* The page opens with a new session, and asks for the list and its history.
Init ==
  /\ QuotaInit
  /\ listing = [stage |-> "asked", models |-> Nothing]
  /\ models = Nothing
  /\ top = NoModel
  /\ selectedModel = NoModel
  /\ currentSession \in {s \in SessionIds : LastRows[s] = NoModel}
  /\ created = {}
  /\ sessionHasMessages = FALSE
  /\ \E i \in Slots :
       loads = [[j \in Slots |-> NoLoad] EXCEPT ![i] = Asked(currentSession)]
  /\ streaming = 0
  /\ turns = [n \in Turns |-> NoTurn]
  /\ careless = FALSE
-----------------------------------------------------------------------------
(***************************************************************************)
(* The list of models.                                                     *)
(***************************************************************************)
AnswerListing ==
  /\ listing.stage = "asked"
  /\ listing' = [stage |-> "answered", models |-> ListModels(PageUser)]
  /\ UNCHANGED <<user_quotas, models, top, selectedModel, sessionVars, sessionHasMessages,
                 loads, streaming, turns, careless>>

\* setModels, and the first model is selected, if there is one.
ListingArrives ==
  /\ listing.stage = "answered"
  /\ listing' = [stage |-> "done", models |-> Nothing]
  /\ models' = listing.models
  /\ IF DOMAIN models' = {} THEN UNCHANGED <<top, selectedModel>>
     ELSE \E m \in DOMAIN models' : top' = m /\ selectedModel' = m
  /\ UNCHANGED <<user_quotas, sessionVars, sessionHasMessages, loads, streaming, turns,
                 careless>>

\* A lost call is ignored, and a 500 has no models in its body.
ListingFails ==
  /\ listing.stage # "done"
  /\ listing' = [stage |-> "done", models |-> Nothing]
  /\ UNCHANGED <<user_quotas, models, top, selectedModel, sessionVars, sessionHasMessages,
                 loads, streaming, turns, careless>>
-----------------------------------------------------------------------------
(***************************************************************************)
(* Sessions and their histories.                                           *)
(***************************************************************************)
Loading == \E i \in Slots : loads[i].stage # "free"

CarelessIf(b) == careless' = (careless \/ b)

Saved(s) == {n \in Turns : turns[n].session = s /\ turns[n].stage = "saved"}

\* The model GetSession answers, that of the last row; none if there is no row.
IsLastModel(s, m) ==
  IF Saved(s) = {} THEN m = LastRows[s]
  ELSE \E n \in Saved(s) : m = turns[n].model /\ \A k \in Saved(s) : k <= n

\* The effects of a change of session.
Show(s) ==
  /\ s # currentSession
  /\ currentSession' = s
  /\ sessionHasMessages' = FALSE
  /\ \E i \in Slots :
       /\ loads[i].stage = "free"
       /\ loads' = [loads EXCEPT ![i] = Asked(s)]
  /\ CarelessIf(Loading \/ listing.stage # "done")

Select(s) ==
  /\ ~IsLastModel(s, NoModel) \/ s \in created
  /\ Show(s)
  /\ UNCHANGED <<user_quotas, listVars, selectedModel, created, streaming, turns>>

Fresh(s) == /\ s # currentSession /\ s \notin created
            /\ LastRows[s] = NoModel /\ \A n \in Turns : turns[n].session # s

MakeSession(s) == Fresh(s) /\ Show(s) /\ created' = created \cup {s}

NewSession(s) == /\ MakeSession(s)
                 /\ UNCHANGED <<user_quotas, listVars, selectedModel, streaming, turns>>

Pending(s) == \E n \in Turns :
  turns[n].session = s /\ turns[n].stage \in {"asked", "called", "settling"}

AnswerLoad(i) ==
  /\ loads[i].stage = "asked"
  /\ \E m \in MaybeModel :
       /\ IsLastModel(loads[i].session, m)
       /\ loads' = [loads EXCEPT ![i].stage = "answered", ![i].model = m]
  /\ CarelessIf(Pending(loads[i].session))
  /\ UNCHANGED <<user_quotas, listVars, selectedModel, sessionVars, sessionHasMessages,
                 streaming, turns>>

\* Whatever session is shown now takes the model of the one that was asked for.
LoadArrives(i) ==
  /\ loads[i].stage = "answered"
  /\ sessionHasMessages' = (loads[i].model # NoModel)
  /\ selectedModel' = IF loads[i].model # NoModel THEN loads[i].model ELSE selectedModel
  /\ loads' = [loads EXCEPT ![i] = NoLoad]
  /\ UNCHANGED <<user_quotas, listVars, sessionVars, streaming, turns, careless>>

\* A 500 shows as a session without messages, a lost call as nothing.
LoadFails(i) ==
  /\ loads[i].stage # "free"
  /\ sessionHasMessages' \in {sessionHasMessages, FALSE}
  /\ loads' = [loads EXCEPT ![i] = NoLoad]
  /\ CarelessIf(TRUE)
  /\ UNCHANGED <<user_quotas, listVars, selectedModel, sessionVars, streaming, turns>>
-----------------------------------------------------------------------------
(***************************************************************************)
(* The selector and the requests.                                          *)
(***************************************************************************)
Displayed == IF selectedModel \in DOMAIN models THEN selectedModel ELSE top

\* Wrong choice: a session that has messages is kept.
ChooseModelInPlace(m) ==
  /\ m \in DOMAIN models \ {Displayed}
  /\ selectedModel' = m
  /\ UNCHANGED <<user_quotas, listVars, sessionVars, sessionHasMessages, loads, careless,
                 streaming, turns>>

\* handleModelChange: a session that has messages is left for a new one.  The
\* option on display is no change.
ChooseModel(m) ==
  /\ m \in DOMAIN models \ {Displayed}
  /\ selectedModel' = m
  /\ IF sessionHasMessages THEN \E s \in SessionIds : MakeSession(s)
     ELSE UNCHANGED <<sessionVars, sessionHasMessages, loads, careless>>
  /\ UNCHANGED <<user_quotas, listVars, streaming, turns>>

\* submit and the request it sends.  shown is a history variable.
Submit(n) ==
  /\ streaming = 0 /\ selectedModel # NoModel
  /\ \A k \in Turns : turns[k].stage = "none" <=> k >= n
  /\ turns' = [turns EXCEPT ![n] = [stage |-> "asked", session |-> currentSession,
                                    model |-> selectedModel, shown |-> Displayed]]
  /\ streaming' = n
  /\ sessionHasMessages' = TRUE
  /\ CarelessIf(Loading \/ listing.stage # "done")
  /\ UNCHANGED <<user_quotas, listVars, selectedModel, sessionVars, loads>>

StreamDone ==
  /\ streaming # 0
  /\ turns[streaming].stage \notin {"asked", "called"}
  /\ streaming' = 0
  /\ UNCHANGED <<user_quotas, listVars, selectedModel, sessionVars, sessionHasMessages, loads,
                 turns, careless>>

pageVars == <<listVars, selectedModel, sessionVars, sessionHasMessages, loads, streaming,
              careless>>

Move(n, from, to) == /\ turns[n].stage = from
                     /\ turns' = [turns EXCEPT ![n].stage = to]
                     /\ UNCHANGED pageVars

Key(n) == <<PageUser, turns[n].model>>

\* Handler.Chat: the check, the call, and the settlement, whose two statements may each
\* fail.  A page that reads the quota after the first and the history before the second
\* sees what it would if the first had failed and another program had spent as much.
\* Module Gateway has them in full.
PassCheck(n) == Move(n, "asked", "called") /\ Check(Key(n)) = "ok" /\ UNCHANGED user_quotas
FailCheck(n) == Move(n, "asked", "refused") /\ Check(Key(n)) # "ok" /\ UNCHANGED user_quotas
CallFails(n) == Move(n, "called", "refused") /\ UNCHANGED user_quotas
CallEnds(n) == Move(n, "called", "settling") /\ UNCHANGED user_quotas
Settle(n) == /\ Move(n, "settling", "saved") \/ Move(n, "settling", "lost")
             /\ (\E c \in Costs[Key(n)] : Deduct(Key(n), c)) \/ UNCHANGED user_quotas

\* Requests of other pages and programs.
OthersSpend(k) == /\ user_quotas[k].used_tokens < MaxUsed
                  /\ \E c \in Costs[k] : Deduct(k, c)
                  /\ UNCHANGED <<pageVars, turns>>
-----------------------------------------------------------------------------
Page == \/ AnswerListing \/ ListingArrives \/ ListingFails
        \/ \E s \in SessionIds : Select(s) \/ NewSession(s)
        \/ \E i \in Slots : AnswerLoad(i) \/ LoadArrives(i) \/ LoadFails(i)
        \/ \E m \in Models : ChooseModel(m)
        \/ (\E n \in Turns : Submit(n)) \/ StreamDone

Server == \/ \E n \in Turns : \/ PassCheck(n) \/ FailCheck(n) \/ CallFails(n) \/ CallEnds(n)
                              \/ Settle(n)
          \/ \E k \in QuotaKeys : OthersSpend(k)

Next == Page \/ Server

Spec == Init /\ [][Next]_vars
-----------------------------------------------------------------------------
\* A list that is on its way or on display errs on one side only: it never says
\* less than what is left, and a model it leaves out is still refused.
Optimistic(list) ==
  \A m \in Models :
    IF m \in DOMAIN list
    THEN HasRow(<<PageUser, m>>) /\ Remaining(<<PageUser, m>>) <= list[m]
    ELSE Check(<<PageUser, m>>) # "ok"

ListingIsOptimistic ==
  /\ listing.stage = "answered" => Optimistic(listing.models)
  /\ DOMAIN models # {} => Optimistic(models)

\* The selector may show another model than the one a message goes to, when the
\* history selected a model that is not listed.  No such message is ever answered: a
\* user pays for the model on display, or the selector is empty and displays none.
ChargedAsDisplayed ==
  \A n \in Turns :
    turns[n].stage \in {"called", "settling", "saved", "lost"}
      => turns[n].shown \in {turns[n].model, NoModel}

\* What handleModelChange is for: the rows of a session are all of one model.  It
\* is so for users who wait for lists and histories, none of which failed or
\* overtook a settlement; the two answers that select a model exclude the others.
OneModelPerSession ==
  ~careless => \A s \in SessionIds : \A n \in Saved(s) :
                 /\ LastRows[s] \in {turns[n].model, NoModel}
                 /\ \A k \in Saved(s) : turns[k].model = turns[n].model
=============================================================================
