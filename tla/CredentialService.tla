------------------------- MODULE CredentialService -------------------------
(***************************************************************************)
(* The credential pool at work: processes that start, synchronise and die, *)
(* handlers that pick a credential for each request, and administrators    *)
(* who edit the table by SQL while all this goes on (docs/Architecture.md  *)
(* section 6: there is no management interface).                           *)
(*                                                                         *)
(* Pick is two steps, for it reads the list from the database and then     *)
(* indexes the list it got, which may be out of date by then.              *)
(***************************************************************************)
EXTENDS CredentialPool

CONSTANTS Pickers,         \* concurrent calls of Pick
          Configs,         \* the configurations a process may be started with
          MaxEdits,        \* bound on the administrators' statements
          MaxRestarts,     \* bound on the restarts
          MaxPicks         \* session-less picks of a model stop when its counter is here

ASSUME ServiceAssumption ==
  /\ Configs \subseteq [SyncModels -> ApiKeys \cup {NoKey}]
  /\ IsFiniteSet(SyncModels)
  /\ MaxEdits \in Nat /\ MaxRestarts \in Nat /\ MaxPicks \in Nat

VARIABLES config,          \* the configuration of the running process
          call,            \* what a picker picks for, and the list it read
          edits, restarts,
          edited,          \* the table was edited since the process started
          committed,       \* the key a model was last synchronised to
          served,          \* session-less picks of this process, by model and id
          pinned           \* the key a session was last routed to, by model and
                           \* by which process

vars == <<poolVars, config, call, edits, restarts, edited, committed, served, pinned>>

Idle == [model |-> "none", session |-> NoSession, creds |-> {}]
Ids == 0..(InitialNextId + MaxEdits + (MaxRestarts + 1) * Cardinality(SyncModels))
NobodyServed == [m \in Models |-> [i \in Ids |-> 0]]
Unpinned == [key |-> NoKey, start |-> 0]

TypeOK ==
  /\ PoolTypeOK
  /\ config \in Configs
  /\ call \in [Pickers -> [model : Models \cup {"none"}, session : RequestSessions,
                           creds : SUBSET CredentialRow]]
  /\ edits \in 0..MaxEdits /\ restarts \in 0..MaxRestarts /\ edited \in BOOLEAN
  /\ committed \in [SyncModels -> ApiKeys \cup {NoKey}]
  /\ served \in [Models -> [Ids -> Nat]]
  /\ pinned \in [SessionIds \X Models ->
                   [key : ApiKeys \cup {NoKey}, start : 0..MaxRestarts]]

Init ==
  /\ PoolInit
  /\ config \in Configs
  /\ call = [p \in Pickers |-> Idle]
  /\ edits = 0 /\ restarts = 0 /\ edited = FALSE
  /\ committed \in [SyncModels -> ApiKeys \cup {NoKey}]
  /\ \A m \in SyncModels :
       {c.api_key : c \in ConfigRows(m)} = {committed[m]} \ {NoKey}
  /\ served = NobodyServed
  /\ pinned = [sm \in SessionIds \X Models |-> Unpinned]
-----------------------------------------------------------------------------
(***************************************************************************)
(* The process.                                                            *)
(***************************************************************************)
Commit(m) ==
  /\ SyncCommits(m, config[m])
  /\ committed' = [committed EXCEPT ![m] = config[m]]
  /\ UNCHANGED <<config, call, edits, restarts, edited, served, pinned>>

Rollback(m) ==
  /\ SyncFails(m)
  /\ UNCHANGED <<config, call, edits, restarts, edited, committed, served, pinned>>

\* repo.ListActive.
List(p, m, s) ==
  /\ Serving
  /\ call[p] = Idle
  /\ s = NoSession => counters[m] < MaxPicks
  /\ ListActive(m) # {}
  /\ call' = [call EXCEPT ![p] = [model |-> m, session |-> s, creds |-> ListActive(m)]]
  /\ UNCHANGED <<poolVars, config, edits, restarts, edited, committed, served, pinned>>

\* An empty list ends Pick with an error.
ListNothing(p, m) == /\ Serving
                     /\ call[p] = Idle
                     /\ ListActive(m) = {}
                     /\ UNCHANGED vars

\* The rest of Pick.  A session is pinned by a pick from an up-to-date list.
Choose(p, c) ==
  LET m == call[p].model
      s == call[p].session
  IN  /\ call[p] # Idle
      /\ Picks(c, m, s, call[p].creds)
      /\ AdvanceCounter(m, s)
      /\ call' = [call EXCEPT ![p] = Idle]
      /\ served' = IF s = NoSession THEN [served EXCEPT ![m][c.id] = @ + 1] ELSE served
      /\ pinned' = IF s # NoSession /\ call[p].creds = ListActive(m)
                   THEN [pinned EXCEPT ![<<s, m>>] = [key |-> c.api_key, start |-> restarts]]
                   ELSE pinned
      /\ UNCHANGED <<model_credentials, next_id, pending, config, edits, restarts,
                     edited, committed>>

\* The process stops (main has no graceful shutdown: calls in progress are
\* lost) and another one starts, maybe with another configuration.
Restart ==
  /\ restarts < MaxRestarts
  /\ restarts' = restarts + 1
  /\ StartProcess
  /\ config' \in Configs
  /\ call' = [p \in Pickers |-> Idle]
  /\ edited' = FALSE
  /\ served' = NobodyServed
  /\ pinned' = IF config' = config THEN pinned ELSE [sm \in DOMAIN pinned |-> Unpinned]
  /\ UNCHANGED <<model_credentials, next_id, edits, committed>>
-----------------------------------------------------------------------------
(***************************************************************************)
(* The administrators.  They leave the label "config" to the server.       *)
(***************************************************************************)
Edit(m) ==
  /\ edits < MaxEdits
  /\ edits' = edits + 1
  /\ edited' = TRUE
  /\ pinned' = [sm \in DOMAIN pinned |-> IF sm[2] = m THEN Unpinned ELSE pinned[sm]]
  /\ UNCHANGED <<counters, pending, config, call, restarts, committed, served>>

AddAccount(m, key, label) ==
  /\ m \in SeededModels
  /\ Edit(m)
  /\ model_credentials' = model_credentials \cup
       {[id |-> next_id, model_id |-> m, api_key |-> key, label |-> label, is_active |-> TRUE]}
  /\ next_id' = next_id + 1

RemoveAccount(c) ==
  /\ c.label # "config"
  /\ Edit(c.model_id)
  /\ model_credentials' = model_credentials \ {c}
  /\ UNCHANGED next_id

SwitchAccount(c) ==
  /\ Edit(c.model_id)
  /\ model_credentials' = (model_credentials \ {c}) \cup {[c EXCEPT !.is_active = ~@]}
  /\ UNCHANGED next_id

Administer ==
  \/ \E m \in Models, key \in ApiKeys, label \in Labels : AddAccount(m, key, label)
  \/ \E c \in model_credentials : RemoveAccount(c) \/ SwitchAccount(c)

Next == \/ \E m \in SyncModels : Commit(m) \/ Rollback(m)
        \/ \E p \in Pickers : \/ \E m \in Models, s \in RequestSessions : List(p, m, s)
                              \/ \E m \in Models : ListNothing(p, m)
                              \/ \E c \in call[p].creds : Choose(p, c)
        \/ Restart
        \/ Administer

Spec == Init /\ [][Next]_vars
-----------------------------------------------------------------------------
\* Whatever synchronisations failed or were cut off by a crash, and whatever
\* the administrators did to the other accounts, a model has exactly the config
\* row it was last synchronised to: the transaction never leaves it without its
\* old key and without the new one, and never with both.
ConfigRowsMatch ==
  \A m \in SyncModels : /\ {c.api_key : c \in ConfigRows(m)} = {committed[m]} \ {NoKey}
                        /\ Cardinality(ConfigRows(m)) <= 1

\* creds[idx] is in range for every pick in progress: the list a picker holds has
\* one row at the index it is about to compute, however the counter, the table
\* and the order of the ids have moved since it was read.
IndexInRange ==
  \A p \in Pickers : call[p] # Idle =>
    Cardinality({c \in call[p].creds :
                   Picks(c, call[p].model, call[p].session, call[p].creds)}) = 1

\* The keys of a model at the indices Pick uses.
Route(m) == {<<Rank(c, ListActive(m)), c.api_key>> : c \in ListActive(m)}

\* A restart can move every session of a model to another account, because it
\* re-inserts the config row with a new id, at the end of the list.  It does
\* not when the config row is unchanged, enabled and already the last one.
SyncKeepsRoutes ==
  [][\A m \in SyncModels :
       (/\ edits' = edits
        /\ \E c \in ConfigRows(m) : /\ c.is_active /\ c.api_key = config[m]
                                    /\ \A d \in ListActive(m) : d.id <= c.id)
       => Route(m)' = Route(m)]_vars

\* Round robin: among the accounts of a pool nobody edits, no account serves two
\* session-less requests more than another, however the picks interleave.
RoundRobinBalanced ==
  ~edited => \A m \in Models : \A c, d \in ListActive(m) :
               served[m][c.id] <= served[m][d.id] + 1

\* A start leaves alone what it did not write: the accounts administrators entered
\* stay as they are, the disabled ones disabled, under any configuration and
\* whichever transactions fail (an account disabled by hand is brought back only
\* if it is the config row, since that one is written anew).
ManualRowsKept ==
  [][edits' = edits => {c \in model_credentials : c.label # "config"}' =
                       {c \in model_credentials : c.label # "config"}]_vars

Repinned(sm) == pinned[sm].key # NoKey /\ pinned'[sm].key # NoKey

\* While a process runs and nobody edits the pool, a session stays with one
\* account, however its picks interleave with others and with edits elsewhere.
StickyWhileServing ==
  [][\A sm \in DOMAIN pinned :
       Repinned(sm) /\ pinned'[sm].start = pinned[sm].start
         => pinned'[sm].key = pinned[sm].key]_vars

\* The comment on Selector.Pick: the same non-empty session id always maps to the
\* same credential.  Edits of the pool and of the configuration are excused.
SessionKeepsCredential ==
  [][\A sm \in DOMAIN pinned : Repinned(sm) => pinned'[sm].key = pinned[sm].key]_vars
=============================================================================
