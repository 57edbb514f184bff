--------------------------- MODULE CredentialPool ---------------------------
(***************************************************************************)
(* The model_credentials table, the startup synchronisation that writes    *)
(* it (credential/sync.go) and the selection that reads it                 *)
(* (credential/selector.go).                                               *)
(*                                                                         *)
(* The table is in the database and survives the process.  The round-robin *)
(* counters and the progress of the synchronisation do not.                *)
(***************************************************************************)
EXTENDS Domain, Integers, FiniteSets

CONSTANTS SyncModels,          \* the keys of modelAPIKeyFunc
          SeededModels,        \* the rows of table models
          Labels,              \* labels of the rows administrators insert
          InitialCredentials,  \* the rows in the table at first start
          InitialNextId,       \* the value its SERIAL sequence is at
          Hash                 \* fnv64a of a session id

VARIABLES model_credentials,   \* the rows, a set
          next_id,             \* the SERIAL sequence of its id column
          counters,            \* RoundRobinSelector.counters
          pending              \* models this process has still to synchronise

poolVars == <<model_credentials, next_id, counters, pending>>

CredentialRow == [id : Nat, model_id : Models, api_key : ApiKeys,
                  label : Labels \cup {"config"}, is_active : BOOLEAN]

ASSUME PoolAssumption ==
  /\ SyncModels \subseteq Models /\ SeededModels \subseteq Models
  /\ "config" \notin Labels
  /\ InitialCredentials \subseteq CredentialRow
  /\ IsFiniteSet(InitialCredentials)
  /\ \A c, d \in InitialCredentials : c.id = d.id => c = d
  /\ \A c, d \in InitialCredentials :
       c.label = "config" /\ d.label = "config" /\ c.model_id = d.model_id => c = d
  /\ InitialNextId \in Nat
  /\ \A c \in InitialCredentials : c.id < InitialNextId
  /\ Hash \in [SessionIds -> Nat]

PoolTypeOK == /\ model_credentials \subseteq CredentialRow
              /\ next_id \in Nat
              /\ counters \in [Models -> Nat]
              /\ pending \subseteq SyncModels

\* main calls SyncFromConfig before it serves, so every model is pending.
PoolInit == /\ model_credentials = InitialCredentials
            /\ next_id = InitialNextId
            /\ counters = [m \in Models |-> 0]
            /\ pending = SyncModels
-----------------------------------------------------------------------------
(***************************************************************************)
(* Selection.                                                              *)
(***************************************************************************)

ListActive(m) == {c \in model_credentials : c.model_id = m /\ c.is_active}

\* The index of a row in a list ordered by id.
Rank(c, creds) == Cardinality({d \in creds : d.id < c.id})

\* Wrong variants, for testing the properties: an index one too large, an index
\* that ignores the session, and a counter every pick advances.
PickIndexFromOne(m, s, len) ==
  ((IF s = NoSession THEN counters[m] ELSE Hash[s]) % len) + 1
PickIndexBySession(m, s, len) == counters[m] % len
AdvanceCounterAlways(m, s) == counters' = [counters EXCEPT ![m] = @ + 1]

\* The index Pick computes for a list of that length: sticky for a session, the
\* value of the counter before it is advanced otherwise.
PickIndex(m, s, len) ==
  (IF s = NoSession THEN counters[m] ELSE Hash[s]) % len

\* Only a pick without a session advances the counter of the model.
AdvanceCounter(m, s) ==
  counters' = IF s = NoSession THEN [counters EXCEPT ![m] = @ + 1] ELSE counters

\* Pick returns the row at that index of the list it read.
Picks(c, m, s, creds) == /\ c \in creds
                         /\ Rank(c, creds) = PickIndex(m, s, Cardinality(creds))
-----------------------------------------------------------------------------
(***************************************************************************)
(* Synchronisation.  One transaction for each model: the config rows go,   *)
(* and the key of the configuration, if any, comes back as a new row.      *)
(***************************************************************************)
ConfigRows(m) == {c \in model_credentials : c.model_id = m /\ c.label = "config"}

ConfigRow(m, key) == [id |-> next_id, model_id |-> m, api_key |-> key,
                      label |-> "config", is_active |-> TRUE]

\* The INSERT needs the model to be in table models.
CanCommit(m, key) == key # NoKey => m \in SeededModels

\* Wrong variants, for testing the properties: the DELETE is missing, the test for
\* an empty key is missing, an id is used without drawing it from the sequence,
\* and the DELETE survives a failed INSERT.
SyncCommitsWithoutDelete(m, key) ==
  /\ m \in pending
  /\ CanCommit(m, key)
  /\ pending' = pending \ {m}
  /\ model_credentials' = IF key = NoKey THEN model_credentials
                          ELSE model_credentials \cup {ConfigRow(m, key)}
  /\ next_id' = IF key = NoKey THEN next_id ELSE next_id + 1
  /\ UNCHANGED counters
SyncCommitsEmptyKey(m, key) ==
  /\ m \in pending
  /\ m \in SeededModels
  /\ pending' = pending \ {m}
  /\ model_credentials' = (model_credentials \ ConfigRows(m)) \cup {ConfigRow(m, key)}
  /\ next_id' = next_id + 1
  /\ UNCHANGED counters
SyncCommitsOverManual(m, key) ==
  /\ m \in pending
  /\ CanCommit(m, key)
  /\ pending' = pending \ {m}
  /\ model_credentials' = {c \in model_credentials : c.model_id # m} \cup
                            (IF key = NoKey THEN {} ELSE {ConfigRow(m, key)})
  /\ next_id' = IF key = NoKey THEN next_id ELSE next_id + 1
  /\ UNCHANGED counters
SyncFailsWithoutRollback(m) ==
  /\ m \in pending
  /\ pending' = pending \ {m}
  /\ model_credentials' = model_credentials \ ConfigRows(m)
  /\ UNCHANGED <<next_id, counters>>

\* SyncFromConfig ranges over a Go map: the models come in any order.
SyncCommits(m, key) ==
  /\ m \in pending
  /\ CanCommit(m, key)
  /\ pending' = pending \ {m}
  /\ IF key = NoKey
     THEN /\ model_credentials' = model_credentials \ ConfigRows(m)
          /\ UNCHANGED next_id
     ELSE /\ model_credentials' = (model_credentials \ ConfigRows(m)) \cup {ConfigRow(m, key)}
          /\ next_id' = next_id + 1
  /\ UNCHANGED counters

\* Any failing statement rolls the transaction back; the loop logs it and goes
\* on to the next model.  (A SERIAL value the failed INSERT drew stays unused,
\* which changes neither the order nor the freshness of later ids.)
SyncFails(m) ==
  /\ m \in pending
  /\ pending' = pending \ {m}
  /\ UNCHANGED <<model_credentials, next_id, counters>>

Serving == pending = {}

\* A process that starts begins with fresh counters and synchronises anew.
StartProcess == /\ counters' = [m \in Models |-> 0]
                /\ pending' = SyncModels
=============================================================================
