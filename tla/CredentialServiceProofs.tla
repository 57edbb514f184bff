---------------------- MODULE CredentialServiceProofs ----------------------
(***************************************************************************)
(* For any pool, any number of processes and concurrent picks, and any     *)
(* edits by hand: synchronisation keeps one config row and leaves the      *)
(* other rows alone, a pick never indexes outside its list, round robin is *)
(* fair, and a session stays where it is while a process runs.             *)
(***************************************************************************)
EXTENDS CredentialService, DataLemmas

-----------------------------------------------------------------------------
(***************************************************************************)
(* The inductive invariant.  Rows have ids of their own, below the         *)
(* sequence; a list a picker holds is of such rows, and is the table's     *)
(* list if nobody edited; a process that has not begun to serve has picked *)
(* nothing; the n picks of a model went round its accounts in order; and   *)
(* the pins of this process are what the table's list says.                *)
(***************************************************************************)
Distinct(rows) == \A c, d \in rows : c.id = d.id => c = d

RowsInv == /\ IsFiniteSet(model_credentials)
           /\ Distinct(model_credentials)
           /\ \A c \in model_credentials : c.id < next_id

OneConfigRow ==
  \A c, d \in model_credentials :
    c.label = "config" /\ d.label = "config" /\ c.model_id = d.model_id => c = d

KeyInv == \A m \in SyncModels :
            {c.api_key : c \in ConfigRows(m)} = {committed[m]} \ {NoKey}

\* The sequence is drawn from once for an edit and once for a model and start.
DrawnInv == next_id + Cardinality(pending) <=
              InitialNextId + edits + Cardinality(SyncModels) * (restarts + 1)

Held(p) == /\ Serving
           /\ call[p].model \in Models
           /\ call[p].creds # {}
           /\ IsFiniteSet(call[p].creds)
           /\ Distinct(call[p].creds)
           /\ \A c \in call[p].creds : c.id < next_id
           /\ ~edited => call[p].creds = ListActive(call[p].model)
HeldInv == \A p \in Pickers : call[p] # Idle => Held(p)

StartInv == ~Serving => /\ counters = [m \in Models |-> 0]
                        /\ served = NobodyServed

\* After n picks of a pool of so many accounts, q full rounds and j more picks.
Rounds(m, q, j) ==
  /\ counters[m] = Cardinality(ListActive(m)) * q + j
  /\ j < Cardinality(ListActive(m))
  /\ \A c \in ListActive(m) :
       served[m][c.id] = IF Rank(c, ListActive(m)) < j THEN q + 1 ELSE q
RoundInv == ~edited => \A m \in Models :
              ListActive(m) # {} => \E q \in Nat, j \in Nat : Rounds(m, q, j)

\* The row a session is routed to.
Routed(s, m, key) ==
  \E c \in ListActive(m) : Picks(c, m, s, ListActive(m)) /\ c.api_key = key
PinInv == \A s \in SessionIds, m \in Models :
            pinned[<<s, m>>].key # NoKey =>
              /\ pinned[<<s, m>>].start <= restarts
              /\ pinned[<<s, m>>].start = restarts =>
                   Serving /\ Routed(s, m, pinned[<<s, m>>].key)
-----------------------------------------------------------------------------
(***************************************************************************)
(* Ranks.  In a list of rows with ids of their own the ranks are the       *)
(* indices from 0, one each, so an index in range finds one row.           *)
(***************************************************************************)
LEMMA RankMonotone ==
  ASSUME NEW rows, rows \subseteq CredentialRow, IsFiniteSet(rows),
         NEW c \in rows, NEW d \in rows, c.id < d.id
  PROVE  Rank(c, rows) < Rank(d, rows)
<1> DEFINE C == {e \in rows : e.id < c.id}
           D == {e \in rows : e.id < d.id}
<1>1. c.id \in Nat /\ d.id \in Nat /\ \A e \in rows : e.id \in Nat
  BY DEF CredentialRow
<1>2. C \subseteq D /\ c \in D /\ c \notin C
  BY <1>1
<1>3. IsFiniteSet(D) /\ IsFiniteSet(C)
  BY FS_Subset
<1> HIDE DEF C, D
<1>4. Cardinality(C) <= Cardinality(D) /\ Cardinality(C) # Cardinality(D)
  BY <1>2, <1>3, FS_Subset
<1>5. Cardinality(C) \in Nat /\ Cardinality(D) \in Nat
  BY <1>3, FS_CardinalityType
<1>6. Cardinality(C) < Cardinality(D)
  BY <1>4, <1>5
<1> QED
  BY <1>6 DEF Rank, C, D

LEMMA RankInRange ==
  ASSUME NEW rows, rows \subseteq CredentialRow, IsFiniteSet(rows), NEW c \in rows
  PROVE  Rank(c, rows) \in 0..(Cardinality(rows) - 1)
<1> DEFINE C == {e \in rows : e.id < c.id}
<1>1. c \notin C /\ C \subseteq rows
  BY DEF CredentialRow
<1> HIDE DEF C
<1>2. Cardinality(C) <= Cardinality(rows) /\ Cardinality(C) # Cardinality(rows)
  BY <1>1, FS_Subset
<1>3. Cardinality(C) \in Nat /\ Cardinality(rows) \in Nat
  BY <1>1, FS_Subset, FS_CardinalityType
<1> QED
  BY <1>2, <1>3 DEF Rank, C

LEMMA RankOneToOne ==
  ASSUME NEW rows, rows \subseteq CredentialRow, IsFiniteSet(rows), Distinct(rows),
         NEW c \in rows, NEW d \in rows, Rank(c, rows) = Rank(d, rows)
  PROVE  c = d
<1>1. c.id \in Nat /\ d.id \in Nat /\ Rank(c, rows) \in Nat /\ Rank(d, rows) \in Nat
  BY RankInRange DEF CredentialRow
<1>2. CASE c.id < d.id
  BY <1>1, <1>2, RankMonotone
<1>3. CASE d.id < c.id
  BY <1>1, <1>3, RankMonotone
<1> QED
  BY <1>1, <1>2, <1>3 DEF Distinct

LEMMA RankOnto ==
  ASSUME NEW rows, rows \subseteq CredentialRow, IsFiniteSet(rows), Distinct(rows),
         NEW i \in 0..(Cardinality(rows) - 1)
  PROVE  \E c \in rows : Rank(c, rows) = i
<1> DEFINE n == Cardinality(rows)
           f == [c \in rows |-> Rank(c, rows)]
<1>1. n \in Nat
  BY FS_CardinalityType
<1>2. IsFiniteSet(0..(n - 1)) /\ Cardinality(0..(n - 1)) = n
  BY <1>1, FS_Interval
<1>3. f \in Injection(rows, 0..(n - 1))
  BY RankInRange, RankOneToOne DEF Injection, IsInjective
<1> HIDE DEF f
<1>4. f \in Surjection(rows, 0..(n - 1))
  BY <1>2, <1>3, FS_Injection
<1> QED
  BY <1>4 DEF Surjection, f

\* The remainder is the index it should be.
LEMMA Remainder ==
  ASSUME NEW n \in Nat, NEW len \in Nat \ {0}
  PROVE  n % len \in 0..(len - 1)
OBVIOUS

\* Pick's index is in range of any list that is not empty, so it finds one row.
LEMMA PickFindsOne ==
  ASSUME TypeOK, NEW m \in Models, NEW s \in RequestSessions,
         NEW rows, rows \subseteq CredentialRow, IsFiniteSet(rows), Distinct(rows),
         rows # {}
  PROVE  /\ \E c \in rows : Picks(c, m, s, rows)
         /\ \A c, d \in rows : Picks(c, m, s, rows) /\ Picks(d, m, s, rows) => c = d
<1>1. Cardinality(rows) \in Nat \ {0}
  BY FS_CardinalityType, FS_EmptySet
<1>2. PickIndex(m, s, Cardinality(rows)) \in 0..(Cardinality(rows) - 1)
  <2>1. counters[m] \in Nat /\ (s # NoSession => Hash[s] \in Nat)
    BY PoolAssumption DEF TypeOK, PoolTypeOK, RequestSessions
  <2> QED
    BY <1>1, <2>1, Remainder DEF PickIndex
<1> QED
  BY <1>2, RankOnto, RankOneToOne DEF Picks
-----------------------------------------------------------------------------
(***************************************************************************)
(* Types.                                                                  *)
(***************************************************************************)
LEMMA TypeInit == Init => TypeOK
<1> SUFFICES ASSUME Init PROVE TypeOK
  OBVIOUS
<1>1. PoolTypeOK
  BY PoolAssumption DEF Init, PoolInit, PoolTypeOK
<1>2. call \in [Pickers -> [model : Models \cup {"none"}, session : RequestSessions,
                            creds : SUBSET CredentialRow]]
  BY DEF Init, Idle, RequestSessions
<1>3. edits \in 0..MaxEdits /\ restarts \in 0..MaxRestarts /\ edited \in BOOLEAN
  <2>1. edits = 0 /\ restarts = 0 /\ edited = FALSE
    BY DEF Init
  <2>2. edited \in BOOLEAN
    BY <2>1
  <2>3. edits \in 0..MaxEdits /\ restarts \in 0..MaxRestarts
    BY <2>1, ServiceAssumption
  <2> QED
    BY <2>2, <2>3
<1>4. pinned \in [SessionIds \X Models ->
                    [key : ApiKeys \cup {NoKey}, start : 0..MaxRestarts]]
  BY ServiceAssumption DEF Init, Unpinned
<1> QED
  BY <1>1, <1>2, <1>3, <1>4 DEF Init, TypeOK, NobodyServed

\* Counting one pick.
LEMMA CountType ==
  ASSUME NEW I, NEW f \in [Models -> [I -> Nat]], NEW m, NEW i
  PROVE  [f EXCEPT ![m][i] = @ + 1] \in [Models -> [I -> Nat]]
<1>1. CASE m \in Models
  <2>1. ASSUME NEW g \in [I -> Nat] PROVE [g EXCEPT ![i] = @ + 1] \in [I -> Nat]
    <3>1. CASE i \in I
      BY <3>1
    <3>2. CASE i \notin I
      <4>1. [g EXCEPT ![i] = @ + 1] = g
        BY <3>2
      <4> QED
        BY <4>1
    <3> QED
      BY <3>1, <3>2
  <2>2. f[m] \in [I -> Nat]
    BY <1>1
  <2>3. [f[m] EXCEPT ![i] = @ + 1] \in [I -> Nat]
    BY <2>1, <2>2
  <2> QED
    BY <2>3
<1>2. CASE m \notin Models
  BY <1>2
<1> QED
  BY <1>1, <1>2

\* What an edit leaves well typed.
LEMMA EditType ==
  ASSUME TypeOK, NEW m, Edit(m), model_credentials' \subseteq CredentialRow, next_id' \in Nat
  PROVE  TypeOK'
<1>1. pinned' \in [SessionIds \X Models ->
                    [key : ApiKeys \cup {NoKey}, start : 0..MaxRestarts]]
  BY ServiceAssumption DEF Edit, TypeOK, Unpinned
<1>2. edits' \in 0..MaxEdits
  BY ServiceAssumption DEF Edit, TypeOK
<1> QED
  BY <1>1, <1>2 DEF Edit, TypeOK, PoolTypeOK

LEMMA TypeStep == TypeOK /\ [Next]_vars => TypeOK'
<1> SUFFICES ASSUME TypeOK, [Next]_vars PROVE TypeOK'
  OBVIOUS
<1>1. CASE UNCHANGED vars
  BY <1>1 DEF vars, poolVars, TypeOK, PoolTypeOK
<1>2. ASSUME NEW m \in SyncModels, Commit(m) PROVE TypeOK'
  <2>1. config[m] \in ApiKeys \cup {NoKey}
    BY ServiceAssumption DEF TypeOK
  <2>2. config[m] # NoKey => ConfigRow(m, config[m]) \in CredentialRow
    BY <2>1, PoolAssumption DEF TypeOK, PoolTypeOK, ConfigRow, CredentialRow
  <2>3. PoolTypeOK'
    BY <1>2, <2>2 DEF Commit, SyncCommits, TypeOK, PoolTypeOK, ConfigRows
  <2>4. committed' \in [SyncModels -> ApiKeys \cup {NoKey}]
    BY <1>2, <2>1 DEF Commit, TypeOK
  <2> QED
    BY <1>2, <2>3, <2>4 DEF Commit, TypeOK
<1>3. ASSUME NEW m \in SyncModels, Rollback(m) PROVE TypeOK'
  BY <1>3 DEF Rollback, SyncFails, TypeOK, PoolTypeOK
<1>4. ASSUME NEW p \in Pickers, NEW m \in Models, NEW s \in RequestSessions, List(p, m, s)
      PROVE  TypeOK'
  <2>1. ListActive(m) \subseteq CredentialRow
    BY DEF ListActive, TypeOK, PoolTypeOK
  <2>2. call' \in [Pickers -> [model : Models \cup {"none"}, session : RequestSessions,
                               creds : SUBSET CredentialRow]]
    BY <1>4, <2>1 DEF List, TypeOK
  <2> QED
    BY <1>4, <2>2 DEF List, poolVars, TypeOK, PoolTypeOK
<1>5. ASSUME NEW p \in Pickers, NEW m \in Models, ListNothing(p, m) PROVE TypeOK'
  BY <1>5 DEF ListNothing, vars, poolVars, TypeOK, PoolTypeOK
<1>6. ASSUME NEW p \in Pickers, NEW c \in call[p].creds, Choose(p, c) PROVE TypeOK'
  <2>1. c \in CredentialRow
    BY DEF TypeOK
  <2>2. counters' \in [Models -> Nat]
    <3>1. counters' = [counters EXCEPT ![call[p].model] = @ + 1] \/ counters' = counters
      BY <1>6 DEF Choose, AdvanceCounter
    <3> QED
      BY <3>1 DEF TypeOK, PoolTypeOK
  <2>3. call' \in [Pickers -> [model : Models \cup {"none"}, session : RequestSessions,
                               creds : SUBSET CredentialRow]]
    BY <1>6 DEF Choose, TypeOK, Idle, RequestSessions
  <2>4. served' \in [Models -> [Ids -> Nat]]
    <3>1. \/ served' = [served EXCEPT ![call[p].model][c.id] = @ + 1]
          \/ served' = served
      BY <1>6 DEF Choose
    <3>2. CASE served' = served
      BY <3>2 DEF TypeOK
    <3>3. CASE served' = [served EXCEPT ![call[p].model][c.id] = @ + 1]
      <4>1. served \in [Models -> [Ids -> Nat]]
        BY DEF TypeOK
      <4>2. [served EXCEPT ![call[p].model][c.id] = @ + 1] \in [Models -> [Ids -> Nat]]
        BY <4>1, CountType
      <4> QED
        BY <3>3, <4>2
    <3> QED
      BY <3>1, <3>2, <3>3
  <2>5. pinned' \in [SessionIds \X Models ->
                      [key : ApiKeys \cup {NoKey}, start : 0..MaxRestarts]]
    <3>1. [key |-> c.api_key, start |-> restarts] \in
            [key : ApiKeys \cup {NoKey}, start : 0..MaxRestarts]
      BY <2>1 DEF CredentialRow, TypeOK
    <3> QED
      BY <1>6, <3>1 DEF Choose, TypeOK
  <2> QED
    BY <1>6, <2>2, <2>3, <2>4, <2>5 DEF Choose, TypeOK, PoolTypeOK
<1>7. ASSUME Restart PROVE TypeOK'
  <2>1. PoolTypeOK'
    BY <1>7 DEF Restart, StartProcess, TypeOK, PoolTypeOK
  <2>2. call' \in [Pickers -> [model : Models \cup {"none"}, session : RequestSessions,
                               creds : SUBSET CredentialRow]]
    BY <1>7 DEF Restart, Idle, RequestSessions
  <2>3. restarts' \in 0..MaxRestarts
    BY <1>7, ServiceAssumption DEF Restart, TypeOK
  <2>4. pinned' \in [SessionIds \X Models ->
                      [key : ApiKeys \cup {NoKey}, start : 0..MaxRestarts]]
    BY <1>7, ServiceAssumption DEF Restart, TypeOK, Unpinned
  <2>5. served' \in [Models -> [Ids -> Nat]]
    BY <1>7 DEF Restart, NobodyServed
  <2> QED
    BY <1>7, <2>1, <2>2, <2>3, <2>4, <2>5 DEF Restart, TypeOK
<1>8. ASSUME NEW m \in Models, NEW key \in ApiKeys, NEW label \in Labels,
             AddAccount(m, key, label)
      PROVE  TypeOK'
  <2>1. [id |-> next_id, model_id |-> m, api_key |-> key, label |-> label,
         is_active |-> TRUE] \in CredentialRow
    BY DEF TypeOK, PoolTypeOK, CredentialRow
  <2>2. model_credentials' \subseteq CredentialRow
    BY <1>8, <2>1 DEF AddAccount, TypeOK, PoolTypeOK
  <2>3. next_id' \in Nat
    BY <1>8 DEF AddAccount, TypeOK, PoolTypeOK
  <2> QED
    BY <1>8, <2>2, <2>3, EditType DEF AddAccount
<1>9. ASSUME NEW c \in model_credentials, RemoveAccount(c) PROVE TypeOK'
  BY <1>9, EditType DEF RemoveAccount, TypeOK, PoolTypeOK
<1>10. ASSUME NEW c \in model_credentials, SwitchAccount(c) PROVE TypeOK'
  <2>1. [c EXCEPT !.is_active = ~@] \in CredentialRow
    BY DEF TypeOK, PoolTypeOK, CredentialRow
  <2> QED
    BY <1>10, <2>1, EditType DEF SwitchAccount, TypeOK, PoolTypeOK
<1> QED
  BY <1>1, <1>2, <1>3, <1>4, <1>5, <1>6, <1>7, <1>8, <1>9, <1>10 DEF Next, Administer

\* Every state of the table, the counters and the pickers is well typed.
THEOREM TypeCorrect == Spec => []TypeOK
BY TypeInit, TypeStep, PTL DEF Spec
-----------------------------------------------------------------------------
(***************************************************************************)
(* The table.  Three kinds of steps write it: a committed synchronisation, *)
(* an inserted account, and the removal or switch of an account.           *)
(***************************************************************************)
Quiet == UNCHANGED <<model_credentials, next_id, committed>>

LEMMA Writers ==
  ASSUME [Next]_vars
  PROVE  \/ Quiet
         \/ \E m \in SyncModels : Commit(m)
         \/ \E m \in Models, key \in ApiKeys, label \in Labels : AddAccount(m, key, label)
         \/ \E c \in model_credentials : RemoveAccount(c) \/ SwitchAccount(c)
<1>1. CASE UNCHANGED vars
  BY <1>1 DEF vars, poolVars, Quiet
<1>2. ASSUME NEW m \in SyncModels, Rollback(m) PROVE Quiet
  BY <1>2 DEF Rollback, SyncFails, Quiet
<1>3. ASSUME NEW p \in Pickers, NEW m \in Models,
             ListNothing(p, m) \/ \E s \in RequestSessions : List(p, m, s)
      PROVE  Quiet
  BY <1>3 DEF ListNothing, List, vars, poolVars, Quiet
<1>4. ASSUME NEW p \in Pickers, NEW c \in call[p].creds, Choose(p, c) PROVE Quiet
  BY <1>4 DEF Choose, Quiet
<1>5. ASSUME Restart PROVE Quiet
  BY <1>5 DEF Restart, Quiet
<1> QED
  BY <1>1, <1>2, <1>3, <1>4, <1>5 DEF Next, Administer

\* A new row has a fresh id.
LEMMA RowsGrow ==
  ASSUME TypeOK, RowsInv, NEW row \in CredentialRow, row.id = next_id, next_id' = next_id + 1,
         model_credentials' \subseteq model_credentials \cup {row}
  PROVE  RowsInv'
<1>1. next_id \in Nat /\ \A c \in model_credentials : c.id \in Nat
  BY DEF TypeOK, PoolTypeOK, CredentialRow
<1>2. IsFiniteSet(model_credentials')
  <2>1. IsFiniteSet(model_credentials \cup {row})
    BY FS_AddElement DEF RowsInv
  <2> QED
    BY <2>1, FS_Subset
<1> QED
  BY <1>1, <1>2 DEF RowsInv, Distinct

LEMMA RowsInit == Init => RowsInv /\ OneConfigRow /\ KeyInv
<1> SUFFICES ASSUME Init PROVE RowsInv /\ OneConfigRow /\ KeyInv
  OBVIOUS
<1>1. RowsInv
  BY PoolAssumption DEF Init, PoolInit, RowsInv, Distinct
<1>2. OneConfigRow
  BY PoolAssumption DEF Init, PoolInit, OneConfigRow
<1>3. KeyInv
  BY DEF Init, KeyInv
<1> QED
  BY <1>1, <1>2, <1>3

LEMMA RowsStep == TypeOK /\ RowsInv /\ [Next]_vars => RowsInv'
<1> SUFFICES ASSUME TypeOK, RowsInv, [Next]_vars PROVE RowsInv'
  OBVIOUS
<1>1. CASE Quiet
  BY <1>1 DEF Quiet, RowsInv
<1>2. ASSUME NEW m \in SyncModels, Commit(m) PROVE RowsInv'
  <2>1. CASE config[m] = NoKey
    <3>1. model_credentials' \subseteq model_credentials /\ next_id' = next_id
      BY <1>2, <2>1 DEF Commit, SyncCommits
    <3> QED
      BY <3>1, FS_Subset DEF RowsInv, Distinct
  <2>2. CASE config[m] # NoKey
    <3>1. ConfigRow(m, config[m]) \in CredentialRow
      BY <2>2, PoolAssumption, ServiceAssumption
         DEF TypeOK, PoolTypeOK, ConfigRow, CredentialRow
    <3>2. ConfigRow(m, config[m]).id = next_id
      BY DEF ConfigRow
    <3>3. /\ model_credentials' \subseteq model_credentials \cup {ConfigRow(m, config[m])}
          /\ next_id' = next_id + 1
      BY <1>2, <2>2 DEF Commit, SyncCommits
    <3> QED
      BY <3>1, <3>2, <3>3, RowsGrow
  <2> QED
    BY <2>1, <2>2
<1>3. ASSUME NEW m \in Models, NEW key \in ApiKeys, NEW label \in Labels,
             AddAccount(m, key, label)
      PROVE  RowsInv'
  <2> DEFINE row == [id |-> next_id, model_id |-> m, api_key |-> key, label |-> label,
                     is_active |-> TRUE]
  <2>1. row \in CredentialRow
    BY DEF TypeOK, PoolTypeOK, CredentialRow
  <2>2. row.id = next_id /\ next_id' = next_id + 1
    BY <1>3 DEF AddAccount
  <2>3. model_credentials' \subseteq model_credentials \cup {row}
    BY <1>3 DEF AddAccount
  <2> HIDE DEF row
  <2> QED
    BY <2>1, <2>2, <2>3, RowsGrow
<1>4. ASSUME NEW c \in model_credentials, RemoveAccount(c) PROVE RowsInv'
  BY <1>4, FS_Subset DEF RemoveAccount, RowsInv, Distinct
<1>5. ASSUME NEW c \in model_credentials, SwitchAccount(c) PROVE RowsInv'
  <2> DEFINE d == [c EXCEPT !.is_active = ~@]
  <2>1. d.id = c.id
    BY DEF TypeOK, PoolTypeOK, CredentialRow
  <2>2. model_credentials' = (model_credentials \ {c}) \cup {d} /\ next_id' = next_id
    BY <1>5 DEF SwitchAccount
  <2>3. IsFiniteSet((model_credentials \ {c}) \cup {d})
    <3>1. IsFiniteSet(model_credentials \ {c})
      BY FS_Subset DEF RowsInv
    <3> QED
      BY <3>1, FS_AddElement
  <2> HIDE DEF d
  <2> QED
    BY <2>1, <2>2, <2>3 DEF RowsInv, Distinct
<1> QED
  BY <1>1, <1>2, <1>3, <1>4, <1>5, Writers

\* The keys of a model's config rows, and there are not two such rows.
LEMMA ConfigStep ==
  TypeOK /\ OneConfigRow /\ KeyInv /\ [Next]_vars => OneConfigRow' /\ KeyInv'
<1> SUFFICES ASSUME TypeOK, OneConfigRow, KeyInv, [Next]_vars
             PROVE  OneConfigRow' /\ KeyInv'
  OBVIOUS
<1> USE DEF OneConfigRow, KeyInv
<1>1. CASE Quiet
  BY <1>1 DEF Quiet, ConfigRows
<1>2. ASSUME NEW m \in SyncModels, Commit(m) PROVE OneConfigRow' /\ KeyInv'
  <2>1. committed' = [committed EXCEPT ![m] = config[m]] /\ config[m] \in ApiKeys \cup {NoKey}
    BY <1>2, ServiceAssumption DEF Commit, TypeOK
  <2>2. committed'[m] = config[m] /\ \A n \in SyncModels \ {m} : committed'[n] = committed[n]
    BY <2>1 DEF TypeOK
  <2>3. CASE config[m] = NoKey
    <3>1. model_credentials' = model_credentials \ ConfigRows(m)
      BY <1>2, <2>3 DEF Commit, SyncCommits
    <3>2. ConfigRows(m)' = {} /\ \A n \in SyncModels \ {m} : ConfigRows(n)' = ConfigRows(n)
      BY <3>1 DEF ConfigRows
    <3> QED
      BY <2>2, <2>3, <3>1, <3>2
  <2>4. CASE config[m] # NoKey
    <3> DEFINE row == ConfigRow(m, config[m])
    <3>1. model_credentials' = (model_credentials \ ConfigRows(m)) \cup {row}
      BY <1>2, <2>4 DEF Commit, SyncCommits
    <3>2. row.model_id = m /\ row.label = "config" /\ row.api_key = config[m]
      BY DEF ConfigRow
    <3> HIDE DEF row
    <3>3. ConfigRows(m)' = {row}
      BY <3>1, <3>2 DEF ConfigRows
    <3>4. \A n \in SyncModels \ {m} : ConfigRows(n)' = ConfigRows(n)
      BY <3>1, <3>2 DEF ConfigRows
    <3>5. OneConfigRow'
      BY <3>1, <3>2 DEF ConfigRows
    <3>6. {c.api_key : c \in ConfigRows(m)'} = {committed'[m]} \ {NoKey}
      BY <2>2, <2>4, <3>2, <3>3
    <3>7. \A n \in SyncModels \ {m} :
            {c.api_key : c \in ConfigRows(n)'} = {committed'[n]} \ {NoKey}
      BY <2>2, <3>4
    <3> QED
      BY <3>5, <3>6, <3>7
  <2> QED
    BY <2>3, <2>4
<1>3. ASSUME NEW m \in Models, NEW key \in ApiKeys, NEW label \in Labels,
             AddAccount(m, key, label)
      PROVE  OneConfigRow' /\ KeyInv'
  <2> DEFINE row == [id |-> next_id, model_id |-> m, api_key |-> key, label |-> label,
                     is_active |-> TRUE]
  <2>1. row.label # "config"
    BY PoolAssumption
  <2>2. model_credentials' = model_credentials \cup {row} /\ committed' = committed
    BY <1>3 DEF AddAccount, Edit
  <2> HIDE DEF row
  <2>3. \A n \in SyncModels : ConfigRows(n)' = ConfigRows(n)
    BY <2>1, <2>2 DEF ConfigRows
  <2> QED
    BY <2>1, <2>2, <2>3
<1>4. ASSUME NEW c \in model_credentials, RemoveAccount(c) PROVE OneConfigRow' /\ KeyInv'
  <2>1. /\ c.label # "config" /\ committed' = committed
        /\ model_credentials' = model_credentials \ {c}
    BY <1>4 DEF RemoveAccount, Edit
  <2>2. \A n \in SyncModels : ConfigRows(n)' = ConfigRows(n)
    BY <2>1 DEF ConfigRows
  <2> QED
    BY <2>1, <2>2
<1>5. ASSUME NEW c \in model_credentials, SwitchAccount(c) PROVE OneConfigRow' /\ KeyInv'
  <2> DEFINE d == [c EXCEPT !.is_active = ~@]
  <2>1. /\ d.label = c.label /\ d.model_id = c.model_id /\ d.api_key = c.api_key
    BY DEF TypeOK, PoolTypeOK, CredentialRow
  <2>2. model_credentials' = (model_credentials \ {c}) \cup {d} /\ committed' = committed
    BY <1>5 DEF SwitchAccount, Edit
  <2> HIDE DEF d
  <2>3. OneConfigRow'
    BY <2>1, <2>2
  <2>4. ASSUME NEW n \in SyncModels
        PROVE  {e.api_key : e \in ConfigRows(n)'} = {e.api_key : e \in ConfigRows(n)}
    <3>1. \A e \in ConfigRows(n)' : e \in ConfigRows(n) \/ (e = d /\ c \in ConfigRows(n))
      BY <2>1, <2>2 DEF ConfigRows
    <3>2. \A e \in ConfigRows(n) : e \in ConfigRows(n)' \/ (e = c /\ d \in ConfigRows(n)')
      BY <2>1, <2>2 DEF ConfigRows
    <3> QED
      BY <2>1, <3>1, <3>2
  <2> QED
    BY <2>2, <2>3, <2>4
<1> QED
  BY <1>1, <1>2, <1>3, <1>4, <1>5, Writers

\* Whatever fails or restarts and whatever is edited, a model has the one config
\* row of its last committed synchronisation, or none if that had no key.
THEOREM ConfigRowsAlwaysMatch == Spec => []ConfigRowsMatch
<1>1. RowsInv /\ OneConfigRow /\ KeyInv => ConfigRowsMatch
  <2> SUFFICES ASSUME RowsInv, OneConfigRow, KeyInv, NEW m \in SyncModels
               PROVE  Cardinality(ConfigRows(m)) <= 1
    BY DEF ConfigRowsMatch, KeyInv
  <2>1. CASE ConfigRows(m) = {}
    BY <2>1, FS_EmptySet
  <2>2. ASSUME NEW c \in ConfigRows(m) PROVE Cardinality(ConfigRows(m)) = 1
    <3>1. ConfigRows(m) = {c}
      BY DEF ConfigRows, OneConfigRow
    <3> QED
      BY <3>1, FS_Singleton
  <2> QED
    BY <2>1, <2>2
<1> QED
  BY <1>1, TypeInit, TypeStep, RowsInit, RowsStep, ConfigStep, PTL DEF Spec

\* Only an administrator touches the rows an administrator entered.
THEOREM ManualRowsAreKept == Spec => ManualRowsKept
<1> DEFINE Manual == {c \in model_credentials : c.label # "config"}
<1>1. TypeOK /\ [Next]_vars => (edits' = edits => Manual' = Manual)
  <2> SUFFICES ASSUME TypeOK, [Next]_vars, edits' = edits PROVE Manual' = Manual
    OBVIOUS
  <2>1. CASE Quiet
    BY <2>1 DEF Quiet
  <2>2. ASSUME NEW m \in SyncModels, Commit(m) PROVE Manual' = Manual
    <3>1. \/ model_credentials' = model_credentials \ ConfigRows(m)
          \/ /\ model_credentials' = (model_credentials \ ConfigRows(m))
                                       \cup {ConfigRow(m, config[m])}
             /\ ConfigRow(m, config[m]).label = "config"
      BY <2>2 DEF Commit, SyncCommits, ConfigRow
    <3> QED
      BY <3>1 DEF ConfigRows
  <2>3. ASSUME NEW m, Edit(m) PROVE FALSE
    BY <2>3, ServiceAssumption DEF Edit, TypeOK
  <2> QED
    BY <2>1, <2>2, <2>3, Writers DEF AddAccount, RemoveAccount, SwitchAccount
<1> QED
  BY <1>1, TypeInit, TypeStep, PTL DEF Spec, ManualRowsKept
-----------------------------------------------------------------------------
(***************************************************************************)
(* The lists held.  A process that serves does not synchronise, so only an *)
(* edit makes a list it read differ from the table's.                      *)
(***************************************************************************)

\* Of a table, the list of a model is a list Pick can index.
LEMMA ListOk ==
  ASSUME TypeOK, RowsInv, NEW m
  PROVE  /\ ListActive(m) \subseteq CredentialRow
         /\ IsFiniteSet(ListActive(m))
         /\ Distinct(ListActive(m))
         /\ \A c \in ListActive(m) : c.id < next_id
<1>1. ListActive(m) \subseteq model_credentials
  BY DEF ListActive
<1> QED
  BY <1>1, FS_Subset DEF TypeOK, PoolTypeOK, RowsInv, Distinct

LEMMA HeldInit == Init => HeldInv /\ StartInv
BY DEF Init, PoolInit, HeldInv, StartInv, Serving

\* The ids drawn only grow.
LEMMA NextIdGrows ==
  ASSUME TypeOK, [Next]_vars
  PROVE  next_id \in Nat /\ next_id' \in Nat /\ next_id <= next_id'
<1>1. next_id \in Nat
  BY DEF TypeOK, PoolTypeOK
<1>2. next_id' \in {next_id, next_id + 1}
  BY Writers DEF Quiet, Commit, SyncCommits, AddAccount, RemoveAccount, SwitchAccount
<1> QED
  BY <1>1, <1>2

\* A step of the process that is not one of its pickers'.
LEMMA StillHeld ==
  ASSUME TypeOK, HeldInv, [Next]_vars, Serving', call' = call,
         edited' \/ UNCHANGED <<model_credentials, edited>>
  PROVE  HeldInv'
<1> SUFFICES ASSUME NEW p \in Pickers, call[p] # Idle PROVE Held(p)'
  BY DEF HeldInv
<1>1. Held(p)
  BY DEF HeldInv
<1>2. next_id \in Nat /\ next_id' \in Nat /\ next_id <= next_id'
  BY NextIdGrows
<1>3. \A c \in call[p].creds : c.id \in Nat /\ c.id < next_id'
  BY <1>1, <1>2 DEF Held, TypeOK, CredentialRow
<1>4. ~edited' => call[p].creds = ListActive(call[p].model)'
  BY <1>1 DEF Held, ListActive
<1> QED
  BY <1>1, <1>3, <1>4 DEF Held

LEMMA HeldStep ==
  TypeOK /\ RowsInv /\ HeldInv /\ StartInv /\ [Next]_vars => HeldInv' /\ StartInv'
<1> SUFFICES ASSUME TypeOK, RowsInv, HeldInv, StartInv, [Next]_vars
             PROVE  HeldInv' /\ StartInv'
  OBVIOUS
<1> USE DEF Serving
<1>1. CASE UNCHANGED vars
  BY <1>1 DEF vars, poolVars, HeldInv, Held, StartInv, ListActive, Idle, NobodyServed
<1>2. ASSUME NEW m \in SyncModels, Commit(m) \/ Rollback(m) PROVE HeldInv' /\ StartInv'
  <2>1. pending # {} /\ UNCHANGED <<call, counters, served>>
    BY <1>2 DEF Commit, Rollback, SyncCommits, SyncFails
  <2>2. \A p \in Pickers : call[p] = Idle
    BY <2>1 DEF HeldInv, Held
  <2> QED
    BY <2>1, <2>2 DEF HeldInv, StartInv, Idle, NobodyServed
<1>3. ASSUME NEW p \in Pickers, NEW m \in Models, NEW s \in RequestSessions, List(p, m, s)
      PROVE  HeldInv' /\ StartInv'
  <2>1. /\ pending' = {} /\ UNCHANGED <<model_credentials, next_id, edited>>
        /\ ListActive(m) # {}
        /\ call' = [call EXCEPT ![p] = [model |-> m, session |-> s, creds |-> ListActive(m)]]
    BY <1>3 DEF List, poolVars
  <2>2. Held(p)'
    <3>1. call'[p] = [model |-> m, session |-> s, creds |-> ListActive(m)]
      BY <2>1 DEF TypeOK
    <3>2. ListActive(m)' = ListActive(m)
      BY <2>1 DEF ListActive
    <3> QED
      BY <2>1, <3>1, <3>2, ListOk DEF Held
  <2>3. \A q \in Pickers \ {p} : call'[q] = call[q]
    BY <2>1 DEF TypeOK
  <2>4. \A q \in Pickers \ {p} : call'[q] # Idle => Held(q)'
    BY <2>1, <2>3 DEF HeldInv, Held, ListActive
  <2> QED
    BY <2>1, <2>2, <2>4 DEF HeldInv, StartInv, Idle
<1>4. ASSUME NEW p \in Pickers, NEW m \in Models, ListNothing(p, m)
      PROVE  HeldInv' /\ StartInv'
  BY <1>1, <1>4 DEF ListNothing
<1>5. ASSUME NEW p \in Pickers, NEW c \in call[p].creds, Choose(p, c)
      PROVE  HeldInv' /\ StartInv'
  <2>1. /\ pending' = {} /\ UNCHANGED <<model_credentials, next_id, edited>>
        /\ call' = [call EXCEPT ![p] = Idle]
    BY <1>5 DEF Choose, HeldInv, Held
  <2>2. \A q \in Pickers : call'[q] = Idle \/ call'[q] = call[q]
    BY <2>1 DEF TypeOK
  <2>3. \A q \in Pickers : call'[q] # Idle => Held(q)'
    BY <2>1, <2>2 DEF HeldInv, Held, ListActive
  <2> QED
    BY <2>1, <2>3 DEF HeldInv, StartInv, Idle
<1>6. ASSUME Restart PROVE HeldInv' /\ StartInv'
  BY <1>6 DEF Restart, StartProcess, HeldInv, StartInv, Idle, NobodyServed
<1>7. ASSUME NEW m, Edit(m) PROVE HeldInv' /\ StartInv'
  <2>1. edited' /\ UNCHANGED <<call, pending, counters, served>>
    BY <1>7 DEF Edit
  <2>2. CASE Serving
    BY <2>1, <2>2, StillHeld DEF StartInv
  <2>3. CASE ~Serving
    BY <2>1, <2>3 DEF HeldInv, Held, StartInv, Idle, NobodyServed
  <2> QED
    BY <2>2, <2>3
<1> QED
  BY <1>1, <1>2, <1>3, <1>4, <1>5, <1>6, <1>7
     DEF Next, Administer, AddAccount, RemoveAccount, SwitchAccount

\* A pick in progress indexes a row of its list, and only one, whatever happened
\* to the table and the counter since it read the list.
THEOREM IndexAlwaysInRange == Spec => []IndexInRange
<1>1. TypeOK /\ HeldInv => IndexInRange
  <2> SUFFICES ASSUME TypeOK, HeldInv, NEW p \in Pickers, call[p] # Idle
               PROVE  Cardinality({c \in call[p].creds :
                        Picks(c, call[p].model, call[p].session, call[p].creds)}) = 1
    BY DEF IndexInRange
  <2> DEFINE m == call[p].model
             s == call[p].session
             rows == call[p].creds
             found == {c \in rows : Picks(c, m, s, rows)}
  <2>1. /\ m \in Models /\ s \in RequestSessions
        /\ rows \subseteq CredentialRow /\ IsFiniteSet(rows) /\ Distinct(rows) /\ rows # {}
    BY DEF HeldInv, Held, TypeOK
  <2>2. /\ \E c \in rows : Picks(c, m, s, rows)
        /\ \A c, d \in rows : Picks(c, m, s, rows) /\ Picks(d, m, s, rows) => c = d
    <3> HIDE DEF m, s, rows
    <3> QED
      BY <2>1, PickFindsOne
  <2>3. \E c : found = {c}
    BY <2>2
  <2> HIDE DEF found
  <2> QED
    BY <2>3, FS_Singleton DEF found
<1> QED
  BY <1>1, TypeInit, TypeStep, RowsInit, RowsStep, HeldInit, HeldStep, PTL DEF Spec
-----------------------------------------------------------------------------
(***************************************************************************)
(* Pins.  A session's index depends on its hash and the list alone, and    *)
(* the list of a model changes only by a start or by an edit of it.        *)
(***************************************************************************)

\* What an edit leaves alone.
LEMMA EditOfOne ==
  ASSUME TypeOK, Administer
  PROVE  \E m \in Models : /\ Edit(m)
                           /\ \A n \in Models \ {m} : ListActive(n)' = ListActive(n)
<1>1. ASSUME NEW m \in Models, NEW key \in ApiKeys, NEW label \in Labels,
             AddAccount(m, key, label)
      PROVE  Edit(m) /\ \A n \in Models \ {m} : ListActive(n)' = ListActive(n)
  BY <1>1 DEF AddAccount, ListActive
<1>2. ASSUME NEW c \in model_credentials, RemoveAccount(c)
      PROVE  /\ Edit(c.model_id)
             /\ \A n \in Models \ {c.model_id} : ListActive(n)' = ListActive(n)
  BY <1>2 DEF RemoveAccount, ListActive
<1>3. ASSUME NEW c \in model_credentials, SwitchAccount(c)
      PROVE  /\ Edit(c.model_id)
             /\ \A n \in Models \ {c.model_id} : ListActive(n)' = ListActive(n)
  <2> DEFINE d == [c EXCEPT !.is_active = ~@]
  <2>1. d.model_id = c.model_id
    BY DEF TypeOK, PoolTypeOK, CredentialRow
  <2>2. model_credentials' = (model_credentials \ {c}) \cup {d} /\ Edit(c.model_id)
    BY <1>3 DEF SwitchAccount
  <2> HIDE DEF d
  <2> QED
    BY <2>1, <2>2 DEF ListActive
<1>4. \A c \in model_credentials : c.model_id \in Models
  BY DEF TypeOK, PoolTypeOK, CredentialRow
<1> QED
  BY <1>1, <1>2, <1>3, <1>4 DEF Administer

\* The counters do not matter to a session's route.
LEMMA RouteKept ==
  ASSUME NEW s \in SessionIds, NEW m, NEW key, ListActive(m)' = ListActive(m)
  PROVE  Routed(s, m, key)' <=> Routed(s, m, key)
BY DomainAssumption DEF Routed, Picks, PickIndex, Rank

\* How a step may change a pin.
LEMMA PinSteps ==
  ASSUME TypeOK, HeldInv, [Next]_vars, NEW s \in SessionIds, NEW m \in Models,
         pinned'[<<s, m>>].key # NoKey
  PROVE  \/ pinned'[<<s, m>>] = pinned[<<s, m>>]
         \/ /\ pinned'[<<s, m>>].start = restarts
            /\ Serving /\ Routed(s, m, pinned'[<<s, m>>].key)
            /\ UNCHANGED <<model_credentials, pending, restarts>>
<1> DEFINE sm == <<s, m>>
<1>1. sm \in SessionIds \X Models /\ DOMAIN pinned = SessionIds \X Models
  BY DEF TypeOK
<1>2. CASE UNCHANGED pinned
  BY <1>2
<1>3. ASSUME NEW n, Edit(n) PROVE pinned'[<<s, m>>] = pinned[<<s, m>>]
  BY <1>1, <1>3 DEF Edit, Unpinned
<1>4. ASSUME Restart PROVE pinned'[<<s, m>>] = pinned[<<s, m>>]
  BY <1>1, <1>4 DEF Restart, Unpinned
<1>5. ASSUME NEW p \in Pickers, NEW c \in call[p].creds, Choose(p, c),
             pinned'[<<s, m>>] # pinned[<<s, m>>]
      PROVE  /\ pinned'[<<s, m>>].start = restarts
             /\ Serving /\ Routed(s, m, pinned'[<<s, m>>].key)
             /\ UNCHANGED <<model_credentials, pending, restarts>>
  <2> DEFINE pin == [key |-> c.api_key, start |-> restarts]
             at == <<call[p].session, call[p].model>>
  <2>1. /\ call[p].creds = ListActive(call[p].model)
        /\ pinned' = [pinned EXCEPT ![at] = pin]
        /\ Picks(c, call[p].model, call[p].session, call[p].creds)
        /\ UNCHANGED <<model_credentials, pending, restarts>>
        /\ call[p] # Idle
    BY <1>5 DEF Choose
  <2>2. at = sm
    <3> HIDE DEF at, pin
    <3> QED
      BY <1>1, <1>5, <2>1
  <2>3. pinned'[<<s, m>>] = pin
    BY <1>1, <2>1, <2>2
  <2>4. Routed(s, m, c.api_key)
    BY <2>1, <2>2 DEF Routed
  <2> QED
    BY <2>1, <2>3, <2>4 DEF HeldInv, Held
<1>6. \/ UNCHANGED pinned
      \/ Restart
      \/ \E n : Edit(n)
      \/ \E p \in Pickers : \E c \in call[p].creds : Choose(p, c)
  BY DEF Next, vars, poolVars, Commit, Rollback, List, ListNothing, Administer, AddAccount,
         RemoveAccount, SwitchAccount
<1> QED
  BY <1>2, <1>3, <1>4, <1>5, <1>6

LEMMA PinInit == Init => PinInv
BY DEF Init, PinInv, Unpinned

LEMMA PinStep == TypeOK /\ HeldInv /\ PinInv /\ [Next]_vars => PinInv'
<1> SUFFICES ASSUME TypeOK, HeldInv, PinInv, [Next]_vars,
                    NEW s \in SessionIds, NEW m \in Models,
                    NEW pin, pin = pinned'[<<s, m>>], pin.key # NoKey
             PROVE  /\ pin.start <= restarts'
                    /\ pin.start = restarts' => Serving' /\ Routed(s, m, pin.key)'
  <2>1. ASSUME NEW s \in SessionIds, NEW m \in Models, NEW pin, pin = pinned'[<<s, m>>]
        PROVE  Routed(s, m, pinned[<<s, m>>].key)' = Routed(s, m, pin.key)'
    BY <2>1 DEF Routed
  <2> QED
    BY <2>1 DEF PinInv
<1>1. restarts \in Nat
  BY ServiceAssumption DEF TypeOK
<1>2. CASE /\ pin.start = restarts
           /\ Serving /\ Routed(s, m, pin.key)
           /\ UNCHANGED <<model_credentials, pending, restarts>>
  <2>1. ListActive(m)' = ListActive(m)
    BY <1>2 DEF ListActive
  <2>2. Routed(s, m, pin.key)'
    BY <1>2, <2>1, RouteKept
  <2> QED
    BY <1>1, <1>2, <2>2 DEF Serving
<1>3. CASE pin = pinned[<<s, m>>]
  <2>1. /\ pin.start <= restarts /\ pin.start \in Nat
        /\ pin.start = restarts => Serving /\ Routed(s, m, pin.key)
    BY <1>3, ServiceAssumption DEF PinInv, TypeOK
  <2>2. CASE Restart
    BY <1>1, <2>1, <2>2 DEF Restart
  <2>3. CASE \E n \in SyncModels : Commit(n) \/ Rollback(n)
    BY <2>1, <2>3 DEF Commit, Rollback, SyncCommits, SyncFails, Serving
  <2>4. CASE ListActive(m)' = ListActive(m) /\ UNCHANGED <<pending, restarts>>
    <3>1. pin.start = restarts => Routed(s, m, pin.key)'
      BY <2>1, <2>4, RouteKept
    <3> QED
      BY <2>1, <2>4, <3>1 DEF Serving
  <2>5. CASE Administer
    <3>1. PICK n \in Models : /\ Edit(n)
                              /\ \A l \in Models \ {n} : ListActive(l)' = ListActive(l)
      BY <2>5, EditOfOne
    <3>2. n # m
      <4>1. <<s, m>> \in DOMAIN pinned
        BY DEF TypeOK
      <4>2. n = m => pinned'[<<s, m>>] = Unpinned
        BY <3>1, <4>1 DEF Edit
      <4> QED
        BY <4>2 DEF Unpinned
    <3> QED
      BY <2>4, <3>1, <3>2 DEF Edit
  <2>6. CASE \/ UNCHANGED vars
             \/ \E p \in Pickers :
                  \/ \E n \in Models, t \in RequestSessions : List(p, n, t)
                  \/ \E n \in Models : ListNothing(p, n)
                  \/ \E c \in call[p].creds : Choose(p, c)
    <3>1. UNCHANGED <<model_credentials, pending, restarts>>
      BY <2>6 DEF vars, poolVars, List, ListNothing, Choose
    <3> QED
      BY <2>4, <3>1 DEF ListActive
  <2> QED
    BY <2>2, <2>3, <2>5, <2>6 DEF Next
<1> QED
  BY <1>2, <1>3, PinSteps

\* While a process runs and nobody edits its pool, a session stays with the one
\* account, however its picks interleave with the picks and edits of others.
THEOREM StickyWhileItServes == Spec => StickyWhileServing
<1> DEFINE Stays == \A sm \in DOMAIN pinned :
                      Repinned(sm) /\ pinned'[sm].start = pinned[sm].start
                        => pinned'[sm].key = pinned[sm].key
<1>1. TypeOK /\ RowsInv /\ HeldInv /\ PinInv /\ [Next]_vars => Stays
  <2> SUFFICES ASSUME TypeOK, RowsInv, HeldInv, PinInv, [Next]_vars,
                      NEW s \in SessionIds, NEW m \in Models, Repinned(<<s, m>>),
                      pinned'[<<s, m>>].start = pinned[<<s, m>>].start,
                      pinned'[<<s, m>>] # pinned[<<s, m>>]
               PROVE  pinned'[<<s, m>>].key = pinned[<<s, m>>].key
    BY DEF TypeOK
  <2>1. /\ pinned'[<<s, m>>].start = restarts
        /\ Routed(s, m, pinned'[<<s, m>>].key)
    BY PinSteps DEF Repinned
  <2>2. Routed(s, m, pinned[<<s, m>>].key)
    BY <2>1 DEF PinInv, Repinned
  <2>3. s \in RequestSessions /\ ListActive(m) # {}
    BY <2>2 DEF RequestSessions, Routed
  <2>4. \A c, d \in ListActive(m) :
          Picks(c, m, s, ListActive(m)) /\ Picks(d, m, s, ListActive(m)) => c = d
    BY <2>3, ListOk, PickFindsOne
  <2> QED
    BY <2>1, <2>2, <2>4 DEF Routed
<1> QED
  BY <1>1, TypeInit, TypeStep, RowsInit, RowsStep, HeldInit, HeldStep, PinInit, PinStep,
     PTL DEF Spec, StickyWhileServing
-----------------------------------------------------------------------------
(***************************************************************************)
(* The ids drawn are counted, so every row has its count of picks.         *)
(***************************************************************************)
LEMMA DrawnInit == Init => DrawnInv
<1> SUFFICES ASSUME Init PROVE DrawnInv
  OBVIOUS
<1> DEFINE N == Cardinality(SyncModels)
<1>1. N \in Nat /\ InitialNextId \in Nat
  BY PoolAssumption, ServiceAssumption, FS_CardinalityType
<1>2. N * 1 = N
  BY <1>1
<1> HIDE DEF N
<1>3. next_id = InitialNextId /\ Cardinality(pending) = N /\ edits = 0 /\ restarts = 0
  BY DEF Init, PoolInit, N
<1> QED
  BY <1>1, <1>2, <1>3 DEF DrawnInv, N

LEMMA DrawnStep == TypeOK /\ DrawnInv /\ [Next]_vars => DrawnInv'
<1> SUFFICES ASSUME TypeOK, DrawnInv, [Next]_vars PROVE DrawnInv'
  OBVIOUS
<1> DEFINE N == Cardinality(SyncModels)
           K == Cardinality(pending)
           budget(r) == N * (r + 1)
<1>1. /\ IsFiniteSet(pending) /\ K \in Nat /\ N \in Nat
      /\ next_id \in Nat /\ InitialNextId \in Nat /\ edits \in Nat /\ restarts \in Nat
      /\ budget(restarts) \in Nat
  <2>1. IsFiniteSet(pending) /\ restarts \in Nat /\ edits \in Nat
    BY FS_Subset, ServiceAssumption DEF TypeOK, PoolTypeOK
  <2>2. K \in Nat /\ N \in Nat
    BY <2>1, FS_CardinalityType, ServiceAssumption
  <2> HIDE DEF N, K
  <2> QED
    BY <2>1, <2>2, TimesType, PoolAssumption DEF TypeOK, PoolTypeOK
<1>2. next_id + K <= InitialNextId + edits + budget(restarts)
  BY DEF DrawnInv
<1>3. SUFFICES next_id' + K' <= InitialNextId + edits' + budget(restarts)'
  BY DEF DrawnInv
<1>4. CASE UNCHANGED <<next_id, pending, edits, restarts>>
  BY <1>2, <1>4
<1>5. ASSUME NEW m \in SyncModels, Commit(m) \/ Rollback(m)
      PROVE  next_id' + K' <= InitialNextId + edits' + budget(restarts)'
  <2>1. m \in pending /\ pending' = pending \ {m} /\ UNCHANGED <<edits, restarts>>
    BY <1>5 DEF Commit, Rollback, SyncCommits, SyncFails
  <2>2. K' = K - 1
    BY <1>1, <2>1, FS_RemoveElement
  <2>3. next_id' <= next_id + 1 /\ next_id' \in Nat
    BY <1>1, <1>5 DEF Commit, Rollback, SyncCommits, SyncFails
  <2> HIDE DEF K
  <2>4. budget(restarts)' = budget(restarts)
    BY <2>1
  <2> HIDE DEF budget
  <2> QED
    BY <1>1, <1>2, <2>1, <2>2, <2>3, <2>4
<1>6. ASSUME Restart
      PROVE  next_id' + K' <= InitialNextId + edits' + budget(restarts)'
  <2>1. next_id' = next_id /\ K' = N /\ edits' = edits /\ restarts' = restarts + 1
    BY <1>6 DEF Restart, StartProcess
  <2> HIDE DEF K
  <2>2. budget(restarts)' = budget(restarts) + N
    <3> HIDE DEF N
    <3>1. N * ((restarts + 1) + 1) = N * (restarts + 1) + N
      BY <1>1, TimesSuccessor
    <3>2. N' = N
      BY DEF N
    <3> QED
      BY <2>1, <3>1, <3>2
  <2> HIDE DEF budget, N
  <2> QED
    BY <1>1, <1>2, <2>1, <2>2
<1>7. ASSUME NEW m, Edit(m), next_id' \in {next_id, next_id + 1}
      PROVE  next_id' + K' <= InitialNextId + edits' + budget(restarts)'
  <2>1. K' = K /\ edits' = edits + 1 /\ budget(restarts)' = budget(restarts)
    BY <1>7 DEF Edit
  <2> HIDE DEF K, budget
  <2> QED
    BY <1>1, <1>2, <1>7, <2>1
<1>8. \/ UNCHANGED <<next_id, pending, edits, restarts>>
      \/ \E m \in SyncModels : Commit(m) \/ Rollback(m)
      \/ Restart
      \/ \E m : Edit(m) /\ next_id' \in {next_id, next_id + 1}
  BY DEF Next, vars, poolVars, List, ListNothing, Choose, Administer, AddAccount,
         RemoveAccount, SwitchAccount
<1> QED
  BY <1>4, <1>5, <1>6, <1>7, <1>8

\* So the id of a row is one of those whose picks are counted.
LEMMA RowCounted ==
  ASSUME TypeOK, RowsInv, DrawnInv, NEW c \in model_credentials
  PROVE  c.id \in Ids
<1> DEFINE N == Cardinality(SyncModels)
<1>1. /\ c.id \in Nat /\ next_id \in Nat /\ c.id < next_id
      /\ restarts \in Nat /\ edits \in Nat /\ MaxRestarts \in Nat /\ MaxEdits \in Nat
      /\ restarts <= MaxRestarts /\ edits <= MaxEdits /\ InitialNextId \in Nat
  BY PoolAssumption, ServiceAssumption DEF RowsInv, TypeOK, PoolTypeOK, CredentialRow
<1>2. N \in Nat
  BY ServiceAssumption, FS_CardinalityType
<1>3. Cardinality(pending) \in Nat
  BY ServiceAssumption, FS_Subset, FS_CardinalityType DEF TypeOK, PoolTypeOK
<1>4. next_id + Cardinality(pending) <= InitialNextId + edits + N * (restarts + 1)
  BY DEF DrawnInv
<1>5. Ids = 0..(InitialNextId + MaxEdits + (MaxRestarts + 1) * N)
  BY DEF Ids
<1> HIDE DEF N
<1>6. /\ N * (restarts + 1) <= N * (MaxRestarts + 1)
      /\ N * (restarts + 1) \in Nat /\ N * (MaxRestarts + 1) \in Nat
  BY <1>1, <1>2, TimesMonotone, TimesType
<1>7. (MaxRestarts + 1) * N = N * (MaxRestarts + 1)
  BY <1>1, <1>2
<1> QED
  BY <1>1, <1>3, <1>4, <1>5, <1>6, <1>7
-----------------------------------------------------------------------------
(***************************************************************************)
(* Round robin.  A pick without a session takes the row whose rank is the  *)
(* counter modulo the number of rows, and advances the counter.            *)
(***************************************************************************)

\* The remainder of a number written as quotient and remainder.
LEMMA RemainderIs ==
  ASSUME NEW len \in Nat, NEW q \in Nat, NEW j \in Nat, j < len
  PROVE  (len * q + j) % len = j
<1> DEFINE n == len * q + j
           r == n % len
           k == n \div len
<1>1. len \in Nat \ {0} /\ n \in Nat /\ len * q \in Nat
  BY TimesType
<1>2. n = len * k + r /\ k \in Nat /\ r \in 0..(len - 1)
  <2> HIDE DEF n
  <2> QED
    BY <1>1
<1> HIDE DEF r, k
<1>3. CASE k < q
  <2>1. len * (k + 1) <= len * q /\ len * (k + 1) = len * k + len /\ len * k \in Nat
    BY <1>1, <1>2, <1>3, TimesMonotone, TimesSuccessor, TimesType
  <2> QED
    BY <1>1, <1>2, <2>1
<1>4. CASE q < k
  <2>1. len * (q + 1) <= len * k /\ len * (q + 1) = len * q + len /\ len * k \in Nat
    BY <1>1, <1>2, <1>4, TimesMonotone, TimesSuccessor, TimesType
  <2> QED
    BY <1>1, <1>2, <2>1
<1>5. CASE k = q
  BY <1>1, <1>2, <1>5
<1> QED
  BY <1>2, <1>3, <1>4, <1>5 DEF r

\* A process that has not picked yet.
LEMMA NoRounds ==
  ASSUME TypeOK, RowsInv, DrawnInv, counters = [m \in Models |-> 0], served = NobodyServed
  PROVE  RoundInv
<1> SUFFICES ASSUME NEW m \in Models, ListActive(m) # {}
             PROVE  Rounds(m, 0, 0)
  BY DEF RoundInv
<1>1. Cardinality(ListActive(m)) \in Nat \ {0}
  BY ListOk, FS_CardinalityType, FS_EmptySet
<1>2. \A c \in ListActive(m) : served[m][c.id] = 0 /\ Rank(c, ListActive(m)) \in Nat
  <2>1. \A c \in ListActive(m) : c.id \in Ids
    BY RowCounted DEF ListActive
  <2>2. \A c \in ListActive(m) : Rank(c, ListActive(m)) \in Nat
    BY <1>1, ListOk, RankInRange
  <2> QED
    BY <2>1, <2>2 DEF NobodyServed
<1>3. Cardinality(ListActive(m)) * 0 + 0 = 0
  BY <1>1
<1>4. counters[m] = 0
  OBVIOUS
<1> QED
  BY <1>1, <1>2, <1>3, <1>4 DEF Rounds

LEMMA RoundInit == TypeOK /\ RowsInv /\ DrawnInv /\ Init => RoundInv
BY NoRounds DEF Init, PoolInit

\* The next pick of a round.
LEMMA RoundPick ==
  ASSUME TypeOK, RowsInv, DrawnInv, HeldInv, ~edited, NEW p \in Pickers,
         NEW c \in call[p].creds, Choose(p, c), call[p].session = NoSession,
         NEW m, m = call[p].model,
         NEW q \in Nat, NEW j \in Nat, Rounds(m, q, j)
  PROVE  Rounds(m, q, j + 1)' \/ Rounds(m, q + 1, 0)'
<1> DEFINE rows == ListActive(m)
           len == Cardinality(rows)
<1>1. /\ m \in Models /\ call[p].creds = rows /\ c \in rows
      /\ rows \subseteq CredentialRow /\ IsFiniteSet(rows) /\ Distinct(rows)
  BY ListOk DEF Choose, HeldInv, Held
<1>2. len \in Nat /\ \A d \in rows : Rank(d, rows) \in 0..(len - 1)
  <2> HIDE DEF rows
  <2> QED
    BY <1>1, RankInRange, FS_CardinalityType
<1>3. counters[m] = len * q + j /\ j < len /\ counters[m] \in Nat
  BY <1>1 DEF Rounds, TypeOK, PoolTypeOK
<1>4. Rank(c, rows) = j
  <2>1. Rank(c, rows) = counters[m] % len
    BY <1>1 DEF Choose, Picks, PickIndex
  <2> HIDE DEF len
  <2> QED
    BY <1>2, <1>3, <2>1, RemainderIs
<1>5. rows' = rows
  BY DEF Choose, ListActive
<1>6. /\ counters'[m] = counters[m] + 1
      /\ \A i \in Ids : served'[m][i] = IF i = c.id THEN served[m][i] + 1 ELSE served[m][i]
  <2>1. /\ counters' = [counters EXCEPT ![m] = @ + 1]
        /\ served' = [served EXCEPT ![m][c.id] = @ + 1]
    BY DEF Choose, AdvanceCounter
  <2> QED
    BY <1>1, <2>1 DEF TypeOK, PoolTypeOK
<1>7. \A d \in rows : d.id \in Ids /\ (d.id = c.id <=> Rank(d, rows) = j)
  <2>1. \A d \in rows : d.id \in Ids
    BY RowCounted DEF ListActive
  <2>2. ASSUME NEW d \in rows PROVE Rank(d, rows) = j => d = c
    <3> HIDE DEF rows
    <3> QED
      BY <1>1, <1>4, RankOneToOne
  <2>3. ASSUME NEW d \in rows, d.id = c.id PROVE d = c
    BY <1>1, <2>3 DEF Distinct
  <2> QED
    BY <1>4, <2>1, <2>2, <2>3
<1>8. \A d \in rows : served[m][d.id] = IF Rank(d, rows) < j THEN q + 1 ELSE q
  BY DEF Rounds
<1>9. \A d \in rows : served'[m][d.id] = IF Rank(d, rows) < j + 1 THEN q + 1 ELSE q
  <2> HIDE DEF rows
  <2> QED
    BY <1>2, <1>6, <1>7, <1>8
<1>10. CASE j + 1 < len
  <2>1. counters'[m] = len * q + (j + 1)
    <3>1. len * q \in Nat
      BY <1>2, TimesType
    <3> HIDE DEF len
    <3> QED
      BY <1>3, <1>6, <3>1
  <2> QED
    BY <1>5, <1>9, <1>10, <2>1 DEF Rounds
<1>11. CASE j + 1 = len
  <2>1. counters'[m] = len * (q + 1) + 0
    <3>1. len * q \in Nat /\ len * (q + 1) = len * q + len
      BY <1>2, TimesType, TimesSuccessor
    <3> HIDE DEF len
    <3> QED
      BY <1>2, <1>3, <1>6, <1>11, <3>1
  <2>2. \A d \in rows : served'[m][d.id] = IF Rank(d, rows) < 0 THEN (q + 1) + 1 ELSE q + 1
    <3> HIDE DEF rows
    <3> QED
      BY <1>2, <1>9, <1>11
  <2>3. 0 < len
    BY <1>3, <1>2
  <2> QED
    BY <1>5, <2>1, <2>2, <2>3 DEF Rounds
<1> QED
  BY <1>2, <1>3, <1>10, <1>11

\* What does not touch the counter and counts of a model, nor its list.
LEMMA RoundsKept ==
  ASSUME NEW m, NEW q, NEW j, Rounds(m, q, j), counters'[m] = counters[m],
         served'[m] = served[m], ListActive(m)' = ListActive(m)
  PROVE  Rounds(m, q, j)'
BY DEF Rounds, Rank

LEMMA RoundStep ==
  TypeOK /\ RowsInv /\ DrawnInv /\ HeldInv /\ StartInv /\ RoundInv /\ [Next]_vars => RoundInv'
<1> SUFFICES ASSUME TypeOK, RowsInv, DrawnInv, HeldInv, StartInv, RoundInv, [Next]_vars
             PROVE  RoundInv'
  OBVIOUS
<1>1. TypeOK' /\ RowsInv' /\ DrawnInv'
  BY TypeStep, RowsStep, DrawnStep
<1>2. CASE UNCHANGED <<counters, served, model_credentials, edited>>
  <2> SUFFICES ASSUME ~edited, NEW m \in Models, ListActive(m) # {}
               PROVE  \E q \in Nat, j \in Nat : Rounds(m, q, j)'
    BY <1>2 DEF RoundInv, ListActive
  <2>1. PICK q \in Nat, j \in Nat : Rounds(m, q, j)
    BY DEF RoundInv
  <2> QED
    BY <1>2, <2>1, RoundsKept DEF ListActive
<1>3. CASE counters' = [m \in Models |-> 0] /\ served' = NobodyServed
  <2>1. served' = NobodyServed'
    BY <1>3 DEF NobodyServed, Ids
  <2>2. ASSUME TypeOK', RowsInv', DrawnInv', (counters = [m \in Models |-> 0])',
               (served = NobodyServed)'
        PROVE  RoundInv'
    BY <2>2, NoRounds, PTL
  <2> QED
    BY <1>1, <1>3, <2>1, <2>2
<1>4. ASSUME NEW p \in Pickers, NEW c \in call[p].creds, Choose(p, c)
      PROVE  RoundInv'
  <2>1. CASE call[p].session # NoSession
    BY <1>2, <1>4, <2>1 DEF Choose, AdvanceCounter
  <2>2. CASE call[p].session = NoSession
    <3> SUFFICES ASSUME ~edited, NEW m \in Models, ListActive(m)' # {}
                 PROVE  \E q \in Nat, j \in Nat : Rounds(m, q, j)'
      BY <1>4 DEF RoundInv, Choose
    <3>1. ListActive(m)' = ListActive(m)
      BY <1>4 DEF Choose, ListActive
    <3>2. PICK q \in Nat, j \in Nat : Rounds(m, q, j)
      BY <3>1 DEF RoundInv
    <3>3. CASE m = call[p].model
      <4>1. Rounds(m, q, j + 1)' \/ Rounds(m, q + 1, 0)'
        BY <1>4, <2>2, <3>2, <3>3, RoundPick
      <4> QED
        BY <4>1
    <3>4. CASE m # call[p].model
      <4>1. counters'[m] = counters[m] /\ served'[m] = served[m]
        BY <1>4, <2>2, <3>4 DEF Choose, AdvanceCounter, TypeOK, PoolTypeOK
      <4> QED
        BY <3>1, <3>2, <4>1, RoundsKept
    <3> QED
      BY <3>3, <3>4
  <2> QED
    BY <2>1, <2>2
<1>5. CASE \E m \in SyncModels : Commit(m) \/ Rollback(m)
  BY <1>3, <1>5 DEF Commit, Rollback, SyncCommits, SyncFails, StartInv, Serving
<1>6. CASE Restart
  BY <1>3, <1>6 DEF Restart, StartProcess
<1>7. CASE Administer
  BY <1>7 DEF Administer, AddAccount, RemoveAccount, SwitchAccount, Edit, RoundInv
<1>8. CASE \/ UNCHANGED vars
           \/ \E p \in Pickers, m \in Models :
                ListNothing(p, m) \/ \E s \in RequestSessions : List(p, m, s)
  BY <1>2, <1>8 DEF vars, poolVars, List, ListNothing
<1> QED
  BY <1>4, <1>5, <1>6, <1>7, <1>8 DEF Next

\* Round robin is fair: in a pool nobody edits no account has served two requests
\* without a session more than another, however the picks interleave.
THEOREM RoundRobinIsBalanced == Spec => []RoundRobinBalanced
<1>1. TypeOK /\ RowsInv /\ RoundInv => RoundRobinBalanced
  <2> SUFFICES ASSUME TypeOK, RowsInv, RoundInv, ~edited, NEW m \in Models,
                      NEW c \in ListActive(m), NEW d \in ListActive(m)
               PROVE  served[m][c.id] <= served[m][d.id] + 1
    BY DEF RoundRobinBalanced
  <2>1. PICK q \in Nat, j \in Nat : Rounds(m, q, j)
    BY DEF RoundInv
  <2>2. served[m][c.id] \in {q, q + 1} /\ served[m][d.id] \in {q, q + 1}
    BY <2>1 DEF Rounds
  <2> QED
    BY <2>2
<1>2. Init => TypeOK /\ RowsInv /\ DrawnInv /\ HeldInv /\ StartInv /\ RoundInv
  BY TypeInit, RowsInit, DrawnInit, HeldInit, RoundInit
<1> QED
  BY <1>1, <1>2, TypeStep, RowsStep, DrawnStep, HeldStep, RoundStep, PTL DEF Spec
-----------------------------------------------------------------------------
(***************************************************************************)
(* Routes across a start.  Replacing the row with the last id by one with  *)
(* a larger id and the same key leaves every rank and key where it was.    *)
(***************************************************************************)
RouteOf(rows) == {<<Rank(c, rows), c.api_key>> : c \in rows}

LEMMA SameRoute ==
  ASSUME NEW rows, rows \subseteq CredentialRow, Distinct(rows),
         NEW last \in rows, \A d \in rows : d.id <= last.id,
         NEW row, row.id \in Nat, \A d \in rows : d.id < row.id, row.api_key = last.api_key,
         NEW new, new = (rows \ {last}) \cup {row}
  PROVE  RouteOf(new) = RouteOf(rows)
<1>1. /\ \A c \in rows : c.id \in Nat
      /\ \A c \in rows \ {last} : c.id < last.id
  BY DEF CredentialRow, Distinct
<1>2. \A c \in rows \ {last} : Rank(c, new) = Rank(c, rows)
  <2> SUFFICES ASSUME NEW c \in rows \ {last}
               PROVE  {d \in new : d.id < c.id} = {d \in rows : d.id < c.id}
    BY DEF Rank
  <2>1. c.id < last.id /\ c.id < row.id /\ c.id \in Nat /\ last.id \in Nat
    BY <1>1
  <2>2. ASSUME NEW d \in new, d.id < c.id PROVE d \in rows
    BY <2>1, <2>2
  <2>3. ASSUME NEW d \in rows, d.id < c.id PROVE d \in new
    BY <2>1, <2>3
  <2> QED
    BY <2>2, <2>3
<1>3. Rank(row, new) = Rank(last, rows)
  <2>1. {d \in new : d.id < row.id} = rows \ {last}
    BY <1>1
  <2>2. {d \in rows : d.id < last.id} = rows \ {last}
    BY <1>1
  <2> QED
    BY <2>1, <2>2 DEF Rank
<1>4. ASSUME NEW c \in new
      PROVE  \E d \in rows : Rank(c, new) = Rank(d, rows) /\ c.api_key = d.api_key
  BY <1>2, <1>3
<1>5. ASSUME NEW c \in rows
      PROVE  \E d \in new : Rank(c, rows) = Rank(d, new) /\ c.api_key = d.api_key
  <2>1. CASE c = last
    BY <1>3, <2>1
  <2>2. CASE c # last
    BY <1>2, <2>2
  <2> QED
    BY <2>1, <2>2
<1>6. ASSUME NEW c \in new
      PROVE  <<Rank(c, new), c.api_key>> \in RouteOf(rows)
  BY <1>4 DEF RouteOf
<1>7. ASSUME NEW c \in rows
      PROVE  <<Rank(c, rows), c.api_key>> \in RouteOf(new)
  BY <1>5 DEF RouteOf
<1> QED
  BY <1>6, <1>7 DEF RouteOf

\* A synchronisation leaves every route of a model in place if its config row has
\* the configured key, is enabled and was the last of the list.
THEOREM SyncKeepsTheRoutes == Spec => SyncKeepsRoutes
<1> DEFINE Keeps ==
      \A m \in SyncModels :
        (/\ edits' = edits
         /\ \E c \in ConfigRows(m) : /\ c.is_active /\ c.api_key = config[m]
                                     /\ \A d \in ListActive(m) : d.id <= c.id)
        => Route(m)' = Route(m)
<1>1. TypeOK /\ RowsInv /\ OneConfigRow /\ [Next]_vars => Keeps
  <2> SUFFICES ASSUME TypeOK, RowsInv, OneConfigRow, [Next]_vars,
                      NEW m \in SyncModels, edits' = edits,
                      NEW c \in ConfigRows(m), c.is_active, c.api_key = config[m],
                      \A d \in ListActive(m) : d.id <= c.id
               PROVE  Route(m)' = Route(m)
    OBVIOUS
  <2>1. CASE ListActive(m)' = ListActive(m)
    BY <2>1 DEF Route, Rank
  <2>2. CASE Quiet
    BY <2>1, <2>2 DEF Quiet, ListActive
  <2>3. ASSUME NEW n, Edit(n) PROVE FALSE
    BY <2>3, ServiceAssumption DEF Edit, TypeOK
  <2>4. ASSUME NEW n \in SyncModels, Commit(n), n # m PROVE Route(m)' = Route(m)
    <3>1. \/ model_credentials' = model_credentials \ ConfigRows(n)
          \/ /\ model_credentials' = (model_credentials \ ConfigRows(n))
                                       \cup {ConfigRow(n, config[n])}
             /\ ConfigRow(n, config[n]).model_id = n
      BY <2>4 DEF Commit, SyncCommits, ConfigRow
    <3> QED
      BY <2>1, <2>4, <3>1 DEF ConfigRows, ListActive
  <2>5. CASE Commit(m)
    <3> DEFINE row == ConfigRow(m, config[m])
               rows == ListActive(m)
    <3>1. config[m] # NoKey
      <4>1. c.api_key \in ApiKeys
        BY DEF ConfigRows, TypeOK, PoolTypeOK, CredentialRow
      <4> QED
        BY <4>1, DomainAssumption
    <3>2. ConfigRows(m) = {c} /\ c \in rows
      BY DEF ConfigRows, OneConfigRow, ListActive
    <3>3. model_credentials' = (model_credentials \ {c}) \cup {row}
      BY <2>5, <3>1, <3>2 DEF Commit, SyncCommits
    <3>4. /\ row.id = next_id /\ row.model_id = m /\ row.is_active
          /\ row.api_key = config[m]
      BY DEF ConfigRow
    <3>5. ListActive(m)' = (rows \ {c}) \cup {row}
      <4> HIDE DEF row
      <4> QED
        BY <3>3, <3>4 DEF ListActive
    <3>6. /\ rows \subseteq CredentialRow /\ Distinct(rows)
          /\ \A d \in rows : d.id <= c.id
          /\ \A d \in rows : d.id < row.id
          /\ row.id \in Nat /\ row.api_key = c.api_key
      BY <3>4, ListOk DEF TypeOK, PoolTypeOK
    <3> HIDE DEF row, rows
    <3>7. RouteOf((rows \ {c}) \cup {row}) = RouteOf(rows)
      <4>1. c \in rows
        BY <3>2
      <4> QED
        BY <3>6, <4>1, SameRoute
    <3>8. Route(m)' = RouteOf((rows \ {c}) \cup {row})
      BY <3>5 DEF Route, RouteOf, Rank
    <3> QED
      BY <3>7, <3>8 DEF Route, RouteOf, rows
  <2> QED
    BY <2>2, <2>3, <2>4, <2>5, Writers DEF AddAccount, RemoveAccount, SwitchAccount
<1> QED
  BY <1>1, TypeInit, TypeStep, RowsInit, RowsStep, ConfigStep, PTL DEF Spec, SyncKeepsRoutes
=============================================================================
