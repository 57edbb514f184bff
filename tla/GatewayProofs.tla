--------------------------- MODULE GatewayProofs ---------------------------
(***************************************************************************)
(* For any table, any requests and any pattern of failures and crashes:    *)
(* the types, the bound on the overspend, and the finality of a refusal;   *)
(* answers, charges and audit rows agree, the audit log never runs ahead   *)
(* of the ledger, the ledger and the log add up to what was charged, and   *)
(* the gateway keeps the promises of ChatAudit.                            *)
(***************************************************************************)
EXTENDS GatewayRefinement, DataLemmas

-----------------------------------------------------------------------------
(***************************************************************************)
(* Tables.                                                                 *)
(***************************************************************************)

\* Charging a row changes its used_tokens and nothing else.
LEMMA RowAfterDeduct ==
  ASSUME QuotaTypeOK, NEW k \in QuotaKeys, NEW n \in Nat, Deduct(k, n)
  PROVE  /\ QuotaTypeOK'
         /\ user_quotas'[k].used_tokens = user_quotas[k].used_tokens + n
         /\ user_quotas'[k].quota_tokens = user_quotas[k].quota_tokens
         /\ \A j \in QuotaKeys \ {k} : user_quotas'[j] = user_quotas[j]
<1>1. user_quotas' = [user_quotas EXCEPT ![k].used_tokens = @ + n]
  BY DEF Deduct, HasRow, QuotaTypeOK
<1> QED
  BY <1>1 DEF QuotaTypeOK, QuotaRow

\* A synchronisation, committed or rolled back, leaves a well-typed pool.
LEMMA StartupPool ==
  ASSUME PoolTypeOK, NEW m \in SyncModels, SyncCommits(m, Config[m]) \/ SyncFails(m)
  PROVE  PoolTypeOK'
<1>1. CASE SyncFails(m)
  BY <1>1 DEF SyncFails, PoolTypeOK
<1>2. CASE SyncCommits(m, Config[m])
  <2>1. pending' \subseteq SyncModels /\ counters' \in [Models -> Nat] /\ next_id' \in Nat
    BY <1>2 DEF SyncCommits, PoolTypeOK
  <2>2. Config[m] # NoKey => ConfigRow(m, Config[m]) \in CredentialRow
    BY PoolAssumption, GatewayAssumption DEF ConfigRow, CredentialRow, PoolTypeOK
  <2>3. model_credentials' \subseteq CredentialRow
    BY <1>2, <2>2 DEF SyncCommits, PoolTypeOK
  <2> QED
    BY <2>1, <2>3 DEF PoolTypeOK
<1> QED
  BY <1>1, <1>2

\* A pick leaves a well-typed pool.
LEMMA PickPool ==
  ASSUME PoolTypeOK, NEW m \in Models, NEW s, AdvanceCounter(m, s),
         UNCHANGED <<model_credentials, next_id, pending>>
  PROVE  PoolTypeOK'
BY DEF PoolTypeOK, AdvanceCounter

\* The cost of an answered call is a number of tokens within the maximum.
LEMMA CostBounded ==
  ASSUME NEW b \in Bodies, NEW u \in Usages
  PROVE  Cost(b, u) \in Nat /\ Cost(b, u) <= MaxTokens
BY GatewayAssumption DEF Cost, UsageType, BodyType

\* The row saved for a request is a row of the audit table.
LEMMA RowLogged ==
  ASSUME NEW r \in Requests, req[r] \in Bodies, usage[r] \in Usages
  PROVE  LogRow(r) \in LogType
BY GatewayAssumption DEF LogRow, LogType, LogSession, BodyType, UsageType
-----------------------------------------------------------------------------
(***************************************************************************)
(* Types.                                                                  *)
(***************************************************************************)
TypeInv == TypeOK /\ Shape

LEMMA TypeInit == Init => TypeInv
BY QuotaAssumption, PoolAssumption, GatewayAssumption
DEF Init, QuotaInit, PoolInit, TypeInv, TypeOK, Shape, QuotaTypeOK, PoolTypeOK, Settling

\* What Shape says of one request.
ShapeOf(r) == /\ pc[r] # "new" => req[r] \in Bodies
              /\ pc[r] = "new" => status[r] = "none"
              /\ pc[r] \in {"new", "check", "pick", "call"} => job[r] = "none"
              /\ job[r] # "none" => usage[r] \in Usages
              /\ pc[r] \in {"pick", "call"} \/ Settling(r) => Key(r) \in QuotaKeys

\* A step that moves one request has to be looked at for that request only.
LEMMA OneMoves ==
  ASSUME Shape, NEW r \in Requests, ShapeOf(r)',
         \A p \in Requests \ {r} : /\ pc'[p] = pc[p] /\ req'[p] = req[p]
                                   /\ status'[p] = status[p] /\ job'[p] = job[p]
                                   /\ usage'[p] = usage[p]
  PROVE  Shape'
<1> SUFFICES ASSUME NEW p \in Requests PROVE ShapeOf(p)'
  BY DEF Shape, ShapeOf
<1>1. CASE p = r
  BY <1>1
<1>2. CASE p # r
  BY <1>2 DEF Shape, ShapeOf, Settling, Key
<1> QED
  BY <1>1, <1>2
(***************************************************************************)
(* A handler's step moves one request; what it may move it to is in the    *)
(* types by the constants' assumptions.                                    *)
(***************************************************************************)
LEMMA HandlerTypes ==
  ASSUME TypeInv, NEW r \in Requests, ServerStep(r) \/ ClientStep(r)
  PROVE  TypeInv'
<1> USE DEF TypeInv, Goto, Finish, process, history, poolVars, Refused, Answered
<1>0. /\ pc[r] # "new" => req[r] \in Bodies
      /\ Key(r) = <<req[r].user, req[r].model>>
  BY DEF Shape, Key
<1>1. CASE PassCheck(r)
  <2>1. Key(r) \in QuotaKeys
    BY <1>1 DEF PassCheck, Check, HasRow, TypeOK, QuotaTypeOK
  <2>2. TypeOK'
    BY <1>1 DEF PassCheck, TypeOK, QuotaTypeOK, PoolTypeOK
  <2>3. Shape'
    BY <1>1, <2>1 DEF PassCheck, TypeOK, Shape, Settling, Key
  <2> QED
    BY <2>2, <2>3
<1>2. CASE FailCheck(r) \/ CheckError(r) \/ NoCredential(r)
  <2>1. TypeOK'
    BY <1>2 DEF FailCheck, CheckError, NoCredential, TypeOK, QuotaTypeOK, PoolTypeOK
  <2>2. Shape'
    <3>1. /\ ShapeOf(r)'
          /\ \A p \in Requests \ {r} : /\ pc'[p] = pc[p] /\ req'[p] = req[p]
                                       /\ status'[p] = status[p] /\ job'[p] = job[p]
                                       /\ usage'[p] = usage[p]
      BY <1>2 DEF FailCheck, CheckError, NoCredential, TypeOK, Shape, ShapeOf, Settling, Key
    <3> QED
      BY <3>1, OneMoves
  <2> QED
    BY <2>1, <2>2
<1>3. CASE PickCredential(r)
  <2>1. req[r].model \in Models
    BY <1>0, <1>3, GatewayAssumption DEF PickCredential, BodyType
  <2>2. PoolTypeOK'
    BY <1>3, <2>1, PickPool DEF PickCredential, TypeOK
  <2>3. \A m : ListActive(m) \subseteq CredentialRow
    BY DEF TypeOK, PoolTypeOK, ListActive
  <2>4. cred' \in [Requests -> CredentialRow \cup {None}]
    <3>1. PICK c \in ListActive(req[r].model) : cred' = [cred EXCEPT ![r] = c]
      BY <1>3 DEF PickCredential
    <3> QED
      BY <2>3, <3>1 DEF TypeOK
  <2>5. TypeOK'
    BY <1>3, <2>2, <2>4 DEF PickCredential, TypeOK, QuotaTypeOK
  <2>6. Shape'
    BY <1>3 DEF PickCredential, TypeOK, Shape, Settling, Key
  <2> QED
    BY <2>5, <2>6
<1>4. CASE CompleteFails(r) \/ StreamFails(r) \/ Reply(r)
  <2>1. TypeOK'
    BY <1>4 DEF CompleteFails, StreamFails, Reply, TypeOK, QuotaTypeOK, PoolTypeOK
  <2>2. Shape'
    <3>1. /\ ShapeOf(r)'
          /\ \A p \in Requests \ {r} : /\ pc'[p] = pc[p] /\ req'[p] = req[p]
                                       /\ status'[p] = status[p] /\ job'[p] = job[p]
                                       /\ usage'[p] = usage[p]
      BY <1>4 DEF CompleteFails, StreamFails, Reply, TypeOK, Shape, ShapeOf, Settling, Key
    <3> QED
      BY <3>1, OneMoves
  <2> QED
    BY <2>1, <2>2
<1>5. ASSUME NEW u \in Usages, CompleteAnswers(r, u) \/ StreamEnds(r, u)
      PROVE  TypeInv'
  <2>1. TypeOK'
    <3>1. CASE CompleteAnswers(r, u)
      BY <3>1 DEF CompleteAnswers, TypeOK, QuotaTypeOK, PoolTypeOK
    <3>2. CASE StreamEnds(r, u)
      BY <3>2 DEF StreamEnds, TypeOK, QuotaTypeOK, PoolTypeOK
    <3> QED
      BY <1>5, <3>1, <3>2
  <2>2. Shape'
    <3>1. /\ pc[r] = "call"
          /\ pc' \in {[pc EXCEPT ![r] = "reply"], [pc EXCEPT ![r] = "done"]}
          /\ usage' = [usage EXCEPT ![r] = u]
          /\ job' = [job EXCEPT ![r] = "deduct"]
          /\ UNCHANGED <<user_quotas, req>>
          /\ \A p \in Requests : p # r => status'[p] = status[p]
      BY <1>5 DEF CompleteAnswers, StreamEnds, TypeOK
    <3>2. ShapeOf(r)'
      BY <3>1 DEF TypeOK, Shape, ShapeOf, Settling, Key
    <3> QED
      BY <3>1, <3>2, OneMoves DEF TypeOK
  <2> QED
    BY <2>1, <2>2
<1> QED
  BY <1>1, <1>2, <1>3, <1>4, <1>5 DEF ServerStep, ClientStep

\* A settlement charges a row that exists and saves a well-typed one.
LEMMA SettleTypes ==
  ASSUME TypeInv, NEW r \in Requests, SettleStep(r)
  PROVE  TypeInv'
<1> USE DEF TypeInv, Settled, process, history, poolVars
<1>1. CASE SettleDeduct(r)
  <2>1. Key(r) \in QuotaKeys /\ req[r] \in Bodies /\ usage[r] \in Usages
    BY <1>1 DEF SettleDeduct, Shape, Settling
  <2>2. Cost(req[r], usage[r]) \in Nat
    BY <2>1, CostBounded
  <2>3. QuotaTypeOK'
    BY <1>1, <2>1, <2>2, RowAfterDeduct DEF SettleDeduct, TypeOK
  <2>4. TypeOK'
    BY <1>1, <2>3 DEF SettleDeduct, TypeOK, PoolTypeOK
  <2>5. Shape'
    BY <1>1 DEF SettleDeduct, TypeOK, Shape, Settling, Key
  <2> QED
    BY <2>4, <2>5
<1>2. CASE SettleSave(r)
  <2>1. LogRow(r) \in LogType
    BY <1>2, RowLogged DEF SettleSave, Shape, Settling
  <2>2. chat_logs' \subseteq LogType
    BY <1>2, <2>1 DEF SettleSave, TypeOK
  <2>3. TypeOK'
    BY <1>2, <2>2 DEF SettleSave, TypeOK, QuotaTypeOK, PoolTypeOK
  <2>4. Shape'
    BY <1>2 DEF SettleSave, TypeOK, Shape, Settling, Key
  <2> QED
    BY <2>3, <2>4
<1>3. CASE DropDeduct(r) \/ DropSave(r)
  <2>1. TypeOK'
    <3>1. <<"deduct", r>> \in {"deduct", "save"} \X Requests
          /\ <<"save", r>> \in {"deduct", "save"} \X Requests
      OBVIOUS
    <3>2. dropped' \subseteq {"deduct", "save"} \X Requests
      BY <1>3, <3>1 DEF DropDeduct, DropSave, TypeOK
    <3>3. job' \in [Requests -> {"none", "deduct", "save", "done", "killed"}]
      BY <1>3 DEF DropDeduct, DropSave, TypeOK
    <3>4. UNCHANGED <<user_quotas, model_credentials, next_id, counters, pending, pc, req,
                      cred, usage, status, chat_logs, charged, crashes>>
      BY <1>3 DEF DropDeduct, DropSave
    <3> QED
      BY <3>2, <3>3, <3>4 DEF TypeOK, QuotaTypeOK, PoolTypeOK
  <2>2. Shape'
    <3>1. /\ ShapeOf(r)'
          /\ \A p \in Requests \ {r} : /\ pc'[p] = pc[p] /\ req'[p] = req[p]
                                       /\ status'[p] = status[p] /\ job'[p] = job[p]
                                       /\ usage'[p] = usage[p]
      BY <1>3 DEF DropDeduct, DropSave, TypeOK, Shape, ShapeOf, Settling, Key
    <3> QED
      BY <3>1, OneMoves
  <2> QED
    BY <2>1, <2>2
<1> QED
  BY <1>1, <1>2, <1>3 DEF SettleStep

\* Arrivals, startup and crashes.
LEMMA ProcessTypes ==
  ASSUME TypeInv,
         \/ \E m \in SyncModels : Startup(m)
         \/ \E r \in Requests, b \in Bodies : AcceptBody(r, b) \/ RejectBody(r, b)
         \/ Crash
  PROVE  TypeInv'
<1> USE DEF TypeInv, Goto, Finish, process, history, poolVars, Refused, Answered
<1>1. ASSUME NEW m \in SyncModels, Startup(m)
      PROVE  TypeInv'
  <2>1. PoolTypeOK'
    BY <1>1, StartupPool DEF Startup, TypeOK
  <2>2. TypeOK'
    BY <1>1, <2>1 DEF Startup, TypeOK, QuotaTypeOK
  <2>3. Shape'
    BY <1>1 DEF Startup, Shape, Settling, Key
  <2> QED
    BY <2>2, <2>3
<1>2. ASSUME NEW r \in Requests, NEW b \in Bodies, AcceptBody(r, b) \/ RejectBody(r, b)
      PROVE  TypeInv'
  <2>1. TypeOK'
    <3>1. CASE AcceptBody(r, b)
      BY <3>1 DEF AcceptBody, Arrive, TypeOK, QuotaTypeOK, PoolTypeOK
    <3>2. CASE RejectBody(r, b)
      BY <3>2 DEF RejectBody, Arrive, TypeOK, QuotaTypeOK, PoolTypeOK
    <3> QED
      BY <1>2, <3>1, <3>2
  <2>2. Shape'
    <3>1. /\ ShapeOf(r)'
          /\ \A p \in Requests \ {r} : /\ pc'[p] = pc[p] /\ req'[p] = req[p]
                                       /\ status'[p] = status[p] /\ job'[p] = job[p]
                                       /\ usage'[p] = usage[p]
      BY <1>2 DEF AcceptBody, RejectBody, Arrive, TypeOK, Shape, ShapeOf, Settling, Key
    <3> QED
      BY <3>1, OneMoves
  <2> QED
    BY <2>1, <2>2
<1>3. CASE Crash
  <2>1. PoolTypeOK'
    BY <1>3 DEF Crash, StartProcess, TypeOK, PoolTypeOK
  <2>2. crashes' \in 0..MaxCrashes
    <3>1. crashes \in 0..MaxCrashes /\ MaxCrashes \in Nat
      BY GatewayAssumption DEF TypeOK
    <3>2. crashes < MaxCrashes /\ crashes' = crashes + 1
      BY <1>3 DEF Crash
    <3> QED
      BY ONLY <3>1, <3>2
  <2>3. TypeOK'
    BY <1>3, <2>1, <2>2 DEF Crash, TypeOK, QuotaTypeOK
  <2>4. Shape'
    BY <1>3 DEF Crash, TypeOK, Shape, Settling, Handling, Key
  <2> QED
    BY <2>3, <2>4
<1> QED
  BY <1>1, <1>2, <1>3

LEMMA TypeStep == TypeInv /\ [Next]_vars => TypeInv'
<1> SUFFICES ASSUME TypeInv, [Next]_vars PROVE TypeInv'
  OBVIOUS
<1>1. CASE UNCHANGED vars
  BY <1>1 DEF vars, process, history, poolVars, TypeInv, TypeOK, QuotaTypeOK, PoolTypeOK,
              Shape, Settling, Key
<1>2. CASE Next
  BY <1>2, HandlerTypes, SettleTypes, ProcessTypes DEF Next
<1> QED
  BY <1>1, <1>2

\* Every value stays in its type, in every interleaving of handlers,
\* settlements, failures and restarts.
THEOREM TypeCorrect == Spec => []TypeOK
<1>1. TypeInv => TypeOK
  BY DEF TypeInv
<1> QED
  BY <1>1, TypeInit, TypeStep, PTL DEF Spec
-----------------------------------------------------------------------------
(***************************************************************************)
(* The overspend.  PromisesBounded counts, next to what a row has used,    *)
(* MaxTokens for every request admitted to it.  Only PassCheck adds a      *)
(* promise, and it saw a row below its quota; SettleDeduct trades one for  *)
(* at most as many tokens; failures and crashes only take promises away.   *)
(***************************************************************************)

\* The requests in flight are finitely many, before and after a step.
LEMMA InFlightFinite ==
  /\ IsFiniteSet(InFlight) /\ IsFiniteSet(InFlight')
  /\ Cardinality(InFlight) \in Nat /\ Cardinality(InFlight') \in Nat
<1>1. InFlight \subseteq Requests /\ InFlight' \subseteq Requests
  BY DEF InFlight
<1>2. IsFiniteSet(InFlight) /\ IsFiniteSet(InFlight')
  BY <1>1, GatewayAssumption, FS_Subset
<1> QED
  BY <1>2, FS_CardinalityType

\* So are those admitted to a row, and they are in flight.
LEMMA AdmittedFinite ==
  ASSUME NEW k
  PROVE  /\ IsFiniteSet(Admitted(k)) /\ IsFiniteSet(Admitted(k)')
         /\ Cardinality(Admitted(k)) \in Nat /\ Cardinality(Admitted(k)') \in Nat
         /\ Cardinality(Admitted(k)) <= Cardinality(InFlight)
         /\ Cardinality(Admitted(k)') <= Cardinality(InFlight')
<1>1. Admitted(k) \subseteq InFlight /\ Admitted(k)' \subseteq InFlight'
  BY DEF InFlight, Admitted, Handling, Settling
<1> QED
  BY <1>1, InFlightFinite, FS_Subset, FS_CardinalityType

\* A set that gains at most one element.
LEMMA AddAtMostOne ==
  ASSUME NEW S, NEW T, NEW x, IsFiniteSet(S), T \subseteq S \cup {x}
  PROVE  Cardinality(T) <= Cardinality(S) + 1
<1>1. IsFiniteSet(S \cup {x}) /\ Cardinality(T) <= Cardinality(S \cup {x})
  BY FS_AddElement, FS_Subset
<1>2. /\ IsFiniteSet(T)
      /\ Cardinality(S \cup {x}) = Cardinality(S)
         \/ Cardinality(S \cup {x}) = Cardinality(S) + 1
  BY <1>1, FS_AddElement, FS_Subset
<1>3. Cardinality(S) \in Nat /\ Cardinality(T) \in Nat /\ Cardinality(S \cup {x}) \in Nat
  BY <1>1, <1>2, FS_CardinalityType
<1> QED
  BY <1>1, <1>2, <1>3

\* Only an arrival puts a request in flight, and only below MaxInFlight.
LEMMA InFlightStep ==
  ASSUME TypeInv, Cardinality(InFlight) <= MaxInFlight, [Next]_vars
  PROVE  Cardinality(InFlight') <= MaxInFlight
<1> USE DEF TypeInv, Goto, Finish
<1>1. ASSUME NEW r \in Requests, NEW b \in Bodies, AcceptBody(r, b) \/ RejectBody(r, b)
      PROVE  Cardinality(InFlight') <= MaxInFlight
  <2>1. InFlight' \subseteq InFlight \cup {r} /\ Cardinality(InFlight) < MaxInFlight
    BY <1>1 DEF AcceptBody, RejectBody, Arrive, InFlight, Handling, Settling, TypeOK
  <2>2. Cardinality(InFlight') <= Cardinality(InFlight) + 1
    BY <2>1, InFlightFinite, AddAtMostOne
  <2> QED
    BY <2>1, <2>2, InFlightFinite, GatewayAssumption
<1>2. ASSUME InFlight' \subseteq InFlight
      PROVE  Cardinality(InFlight') <= MaxInFlight
  <2>1. Cardinality(InFlight') <= Cardinality(InFlight)
    BY <1>2, InFlightFinite, FS_Subset
  <2> QED
    BY <2>1, InFlightFinite, GatewayAssumption
<1>3. ASSUME NEW r \in Requests, ServerStep(r) PROVE InFlight' \subseteq InFlight
  BY <1>3 DEF ServerStep, PassCheck, FailCheck, CheckError, PickCredential, NoCredential,
              CompleteFails, CompleteAnswers, InFlight, Handling, Settling, TypeOK
<1>4. ASSUME NEW r \in Requests, ClientStep(r) PROVE InFlight' \subseteq InFlight
  <2>1. CASE StreamFails(r) \/ Reply(r)
    BY <2>1 DEF StreamFails, Reply, InFlight, Handling, Settling, TypeOK
  <2>2. ASSUME NEW u \in Usages, StreamEnds(r, u) PROVE InFlight' \subseteq InFlight
    BY <2>2 DEF StreamEnds, InFlight, Handling, Settling, TypeOK
  <2> QED
    BY <1>4, <2>1, <2>2 DEF ClientStep
<1>5. ASSUME NEW r \in Requests, SettleStep(r) PROVE InFlight' \subseteq InFlight
  BY <1>5 DEF SettleStep, SettleDeduct, SettleSave, DropDeduct, DropSave, Settled,
              InFlight, Handling, Settling, TypeOK
<1>6. ASSUME Crash PROVE InFlight' \subseteq InFlight
  BY <1>6 DEF Crash, InFlight, Handling, Settling
<1>7. ASSUME UNCHANGED <<pc, job>> PROVE InFlight' \subseteq InFlight
  BY <1>7 DEF InFlight, Handling, Settling
<1> QED
  BY <1>1, <1>2, <1>3, <1>4, <1>5, <1>6, <1>7 DEF Next, Startup, vars, process

\* What SettleDeduct does to the table.
LEMMA DeductStep ==
  ASSUME TypeInv, NEW r \in Requests, SettleDeduct(r)
  PROVE  /\ Key(r) \in QuotaKeys
         /\ CostOf(r) \in Nat /\ CostOf(r) <= MaxTokens
         /\ user_quotas'[Key(r)].used_tokens = user_quotas[Key(r)].used_tokens + CostOf(r)
         /\ user_quotas'[Key(r)].quota_tokens = user_quotas[Key(r)].quota_tokens
         /\ \A k \in QuotaKeys \ {Key(r)} : user_quotas'[k] = user_quotas[k]
<1>1. Key(r) \in QuotaKeys /\ req[r] \in Bodies /\ usage[r] \in Usages
  BY DEF SettleDeduct, TypeInv, Shape, Settling
<1>2. CostOf(r) \in Nat /\ CostOf(r) <= MaxTokens
  BY <1>1, CostBounded DEF CostOf
<1> QED
  BY <1>1, <1>2, RowAfterDeduct DEF SettleDeduct, CostOf, TypeInv, TypeOK

\* Every other step leaves the table alone.
LEMMA TableStep ==
  ASSUME [Next]_vars
  PROVE  user_quotas' = user_quotas \/ \E r \in Requests : SettleDeduct(r)
BY DEF Next, vars, ServerStep, ClientStep, SettleStep, PassCheck, FailCheck, CheckError,
       PickCredential, NoCredential, CompleteFails, CompleteAnswers, StreamFails, StreamEnds,
       Reply, SettleSave, DropDeduct, DropSave, Startup, AcceptBody, RejectBody, Arrive, Crash

\* Nobody rewrites a quota or gives tokens back.
LEMMA RowStep ==
  ASSUME TypeInv, [Next]_vars, NEW k \in QuotaKeys
  PROVE  /\ user_quotas'[k].quota_tokens = user_quotas[k].quota_tokens
         /\ user_quotas'[k].used_tokens >= user_quotas[k].used_tokens
<1>1. user_quotas[k].used_tokens \in Nat
  BY DEF TypeInv, TypeOK, QuotaTypeOK, QuotaRow
<1>2. CASE user_quotas' = user_quotas
  BY <1>1, <1>2
<1>3. ASSUME NEW r \in Requests, SettleDeduct(r)
      PROVE  /\ user_quotas'[k].quota_tokens = user_quotas[k].quota_tokens
             /\ user_quotas'[k].used_tokens >= user_quotas[k].used_tokens
  BY <1>1, <1>3, DeductStep
<1> QED
  BY <1>2, <1>3, TableStep

\* Only PassCheck admits a request.
LEMMA AdmittedStep ==
  ASSUME TypeInv, [Next]_vars, NEW k \in QuotaKeys
  PROVE  \/ Admitted(k)' \subseteq Admitted(k)
         \/ \E r \in Requests : PassCheck(r) /\ Key(r) = k
                                /\ Admitted(k)' = Admitted(k) \cup {r}
<1> DEFINE Fewer == Admitted(k)' \subseteq Admitted(k)
<1> USE DEF TypeInv, Goto, Finish, Admitted, Key
<1>1. ASSUME NEW r \in Requests, PassCheck(r)
      PROVE  Fewer \/ (Key(r) = k /\ Admitted(k)' = Admitted(k) \cup {r})
  <2>1. pc' = [pc EXCEPT ![r] = "pick"] /\ UNCHANGED <<req, job>>
    BY <1>1 DEF PassCheck
  <2>2. \A p \in Requests : p # r => (p \in Admitted(k)' <=> p \in Admitted(k))
    BY <2>1 DEF TypeOK
  <2>3. Key(r) = k => r \in Admitted(k)'
    BY <2>1 DEF TypeOK
  <2>4. Key(r) # k => r \notin Admitted(k)'
    BY <2>1
  <2>5. Admitted(k) \subseteq Requests /\ Admitted(k)' \subseteq Requests
    OBVIOUS
  <2> HIDE DEF Admitted, Key
  <2> QED
    BY <2>2, <2>3, <2>4, <2>5
<1>2. ASSUME NEW r \in Requests, ServerStep(r), ~PassCheck(r)
      PROVE  Fewer
  BY <1>2 DEF ServerStep, FailCheck, CheckError, PickCredential, NoCredential,
              CompleteFails, CompleteAnswers, TypeOK
<1>3. ASSUME NEW r \in Requests, ClientStep(r)
      PROVE  Fewer
  <2>1. CASE StreamFails(r) \/ Reply(r)
    BY <2>1 DEF StreamFails, Reply, TypeOK
  <2>2. ASSUME NEW u \in Usages, StreamEnds(r, u) PROVE Fewer
    BY <2>2 DEF StreamEnds, TypeOK
  <2> QED
    BY <1>3, <2>1, <2>2 DEF ClientStep
<1>4. ASSUME NEW r \in Requests, SettleStep(r)
      PROVE  Fewer
  BY <1>4 DEF SettleStep, SettleDeduct, SettleSave, DropDeduct, DropSave, Settled, TypeOK
<1>5. ASSUME NEW r \in Requests, NEW b \in Bodies, AcceptBody(r, b) \/ RejectBody(r, b)
      PROVE  Fewer
  BY <1>5 DEF AcceptBody, RejectBody, Arrive, TypeOK, Shape
<1>6. ASSUME Crash
      PROVE  Fewer
  BY <1>6 DEF Crash, Handling, Settling
<1>7. ASSUME UNCHANGED <<pc, job, req>>
      PROVE  Fewer
  BY <1>7
<1> QED
  BY <1>1, <1>2, <1>3, <1>4, <1>5, <1>6, <1>7 DEF Next, Startup, vars, process

LEMMA AdmissionInit == Init => AdmissionInv
<1> SUFFICES ASSUME Init PROVE AdmissionInv
  OBVIOUS
<1>1. /\ InFlight = {}
      /\ \A k \in QuotaKeys : Admitted(k) = {}
  BY DEF Init, InFlight, Admitted, Handling, Settling
<1>2. /\ Cardinality(InFlight) = 0
      /\ \A k \in QuotaKeys : Cardinality(Admitted(k)) = 0
  BY <1>1, FS_EmptySet
<1>3. MaxTokens \in Nat /\ MaxInFlight \in Nat /\ MaxTokens * 0 = 0
  BY GatewayAssumption
<1>4. \A k \in QuotaKeys : user_quotas[k] = InitialQuotas[k]
                           /\ InitialQuotas[k].used_tokens \in Nat
  BY QuotaAssumption DEF Init, QuotaInit, QuotaRow
<1>5. QuotasKept
  BY <1>4 DEF QuotasKept
<1>6. PromisesBounded
  BY <1>2, <1>3, <1>4 DEF PromisesBounded, Promised, WithinEither
<1> QED
  BY <1>2, <1>3, <1>5, <1>6, TypeInit DEF AdmissionInv, TypeInv

\* One row's sum of tokens used and promised stays within one of its two bounds.
LEMMA PromisesStep ==
  ASSUME TypeInv, AdmissionInv, [Next]_vars, NEW k \in QuotaKeys
  PROVE  WithinEither(Promised(k), InitialQuotas[k].used_tokens, Ceiling(k))'
<1> DEFINE n == user_quotas[k].used_tokens
           i == Cardinality(Admitted(k))
           i1 == Cardinality(Admitted(k)')
           init == InitialQuotas[k].used_tokens
           q == InitialQuotas[k].quota_tokens
<1>1. /\ MaxTokens \in Nat /\ MaxInFlight \in Nat
      /\ n \in Nat /\ i \in Nat /\ i1 \in Nat /\ init \in Nat /\ q \in Int
  BY GatewayAssumption, QuotaAssumption, AdmittedFinite
  DEF TypeInv, TypeOK, QuotaTypeOK, QuotaRow
<1>2. n + MaxTokens * i <= init \/ n + MaxTokens * i <= q - 1 + MaxTokens * MaxInFlight
  BY DEF AdmissionInv, PromisesBounded, WithinEither, Promised, Ceiling
<1>3. SUFFICES ASSUME NEW n1 \in Nat, n1 = user_quotas'[k].used_tokens
               PROVE  \/ n1 + MaxTokens * i1 <= init
                      \/ n1 + MaxTokens * i1 <= q - 1 + MaxTokens * MaxInFlight
  <2>1. user_quotas'[k].used_tokens \in Nat
    BY TypeStep DEF TypeInv, TypeOK, QuotaTypeOK, QuotaRow
  <2> QED
    BY <2>1 DEF WithinEither, Promised, Ceiling
<1>4. /\ MaxTokens * i \in Nat /\ MaxTokens * i1 \in Nat
      /\ MaxTokens * MaxInFlight \in Nat
  BY <1>1, TimesType
<1>5. ASSUME n1 + MaxTokens * i1 <= n + MaxTokens * i
      PROVE  \/ n1 + MaxTokens * i1 <= init
             \/ n1 + MaxTokens * i1 <= q - 1 + MaxTokens * MaxInFlight
  BY <1>1, <1>2, <1>3, <1>4, <1>5
<1>6. CASE n1 = n /\ Admitted(k)' \subseteq Admitted(k)
  <2>1. i1 <= i
    BY <1>6, AdmittedFinite, FS_Subset
  <2>2. n1 + MaxTokens * i1 <= n + MaxTokens * i
    BY <1>1, <1>6, <2>1, FewerPromises
  <2> QED
    BY <1>5, <2>2
<1>7. ASSUME NEW r \in Requests, PassCheck(r), Key(r) = k
      PROVE  n1 + MaxTokens * i1 <= q - 1 + MaxTokens * MaxInFlight
  <2>1. n1 = n
    BY <1>3, <1>7 DEF PassCheck
  <2>2. q - n > 0
    BY <1>1, <1>7 DEF PassCheck, Check, Remaining, AdmissionInv, QuotasKept
  <2>3. i1 <= MaxInFlight
    BY <1>1, AdmittedFinite, InFlightFinite, InFlightStep DEF AdmissionInv
  <2> QED
    BY <1>1, <2>1, <2>2, <2>3, BelowCeiling
<1>8. ASSUME NEW r \in Requests, SettleDeduct(r), Key(r) = k
      PROVE  n1 + MaxTokens * i1 <= n + MaxTokens * i
  <2>1. /\ CostOf(r) \in Nat /\ CostOf(r) <= MaxTokens
        /\ n1 = n + CostOf(r)
    BY <1>3, <1>8, DeductStep
  <2>2. r \in Admitted(k) /\ Admitted(k)' \subseteq Admitted(k) \ {r}
    BY <1>8 DEF SettleDeduct, Settled, Admitted, Key, TypeInv, TypeOK, Shape
  <2>3. /\ IsFiniteSet(Admitted(k) \ {r})
        /\ Cardinality(Admitted(k) \ {r}) = i - 1
    BY <2>2, AdmittedFinite, FS_RemoveElement
  <2>4. i1 <= i - 1
    BY <2>2, <2>3, FS_Subset
  <2>5. i - 1 \in Nat /\ (i - 1) + 1 = i
    BY <1>1, <2>3, FS_CardinalityType
  <2>6. n + CostOf(r) + MaxTokens * (i - 1) <= n + MaxTokens * i
    <3>1. n + CostOf(r) + MaxTokens * (i - 1) <= n + MaxTokens * ((i - 1) + 1)
      BY <1>1, <2>1, <2>5, PromiseKept
    <3> QED
      BY <2>5, <3>1
  <2>7. n1 + MaxTokens * i1 <= n1 + MaxTokens * (i - 1)
    BY <1>1, <1>3, <2>4, <2>5, FewerPromises
  <2>8. MaxTokens * (i - 1) \in Nat
    BY <1>1, <2>5, TimesType
  <2> QED
    BY <1>1, <1>4, <2>1, <2>6, <2>7, <2>8
<1>9. ASSUME NEW r \in Requests, SettleDeduct(r), Key(r) # k
      PROVE  n1 = n /\ Admitted(k)' \subseteq Admitted(k)
  <2>1. n1 = n
    BY <1>3, <1>9, DeductStep
  <2>2. Admitted(k)' \subseteq Admitted(k)
    BY <1>9 DEF SettleDeduct, Settled, Admitted, Key, TypeInv, TypeOK
  <2> QED
    BY <2>1, <2>2
<1>10. CASE user_quotas' = user_quotas
  BY <1>3, <1>6, <1>7, <1>10, AdmittedStep
<1>11. CASE \E r \in Requests : SettleDeduct(r)
  BY <1>5, <1>6, <1>8, <1>9, <1>11
<1> QED
  BY <1>10, <1>11, TableStep

LEMMA AdmissionStep == TypeInv /\ AdmissionInv /\ [Next]_vars => AdmissionInv'
<1> SUFFICES ASSUME TypeInv, AdmissionInv, [Next]_vars PROVE AdmissionInv'
  OBVIOUS
<1>1. Shape'
  BY TypeStep DEF TypeInv
<1>2. QuotasKept'
  BY RowStep DEF AdmissionInv, QuotasKept
<1>3. Cardinality(InFlight') <= MaxInFlight
  BY InFlightStep DEF AdmissionInv
<1>4. PromisesBounded'
  BY PromisesStep DEF PromisesBounded
<1> QED
  BY <1>1, <1>2, <1>3, <1>4 DEF AdmissionInv

\* However many requests are admitted at once, with settlements failing and the
\* process crashing anywhere, a row stays below its quota plus one maximal call
\* for each request in flight.
THEOREM OverspendIsBounded == Spec => []OverspendBounded
<1>1. TypeInv /\ AdmissionInv => OverspendBounded
  <2> SUFFICES ASSUME TypeInv, AdmissionInv, NEW k \in QuotaKeys
               PROVE  WithinEither(user_quotas[k].used_tokens, InitialQuotas[k].used_tokens,
                                   Ceiling(k))
    BY DEF OverspendBounded
  <2>1. /\ user_quotas[k].used_tokens \in Nat /\ InitialQuotas[k].used_tokens \in Nat
        /\ MaxTokens * Cardinality(Admitted(k)) \in Nat
        /\ Ceiling(k) \in Int
    <3>1. MaxTokens \in Nat /\ MaxInFlight \in Nat
      BY GatewayAssumption
    <3>2. MaxTokens * Cardinality(Admitted(k)) \in Nat /\ MaxTokens * MaxInFlight \in Nat
      BY <3>1, AdmittedFinite, TimesType
    <3>3. InitialQuotas[k].used_tokens \in Nat /\ InitialQuotas[k].quota_tokens \in Int
      BY QuotaAssumption DEF QuotaRow
    <3>4. user_quotas[k].used_tokens \in Nat
      BY DEF TypeInv, TypeOK, QuotaTypeOK, QuotaRow
    <3> QED
      BY <3>2, <3>3, <3>4 DEF Ceiling
  <2> QED
    BY <2>1 DEF AdmissionInv, PromisesBounded, WithinEither, Promised
<1> QED
  BY <1>1, TypeInit, TypeStep, AdmissionInit, AdmissionStep, PTL DEF Spec
-----------------------------------------------------------------------------
(***************************************************************************)
(* The finality of a refusal: rows only fill up, and a request keeps its   *)
(* body, so its key, once it has arrived.                                  *)
(***************************************************************************)

\* Only FailCheck tells a client 403.
LEMMA StatusStep ==
  ASSUME TypeInv, [Next]_vars, NEW r \in Requests, status'[r] = "403"
  PROVE  \/ status[r] = "403" /\ req'[r] = req[r]
         \/ FailCheck(r) /\ Check(Key(r)) = "ErrQuotaExceeded"
<1> DEFINE Goal == \/ status[r] = "403" /\ req'[r] = req[r]
                   \/ FailCheck(r) /\ Check(Key(r)) = "ErrQuotaExceeded"
<1> USE DEF TypeInv, Goto, Finish
<1>1. ASSUME NEW p \in Requests, ServerStep(p) \/ ClientStep(p)
      PROVE  Goal
  <2>1. CASE FailCheck(p)
    BY <2>1 DEF FailCheck, TypeOK
  <2>2. CASE ServerStep(p) /\ ~FailCheck(p)
    BY <2>2 DEF ServerStep, PassCheck, CheckError, PickCredential, NoCredential,
                CompleteFails, CompleteAnswers, TypeOK
  <2>3. CASE ClientStep(p)
    <3>1. req' = req
      BY <2>3 DEF ClientStep, StreamFails, StreamEnds, Reply
    <3>2. \E s \in {"200", "sse", "sse error"} : status' = [status EXCEPT ![p] = s]
      BY <2>3 DEF ClientStep, StreamFails, StreamEnds, Reply
    <3> QED
      BY <3>1, <3>2 DEF TypeOK
  <2> QED
    BY <1>1, <2>1, <2>2, <2>3
<1>2. ASSUME NEW p \in Requests, SettleStep(p)
      PROVE  Goal
  BY <1>2 DEF SettleStep, SettleDeduct, SettleSave, DropDeduct, DropSave
<1>3. ASSUME NEW p \in Requests, NEW b \in Bodies, AcceptBody(p, b) \/ RejectBody(p, b)
      PROVE  Goal
  BY <1>3 DEF AcceptBody, RejectBody, Arrive, TypeOK, Shape
<1>4. ASSUME Crash
      PROVE  Goal
  BY <1>4 DEF Crash, TypeOK
<1>5. ASSUME UNCHANGED <<status, req>>
      PROVE  Goal
  BY <1>5
<1> QED
  BY <1>1, <1>2, <1>3, <1>4, <1>5 DEF Next, Startup, vars, process

LEMMA RefusalStep == TypeInv /\ RefusalIsFinal /\ [Next]_vars => RefusalIsFinal'
<1> SUFFICES ASSUME TypeInv, RefusalIsFinal, [Next]_vars,
                    NEW r \in Requests, status'[r] = "403"
             PROVE  Check(Key(r))' = "ErrQuotaExceeded"
  BY DEF RefusalIsFinal
<1>1. Key(r)' = Key(r) /\ Check(Key(r)) = "ErrQuotaExceeded"
  <2>1. CASE status[r] = "403" /\ req'[r] = req[r]
    BY <2>1 DEF RefusalIsFinal, Key
  <2>2. CASE FailCheck(r) /\ Check(Key(r)) = "ErrQuotaExceeded"
    BY <2>2 DEF FailCheck, Key
  <2> QED
    BY <2>1, <2>2, StatusStep
<1> DEFINE k == Key(r)
<1>2. k \in QuotaKeys /\ Remaining(k) <= 0
  BY <1>1 DEF Check, HasRow, TypeInv, TypeOK, QuotaTypeOK
<1>3. k \in DOMAIN user_quotas'
  BY <1>2, TypeStep DEF TypeInv, TypeOK, QuotaTypeOK
<1>4. user_quotas'[k].quota_tokens - user_quotas'[k].used_tokens <= 0
  <2>1. /\ user_quotas[k].quota_tokens \in Int /\ user_quotas[k].used_tokens \in Nat
        /\ user_quotas'[k].quota_tokens \in Int /\ user_quotas'[k].used_tokens \in Nat
    BY <1>2, TypeStep DEF TypeInv, TypeOK, QuotaTypeOK, QuotaRow
  <2>2. user_quotas[k].quota_tokens - user_quotas[k].used_tokens <= 0
    BY <1>2 DEF Remaining
  <2>3. /\ user_quotas'[k].quota_tokens = user_quotas[k].quota_tokens
        /\ user_quotas'[k].used_tokens >= user_quotas[k].used_tokens
    BY <1>2, RowStep
  <2> QED
    BY <2>1, <2>2, <2>3
<1> QED
  BY <1>1, <1>3, <1>4 DEF Check, HasRow, Remaining

\* A user refused for the quota stays refused: settlements, failures and
\* restarts give no tokens back.
THEOREM RefusalsAreFinal == Spec => []RefusalIsFinal
<1>1. Init => RefusalIsFinal
  BY DEF Init, RefusalIsFinal
<1> QED
  BY <1>1, TypeInit, TypeStep, RefusalStep, PTL DEF Spec
-----------------------------------------------------------------------------
(***************************************************************************)
(* Answers, charges and audit rows.  The inductive form says of a request  *)
(* with any status how far its settlement is, and of a settlement at any   *)
(* point what it has done.                                                 *)
(***************************************************************************)
Booked(r) == r \in charged \/ Lost("deduct", r)
Entered(r) == r \in Logged \/ Lost("save", r)

BillOf(r) ==
  /\ status[r] \in Refused \cup {"sse error"} => pc[r] = "done" /\ job[r] = "none"
  /\ status[r] \in Answered \/ pc[r] = "reply" => job[r] # "none"
  /\ job[r] \in {"none", "deduct"} => r \notin charged
  /\ job[r] = "none" => r \notin Logged
  /\ job[r] \in {"save", "done"} => Booked(r)
  /\ job[r] = "done" => Entered(r)
  /\ r \in Logged => Booked(r)

BillInv == \A r \in Requests : BillOf(r)

\* A step that leaves the records of a request alone.
Untouched(r) ==
  /\ pc'[r] = pc[r] /\ status'[r] = status[r] /\ job'[r] = job[r]
  /\ r \in charged' <=> r \in charged
  /\ r \in Logged' <=> r \in Logged
  /\ Lost("deduct", r)' <=> Lost("deduct", r)
  /\ Lost("save", r)' <=> Lost("save", r)

LEMMA UntouchedBill ==
  ASSUME NEW r, BillOf(r), Untouched(r)
  PROVE  BillOf(r)'
BY DEF BillOf, Untouched, Booked, Entered

LEMMA BillInit == Init => BillInv
<1> SUFFICES ASSUME Init, NEW r \in Requests PROVE BillOf(r)
  BY DEF BillInv
<1>1. Logged = {}
  BY DEF Init, Logged
<1>2. status[r] = "none" /\ pc[r] = "new" /\ job[r] = "none" /\ charged = {}
  BY DEF Init
<1> QED
  BY <1>1, <1>2 DEF BillOf, Refused, Answered

\* The handler writes nothing but where the request is and what it was told, and
\* starts the settlement of an answer.
LEMMA HandlerBill ==
  ASSUME TypeInv, BillInv, NEW r \in Requests,
         \/ ServerStep(r) \/ ClientStep(r)
         \/ \E b \in Bodies : AcceptBody(r, b) \/ RejectBody(r, b)
  PROVE  BillInv'
<1> SUFFICES ASSUME NEW p \in Requests PROVE BillOf(p)'
  BY DEF BillInv
<1> USE DEF Goto, Finish, process, history
<1>1. UNCHANGED <<chat_logs, charged, dropped>>
  BY DEF ServerStep, ClientStep, PassCheck, FailCheck, CheckError, PickCredential,
         NoCredential, CompleteFails, CompleteAnswers, Reply, StreamFails, StreamEnds,
         AcceptBody, RejectBody
<1>2. /\ Logged' = Logged /\ charged' = charged
      /\ \A s : Lost(s, p)' <=> Lost(s, p)
  BY <1>1 DEF Logged, Lost
<1>3. /\ pc \in [Requests -> {"new", "check", "pick", "call", "reply", "done"}]
      /\ status \in [Requests -> Refused \cup Answered \cup {"none", "sse error", "cut off"}]
      /\ job \in [Requests -> {"none", "deduct", "save", "done", "killed"}]
      /\ pc[r] \in {"new", "check", "pick", "call"} => job[r] = "none"
      /\ pc[r] = "new" => status[r] = "none"
  BY DEF TypeInv, TypeOK, Shape
<1>4. CASE p # r
  <2>1. pc'[p] = pc[p] /\ status'[p] = status[p] /\ job'[p] = job[p]
    BY <1>3, <1>4 DEF ServerStep, ClientStep, PassCheck, FailCheck, CheckError,
         PickCredential, NoCredential, CompleteFails, CompleteAnswers, Reply, StreamFails,
         StreamEnds, AcceptBody, RejectBody, Arrive
  <2> QED
    BY <1>2, <2>1, UntouchedBill DEF Untouched, BillInv
<1>5. CASE p = r
  <2>1. BillOf(r)
    BY DEF BillInv
  <2>2. CASE PassCheck(r) \/ PickCredential(r) \/ \E b \in Bodies : AcceptBody(r, b)
    <3>1. /\ pc'[r] \in {"check", "pick", "call"}
          /\ status'[r] = status[r] /\ job'[r] = job[r] /\ job[r] = "none"
          /\ pc[r] \in {"new", "check", "pick"}
      BY <1>3, <2>2 DEF PassCheck, PickCredential, AcceptBody, Arrive
    <3> QED
      BY <1>2, <1>5, <2>1, <3>1 DEF BillOf, Booked, Entered, Refused, Answered
  <2>3. CASE \/ FailCheck(r) \/ CheckError(r) \/ NoCredential(r) \/ CompleteFails(r)
             \/ StreamFails(r) \/ \E b \in Bodies : RejectBody(r, b)
    <3>1. /\ pc'[r] = "done" /\ job'[r] = job[r] /\ job[r] = "none"
          /\ status'[r] \in Refused \cup {"sse error"}
      BY <1>3, <2>3 DEF FailCheck, CheckError, NoCredential, CompleteFails, StreamFails,
                        RejectBody, Arrive, Refused
    <3>2. status'[r] \notin Answered
      BY <3>1 DEF Refused, Answered
    <3> QED
      BY <1>2, <1>5, <2>1, <3>1, <3>2 DEF BillOf, Booked, Entered
  <2>4. CASE \E u \in Usages : CompleteAnswers(r, u) \/ StreamEnds(r, u)
    <3>1. /\ pc[r] = "call" /\ job'[r] = "deduct" /\ job[r] = "none"
          /\ status'[r] \in {status[r], "sse"}
      BY <1>3, <2>4 DEF CompleteAnswers, StreamEnds
    <3>2. status'[r] \notin Refused \cup {"sse error"}
      BY <2>1, <3>1 DEF BillOf, Refused, Answered
    <3> QED
      BY <1>2, <1>5, <2>1, <3>1, <3>2 DEF BillOf, Booked, Entered
  <2>5. CASE Reply(r)
    <3>1. /\ pc[r] = "reply" /\ pc'[r] = "done" /\ job'[r] = job[r]
          /\ status'[r] = "200"
      BY <1>3, <2>5 DEF Reply
    <3> QED
      BY <1>2, <1>5, <2>1, <3>1 DEF BillOf, Booked, Entered, Refused, Answered
  <2> QED
    BY <2>2, <2>3, <2>4, <2>5 DEF ServerStep, ClientStep
<1> QED
  BY <1>4, <1>5

\* A settlement records each of its statements before it goes on.
LEMMA SettleBill ==
  ASSUME TypeInv, BillInv, NEW r \in Requests, SettleStep(r)
  PROVE  BillInv'
<1> SUFFICES ASSUME NEW p \in Requests PROVE BillOf(p)'
  BY DEF BillInv
<1> USE DEF Settled, process, history
<1>1. job \in [Requests -> {"none", "deduct", "save", "done", "killed"}]
  BY DEF TypeInv, TypeOK
<1>2. BillOf(p) /\ BillOf(r)
  BY DEF BillInv
<1>3. pc'[p] = pc[p] /\ status'[p] = status[p]
  BY DEF SettleStep, SettleDeduct, SettleSave, DropDeduct, DropSave
<1>4. CASE SettleDeduct(r)
  <2>1. Logged' = Logged /\ \A s : Lost(s, p)' <=> Lost(s, p)
    BY <1>4 DEF SettleDeduct, Logged, Lost
  <2>2. charged' = charged \cup {r} /\ job[r] = "deduct" /\ job' = [job EXCEPT ![r] = "save"]
    BY <1>4 DEF SettleDeduct
  <2> QED
    BY <1>1, <1>2, <1>3, <2>1, <2>2 DEF BillOf, Booked, Entered
<1>5. CASE SettleSave(r)
  <2>1. chat_logs' = chat_logs \cup {LogRow(r)} /\ LogRow(r).id = r
    BY <1>5 DEF SettleSave, LogRow
  <2>2. Logged' = Logged \cup {r}
    BY <2>1 DEF Logged
  <2>3. charged' = charged /\ \A s : Lost(s, p)' <=> Lost(s, p)
    BY <1>5 DEF SettleSave, Lost
  <2>4. job[r] = "save" /\ job' = [job EXCEPT ![r] = "done"]
    BY <1>5 DEF SettleSave
  <2> QED
    BY <1>1, <1>2, <1>3, <2>2, <2>3, <2>4 DEF BillOf, Booked, Entered
<1>6. CASE DropDeduct(r)
  <2>1. Logged' = Logged /\ charged' = charged
    BY <1>6 DEF DropDeduct, Logged
  <2>2. job[r] = "deduct" /\ job' = [job EXCEPT ![r] = "save"]
    BY <1>6 DEF DropDeduct
  <2>3. /\ Lost("deduct", p)' <=> Lost("deduct", p) \/ p = r
        /\ Lost("save", p)' <=> Lost("save", p)
    BY <1>6 DEF DropDeduct, Lost
  <2> QED
    BY <1>1, <1>2, <1>3, <2>1, <2>2, <2>3 DEF BillOf, Booked, Entered
<1>7. CASE DropSave(r)
  <2>1. Logged' = Logged /\ charged' = charged
    BY <1>7 DEF DropSave, Logged
  <2>2. job[r] = "save" /\ job' = [job EXCEPT ![r] = "done"]
    BY <1>7 DEF DropSave
  <2>3. /\ Lost("save", p)' <=> Lost("save", p) \/ p = r
        /\ Lost("deduct", p)' <=> Lost("deduct", p)
    BY <1>7 DEF DropSave, Lost
  <2> QED
    BY <1>1, <1>2, <1>3, <2>1, <2>2, <2>3 DEF BillOf, Booked, Entered
<1> QED
  BY <1>4, <1>5, <1>6, <1>7 DEF SettleStep

LEMMA BillStep == TypeInv /\ BillInv /\ [Next]_vars => BillInv'
<1> SUFFICES ASSUME TypeInv, BillInv, [Next]_vars PROVE BillInv'
  OBVIOUS
<1>1. CASE UNCHANGED vars \/ \E m \in SyncModels : Startup(m)
  <2>1. UNCHANGED <<pc, status, job, chat_logs, charged, dropped>>
    BY <1>1 DEF vars, Startup, process, history
  <2>2. \A r \in Requests : Untouched(r)
    BY <2>1 DEF Untouched, Logged, Lost
  <2> QED
    BY <2>2, UntouchedBill DEF BillInv
<1>2. CASE Crash
  <2> SUFFICES ASSUME NEW r \in Requests PROVE BillOf(r)'
    BY DEF BillInv
  <2>1. /\ Logged' = Logged /\ charged' = charged
        /\ \A s : Lost(s, r)' <=> Lost(s, r)
    BY <1>2 DEF Crash, Logged, Lost
  <2>2. /\ pc'[r] = IF Handling(r) THEN "done" ELSE pc[r]
        /\ status'[r] = IF Handling(r) THEN "cut off" ELSE status[r]
        /\ job'[r] = IF Settling(r) THEN "killed" ELSE job[r]
    BY <1>2 DEF Crash
  <2>3. BillOf(r)
    BY DEF BillInv
  <2> QED
    BY <2>1, <2>2, <2>3 DEF BillOf, Booked, Entered, Handling, Settling, Refused, Answered
<1> QED
  BY <1>1, <1>2, HandlerBill, SettleBill DEF Next

\* Clients that got an error are neither charged nor logged, whatever happens
\* later; those that got an answer are, but for the statements that failed.
THEOREM AnswersAreBilled == Spec => []AnswerAndBillAgree
<1>1. BillInv => AnswerAndBillAgree
  BY DEF BillInv, BillOf, AnswerAndBillAgree, Booked, Entered
<1> QED
  BY <1>1, TypeInit, TypeStep, BillInit, BillStep, PTL DEF Spec

\* No crash and no failure leaves a row in the audit log whose charge was never
\* tried: the log does not run ahead of the ledger.
THEOREM LogFollowsLedger == Spec => []LogFollowsCharge
<1>1. TypeInv /\ BillInv => LogFollowsCharge
  <2> SUFFICES ASSUME TypeInv, BillInv, NEW r \in Logged
               PROVE  r \in charged \/ Lost("deduct", r)
    BY DEF LogFollowsCharge
  <2>1. r \in Requests
    BY DEF Logged, TypeInv, TypeOK, LogType
  <2> QED
    BY <2>1 DEF BillInv, BillOf, Booked
<1> QED
  BY <1>1, TypeInit, TypeStep, BillInit, BillStep, PTL DEF Spec
-----------------------------------------------------------------------------
(***************************************************************************)
(* The ledger.  A charged request keeps its body and its usage, so the     *)
(* charges are a sum that only SettleDeduct changes, by one term.          *)
(***************************************************************************)
ChargedTo(k) == {p \in charged : Key(p) = k}
Charges(k) == [r \in ChargedTo(k) |-> CostOf(r)]

\* The costs that are summed up are numbers, finitely many.
LEMMA ChargesTyped ==
  ASSUME TypeInv, BillInv, NEW k
  PROVE  /\ IsFiniteSet(ChargedTo(k))
         /\ \A r \in charged : r \in Requests /\ CostOf(r) \in Nat
<1>1. ChargedTo(k) \subseteq Requests
  BY DEF ChargedTo, TypeInv, TypeOK
<1>2. IsFiniteSet(ChargedTo(k))
  BY <1>1, GatewayAssumption, FS_Subset
<1>3. ASSUME NEW r \in charged
      PROVE  r \in Requests /\ CostOf(r) \in Nat
  <2>1. r \in Requests /\ job[r] # "none"
    BY <1>3 DEF BillInv, BillOf, TypeInv, TypeOK
  <2>2. req[r] \in Bodies /\ usage[r] \in Usages
    BY <2>1 DEF TypeInv, TypeOK, Shape
  <2> QED
    BY <2>1, <2>2, CostBounded DEF CostOf
<1> QED
  BY <1>2, <1>3

\* Their sum is a number.
LEMMA ChargesSum ==
  ASSUME TypeInv, BillInv, NEW k
  PROVE  SumFunction(Charges(k)) \in Int
<1>1. /\ IsFiniteSet(ChargedTo(k)) /\ DOMAIN Charges(k) = ChargedTo(k)
      /\ \A r \in ChargedTo(k) : Charges(k)[r] \in Int
  BY ChargesTyped DEF ChargedTo, Charges
<1> QED
  BY <1>1, SumType DEF SumFunction

\* What a charged or logged request was is never written again.
LEMMA SettledKept ==
  ASSUME TypeInv, [Next]_vars, NEW r \in Requests, job[r] # "none"
  PROVE  req'[r] = req[r] /\ usage'[r] = usage[r]
<1> USE DEF Goto, Finish, Settled, process, history
<1>1. /\ pc \in [Requests -> {"new", "check", "pick", "call", "reply", "done"}]
      /\ usage \in [Requests -> Usages \cup {None}]
      /\ req \in [Requests -> Bodies \cup {None}]
      /\ pc[r] \notin {"new", "check", "pick", "call"}
  BY DEF TypeInv, TypeOK, Shape
<1>2. CASE UNCHANGED vars \/ Crash \/ \E m \in SyncModels : Startup(m)
  BY <1>2 DEF vars, Crash, Startup
<1>3. ASSUME NEW p \in Requests,
             \/ ServerStep(p) \/ ClientStep(p) \/ SettleStep(p)
             \/ \E b \in Bodies : AcceptBody(p, b) \/ RejectBody(p, b)
      PROVE  req'[r] = req[r] /\ usage'[r] = usage[r]
  BY <1>1, <1>3 DEF ServerStep, ClientStep, SettleStep, PassCheck, FailCheck, CheckError,
       PickCredential, NoCredential, CompleteFails, CompleteAnswers, Reply, StreamFails,
       StreamEnds, AcceptBody, RejectBody, Arrive, SettleDeduct, SettleSave, DropDeduct,
       DropSave
<1> QED
  BY <1>2, <1>3 DEF Next

\* Only SettleDeduct writes the quotas or charges anybody.
LEMMA ChargeStep ==
  ASSUME [Next]_vars
  PROVE  \/ UNCHANGED <<user_quotas, charged>>
         \/ \E r \in Requests : SettleDeduct(r)
<1> USE DEF process, history
<1>1. CASE UNCHANGED vars \/ Crash \/ \E m \in SyncModels : Startup(m)
  BY <1>1 DEF vars, Crash, Startup
<1>2. ASSUME NEW r \in Requests,
             \/ ServerStep(r) \/ ClientStep(r)
             \/ SettleSave(r) \/ DropDeduct(r) \/ DropSave(r)
             \/ \E b \in Bodies : AcceptBody(r, b) \/ RejectBody(r, b)
      PROVE  UNCHANGED <<user_quotas, charged>>
  BY <1>2 DEF ServerStep, ClientStep, PassCheck, FailCheck, CheckError, PickCredential,
       NoCredential, CompleteFails, CompleteAnswers, Reply, StreamFails, StreamEnds,
       AcceptBody, RejectBody, SettleSave, DropDeduct, DropSave
<1> QED
  BY <1>1, <1>2 DEF Next, SettleStep

LEMMA LedgerStep ==
  TypeInv /\ BillInv /\ LedgerConserved /\ [Next]_vars => LedgerConserved'
<1> SUFFICES ASSUME TypeInv, BillInv, LedgerConserved, [Next]_vars, NEW k \in QuotaKeys
             PROVE  user_quotas'[k].used_tokens =
                      InitialQuotas[k].used_tokens + SumFunction(Charges(k)')
  BY DEF LedgerConserved, Charges, ChargedTo
<1>1. user_quotas[k].used_tokens = InitialQuotas[k].used_tokens + SumFunction(Charges(k))
  BY DEF LedgerConserved, Charges, ChargedTo
<1>2. \A r \in charged : Key(r)' = Key(r) /\ CostOf(r)' = CostOf(r)
  <2>1. \A r \in charged : r \in Requests /\ job[r] # "none"
    BY DEF BillInv, BillOf, TypeInv, TypeOK
  <2> QED
    BY <2>1, SettledKept DEF Key, CostOf
<1>3. CASE UNCHANGED <<user_quotas, charged>>
  <2>1. Charges(k)' = Charges(k)
    BY <1>2, <1>3 DEF Charges, ChargedTo
  <2> QED
    BY <1>1, <1>3, <2>1
<1>4. ASSUME NEW r \in Requests, SettleDeduct(r)
      PROVE  user_quotas'[k].used_tokens =
               InitialQuotas[k].used_tokens + SumFunction(Charges(k)')
  <2>1. /\ job[r] = "deduct" /\ r \notin charged /\ charged' = charged \cup {r}
        /\ Deduct(Key(r), CostOf(r)) /\ UNCHANGED <<req, usage>>
    BY <1>4 DEF SettleDeduct, BillInv, BillOf, CostOf
  <2>2. Key(r) \in QuotaKeys /\ CostOf(r) \in Nat /\ Key(r)' = Key(r) /\ CostOf(r)' = CostOf(r)
    <3>1. Key(r) \in QuotaKeys /\ req[r] \in Bodies /\ usage[r] \in Usages
      BY <2>1 DEF TypeInv, Shape, Settling
    <3> QED
      BY <2>1, <3>1, CostBounded DEF CostOf, Key
  <2>3. CASE k # Key(r)
    <3>1. Charges(k)' = Charges(k)
      BY <1>2, <2>1, <2>2, <2>3 DEF Charges, ChargedTo
    <3>2. user_quotas'[k] = user_quotas[k]
      BY <2>1, <2>2, <2>3, RowAfterDeduct DEF TypeInv, TypeOK
    <3> QED
      BY <1>1, <3>1, <3>2
  <2>4. CASE k = Key(r)
    <3>1. ChargedTo(k)' = ChargedTo(k) \cup {r} /\ r \notin ChargedTo(k)
      BY <1>2, <2>1, <2>2, <2>4 DEF ChargedTo
    <3>2. /\ IsFiniteSet(ChargedTo(k))
          /\ \A p \in ChargedTo(k) : CostOf(p) \in Nat
      BY ChargesTyped DEF ChargedTo
    <3>3. /\ DOMAIN Charges(k) = ChargedTo(k)
          /\ DOMAIN Charges(k)' = ChargedTo(k) \cup {r}
          /\ Charges(k)'[r] = CostOf(r)
          /\ \A p \in ChargedTo(k) : Charges(k)'[p] = Charges(k)[p] /\ Charges(k)[p] \in Int
      BY <1>2, <2>2, <3>1, <3>2 DEF Charges, ChargedTo
    <3>4. SumFunction(Charges(k)') = SumFunction(Charges(k)) + CostOf(r)
      <4> HIDE DEF Charges
      <4>1. \A p \in ChargedTo(k) \cup {r} : Charges(k)'[p] \in Int
        BY <2>2, <3>3
      <4> QED
        BY <3>1, <3>2, <3>3, <4>1, SumExtend
    <3>5. user_quotas'[k].used_tokens = user_quotas[k].used_tokens + CostOf(r)
      BY <2>1, <2>2, <2>4, RowAfterDeduct DEF TypeInv, TypeOK
    <3>6. SumFunction(Charges(k)) \in Int /\ InitialQuotas[k].used_tokens \in Nat
      BY ChargesSum, QuotaAssumption DEF QuotaRow
    <3> QED
      BY <1>1, <2>2, <3>4, <3>5, <3>6
  <2> QED
    BY <2>3, <2>4
<1> QED
  BY <1>3, <1>4, ChargeStep

LEMMA LedgerInit == Init => LedgerConserved
<1> SUFFICES ASSUME Init, NEW k \in QuotaKeys
             PROVE  user_quotas[k].used_tokens =
                      InitialQuotas[k].used_tokens + SumFunction(Charges(k))
  BY DEF LedgerConserved, Charges, ChargedTo
<1>1. DOMAIN Charges(k) = {}
  BY DEF Init, Charges, ChargedTo
<1>2. SumFunction(Charges(k)) = 0
  BY <1>1, SumEmpty DEF SumFunction
<1> QED
  BY <1>2, QuotaAssumption DEF Init, QuotaInit, QuotaRow

\* At any moment, whatever failed or crashed, the tokens used of a row are those
\* it began with and the costs of the requests charged to it, each counted once.
THEOREM LedgerIsConserved == Spec => []LedgerConserved
BY TypeInit, TypeStep, BillInit, BillStep, LedgerInit, LedgerStep, PTL DEF Spec
-----------------------------------------------------------------------------
(***************************************************************************)
(* The audit log.  Every row is the one SettleSave made, so it can be told *)
(* from its request, and where nothing is loose the requests charged and   *)
(* the rows logged are the same, one to one.                               *)
(***************************************************************************)
LogInv == \A l \in chat_logs : l.id \in Requests /\ l = LogRow(l.id)

LEMMA LogInit == Init => LogInv
BY DEF Init, LogInv

\* Only SettleSave writes the log.
LEMMA NewRow ==
  ASSUME [Next]_vars, NEW l \in chat_logs', l \notin chat_logs
  PROVE  \E r \in Requests : SettleSave(r) /\ l = LogRow(r)
<1> USE DEF process, history
<1>1. CASE UNCHANGED vars \/ Crash \/ \E m \in SyncModels : Startup(m)
  BY <1>1 DEF vars, Crash, Startup
<1>2. ASSUME NEW r \in Requests,
             \/ ServerStep(r) \/ ClientStep(r)
             \/ SettleDeduct(r) \/ DropDeduct(r) \/ DropSave(r)
             \/ \E b \in Bodies : AcceptBody(r, b) \/ RejectBody(r, b)
      PROVE  UNCHANGED chat_logs
  BY <1>2 DEF ServerStep, ClientStep, PassCheck, FailCheck, CheckError, PickCredential,
       NoCredential, CompleteFails, CompleteAnswers, Reply, StreamFails, StreamEnds,
       AcceptBody, RejectBody, SettleDeduct, DropDeduct, DropSave
<1>3. ASSUME NEW r \in Requests, SettleSave(r) PROVE l = LogRow(r)
  BY <1>3 DEF SettleSave
<1> QED
  BY <1>1, <1>2, <1>3 DEF Next, SettleStep

LEMMA LogStep == TypeInv /\ BillInv /\ LogInv /\ [Next]_vars => LogInv'
<1> SUFFICES ASSUME TypeInv, BillInv, LogInv, [Next]_vars, NEW l \in chat_logs'
             PROVE  l.id \in Requests /\ l = LogRow(l.id)'
  BY DEF LogInv
<1>1. CASE l \in chat_logs
  <2>1. l.id \in Requests /\ l = LogRow(l.id) /\ job[l.id] # "none"
    BY <1>1 DEF LogInv, BillInv, BillOf, Logged
  <2>2. LogRow(l.id)' = LogRow(l.id)
    BY <2>1, SettledKept DEF LogRow, LogSession
  <2> QED
    BY <2>1, <2>2
<1>2. CASE l \notin chat_logs
  <2>1. PICK r \in Requests : SettleSave(r) /\ l = LogRow(r)
    BY <1>2, NewRow
  <2>2. LogRow(r)' = LogRow(r) /\ l.id = r
    BY <2>1 DEF SettleSave, LogRow, LogSession
  <2> QED
    BY <2>1, <2>2
<1> QED
  BY <1>1, <1>2

\* With nothing loose, the rows of a user and model are those of the requests
\* charged to them.
LEMMA RowsAreCharges ==
  ASSUME TypeInv, BillInv, LogInv, NEW k, Loose(k) = {}
  PROVE  RowsOf(k) = {LogRow(r) : r \in ChargedTo(k)}
<1>1. ASSUME NEW l \in RowsOf(k)
      PROVE  l \in {LogRow(r) : r \in ChargedTo(k)}
  <2>1. l \in chat_logs /\ l.id \in Requests /\ l = LogRow(l.id) /\ l.id \in Logged
    BY <1>1 DEF RowsOf, LogInv, Logged
  <2>2. Key(l.id) = k
    BY <1>1, <2>1 DEF RowsOf, LogRow, Key
  <2>3. l.id \in charged
    BY <2>1, <2>2 DEF BillInv, BillOf, Booked, Loose
  <2> QED
    BY <2>1, <2>2, <2>3 DEF ChargedTo
<1>2. ASSUME NEW r \in ChargedTo(k)
      PROVE  LogRow(r) \in RowsOf(k)
  <2>1. r \in Requests /\ r \in charged /\ Key(r) = k
    BY DEF ChargedTo, TypeInv, TypeOK
  <2>2. job[r] = "done"
    BY <2>1 DEF BillInv, BillOf, Loose, TypeInv, TypeOK
  <2>3. r \in Logged
    BY <2>1, <2>2 DEF BillInv, BillOf, Entered, Loose
  <2>4. PICK l \in chat_logs : l.id = r
    BY <2>3 DEF Logged
  <2>5. l = LogRow(r)
    BY <2>4 DEF LogInv
  <2> QED
    BY <2>1, <2>5 DEF RowsOf, LogRow, Key
<1> QED
  BY <1>1, <1>2

\* Adding up the audit log gives the tokens charged, at any moment at which
\* nothing is loose, if the providers' totals add up.
THEOREM BooksAreBalanced == Spec => []BooksBalance
<1>1. TypeInv /\ BillInv /\ LogInv /\ LedgerConserved => BooksBalance
  <2> SUFFICES ASSUME TypeInv, BillInv, LogInv, LedgerConserved,
                      \A u \in Usages : u.total = u.input + u.output,
                      NEW k \in QuotaKeys, Loose(k) = {}
               PROVE  user_quotas[k].used_tokens - InitialQuotas[k].used_tokens =
                        SumFunction([l \in RowsOf(k) |-> RowTokens(l)])
    BY DEF BooksBalance
  <2> DEFINE S == ChargedTo(k)
             f == Charges(k)
             h == [r \in S |-> LogRow(r)]
             g == [l \in RowsOf(k) |-> RowTokens(l)]
  <2>1. IsFiniteSet(S) /\ DOMAIN f = S /\ \A r \in S : f[r] \in Int
    <3>1. IsFiniteSet(ChargedTo(k)) /\ \A r \in ChargedTo(k) : CostOf(r) \in Nat
      BY ChargesTyped DEF ChargedTo
    <3>2. Charges(k) = [r \in ChargedTo(k) |-> CostOf(r)]
      BY DEF Charges, ChargedTo
    <3> QED
      BY <3>1, <3>2
  <2>2. {h[r] : r \in S} = RowsOf(k)
    BY RowsAreCharges
  <2>3. ASSUME NEW r \in S PROVE g[h[r]] = f[r]
    <3>1. r \in Requests /\ job[r] # "none"
      BY DEF ChargedTo, BillInv, BillOf, TypeInv, TypeOK
    <3>2. req[r] \in Bodies /\ usage[r] \in Usages
      BY <3>1 DEF TypeInv, TypeOK, Shape
    <3>3. g[h[r]] = RowTokens(LogRow(r))
      BY <2>2
    <3>4. RowTokens(LogRow(r)) = usage[r].input + usage[r].output
      BY DEF RowTokens, LogRow
    <3> QED
      BY <3>2, <3>3, <3>4 DEF Charges, CostOf, Cost
  <2>4. \A x, y \in S : h[x] = h[y] => x = y
    BY DEF LogRow
  <2>5. SumFunctionOnSet(f, S) = SumFunctionOnSet(g, {h[r] : r \in S})
    <3> HIDE DEF f, g, h, S
    <3> QED
      BY <2>1, <2>3, <2>4, SumRename
  <2>6. SumFunction(f) = SumFunction(g)
    BY <2>1, <2>2, <2>5 DEF SumFunction
  <2>7. user_quotas[k].used_tokens = InitialQuotas[k].used_tokens + SumFunction(f)
    BY DEF LedgerConserved, Charges, ChargedTo
  <2>8. SumFunction(f) \in Int /\ InitialQuotas[k].used_tokens \in Nat
    BY ChargesSum, QuotaAssumption DEF QuotaRow
  <2> HIDE DEF f, g
  <2> QED
    BY <2>6, <2>7, <2>8 DEF g
<1> QED
  BY <1>1, TypeInit, TypeStep, BillInit, BillStep, LedgerInit, LedgerStep, LogInit, LogStep,
     PTL DEF Spec
-----------------------------------------------------------------------------
(***************************************************************************)
(* The gateway implements the books.  What a request is worth to them is   *)
(* its phase, its account and its bill; a step moves one request, but for  *)
(* a crash.                                                                *)
(***************************************************************************)
Account(r) == IF Phase(r) \in {"open", "owed", "booked"} THEN Key(r) ELSE None
Bill(r) == IF Phase(r) = "owed" THEN CostOf(r) ELSE 0
Used == [k \in QuotaKeys |-> user_quotas[k].used_tokens]

\* The books as seen by ChatAudit.
Phases == [r \in Requests |-> Phase(r)]
Accounts == [r \in Requests |-> Account(r)]
Bills == [r \in Requests |-> Bill(r)]

\* A step leaves all of p that the books depend on.
Still(p) == /\ pc'[p] = pc[p] /\ job'[p] = job[p]
            /\ req'[p] = req[p] /\ usage'[p] = usage[p]

LEMMA BooksMove ==
  ASSUME NEW r \in Requests, \A p \in Requests \ {r} : Still(p)
  PROVE  /\ Phases' = [Phases EXCEPT ![r] = Phase(r)']
         /\ Accounts' = [Accounts EXCEPT ![r] = Account(r)']
         /\ Bills' = [Bills EXCEPT ![r] = Bill(r)']
<1>1. \A p \in Requests \ {r} : /\ Phase(p)' = Phase(p)
                                /\ Account(p)' = Account(p)
                                /\ Bill(p)' = Bill(p)
  BY DEF Still, Phase, Account, Bill, Key, CostOf
<1> QED
  BY <1>1 DEF Phases, Accounts, Bills

\* What is the same to the books stays as it is in them.
LEMMA BooksStay ==
  ASSUME NEW r \in Requests,
         Phases' = [Phases EXCEPT ![r] = Phase(r)'], Phase(r)' = Phase(r),
         Accounts' = [Accounts EXCEPT ![r] = Account(r)'], Account(r)' = Account(r),
         Bills' = [Bills EXCEPT ![r] = Bill(r)'], Bill(r)' = Bill(r),
         Used' = Used, Logged' = Logged
  PROVE  UNCHANGED Audit!vars
<1>1. Phases' = Phases /\ Accounts' = Accounts /\ Bills' = Bills
  BY DEF Phases, Accounts, Bills
<1> QED
  BY <1>1 DEF Audit!vars, Phases, Accounts, Bills, Account, Bill, Used

\* The phases, one by one, before and after a step.
LEMMA PhaseIs ==
  ASSUME NEW r
  PROVE  /\ job[r] = "deduct" => Phase(r) = "owed"
         /\ job[r] = "save" => Phase(r) = "booked"
         /\ job[r] \in {"done", "killed"} => Phase(r) = "closed"
         /\ job[r] = "none" /\ pc[r] \in {"new", "check"} => Phase(r) = "idle"
         /\ job[r] = "none" /\ pc[r] \in {"pick", "call"} => Phase(r) = "open"
         /\ job[r] = "none" /\ pc[r] \in {"reply", "done"} => Phase(r) = "closed"
BY Zenon DEF Phase

LEMMA PhaseBecomes ==
  ASSUME NEW r
  PROVE  /\ job'[r] = "deduct" => Phase(r)' = "owed"
         /\ job'[r] = "save" => Phase(r)' = "booked"
         /\ job'[r] \in {"done", "killed"} => Phase(r)' = "closed"
         /\ job'[r] = "none" /\ pc'[r] \in {"new", "check"} => Phase(r)' = "idle"
         /\ job'[r] = "none" /\ pc'[r] \in {"pick", "call"} => Phase(r)' = "open"
         /\ job'[r] = "none" /\ pc'[r] \in {"reply", "done"} => Phase(r)' = "closed"
BY Zenon DEF Phase

\* The steps of one request that do not touch the ledger or the log.
LEMMA HandlerBooks ==
  ASSUME TypeInv, QuotasKept, NEW r \in Requests,
         \/ ServerStep(r) \/ ClientStep(r)
         \/ \E b \in Bodies : AcceptBody(r, b) \/ RejectBody(r, b)
  PROVE  [Audit!Next]_(Audit!vars)
<1> USE DEF Goto, Finish, process, history
<1>1. /\ pc \in [Requests -> {"new", "check", "pick", "call", "reply", "done"}]
      /\ job \in [Requests -> {"none", "deduct", "save", "done", "killed"}]
      /\ usage \in [Requests -> Usages \cup {None}]
      /\ req \in [Requests -> Bodies \cup {None}]
      /\ pc[r] \in {"new", "check", "pick", "call"} => job[r] = "none"
  BY DEF TypeInv, TypeOK, Shape
<1>2. UNCHANGED <<user_quotas, chat_logs>>
  BY DEF ServerStep, ClientStep, PassCheck, FailCheck, CheckError, PickCredential,
         NoCredential, CompleteFails, CompleteAnswers, Reply, StreamFails, StreamEnds,
         AcceptBody, RejectBody
<1>3. Used' = Used /\ Logged' = Logged
  BY <1>2 DEF Used, Logged
<1>4. \A p \in Requests \ {r} : Still(p)
  BY <1>1 DEF Still, ServerStep, ClientStep, PassCheck, FailCheck, CheckError,
              PickCredential, NoCredential, CompleteFails, CompleteAnswers, Reply,
              StreamFails, StreamEnds, AcceptBody, RejectBody, Arrive
<1>5. /\ Phases' = [Phases EXCEPT ![r] = Phase(r)']
      /\ Accounts' = [Accounts EXCEPT ![r] = Account(r)']
      /\ Bills' = [Bills EXCEPT ![r] = Bill(r)']
  BY <1>4, BooksMove
<1>6. Phases[r] = Phase(r) /\ Accounts[r] = Account(r) /\ Bills[r] = Bill(r)
  BY DEF Phases, Accounts, Bills
<1>7. CASE PickCredential(r) \/ Reply(r) \/ \E b \in Bodies : AcceptBody(r, b)
  <2>1. job'[r] = job[r] /\ usage' = usage
    BY <1>7 DEF PickCredential, Reply, AcceptBody, Arrive
  <2>2. Phase(r)' = Phase(r)
    <3>1. CASE PickCredential(r) \/ \E b \in Bodies : AcceptBody(r, b)
      <4>1. job[r] = "none" /\ \/ pc[r] = "pick" /\ pc'[r] = "call"
                               \/ pc[r] = "new" /\ pc'[r] = "check"
        BY <1>1, <3>1 DEF PickCredential, AcceptBody, Arrive
      <4> QED
        BY <2>1, <4>1, PhaseIs, PhaseBecomes
    <3>2. CASE Reply(r)
      <4>1. /\ pc[r] = "reply" /\ pc'[r] = "done"
            /\ job[r] \in {"none", "deduct", "save", "done", "killed"}
        BY <1>1, <3>2 DEF Reply
      <4> QED
        BY <2>1, <4>1, PhaseIs, PhaseBecomes
    <3> QED
      BY <1>7, <3>1, <3>2
  <2>3. req'[r] = req[r] \/ Phase(r) = "idle"
    BY <1>1, <1>7, PhaseIs DEF PickCredential, Reply, AcceptBody, Arrive
  <2>4. Account(r)' = Account(r) /\ Bill(r)' = Bill(r)
    BY <2>1, <2>2, <2>3 DEF Account, Bill, Key, CostOf
  <2> QED
    BY <1>3, <1>5, <2>2, <2>4, BooksStay
<1>8. CASE FailCheck(r) \/ CheckError(r) \/ \E b \in Bodies : RejectBody(r, b)
  <2>1. job[r] = "none" /\ pc[r] \in {"new", "check"} /\ job'[r] = "none" /\ pc'[r] = "done"
    BY <1>1, <1>8 DEF FailCheck, CheckError, RejectBody, Arrive
  <2>2. Phase(r) = "idle" /\ Phase(r)' = "closed"
    BY <2>1, PhaseIs, PhaseBecomes
  <2>3. Account(r)' = Account(r) /\ Bill(r)' = Bill(r)
    BY <2>2 DEF Account, Bill
  <2>4. Accounts' = Accounts /\ Bills' = Bills
    BY <1>5, <2>3 DEF Accounts, Bills
  <2>5. Audit!Decline(r)
    BY <1>3, <1>5, <1>6, <2>2, <2>4
       DEF Audit!Decline, Audit!Move, Phases, Accounts, Bills, Account, Bill, Used
  <2> QED
    BY <2>5 DEF Audit!Next
<1>9. CASE PassCheck(r)
  <2>1. job[r] = "none" /\ pc[r] = "check" /\ job'[r] = "none" /\ pc'[r] = "pick"
    BY <1>1, <1>9 DEF PassCheck
  <2>2. Phase(r) = "idle" /\ Phase(r)' = "open"
    BY <2>1, PhaseIs, PhaseBecomes
  <2>3. Key(r)' = Key(r)
    BY <1>9 DEF PassCheck, Key
  <2>4. Account(r)' = Key(r) /\ Bill(r)' = Bill(r)
    BY <2>2, <2>3 DEF Account, Bill
  <2>5. Key(r) \in QuotaKeys /\ Used[Key(r)] < InitialQuotas[Key(r)].quota_tokens
    <3>1. user_quotas \in [QuotaKeys -> [quota_tokens : Int, used_tokens : Nat]]
      BY DEF TypeInv, TypeOK, QuotaTypeOK, QuotaRow
    <3>2. HasRow(Key(r)) /\ ~(Remaining(Key(r)) <= 0)
      BY <1>9 DEF PassCheck, Check
    <3>3. Key(r) \in QuotaKeys
      BY <3>1, <3>2 DEF HasRow
    <3>4. user_quotas[Key(r)].used_tokens < user_quotas[Key(r)].quota_tokens
      BY <3>1, <3>2, <3>3 DEF Remaining
    <3> QED
      BY <3>3, <3>4 DEF Used, QuotasKept
  <2>6. Bills' = Bills
    BY <1>5, <2>4 DEF Bills
  <2>7. Audit!Open(r, Key(r))
    BY <1>3, <1>5, <1>6, <2>2, <2>4, <2>5, <2>6
       DEF Audit!Open, Audit!Move, Phases, Accounts, Bills, Account, Bill, Used
  <2> QED
    BY <2>5, <2>7 DEF Audit!Next
<1>10. CASE NoCredential(r) \/ CompleteFails(r) \/ StreamFails(r)
  <2>1. /\ job[r] = "none" /\ pc[r] \in {"pick", "call"}
        /\ job'[r] = "none" /\ pc'[r] = "done"
    BY <1>1, <1>10 DEF NoCredential, CompleteFails, StreamFails
  <2>2. Phase(r) = "open" /\ Phase(r)' = "closed"
    BY <2>1, PhaseIs, PhaseBecomes
  <2>3. Account(r)' = None /\ Bill(r)' = Bill(r)
    BY <2>2 DEF Account, Bill
  <2>4. Bills' = Bills
    BY <1>5, <2>3 DEF Bills
  <2>5. Audit!Abandon(r)
    BY <1>3, <1>5, <1>6, <2>2, <2>3, <2>4
       DEF Audit!Abandon, Audit!Move, Audit!Leave, Phases, Accounts, Bills, Account, Bill,
           Used
  <2> QED
    BY <2>5 DEF Audit!Next
<1>11. CASE \E u \in Usages : CompleteAnswers(r, u) \/ StreamEnds(r, u)
  <2>1. /\ job[r] = "none" /\ pc[r] = "call" /\ job'[r] = "deduct"
        /\ usage'[r] \in Usages /\ req' = req /\ req[r] \in Bodies
    BY <1>1, <1>11 DEF CompleteAnswers, StreamEnds, TypeInv, Shape
  <2>2. Phase(r) = "open" /\ Phase(r)' = "owed"
    BY <2>1, PhaseIs, PhaseBecomes
  <2>3. Account(r)' = Account(r) /\ Bill(r)' = Cost(req[r], usage'[r])
    BY <2>1, <2>2 DEF Account, Bill, Key, CostOf
  <2>4. Cost(req[r], usage'[r]) \in 0..MaxTokens
    BY <2>1, CostBounded, GatewayAssumption
  <2>5. Accounts' = Accounts
    BY <1>5, <2>3 DEF Accounts
  <2>6. Audit!Owe(r, Cost(req[r], usage'[r]))
    BY <1>3, <1>5, <1>6, <2>2, <2>3, <2>5
       DEF Audit!Owe, Audit!Move, Phases, Accounts, Bills, Account, Bill, Used
  <2> QED
    BY <2>4, <2>6 DEF Audit!Next
<1> QED
  BY <1>7, <1>8, <1>9, <1>10, <1>11 DEF ServerStep, ClientStep

\* What a request that is settled holds.
LEMMA ShapeAtSettlement ==
  ASSUME TypeInv, NEW r \in Requests, job[r] = "deduct"
  PROVE  Key(r) \in QuotaKeys /\ req[r] \in Bodies /\ usage[r] \in Usages
BY DEF TypeInv, Shape, Settling

\* The steps of a settlement.
LEMMA SettleBooks ==
  ASSUME TypeInv, NEW r \in Requests, SettleStep(r)
  PROVE  Audit!Next
<1> USE DEF Settled, process, history
<1>1. /\ job \in [Requests -> {"none", "deduct", "save", "done", "killed"}]
      /\ UNCHANGED <<pc, req, usage>>
  BY DEF TypeInv, TypeOK, SettleStep, SettleDeduct, SettleSave, DropDeduct, DropSave
<1>2. \A p \in Requests \ {r} : Still(p)
  BY <1>1 DEF Still, SettleStep, SettleDeduct, SettleSave, DropDeduct, DropSave
<1>3. /\ Phases' = [Phases EXCEPT ![r] = Phase(r)']
      /\ Accounts' = [Accounts EXCEPT ![r] = Account(r)']
      /\ Bills' = [Bills EXCEPT ![r] = Bill(r)']
  BY <1>2, BooksMove
<1>4. Phases[r] = Phase(r) /\ Accounts[r] = Account(r) /\ Bills[r] = Bill(r)
  BY DEF Phases, Accounts, Bills
<1>5. CASE SettleDeduct(r) \/ DropDeduct(r)
  <2>1. job[r] = "deduct" /\ job'[r] = "save" /\ Logged' = Logged
    BY <1>1, <1>5 DEF SettleDeduct, DropDeduct, Logged
  <2>2. Phase(r) = "owed" /\ Phase(r)' = "booked"
    BY <2>1, PhaseIs, PhaseBecomes
  <2>3. Account(r) = Key(r) /\ Account(r)' = Key(r) /\ Bill(r) = CostOf(r) /\ Bill(r)' = 0
    BY <1>1, <2>2 DEF Account, Bill, Key
  <2>4. Accounts' = Accounts
    BY <1>3, <2>3 DEF Accounts
  <2>5. CASE SettleDeduct(r)
    <3>1. Key(r) \in QuotaKeys /\ CostOf(r) \in Nat
      <4>1. Key(r) \in QuotaKeys /\ req[r] \in Bodies /\ usage[r] \in Usages
        BY <2>1, <1>1, ShapeAtSettlement
      <4> QED
        BY <4>1, CostBounded DEF CostOf
    <3>2. /\ user_quotas'[Key(r)].used_tokens = user_quotas[Key(r)].used_tokens + CostOf(r)
          /\ \A j \in QuotaKeys \ {Key(r)} : user_quotas'[j] = user_quotas[j]
      BY <2>5, <3>1, RowAfterDeduct DEF SettleDeduct, CostOf, TypeInv, TypeOK
    <3>3. Used' = [Used EXCEPT ![Key(r)] = @ + CostOf(r)]
      BY <3>1, <3>2 DEF Used
    <3>4. Audit!Book(r)
      BY <1>3, <1>4, <2>1, <2>2, <2>3, <2>4, <3>3
         DEF Audit!Book, Audit!Move, Phases, Accounts, Bills, Account, Bill, Used
    <3> QED
      BY <3>4 DEF Audit!Next, Audit!Close
  <2>6. CASE DropDeduct(r)
    <3>1. Used' = Used
      BY <2>6 DEF DropDeduct, Used
    <3>2. Audit!LoseBooking(r)
      BY <1>3, <1>4, <2>1, <2>2, <2>3, <2>4, <3>1
         DEF Audit!LoseBooking, Audit!Move, Phases, Accounts, Bills, Account, Bill, Used
    <3> QED
      BY <3>2 DEF Audit!Next, Audit!Close
  <2> QED
    BY <1>5, <2>5, <2>6
<1>6. CASE SettleSave(r) \/ DropSave(r)
  <2>1. job[r] = "save" /\ job'[r] = "done" /\ Used' = Used
    BY <1>1, <1>6 DEF SettleSave, DropSave, Used
  <2>2. Phase(r) = "booked" /\ Phase(r)' = "closed"
    BY <2>1, PhaseIs, PhaseBecomes
  <2>3. Account(r)' = None /\ Bill(r)' = Bill(r)
    BY <2>2 DEF Account, Bill
  <2>4. Bills' = Bills
    BY <1>3, <2>3 DEF Bills
  <2>5. CASE SettleSave(r)
    <3>1. chat_logs' = chat_logs \cup {LogRow(r)} /\ LogRow(r).id = r
      BY <2>5 DEF SettleSave, LogRow
    <3>2. Logged' = Logged \cup {r}
      BY <3>1 DEF Logged
    <3>3. Audit!Enter(r)
      BY <1>3, <1>4, <2>1, <2>2, <2>3, <2>4, <3>2
         DEF Audit!Enter, Audit!Move, Audit!Leave, Phases, Accounts, Bills, Account, Bill,
             Used
    <3> QED
      BY <3>3 DEF Audit!Next, Audit!Close
  <2>6. CASE DropSave(r)
    <3>1. Logged' = Logged
      BY <2>6 DEF DropSave, Logged
    <3>2. Audit!LoseEntry(r)
      BY <1>3, <1>4, <2>1, <2>2, <2>3, <2>4, <3>1
         DEF Audit!LoseEntry, Audit!Move, Audit!Leave, Phases, Accounts, Bills, Account,
             Bill, Used
    <3> QED
      BY <3>2 DEF Audit!Next, Audit!Close
  <2> QED
    BY <1>6, <2>5, <2>6
<1> QED
  BY <1>5, <1>6 DEF SettleStep

\* A crash clears the books; what waited in Check is never taken up.
LEMMA CrashBooks ==
  ASSUME TypeInv, Crash
  PROVE  Audit!Next
<1> DEFINE S == {r \in Requests : pc[r] = "check"}
<1>1. /\ pc \in [Requests -> {"new", "check", "pick", "call", "reply", "done"}]
      /\ job \in [Requests -> {"none", "deduct", "save", "done", "killed"}]
      /\ \A r \in Requests : pc[r] \in {"new", "check", "pick", "call"} => job[r] = "none"
  BY DEF TypeInv, TypeOK, Shape
<1>2. \A r \in Requests :
        Phase(r)' = IF Phase(r) \in {"open", "owed", "booked"} \/ (Phase(r) = "idle" /\ r \in S)
                    THEN "closed" ELSE Phase(r)
  <2> SUFFICES ASSUME NEW r \in Requests
               PROVE  Phase(r)' = IF \/ Phase(r) \in {"open", "owed", "booked"}
                                     \/ Phase(r) = "idle" /\ r \in S
                                  THEN "closed" ELSE Phase(r)
    OBVIOUS
  <2>1. /\ pc'[r] = IF Handling(r) THEN "done" ELSE pc[r]
        /\ job'[r] = IF Settling(r) THEN "killed" ELSE job[r]
    BY DEF Crash
  <2>2. CASE job[r] # "none"
    <3>1. job'[r] \in {"done", "killed"}
      BY <1>1, <2>1, <2>2 DEF Settling
    <3>2. Phase(r) \in {"owed", "booked", "closed"}
      BY <1>1, <2>2, PhaseIs
    <3> QED
      BY <3>1, <3>2, PhaseBecomes
  <2>3. CASE job[r] = "none" /\ pc[r] = "new"
    <3>1. job'[r] = "none" /\ pc'[r] = "new"
      BY <2>1, <2>3 DEF Handling, Settling
    <3> QED
      BY <2>3, <3>1, PhaseIs, PhaseBecomes
  <2>4. CASE job[r] = "none" /\ pc[r] # "new"
    <3>1. job'[r] = "none" /\ pc'[r] = "done"
      BY <1>1, <2>1, <2>4 DEF Handling, Settling
    <3>2. /\ pc[r] = "check" => Phase(r) = "idle" /\ r \in S
          /\ pc[r] \in {"pick", "call"} => Phase(r) = "open"
          /\ pc[r] \in {"reply", "done"} => Phase(r) = "closed"
      BY <2>4, PhaseIs
    <3>3. pc[r] \in {"check", "pick", "call", "reply", "done"}
      BY <1>1, <2>4
    <3> QED
      BY <3>1, <3>2, <3>3, PhaseBecomes
  <2> QED
    BY <2>2, <2>3, <2>4
<1>3. \A r \in Requests : Phase(r)' \notin {"open", "owed", "booked"}
  BY <1>2
<1>4. /\ Accounts' = [r \in Requests |-> None]
      /\ Bills' = [r \in Requests |-> 0]
  BY <1>3 DEF Accounts, Bills, Account, Bill
<1>5. Used' = Used /\ Logged' = Logged
  BY DEF Crash, Used, Logged
<1>6. Audit!Clear(S)
  BY <1>2, <1>4, <1>5
     DEF Audit!Clear, Audit!Live, Phases, Accounts, Bills, Account, Bill, Used
<1> QED
  BY <1>6 DEF Audit!Next

LEMMA BooksStep ==
  TypeInv /\ QuotasKept /\ [Next]_vars => [Audit!Next]_(Audit!vars)
<1> SUFFICES ASSUME TypeInv, QuotasKept, [Next]_vars PROVE [Audit!Next]_(Audit!vars)
  OBVIOUS
<1>1. CASE UNCHANGED vars \/ \E m \in SyncModels : Startup(m)
  <2>1. UNCHANGED <<user_quotas, pc, job, req, usage, chat_logs>>
    BY <1>1 DEF vars, Startup, process, history
  <2>2. \A r \in Requests : /\ Phase(r)' = Phase(r)
                            /\ Account(r)' = Account(r)
                            /\ Bill(r)' = Bill(r)
    BY <2>1 DEF Phase, Account, Bill, Key, CostOf
  <2>3. Used' = Used /\ Logged' = Logged
    BY <2>1 DEF Used, Logged
  <2> QED
    BY <2>2, <2>3 DEF Audit!vars, Account, Bill, Used
<1> QED
  BY <1>1, HandlerBooks, SettleBooks, CrashBooks DEF Next

LEMMA BooksInit == Init => Audit!Init
<1> SUFFICES ASSUME Init PROVE Audit!Init
  OBVIOUS
<1>1. \A r \in Requests : pc[r] = "new" /\ job[r] = "none"
  BY DEF Init
<1>2. \A r \in Requests : Phase(r) = "idle"
  BY <1>1, PhaseIs
<1>3. \A r \in Requests : Account(r) = None /\ Bill(r) = 0
  BY <1>2 DEF Account, Bill
<1>4. Used = [k \in QuotaKeys |-> InitialQuotas[k].used_tokens] /\ Logged = {}
  BY DEF Init, QuotaInit, Used, Logged
<1> QED
  BY <1>2, <1>3, <1>4 DEF Audit!Init, Account, Bill, Used

\* Whatever the requests, failures and crashes, the gateway does to the tokens
\* only what ChatAudit allows: it opens a request against an account with room,
\* books what an answered one owes to that account once, and only then enters it.
THEOREM GatewayKeepsTheBooks == Spec => Audit!Spec
<1>1. AdmissionInv => QuotasKept
  BY DEF AdmissionInv
<1> QED
  BY <1>1, TypeInit, TypeStep, AdmissionInit, AdmissionStep, BooksInit, BooksStep, PTL
     DEF Spec, Audit!Spec
=============================================================================
