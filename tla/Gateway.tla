------------------------------ MODULE Gateway ------------------------------
(***************************************************************************)
(* The life of a chat request, from POST /api/chat to the settlement that  *)
(* goes on after the reply: proxy.Handler.Chat, the providers it calls,    *)
(* and the goroutine each answered call leaves behind, which charges the   *)
(* user (quota.Service.Deduct) and writes the audit row (chat.Repository   *)
(* .Save), in this order and dropping the errors of both.                  *)
(*                                                                         *)
(* The quota table, the credentials and the chat logs are in the database. *)
(* Everything else belongs to the process, which may stop at any time: it  *)
(* has no graceful shutdown, so a stop loses every request and settlement  *)
(* in progress.                                                            *)
(*                                                                         *)
(* Requests are one-shot: each element of Requests is one HTTP request.    *)
(***************************************************************************)
EXTENDS QuotaStore, CredentialPool, FiniteSetsExt

CONSTANTS Requests,
          Routes,          \* the models proxy.NewRouter registers
          Uuids,           \* the session ids that uuid.Parse accepts
          NilUuid,         \* uuid.Nil, the result of a failed Parse
          Bodies,          \* the bodies clients send, from BodyType
          Usages,          \* the token counts providers report, from UsageType
          Config,          \* the API keys of config.yaml, by model
          MaxTokens,       \* no call costs more
          MaxInFlight,     \* requests and settlements in progress at once
          MaxFaults,       \* bound on the failed statements of settlements
          MaxCrashes,      \* bound on the restarts
          None             \* no body, no usage, no credential

\* A body that does not bind (model or messages missing) names no routed model.
BodyType == [user : Users, model : Models, session : RequestSessions, stream : BOOLEAN]

\* total is reported by the provider next to the other two, not computed.
UsageType == [input : Nat, output : Nat, total : Nat]

\* What an answered call costs: streams add up, Complete trusts the total.
Cost(b, u) == IF b.stream THEN u.input + u.output ELSE u.total

ASSUME GatewayAssumption ==
  /\ IsFiniteSet(Requests)
  /\ Routes \subseteq Models
  /\ Bodies \subseteq BodyType
  /\ Usages \subseteq UsageType
  /\ Config \in [SyncModels -> ApiKeys \cup {NoKey}]
  /\ MaxTokens \in Nat /\ MaxInFlight \in Nat /\ MaxFaults \in Nat /\ MaxCrashes \in Nat
  /\ \A b \in Bodies, u \in Usages : Cost(b, u) <= MaxTokens
  /\ None \notin Bodies \cup Usages \cup CredentialRow

VARIABLES pc,              \* where the handler of a request is
          req,             \* its body
          cred,            \* the credential picked for it
          usage,           \* the tokens of its answered call
          status,          \* what the client was told
          job,             \* where its settlement goroutine is
          chat_logs,       \* the audit table
          charged,         \* requests whose Deduct took effect
          dropped,         \* statements of settlements whose error was ignored
          crashes

process == <<pc, req, cred, usage, status, job>>
history == <<charged, dropped, crashes>>
vars == <<user_quotas, poolVars, process, chat_logs, history>>

Refused == {"400", "403", "500", "502", "503"}
Answered == {"200", "sse"}
Key(r) == <<req[r].user, req[r].model>>

\* The session_id column: anything but a UUID is stored as the nil UUID.
LogSession(s) == IF s \in Uuids THEN s ELSE NilUuid

\* A wrong row, for testing the properties: the output tokens are left out.
LogRowInputOnly(r) == [id |-> r, user_id |-> req[r].user, model_id |-> req[r].model,
                       session_id |-> LogSession(req[r].session),
                       input_tokens |-> usage[r].input, output_tokens |-> 0,
                       status |-> "success", credential_id |-> None]

\* The row Save inserts.  Its column list has no credential_id.
LogRow(r) == [id |-> r, user_id |-> req[r].user, model_id |-> req[r].model,
              session_id |-> LogSession(req[r].session),
              input_tokens |-> usage[r].input, output_tokens |-> usage[r].output,
              status |-> "success", credential_id |-> None]

LogType == [id : Requests, user_id : Users, model_id : Models,
            session_id : Uuids \cup {NilUuid}, input_tokens : Nat, output_tokens : Nat,
            status : {"success", "quota_exceeded", "error"},
            credential_id : Nat \cup {None}]

TypeOK ==
  /\ QuotaTypeOK
  /\ PoolTypeOK
  /\ pc \in [Requests -> {"new", "check", "pick", "call", "reply", "done"}]
  /\ req \in [Requests -> Bodies \cup {None}]
  /\ cred \in [Requests -> CredentialRow \cup {None}]
  /\ usage \in [Requests -> Usages \cup {None}]
  /\ status \in [Requests -> Refused \cup Answered \cup {"none", "sse error", "cut off"}]
  /\ job \in [Requests -> {"none", "deduct", "save", "done", "killed"}]
  /\ chat_logs \subseteq LogType
  /\ charged \subseteq Requests
  /\ dropped \subseteq {"deduct", "save"} \X Requests
  /\ crashes \in 0..MaxCrashes

Init ==
  /\ QuotaInit
  /\ PoolInit
  /\ pc = [r \in Requests |-> "new"]
  /\ req = [r \in Requests |-> None]
  /\ cred = [r \in Requests |-> None]
  /\ usage = [r \in Requests |-> None]
  /\ status = [r \in Requests |-> "none"]
  /\ job = [r \in Requests |-> "none"]
  /\ chat_logs = {}
  /\ charged = {}
  /\ dropped = {}
  /\ crashes = 0
-----------------------------------------------------------------------------
(***************************************************************************)
(* The handler.                                                            *)
(***************************************************************************)
Handling(r) == pc[r] \in {"check", "pick", "call", "reply"}
Settling(r) == job[r] \in {"deduct", "save"}
InFlight == {r \in Requests : Handling(r) \/ Settling(r)}

\* The handler returns after telling the client s.
Finish(r, s) == /\ pc' = [pc EXCEPT ![r] = "done"]
                /\ status' = [status EXCEPT ![r] = s]

Goto(r, l) == pc' = [pc EXCEPT ![r] = l]

\* main serves only once SyncFromConfig has returned.
Arrive(r, b) == /\ Serving
                /\ pc[r] = "new"
                /\ Cardinality(InFlight) < MaxInFlight
                /\ req' = [req EXCEPT ![r] = b]

AcceptBody(r, b) ==
  /\ Arrive(r, b)
  /\ b.model \in Routes
  /\ Goto(r, "check")
  /\ UNCHANGED <<user_quotas, poolVars, cred, usage, status, job, chat_logs, history>>

RejectBody(r, b) ==
  /\ Arrive(r, b)
  /\ b.model \notin Routes
  /\ Finish(r, "400")
  /\ UNCHANGED <<user_quotas, poolVars, cred, usage, job, chat_logs, history>>

PassCheck(r) ==
  /\ pc[r] = "check"
  /\ Check(Key(r)) = "ok"
  /\ Goto(r, "pick")
  /\ UNCHANGED <<user_quotas, poolVars, req, cred, usage, status, job, chat_logs, history>>

FailCheck(r) ==
  /\ pc[r] = "check"
  /\ Check(Key(r)) # "ok"
  /\ Finish(r, IF Check(Key(r)) = "ErrQuotaExceeded" THEN "403" ELSE "500")
  /\ UNCHANGED <<user_quotas, poolVars, req, cred, usage, job, chat_logs, history>>

\* Check's query fails: the database does, or the client went away and its
\* context is cancelled.
CheckError(r) ==
  /\ pc[r] = "check"
  /\ Finish(r, "500")
  /\ UNCHANGED <<user_quotas, poolVars, req, cred, usage, job, chat_logs, history>>

\* While the process serves, nothing here writes the pool, so reading the list
\* and indexing it is one step (CredentialService takes them apart).
PickCredential(r) ==
  LET m == req[r].model
  IN  /\ pc[r] = "pick"
      /\ \E c \in ListActive(m) : /\ Picks(c, m, req[r].session, ListActive(m))
                                  /\ cred' = [cred EXCEPT ![r] = c]
      /\ AdvanceCounter(m, req[r].session)
      /\ Goto(r, "call")
      /\ UNCHANGED <<user_quotas, model_credentials, next_id, pending, req, usage, status,
                     job, chat_logs, history>>

\* An empty list, or the query for it failed: no counter has advanced.
NoCredential(r) ==
  /\ pc[r] = "pick"
  /\ Finish(r, "503")
  /\ UNCHANGED <<user_quotas, poolVars, req, cred, usage, job, chat_logs, history>>
-----------------------------------------------------------------------------
(***************************************************************************)
(* The provider call.                                                      *)
(***************************************************************************)
CompleteFails(r) ==
  /\ pc[r] = "call" /\ ~req[r].stream
  /\ Finish(r, "502")
  /\ UNCHANGED <<user_quotas, poolVars, req, cred, usage, job, chat_logs, history>>

\* The settlement starts before the reply is written.
CompleteAnswers(r, u) ==
  /\ pc[r] = "call" /\ ~req[r].stream
  /\ usage' = [usage EXCEPT ![r] = u]
  /\ job' = [job EXCEPT ![r] = "deduct"]
  /\ Goto(r, "reply")
  /\ UNCHANGED <<user_quotas, poolVars, req, cred, status, chat_logs, history>>

Reply(r) ==
  /\ pc[r] = "reply"
  /\ Finish(r, "200")
  /\ UNCHANGED <<user_quotas, poolVars, req, cred, usage, job, chat_logs, history>>

\* A wrong variant, for testing the properties: no return after the error.
StreamFailsSettled(r) ==
  /\ pc[r] = "call" /\ req[r].stream
  /\ \E u \in Usages : usage' = [usage EXCEPT ![r] = u]
  /\ job' = [job EXCEPT ![r] = "deduct"]
  /\ Finish(r, "sse error")
  /\ UNCHANGED <<user_quotas, poolVars, req, cred, chat_logs, history>>

\* doRequest fails: the stream ends in an [ERROR] event.
StreamFails(r) ==
  /\ pc[r] = "call" /\ req[r].stream
  /\ Finish(r, "sse error")
  /\ UNCHANGED <<user_quotas, poolVars, req, cred, usage, job, chat_logs, history>>

\* The upstream stream ends, complete or cut short: both are settled alike, with
\* the counts seen so far.
StreamEnds(r, u) ==
  /\ pc[r] = "call" /\ req[r].stream
  /\ usage' = [usage EXCEPT ![r] = u]
  /\ job' = [job EXCEPT ![r] = "deduct"]
  /\ Finish(r, "sse")
  /\ UNCHANGED <<user_quotas, poolVars, req, cred, chat_logs, history>>
-----------------------------------------------------------------------------
(***************************************************************************)
(* The settlement goroutine.  The error of a statement that fails is       *)
(* dropped; an error that comes although the statement took effect is then *)
(* no different from success.                                              *)
(***************************************************************************)
Settled(r, l) == job' = [job EXCEPT ![r] = l]

\* Wrong variants, for testing the properties: a charge that is retried though it
\* took effect, one that does not trust the total, settlements that wait for the
\* client, and a row saved before the charge.
SettleDeductAgain(r) ==
  /\ job[r] = "deduct"
  /\ Deduct(Key(r), Cost(req[r], usage[r]))
  /\ charged' = charged \cup {r}
  /\ UNCHANGED <<poolVars, process, chat_logs, dropped, crashes>>
SettleDeductSum(r) ==
  /\ job[r] = "deduct"
  /\ Deduct(Key(r), usage[r].input + usage[r].output)
  /\ charged' = charged \cup {r}
  /\ Settled(r, "save")
  /\ UNCHANGED <<poolVars, pc, req, cred, usage, status, chat_logs, dropped, crashes>>
SettleDeductAfterReply(r) ==
  /\ job[r] = "deduct" /\ pc[r] # "reply"
  /\ Deduct(Key(r), Cost(req[r], usage[r]))
  /\ charged' = charged \cup {r}
  /\ Settled(r, "save")
  /\ UNCHANGED <<poolVars, pc, req, cred, usage, status, chat_logs, dropped, crashes>>
SettleSaveAfterReply(r) ==
  /\ job[r] = "save" /\ pc[r] # "reply"
  /\ chat_logs' = chat_logs \cup {LogRow(r)}
  /\ Settled(r, "done")
  /\ UNCHANGED <<user_quotas, poolVars, pc, req, cred, usage, status, history>>
SettleSaveFirst(r) ==
  /\ Settling(r)
  /\ chat_logs' = chat_logs \cup {LogRow(r)}
  /\ IF job[r] = "save" THEN Settled(r, "done") ELSE UNCHANGED job
  /\ UNCHANGED <<user_quotas, poolVars, pc, req, cred, usage, status, history>>

SettleDeduct(r) ==
  /\ job[r] = "deduct"
  /\ Deduct(Key(r), Cost(req[r], usage[r]))
  /\ charged' = charged \cup {r}
  /\ Settled(r, "save")
  /\ UNCHANGED <<poolVars, pc, req, cred, usage, status, chat_logs, dropped, crashes>>

SettleSave(r) ==
  /\ job[r] = "save"
  /\ chat_logs' = chat_logs \cup {LogRow(r)}
  /\ Settled(r, "done")
  /\ UNCHANGED <<user_quotas, poolVars, pc, req, cred, usage, status, history>>

DropDeduct(r) ==
  /\ job[r] = "deduct"
  /\ Cardinality(dropped) < MaxFaults
  /\ dropped' = dropped \cup {<<"deduct", r>>}
  /\ Settled(r, "save")
  /\ UNCHANGED <<user_quotas, poolVars, pc, req, cred, usage, status, chat_logs, charged,
                 crashes>>

DropSave(r) ==
  /\ job[r] = "save"
  /\ Cardinality(dropped) < MaxFaults
  /\ dropped' = dropped \cup {<<"save", r>>}
  /\ Settled(r, "done")
  /\ UNCHANGED <<user_quotas, poolVars, pc, req, cred, usage, status, chat_logs, charged,
                 crashes>>
-----------------------------------------------------------------------------
(***************************************************************************)
(* The process.                                                            *)
(***************************************************************************)
Startup(m) ==
  /\ SyncCommits(m, Config[m]) \/ SyncFails(m)
  /\ UNCHANGED <<user_quotas, process, chat_logs, history>>

Crash ==
  /\ crashes < MaxCrashes
  /\ crashes' = crashes + 1
  /\ StartProcess
  /\ pc' = [r \in Requests |-> IF Handling(r) THEN "done" ELSE pc[r]]
  /\ status' = [r \in Requests |-> IF Handling(r) THEN "cut off" ELSE status[r]]
  /\ job' = [r \in Requests |-> IF Settling(r) THEN "killed" ELSE job[r]]
  /\ UNCHANGED <<user_quotas, model_credentials, next_id, req, cred, usage, chat_logs,
                 charged, dropped>>

\* The steps that wait for the database or the upstream only.
ServerStep(r) ==
  \/ PassCheck(r) \/ FailCheck(r) \/ CheckError(r)
  \/ PickCredential(r) \/ NoCredential(r)
  \/ CompleteFails(r)
  \/ \E u \in Usages : CompleteAnswers(r, u)

\* The steps that write to the client, at the client's pace.
ClientStep(r) == \/ Reply(r)
                 \/ StreamFails(r)
                 \/ \E u \in Usages : StreamEnds(r, u)

SettleStep(r) == SettleDeduct(r) \/ SettleSave(r) \/ DropDeduct(r) \/ DropSave(r)

Next ==
  \/ \E m \in SyncModels : Startup(m)
  \/ \E r \in Requests : \/ \E b \in Bodies : AcceptBody(r, b) \/ RejectBody(r, b)
                         \/ ServerStep(r) \/ ClientStep(r)
                         \/ SettleStep(r)
  \/ Crash

Spec == Init /\ [][Next]_vars

(***************************************************************************)
(* Fairness: the runtime schedules every goroutine, the database answers   *)
(* or fails, and the upstream client gives up after 120 s, so what waits   *)
(* for those goes on.  A client may stop reading for ever (the server sets *)
(* no write timeout), never send a request, and the process need not       *)
(* crash: none of these steps is fair.                                     *)
(***************************************************************************)
Fairness == /\ \A m \in SyncModels : WF_vars(Startup(m))
            /\ \A r \in Requests : WF_vars(ServerStep(r)) /\ WF_vars(SettleStep(r))

FairSpec == Spec /\ Fairness
-----------------------------------------------------------------------------
(***************************************************************************)
(* Quota.                                                                  *)
(***************************************************************************)
WithinEither(n, a, b) == n <= a \/ n <= b

\* The requests that passed Check on a row and may still be charged to it.
Admitted(k) == {r \in Requests : /\ pc[r] \in {"pick", "call"} \/ job[r] = "deduct"
                                 /\ Key(r) = k}

Ceiling(k) == InitialQuotas[k].quota_tokens - 1 + MaxTokens * MaxInFlight

Promised(k) == user_quotas[k].used_tokens + MaxTokens * Cardinality(Admitted(k))

PromisesBounded ==
  \A k \in QuotaKeys : WithinEither(Promised(k), InitialQuotas[k].used_tokens, Ceiling(k))

\* What a request holds, by where it is.
Shape ==
  \A r \in Requests :
    /\ pc[r] # "new" => req[r] \in Bodies
    /\ pc[r] = "new" => status[r] = "none"
    /\ pc[r] \in {"new", "check", "pick", "call"} => job[r] = "none"
    /\ job[r] # "none" => usage[r] \in Usages
    /\ pc[r] \in {"pick", "call"} \/ Settling(r) => Key(r) \in QuotaKeys

QuotasKept ==
  \A k \in QuotaKeys : user_quotas[k].quota_tokens = InitialQuotas[k].quota_tokens

\* The inductive form of OverspendBounded: a row has used little enough to take
\* in the cost of every request admitted to it, and those are in flight.
AdmissionInv == /\ Shape
                /\ QuotasKept
                /\ Cardinality(InFlight) <= MaxInFlight
                /\ PromisesBounded

\* Requests that are all admitted before any of them is charged overspend a row
\* (Repository.Deduct's TOCTOU note), but by no more than one maximal call for
\* each request and settlement in progress, whatever fails or crashes.
OverspendBounded ==
  \A k \in QuotaKeys :
    WithinEither(user_quotas[k].used_tokens, InitialQuotas[k].used_tokens, Ceiling(k))

\* Who was told 403 would be told so again, ever after: later settlements,
\* failures and restarts give nothing back.
RefusalIsFinal ==
  \A r \in Requests : status[r] = "403" => Check(Key(r)) = "ErrQuotaExceeded"
-----------------------------------------------------------------------------
(***************************************************************************)
(* The ledger (used_tokens) and the audit log.                             *)
(***************************************************************************)
CostOf(r) == Cost(req[r], usage[r])
Logged == {l.id : l \in chat_logs}
Lost(s, r) == <<s, r>> \in dropped

\* Every token in the ledger is owed to one charged request of that user and
\* model: no request is charged twice, partly, or to somebody else.
LedgerConserved ==
  \A k \in QuotaKeys :
    user_quotas[k].used_tokens = InitialQuotas[k].used_tokens
      + SumFunction([r \in {p \in charged : Key(p) = k} |-> CostOf(r)])

\* A client that got an error is neither charged nor logged; one that got an
\* answer has a settlement, and once that is over it is charged and logged
\* except for the statements that failed.
AnswerAndBillAgree ==
  \A r \in Requests :
    /\ status[r] \in Refused \cup {"sse error"} => r \notin charged \cup Logged
    /\ status[r] \in Answered => job[r] # "none"
    /\ job[r] = "done" => /\ r \in charged \/ Lost("deduct", r)
                          /\ r \in Logged \/ Lost("save", r)

\* The audit log never runs ahead of the ledger: even after a crash between the
\* two statements, a logged request was charged, unless its Deduct failed.
LogFollowsCharge == \A r \in Logged : r \in charged \/ Lost("deduct", r)

\* Requests on which ledger and log may differ: charged and not yet logged, or
\* one of the statements lost to a failure or a crash.
Loose(k) == {r \in Requests : /\ \/ job[r] \in {"save", "killed"}
                                 \/ Lost("deduct", r) \/ Lost("save", r)
                              /\ Key(r) = k}

RowsOf(k) == {l \in chat_logs : <<l.user_id, l.model_id>> = k}
RowTokens(l) == l.input_tokens + l.output_tokens

\* Summing up the audit log gives the tokens charged, at any moment, for each row
\* with nothing loose, if providers report totals that add up.
BooksBalance ==
  (\A u \in Usages : u.total = u.input + u.output) =>
    \A k \in QuotaKeys : Loose(k) = {} =>
      user_quotas[k].used_tokens - InitialQuotas[k].used_tokens =
        SumFunction([l \in RowsOf(k) |-> RowTokens(l)])
-----------------------------------------------------------------------------
(***************************************************************************)
(* Progress, under FairSpec.                                               *)
(***************************************************************************)

\* A settlement ends, if only by a crash, whatever its client does.
SettlementEnds == \A r \in Requests : Settling(r) ~> ~Settling(r)

\* A request that does not stream is refused or fully settled in the end, even
\* if its client never reads the reply.
CompleteEnds ==
  \A r \in Requests :
    pc[r] = "check" /\ ~req[r].stream
      ~> status[r] \in Refused \cup {"cut off"} \/ job[r] \in {"done", "killed"}
=============================================================================
