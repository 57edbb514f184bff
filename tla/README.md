# Verification of the LLM gateway

The repository is a gateway between the users of a company and several LLM providers. A user
sends `POST /api/chat`; the gateway checks the user's token quota, picks one of the company's
API keys for the model, calls the provider, passes the answer on, and afterwards charges the
user and writes an audit row. This directory holds TLA+ modules that model that program, TLC
configurations that check them on small instances, and TLAPS proofs for every instance.

Paths are relative to `src/`.

## 1. Inventory

| Component | State | Operations | Hard because |
|---|---|---|---|
| Quota service (`internal/quota`) | table `user_quotas` (database) | `Check`, `Deduct`, `TryDeduct`, `ListByUser` | the check and the charge are separate statements with a provider call between them; other requests of the same user run meanwhile |
| Credential pool (`internal/credential`) | table `model_credentials` (database), round-robin counters (process) | `SyncFromConfig` at start, `Pick` per request | transactions that fail half-way, restarts, SQL edits while picks are in progress, a list that is stale when it is indexed |
| Chat handler (`internal/proxy/handler.go`, `router.go`) | one goroutine per request, one more per answered request (the settlement) | `Chat` | every early return; the settlement outlives the reply and drops its errors; a crash loses it |
| Providers (`internal/proxy/providers`) | the counts and text of a stream being read | `Complete`, `Stream` of OpenAI-compatible, Anthropic and mock | streams that break off, clients that stop reading, counts that come late or never |
| Chat log and sessions (`internal/chat`) | table `chat_logs` (database) | `Save`, `ListSessions`, `GetSession` | the session is rebuilt from its last row; ids that are not UUIDs |
| Model and quota catalog (`internal/model`) | none; reads `user_quotas` | `ListModels`, `ListQuota` | what it lists may be used up when it is used |
| Authentication (`internal/auth`, `internal/middleware`) | none (stateless tokens) | `DevLogin`, `JWTAuth`; `Login`, `Callback` and `Logout` are stubs | tokens end by their date or with a restart that changes the secret, and nobody is told |
| Process (`cmd/server`, `internal/config`, `internal/db`) | the configuration | start, synchronise, serve | no graceful shutdown |
| Web client (`web/src`) | the token in `localStorage`; for each page the models listed, the selected one, the current session, the messages shown, a stream in progress | log in and out, list models, select a model or a session, send, load history, decode the event stream | callbacks that come after the page has moved on; two answers that set the same state; tabs that share a token; bytes cut anywhere |

How they interact: `main` synchronises the pool and then serves. `Chat` calls the router, the
quota service, the selector and a provider, in this order. Its goroutine, or that of the
provider for a stream, calls `Deduct` and then `Save`. Nothing is shared in memory but the
counters of the selector; everything else goes through three tables, one statement at a time,
except the synchronisation, which is one transaction for each model. Administrators edit
`user_quotas` and `model_credentials` by SQL, since there is no management interface.

What makes each component correct:

* Quota: the overspend that the open window allows is bounded; a refusal does not go stale.
* Pool: a model never has less or more than the config row it was last synchronised to; an
  index always fits the list it is used on; sessions stick to their account; load is balanced.
* Handler and settlement: no request is charged twice, partly, or to somebody else; a client
  that got an error is not charged and one that got an answer is, except for statements that
  fail; the audit log never runs ahead of the ledger; settlements end.
* Providers: a stream is charged by what the upstream last reported, or by its words; nobody
  gets text for nothing, though the stream breaks or the client leaves; the log has that text.
* Sessions: the history of a session is never turned back by a late settlement, makes up for
  lost rows, and shows nobody else's messages.
* Catalog: a list errs on one side only, by what was spent since it was made.
* Authentication: a login lasts as long as it should, is not undone by answers to older calls,
  and a session that is over ends at the login page.
* Web client: a window that is used carefully shows what the history has, and keeps a session
  to one model; a user pays for the model on display, or for none unless the selector is empty;
  the text on the screen is what can be read of the events, however the network cuts them.

`PROJECT.json` lists the hazards line by line with the properties that watch them.

## 2. Modules

```
Domain -- QuotaStore ------------ QuotaCallers -- QuotaCallersProofs
   |          \                        \-- MCQuotaCallers
   |           +-- Gateway -- MCGateway ----------.
   |          /       |                            MCGatewayRefinement
   +-- CredentialPool |                           /
              \       '-- GatewayRefinement -----' -- GatewayProofs
               \                '-- INSTANCE ChatAudit
                '-- CredentialService -- CredentialServiceProofs
                                   \-- MCCredentialService

QuotaStore -- Catalog -- ChatPage -- ChatPageProofs
                              \-- MCChatPage
SessionHistory -- ChatWindow -- ChatWindowProofs
                          \-- MCChatWindow
ProviderStream -- ProviderStreamProofs
   |         \-- MCProviderStream
   '-- INSTANCE StreamContract
Auth -- WebAccess -- MCWebAccess
            \
             +-- WebClientProofs
            /
  EventStream -- MCEventStream
```

WebClientProofs has the proofs of WebAccess and of EventStream, which share nothing else. All
modules of proofs but that of ChatPage extend **DataLemmas** as well.

**Domain** has the names all modules share.

**QuotaStore** is the table `user_quotas` and the operations of `quota.Service` on it. Each is
one SQL statement on one row, so each is an operator used within one step. `Check` has the
three answers of the code (no row, exhausted, ok). `Deduct` adds without a ceiling;
`CanTryDeduct` is the `WHERE` clause of `TryDeduct`.

**QuotaCallers** puts concurrent callers on that table. A two-phase caller does what
`Handler.Chat` does (`Admit`/`Refuse` is `Check`, `Settle` is `Deduct`, `GiveUp` a failed call
or a dropped error); a strict caller uses `TryDeduct`, which the service offers and the handler
does not use. Both go on for ever.

**CredentialPool** is the table `model_credentials`, the counters of `RoundRobinSelector`, the
transaction of `sync.go` (`SyncCommits`, `SyncFails`) and the arithmetic of `Pick`. A list
ordered by id is a set of rows; `Rank` is the index of a row in it. The `SERIAL` column is the
variable `next_id`: a config row that is replaced comes back as the last of the list.

**CredentialService** puts processes, pickers and administrators around the pool. `Pick` is two
steps (`List`, then `Choose`), because the database read and the indexing are not atomic. The
synchronisation takes the models in any order (it ranges over a Go map) and any model may fail.
Administrators insert, delete and enable or disable rows, and leave the label `config` alone
otherwise. `pinned`, `served`, `committed` and `edited` are history variables.

**Gateway** composes both with the life of a request: `pc` is where `Handler.Chat` is, `job`
where the settlement goroutine is. Each exit of the handler is an action of its own
(`RejectBody` 400, `FailCheck` 403 or 500, `CheckError` 500, `NoCredential` 503,
`CompleteFails` 502, `Reply` 200, `StreamFails` and `StreamEnds` for streams). `CompleteAnswers`
starts the settlement before the reply, as the code does; `StreamEnds` after the last chunk.
`SettleDeduct` and `SettleSave` are the two statements, `DropDeduct` and `DropSave` the same
ones failing. `Crash` loses all goroutines and counters and starts a process that synchronises
anew. Requests are one-shot: a value of `Requests` is one HTTP request. What a body, a usage or
a row says is reduced to what the properties tell apart; the text of messages is left out.

**ChatAudit** is what the gateway promises about tokens, without handlers, providers or
processes: a request is opened against an account with room, comes to owe something, is booked
once and then entered in the journal; entries may be lost. **GatewayRefinement** maps Gateway
onto it.

**ProviderStream** is one streaming call, line by line. The upstream sends lines (`Send`) into
the connection (`wire`) and closes it (`Close`), or refuses the call (`Respond(TRUE)`); the
handler reads them (`taken` is how far), and the client may stop reading (`Stall`) or leave
(`Leave`) at any time; after it left the read fails sooner or later. Each case of the two
readers is an action (`ScanChunk` for the OpenAI-compatible one, `ScanStart`, `ScanText`,
`ScanDelta` for Anthropic, `ScanDone` and `Skip` for both). `EndOfBody` and `ReadFails` end in
`Settle`, the values the goroutine is started with. The mock has no upstream: `MockWord` and
`MockEnd`. A text is a sequence over a letter and a space, all that `strings.Fields` tells
apart. Gateway has the same call in one step: `RequestFails` is its `StreamFails`, and every
other end its `StreamEnds` with some usage.

**StreamContract** is what the bookkeeping relies on, without upstreams or lines: a stream shows
text while it is open, and ends once, either owing for a record that holds all it showed, or
owing nothing, which it may only do if it showed nothing. ProviderStream implements it
(`ImplementsContract`), with the concatenation of the text events as the text shown.

**SessionHistory** is the table `chat_logs` as `chat.Repository` and its handlers use it:
nothing stores a conversation, so `GetSession` is the context and the answer of the last row.

**ChatWindow** composes it with windows of the web client and with the turns of the server. A
window has a session, the messages it shows, at most one stream, and GETs in flight that the
server answers (`ServeLoad`) some time before the window sees the answer (`LoadReturns`).
`LoadReturns` and `StreamDone` do what the callbacks do: change what is shown now. Turns are
answered, broken off or refused, and their rows saved or lost, at any time after. What is saved
is the answer (`content`); what the window gets of it (`reply`) is what EventStream says can be
read of it, a remnant or nothing, and an error only if it is read. `careless` is a history
variable: the windows that went on before a GET or a stream had ended, or whose GET failed or
overtook a settlement.

**Catalog** is `ListModels` on the quota table, and **ChatPage** the page it is listed on: the
list of models, asked for once; histories, asked for at each change of session; the selected
model, which both of them and the user set; and requests, which others of the same user
accompany. The server side is reduced to what the page can tell: the check, the call, and the
settlement, either of whose statements may fail (`Settle`; one step, since nothing on the page
can tell the charge from the row before both are over). The messages are in ChatWindow and left
out here. `Displayed` is what a `<select>` shows when its value is not among its options, the
first of them. `shown` and `careless` are history variables: what was on display when a message
was sent, and whether the user went on before a list or a history was there, or one of them
failed or overtook a settlement.

**Auth** has the tokens: what `SignToken` puts in and what `JWTAuth` looks at. **WebAccess** has
the tabs of one browser, which share the token, and the calls of their pages. An answer 401
runs `logout` of `client.ts`, which removes whatever token is stored by then. A change of
`window.location` loads a page anew, so the calls of the old one never come back (`Goto`). The
clock (`Tick`) and a restart with another configuration (`Restart`) are steps as well.

**EventStream** has one answer between the server's texts and the text on the screen: `Encode`
makes events of them, `ReadBytes` hands over any number of bytes, `OnChunk` is the callback of
`useStream.ts`. Bytes are reduced to the symbols the code looks for. `Encode` is what
`c.SSEvent("", chunk)` writes with gin v1.10.0 and gin-contrib/sse v0.1.0 (`go.mod:20`, external
code): `data:` and each line of the text *without a space between them* (`Field`), with a
carriage return spelled out (`Escaped`). The callback takes lines that start with `data: `, with
a space (`useStream.ts:39`), and cuts all of it off. So it takes the lines of the text that start
with a space themselves, and drops the others, `[DONE]` and the server's `[ERROR]` among them;
`ReadableText` is what is left. The loops of the code (two levels of `split`, and the two loops
of the callback) are folds of `Loop` over functions of one step each (`CutAtBreak`, `CutAtBlank`,
`TakeLine`, `TakePart`), which is what the proofs go through. The specification is `EventSpec`.

Definitions called wrong variants (`DeductNegated`, `SettleSaveFirst`, ...) are never part of a
specification. Each is a plausible bug; putting it in place of the right definition makes the
property that `PROJECT.json` names fail, which shows that the property depends on the code.

## 3. Runs

| Run | Question | Result |
|---|---|---|
| `QuotaCallers.cfg` | Two two-phase and two strict callers, one row with two tokens, one overspent row, two keys without a row: how far does a row go, does a refusal stay true? | pass |
| `CredentialPool.cfg` | Two restarts with the same, another or no key, two edits, synchronisations that fail, and two concurrent picks: what is in the table, what a start leaves alone, indices, balance, stickiness within a process | pass |
| `CredentialSticky.cfg` | Does a session keep its account over a restart with the same configuration and an untouched table? | violated |
| `GatewayQuota.cfg` | Three requests of two users in flight at once, no faults: admission, overspend, ledger and audit log | pass |
| `GatewayFaults.cfg` | Two requests under fairness, two failing statements and a crash anywhere, provider totals that do not add up: are the books right, do they implement ChatAudit, does everything the server owes end? | pass |
| `ProviderStream.cfg` | One stream of each provider, up to three lines, broken off, left, not read or refused anywhere: what is charged, logged and told, does it end, does it implement StreamContract? | pass |
| `ChatWindow.cfg` | Two users' windows on two sessions, two turns, two GETs in flight each: privacy, order of the history, window against history | pass |
| `ChatWindowRecord.cfg` | Is the record of a session complete, as the design says? (two windows of one user) | violated |
| `ChatPage.cfg` | A page of a user with two models, an old session and two new ones, two requests, two GETs in flight, others who spend: what does the list say, who pays for what, when does a session keep its model? | pass |
| `WebAccess.cfg` | Two tabs with two calls each, two logins, an hour that passes, a restart with another secret: which logins are lost, and where does a session that is over end? | pass |
| `EventStream.cfg` | Answers of up to two texts and an end, cut in every way: is the text on the screen what can be read of the events, or else an error? | pass |
| `EventStreamText.cfg` | The same answers: is the text on the screen the text that was sent, as the format in the documentation implies? | violated |

The three violated runs are disagreements between code and documentation; `PROJECT.json` quotes
it under `findings`. In the first, the synchronisation replaces a config row by an equal one
with a new id; if an account was added by hand after the first start, the order of the pool
rotates at the next one. `SyncKeepsRoutes` states when it does not: when the config row is
unchanged, enabled and already the last; and `StickyWhileServing` that it takes a start. The
second: the server writes `data:` and the client looks for `data: ` (see EventStream above), so
a text whose lines do not start with a space never gets into the window, while the ledger and
the log have it; `ReadableArrives` states what does get there. The third: a message that goes
out before the history has loaded, or from a second window, takes no earlier turns along, and
the history, which is the context of the last row, does not have them from then on.
`WindowMatchesHistory` states when this does not happen.

Four more disagreements need no run to be seen. Nothing looks at the HTTP status of a streaming
call (`internal/proxy/providers/openai.go:95`), so a call that the upstream refuses looks like
an empty answer to the client, the ledger and the log (status `success`; only that status is
ever written), though `docs/api.md:168` lists a 502 for it and `internal/domain/types.go:57` a
status "error"; ProviderStream has the refusal (`Respond(TRUE)`), and `ChargedAsReported` says
that it costs nothing. `TryDeduct` tests that something is left, not that enough is left
(`internal/quota/repository.go:68`), though its comment says "if sufficient" and a test "shows
that TryDeduct prevents over-quota"; `OverspendBounded` has the bound that does hold.
`Repository.Save` does not insert `credential_id`, though `docs/Design.md:127` and migration 005
say that each log row has it. (Were it inserted, its foreign key would make the `DELETE` of the
synchronisation fail for every config row that has been used.) And `ListModels` "returns active
models" (`internal/model/handler.go:28`), but nothing reads `models.is_active`.

### Bounds and why they are enough

* Callers, pickers: two of each kind suffice for an interleaving between the two halves of an
  operation; the bound on the overspend is proved for any number.
* Requests: three, so that two can be admitted before the first is charged and a third arrives
  when the row is exhausted. `MaxInFlight` bounds how many are in progress. The
  run with faults has two: one that is settled when the process stops and one that comes after.
* Tokens: a row with two tokens left and a call of two or three cross the quota; usages with no
  tokens at all and totals that do not add up are included.
* `MaxFaults`, `MaxCrashes`, `MaxRestarts`, `MaxEdits` and `MaxPicks` bound failed statements,
  stops and edits. One crash reaches every state a crash can leave, since it clears everything
  but the tables; two restarts are needed for a synchronisation of what a synchronisation left.
  The counter passes the length of a pool of two, and with edits in between meets lists of one
  to four rows.
* Streams: three lines have room for text, a usage report that another one overrides, and an
  end; the pieces of text are empty, blank or a word, the counts zero, of input only or of both.
* Windows: two turns are enough for a settlement that is overtaken, a row that is lost and made
  up for, and a context that lacks a turn; two GETs in flight for an answer that is overtaken.
  Two users may name the same session, since session ids are the clients' choice.
* Pages: one model has a single token left, so that it can leave the list while it is the model
  of a session; the other does not run out, so what its requests cost makes no difference and is
  nothing (`Costs` is by row; the proofs are for any); two new sessions make room for a choice
  that leaves a session and for one more change; two GETs in flight let one overtake the other.
* Tabs: the second tab is what makes a late 401 possible; two calls let one be refused while
  another is under way; the first login can expire, and the second be the one that is lost.
  `MaxTime` is one hour, enough for the shortest lifetime to end and the default one not to.
* Events: two texts make every cut relative to two event boundaries; their lines start with a
  space or not, are empty, alone or doubled, and have a carriage return or a mark in them, which
  is what the encoding, the two levels of splitting and the callback look at.
* Hashes are fixed numbers: only their remainder by the length of the pool matters.
* Requests are symmetric in `GatewayQuota.cfg`, sessions in the runs of ChatWindow, and in
  `ChatWindow.cfg` also the two windows together with their users: these runs have no liveness
  properties. So are new sessions and GETs in `ChatPage.cfg`.

`CHECK_DEADLOCK FALSE` is said in the runs of Gateway, ProviderStream, ChatWindow, ChatPage and
EventStream: requests are one-shot, a stream ends, and turns are numbered up to a bound, so a
behaviour may come to the point where nothing is left to do.

### Fairness

`FairSpec` of Gateway asks for weak fairness of what the server and its database and upstreams
do by themselves: the synchronisation, the handler up to the reply, and the settlement. The Go
runtime schedules every goroutine; the HTTP client of the providers gives up after 120 seconds
(`openai.go:37`), so a provider call ends; a statement on the database ends or fails. Steps that
write to the client are not fair: the server has no write timeout, so a client may block them
for ever. Arrivals and crashes are not fair either. Hence `CompleteEnds` holds even if the
reply is never read, and nothing of the kind is claimed of streams there.

`FairSpec` of ProviderStream asks for weak fairness of the handler, except while a client stays
without reading (`HeldUp`). The HTTP client of the providers and the context of the request
(`c.Request.Context()`, which goes into the upstream request) end a read that gets nothing, and
writes to a closed connection return at once. `StreamEnds` says that every stream ends, with the
same exception; the upstream and the client owe nothing.

`FairSpec` of WebAccess asks for weak fairness of the middleware's answer to each call and of
the callback of an answered call, as the event loop of a browser runs them. Users, clocks,
restarts and a network that loses calls are not fair. `RefusalEndsAtLogin` (a page that calls
with a token that has expired, or that a restart with another secret has made worthless, gets to
the login page) therefore excepts tabs whose call was cut off (`interrupted`).

## 4. Proofs

All are checked by TLAPS for every value of the constants that satisfies the named assumptions
of the modules. Every invariant and action property that a passing run checks is stated by a
theorem; liveness is left to TLC.

| Module | Theorems |
|---|---|
| **QuotaCallersProofs** | `TypeCorrect`, `OverspendIsBounded`, `RefusalsAreFinal` |
| **GatewayProofs** | the same three with failures, settlements and crashes; `AnswersAreBilled`, `LogFollowsLedger`, `LedgerIsConserved`, `BooksAreBalanced`; `GatewayKeepsTheBooks`: Gateway implements the safety part of ChatAudit |
| **CredentialServiceProofs** | `TypeCorrect`, `ConfigRowsAlwaysMatch`, `ManualRowsAreKept`, `IndexAlwaysInRange`, `RoundRobinIsBalanced`, `SyncKeepsTheRoutes`, `StickyWhileItServes` |
| **ProviderStreamProofs** | `TypeCorrect`, `LogsAreTranscripts`, `TruncationIsReported`, `ChargesAsReported`, `TextsAreCharged`; `StreamsKeepTheContract`: ProviderStream implements StreamContract |
| **ChatWindowProofs** | `TypeCorrect`, `SessionsArePrivate`, `HistoryDoesNotRegress`, `WindowMatches` |
| **ChatPageProofs** | `TypeCorrect`, `ListingsAreOptimistic`, `PaysTheDisplayed`, `SessionsHaveOneModel` |
| **WebClientProofs** | of WebAccess: `TypeCorrect`, `LoginsLast`, `LoginsAreKept`; of EventStream: `EventIsRead`, `UnspacedIsLost`, `TextArrives` |
| **DataLemmas** | no property: the facts about products, sums, finite sets, numbers and sequences the others use |

### Assumptions

`DomainAssumption`, `QuotaAssumption`, `PoolAssumption`, `ServiceAssumption`,
`CallersAssumption`, `GatewayAssumption`, `StreamAssumption`, `HistoryAssumption`,
`WindowAssumption`, `PageAssumption`, `AuthAssumption`, `WebAssumption` and `AnswersAssumption`.
Most of what they say is typing: the tables begin with rows of their type, sets are finite where
they are counted, and a special value (`None`, `NoKey`, `NoModel`, `NoSession`, `NoTab`,
`NoToken`) is not an ordinary one. Five say more.

* No call costs more than `MaxTokens`; the bound on the overspend is stated in terms of it.
* The table of accounts begins with ids that differ, below the sequence (`SERIAL PRIMARY KEY`),
  and with at most one row labelled `config` for each model: only the synchronisation writes
  that label, and it deletes the rows that have it first.
* A window may have a GET in flight (`MaxLoads` is not zero); otherwise no session could be
  selected at all.
* A configured lifetime is a number of hours, not below zero.
* What an Anthropic upstream sends (the definition `AnthropicLines` of ProviderStream): its
  `message_start` reports at least one input token, since a request has
  at least one message. `anthropic.go:242-245` does not check this. `TextIsCharged` and
  `ImplementsContract`, and with them `TextsAreCharged` and `StreamsKeepTheContract`, rest on it:
  after a report of zero, a stream cut off before `message_delta` would show text for nothing.

### Arguments

The overspend: `OverspendBounded` is not inductive, since it says nothing of the requests that
have passed `Check` and are still to be charged. The strengthening `PromisesBounded` counts
`MaxTokens` for each of them next to what the row has used. `PassCheck` adds a promise to a row
it saw below its quota, and at most `MaxInFlight` promises can then exist (hence the second part
of `AdmissionInv`, `Cardinality(InFlight) <= MaxInFlight`). `SettleDeduct` trades a promise for
at most as many tokens. Everything else, a crash included, only takes promises away. A row that
starts above the ceiling is never admitted to, and keeps its first value: this is the other
half of `WithinEither`.

The refusal: quotas are never written and `used_tokens` never falls (`RowStep`), and a request
keeps its body, thus its key, once it has arrived (`StatusStep`). The type invariant has to be
strengthened by `Shape`, which says what a request holds at each point: a request that is being
settled has a body, a usage, and a row to charge.

Answers and bills: `AnswerAndBillAgree` is strengthened to `BillInv`, which says of every request,
whatever its status, how far its settlement must be, and of a settlement at any point which
statements it has tried. A row in the log thus implies a charge or a lost charge, which is
`LogFollowsCharge`. A crash moves requests to statuses and settlements that claim nothing.

The ledger: `LedgerConserved` is a sum over the requests charged to a row, and one charge adds
one request to one of these sums and its cost to one row (`LedgerStep`, with `SumExtend`); what
a charged request costs does not change afterwards (`SettledKept`). For `BooksBalance`, a row of
the log is what its request says (`LogInv`), so the sum over the rows is the sum over their
requests (`SumRename`), and those are the requests charged when nothing was lost and nothing is
under way (`BillInv`).

The refinement of ChatAudit: what a request is worth to it (its phase, account and bill) depends
on its `pc`, `job`, body and usage only, so a step of one request changes one entry of each
(`BooksMove`). Each action then is one of ChatAudit or a stutter; only a crash moves several
requests, and is `Clear`. `PassCheck` needs that quotas are never written (`QuotasKept`, of
`AdmissionInv`), and `SettleDeduct` that its row exists (`Shape`).

The pool: ids differ and stay below the sequence, whose value grows (`RowsInv`); there is one
config row per model (`OneConfigRow`), with the key last committed (`KeyInv`). A list a picker
holds is finite, not empty and of rows with ids of their own, though the table may have changed
since (`HeldInv`); ranks in such a list are the numbers below its length, each once
(`RankInRange`, `RankOneToOne`, `RankOnto`), so an index finds a row. For the balance, n picks
of a pool of length l are `q` rounds and `j` picks more (`RoundInv`): the accounts of rank below
`j` have served `q + 1` requests, the others `q`. The record of what was served is bounded, so
the ids must be: the sequence is drawn from at most once for an edit and once for a model at a
start (`DrawnInv`). For stickiness, a pin of this process is what the list of the table gives now
(`PinInv`), which `HeldInv` carries over the gap between `List` and `Choose`.

The streams: what is logged is the text of the lines read, what is shown is a beginning of it,
and all of it as long as the client is there (`StreamInv`). While the body is read, the counts
are those of the last report (`CountInv`), which is what each reader of a line changes or leaves
alone (`MaxNext`: the last of the lines read, and one more). `Settle` adds them up or counts
words, and what it owes is fixed by the lines read (`Owes`). A step maps to a text event, a
settlement, a failure or a stutter of StreamContract by cases of what it appends to `shown`.

The windows: turns are numbered in the order they are asked (`AskingInv`); reply, content and
row of a turn are what its settlement made of it (`TurnInv`). Every message anywhere, on
display, in a history in flight or in a request, was asked by the user it is shown to
(`OwnInv`), which gives `SessionsPrivate`. `WindowMatchesHistory` says something only of windows
at rest, and is strengthened to say what a window waits for (`CareInv`): a window that is used
with care has a stream or one GET, not both; while it streams it shows what the request took
along (`Streams`); a history it waits for is that of the session on display and is not out of
date (`Waits`); and at rest, what can be seen is what the last turn's row has or is going to
have (`Convo`), or the same with the answer as the stream gave it (`Heard`, after `StreamDone`);
this is `Agrees`, and `HeardIs` says that the two differ in the last message only. `Agrees`,
unlike the property, speaks of the last turn before its settlement too, which is what makes lost
rows of earlier turns harmless.

The page: `ListingIsOptimistic` needs little more than itself (`ListInv`), once `RowStep` says
that what is left of a row never grows. `ChargedAsDisplayed` is not inductive: a message whose
model is not the one on display may be sent, and what saves the user is the check. The
strengthening says that such a message (`~Honest`) was sent to a model the list left out, and a
model the list left out has nothing left (`PayInv`, with `ListInv`); `TopInv` says that the
selector shows a listed model when there is a list. Then `PassCheck` is impossible for it.
`OneModelPerSession` speaks of rows, and the one that breaks it is written long after the message
was sent. `ModelInv` therefore speaks of all turns that have a row or may get one (`Live`), says
that they are of one model in each session (`Uniform`), and that for a user who waits this is
the selected model whenever the page is ready (`Selected`), that the one history in flight is
that of the session on display (`OneLoad`), and that an answer in flight has its model
(`Answered`).

The logins: every token, wherever it is, was signed for an hour at least (`GoodForAnHour`),
since a lifetime of zero is replaced by 24 hours; that is `LoginLasts`. For `LoginKept`, the calls
that a tab has in flight carry the stored token if it is this tab that stored it (`Carries`),
because the page is loaded anew when the token is stored. `TypeOK` has to say that a call or a
login belongs to the page that is shown.

The text: what `split` leaves over at the end of some bytes has no blank line in it
(`RestWhole`), so cutting what is left over together with the next bytes finds the same parts as
cutting all of them at once (`BlanksConcat`). The event of a text is one part with nothing left
over (`EventIs`), and the lines of that part are the fields of the event (`BodyLines`). Of a field
the callback takes a line that starts with a space, without it, and nothing else (`TakeField`).
Hence `EventIsRead`: of one event it reads `ReadableText`, unless the sentinel is what it reads of
a line; and `UnspacedIsLost`: of a text without lines that start with a space it reads nothing.
`ReadableArrives` speaks of the end of a stream only. The strengthening `StreamInv` says at any
time that the parts taken so far, followed by those in the bytes that are held back or on the
way, are the bodies of the events of the answer, with nothing left over, and that what was
accumulated is what is readable of the parts taken (`Clean`), unless an error took its place
(`Marked`). That needs a mark among the bytes on the way, thus in a text of the answer
(`EventCalm`, `WireIs`). The loops of the callback stop at the sentinel for the rest of one piece
of data only, so the texts of two pieces can be put together only if no part has it (`Silent`,
`TextOfParts`); this is where the exception `HasSentinel` comes from. It means a line ` [DONE]`,
with the space: the `[DONE]` that servers send is not read as the sentinel.

### How induction is replaced

The induction theorems of the library take an operator as a parameter, which the installed
provers cannot instantiate. `SubsetInduction` and `UpTo` of DataLemmas state induction over a
finite set and up to a number for a *set* `T` instead, the set of the cases that are right: the
first by a minimal counterexample (strict inclusion of finite sets is well-founded), the second
by the least one. `SeqInduction` does the same for sequences, which grow at their end. Sums
(`SumFunctionOnSet` of the community modules) and concatenations (`FlattenSeq`), and `Visible`
of SessionHistory, are defined by a local recursive function, that is, as `CHOOSE f : f =
[...]`. To reason about one, its recursion is first shown to have a solution (`SumFcnSolves`,
and the like for the others), by that induction; then one step of it is the defining equation. A
loop (`FoldLeft`) is treated alike (`LoopFcnSolves`), and known from then on by two facts: what
it gives for no element, and for one element more (`LoopEmpty`, `LoopAppend`). Everything about
the event stream is an induction over the bytes, lines, parts or texts on these two.

### Only model-checked

* Liveness: `SettlementEnds`, `CompleteEnds`, the fairness part of `ImplementsAudit` (its safety
  part is `GatewayKeepsTheBooks`), `StreamEnds` and `RefusalEndsAtLogin`. The prover has no
  rules for fairness and `ENABLED`.
* The three violated runs, which are counterexamples.

## 5. What is not modelled, and limits

* Quota resets: `reset_period` and `reset_date` are read and never used, so a behaviour runs
  between two interventions of an administrator on `user_quotas`.
* Widths: counts are `int` and the columns `BIGINT` and `INT`; no realistic usage overflows, and
  usages are natural numbers (a provider that reports negative ones is not considered).
* An error of `Deduct` that comes although the statement took effect is the same step as a
  success, because the code ignores the error.
* Reading the configuration file, the connection pool, wiring, deployment: see the notes in
  `PROJECT.json`. Of authentication, the signature is the library's: a token is accepted if it
  was signed with the secret in force. An `expire_hours` below zero is not considered.
* Providers: the request bodies sent upstream (`toAnthropicMessages` keeps the last system
  message and drops earlier ones), and lines longer than 512 KB beyond the read
  error they cause. A stream sees one read error where HTTP has several.
* Sessions: ids that are not UUIDs (stored as the nil UUID) and malformed `request_messages`,
  which no code writes. `request_at` is unique in the model; PostgreSQL keeps microseconds.
* Web client: the composition of ChatWindow, ChatPage, WebAccess and EventStream, which share
  little (each leaves out what the others have); a reload of the page in the middle of a stream;
  the double effects of React's development mode. In EventStream, what follows a line
  ` [DONE]` of a text is left open: the callback drops the rest of the piece of data it is in, and
  takes up again with the next one. In ChatPage a settlement is one step, either statement of
  which may fail; that the two are apart is in Gateway.
* Read replicas (mentioned in a comment of `Repository.Get`): the deployment has one database.

## 6. Plan

1. Proofs: a theorem that Gateway implements a contract of streams (4).
2. Sessions whose ids are not UUIDs in SessionHistory, with the histories they share.
3. A bounded variant of ChatWindow with reloads of the page, which abort the stream.
4. StreamContract as the stream half of Gateway too, so that one contract joins both.
