--------------------------- MODULE ProviderStream ---------------------------
(***************************************************************************)
(* One streaming call, from the provider's request to the settlement it    *)
(* hands over: Stream of the OpenAI-compatible, the Anthropic and the mock *)
(* provider.  The first two forward the upstream's text as it arrives and  *)
(* pick the token counts out of the same lines; the mock sends the words   *)
(* of its own reply.                                                       *)
(*                                                                         *)
(* Three parties take steps: the upstream, which sends lines and closes    *)
(* the body; the handler, which reads them; the client, which may stop     *)
(* reading, and may leave.  Writes to a client that stopped reading block  *)
(* once the buffers on the way are full, and for as long as it stays, for  *)
(* the server has no write timeout.  Leaving cancels the request's         *)
(* context, so the handler's next read fails sooner or later, but not at   *)
(* once: lines already buffered are still read.  What becomes of a         *)
(* settlement is the subject of module Gateway, whose StreamFails and      *)
(* StreamEnds are this module in one step.                                 *)
(*                                                                         *)
(* A text is a sequence over {"w", " "}: all that counting words tells     *)
(* apart.  A message of the request is its role and its number of words.   *)
(***************************************************************************)
EXTENDS Integers, SequencesExt

CONSTANTS Prompts,     \* the messages of requests: sequences of Message
          Texts,       \* the pieces of text upstreams send
          Usages,      \* the usage reports: records of input and output
          MaxLines,    \* bound on the lines an upstream sends
          None         \* no usage report, no settlement

Message == [role : {"system", "user", "assistant"}, words : Nat]
Space == " "
Text == Seq({"w", Space})
Usage == [input : Nat, output : Nat]
Settlement == [content : Text, input : Nat, output : Nat, total : Nat]

ASSUME StreamAssumption ==
  /\ Prompts \subseteq Seq(Message)
  /\ Texts \subseteq Text
  /\ Usages \subseteq Usage
  /\ MaxLines \in Nat
  /\ None \notin Usages /\ None \notin Settlement

\* Lines without a data field, without JSON in it or with an error object.
Ignored == [event |-> "other"]

\* The lines of an OpenAI-compatible upstream: usage comes in any chunk or none.
OpenAILines == {Ignored, [event |-> "[DONE]"]}
                 \cup [event : {"chunk"}, text : Texts, usage : Usages \cup {None}]

\* The lines of the Anthropic upstream.  A message has at least one input token.
AnthropicLines == {Ignored, [event |-> "message_stop"]}
                    \cup [event : {"message_start"}, input : {u.input : u \in Usages} \ {0}]
                    \cup [event : {"text_delta"}, text : Texts]
                    \cup [event : {"message_delta"}, output : {u.output : u \in Usages}]

Lines == [openai |-> OpenAILines, anthropic |-> AnthropicLines, mock |-> {}]

VARIABLES kind,        \* the provider
          messages,    \* the messages of the request
          phase,       \* where the handler is
          refused,     \* the upstream answered with an HTTP error
          wire,        \* the lines the upstream sent
          closed,      \* it sent all it had to
          taken,       \* how many of them the handler read
          open,        \* the client is still there
          stalled,     \* it has stopped reading for good
          shown,       \* the events written to it
          content,     \* fullContent: the text so far
          input, output, \* inputTokens, outputTokens
          settlement   \* what the goroutine at the end is started with

upstream == <<refused, wire, closed>>
client == <<open, stalled>>
vars == <<kind, messages, phase, upstream, taken, client, shown, content, input, output,
          settlement>>

Event == [mark : {"text"}, text : Text] \cup [mark : {"[DONE]", "[ERROR]"}]

TypeOK ==
  /\ kind \in DOMAIN Lines
  /\ messages \in Prompts
  /\ phase \in {"request", "read", "ended", "failed"}
  /\ refused \in BOOLEAN /\ closed \in BOOLEAN
  /\ open \in BOOLEAN /\ stalled \in BOOLEAN
  /\ wire \in Seq(Lines[kind]) /\ Len(wire) <= MaxLines
  /\ taken \in 0..Len(wire)
  /\ shown \in Seq(Event)
  /\ content \in Text
  /\ input \in Nat /\ output \in Nat
  /\ settlement \in {None} \cup Settlement

\* len(strings.Fields(t)): the words of a text.
Fields(t) == Cardinality({i \in DOMAIN t : t[i] = "w" /\ (i > 1 => t[i - 1] = Space)})

Init ==
  /\ kind \in DOMAIN Lines
  /\ messages \in Prompts
  /\ phase = IF kind = "mock" THEN "read" ELSE "request"
  /\ refused = FALSE
  /\ wire = <<>>
  /\ closed = FALSE
  /\ taken = 0
  /\ open = TRUE /\ stalled = FALSE
  /\ shown = <<>>
  /\ content = <<>>
  /\ input = 0 /\ output = 0
  /\ settlement = None
-----------------------------------------------------------------------------
(***************************************************************************)
(* The client and the upstream.                                            *)
(***************************************************************************)
Leave == /\ open
         /\ open' = FALSE
         /\ UNCHANGED <<kind, messages, phase, upstream, taken, stalled, shown, content, input,
                        output, settlement>>

Stall == /\ open /\ ~stalled
         /\ stalled' = TRUE
         /\ UNCHANGED <<kind, messages, phase, upstream, taken, open, shown, content, input,
                        output, settlement>>

\* A call that was refused has a body of one JSON object and no events.
Send(l) == /\ phase = "read" /\ ~closed /\ Len(wire) < MaxLines
           /\ refused => l = Ignored
           /\ wire' = Append(wire, l)
           /\ UNCHANGED <<kind, messages, phase, refused, closed, taken, client, shown, content,
                          input, output, settlement>>

Close == /\ phase = "read" /\ kind # "mock" /\ ~closed
         /\ closed' = TRUE
         /\ UNCHANGED <<kind, messages, phase, refused, wire, taken, client, shown, content,
                        input, output, settlement>>
-----------------------------------------------------------------------------
(***************************************************************************)
(* The handler.  onChunk writes an event, which a client that left does    *)
(* not see.                                                                *)
(***************************************************************************)
OnChunk(e) == shown' = IF open THEN Append(shown, e) ELSE shown

Deliver(t) == /\ content' = content \o t
              /\ OnChunk([mark |-> "text", text |-> t])

Nothing == UNCHANGED <<content, shown>>

\* doRequest returns an error: the client is told, and that is all.
RequestFails ==
  /\ phase = "request"
  /\ OnChunk([mark |-> "[ERROR]"])
  /\ phase' = "failed"
  /\ UNCHANGED <<kind, messages, upstream, taken, client, content, input, output, settlement>>

\* doRequest returns a response; nobody looks at its status code.
Respond(r) ==
  /\ phase = "request"
  /\ refused' = r
  /\ phase' = "read"
  /\ UNCHANGED <<kind, messages, wire, closed, taken, client, shown, content, input, output,
                 settlement>>

Scan(e) == /\ phase = "read" /\ taken < Len(wire)
           /\ wire[taken + 1].event = e
           /\ taken' = taken + 1
           /\ UNCHANGED <<kind, messages, phase, upstream, client, settlement>>

Line == wire[taken + 1]

Skip == Scan("other") /\ Nothing /\ UNCHANGED <<input, output>>

\* Both sentinels become the client's; the reading goes on.
ScanDone == /\ Scan("[DONE]") \/ Scan("message_stop")
            /\ OnChunk([mark |-> "[DONE]"])
            /\ UNCHANGED <<content, input, output>>

\* A wrong chunk, for testing the properties: usage reports add up.
ScanChunkSumsUsage ==
  /\ Scan("chunk")
  /\ IF Line.usage = None THEN UNCHANGED <<input, output>>
     ELSE input' = input + Line.usage.input /\ output' = output + Line.usage.output
  /\ IF Line.text = <<>> THEN Nothing ELSE Deliver(Line.text)

ScanChunk == /\ Scan("chunk")
             /\ IF Line.usage = None THEN UNCHANGED <<input, output>>
                ELSE input' = Line.usage.input /\ output' = Line.usage.output
             /\ IF Line.text = <<>> THEN Nothing ELSE Deliver(Line.text)

ScanStart == Scan("message_start") /\ input' = Line.input /\ Nothing /\ UNCHANGED output

ScanText == Scan("text_delta") /\ Deliver(Line.text) /\ UNCHANGED <<input, output>>

ScanDelta == Scan("message_delta") /\ output' = Line.output /\ Nothing /\ UNCHANGED input

\* A wrong estimate: only for a body that was closed.
EstimateIfClosed ==
  IF kind = "openai" /\ closed /\ input = 0 /\ output = 0 THEN Fields(content) ELSE output

\* The words of a stream without counts stand in for its output tokens.
Estimate == IF kind = "openai" /\ input = 0 /\ output = 0 THEN Fields(content) ELSE output

\* A wrong settlement: input tokens are taken off.
SettleDifference ==
  /\ output' = Estimate
  /\ settlement' = [content |-> content, input |-> input, output |-> output',
                    total |-> output' - input]
  /\ phase' = "ended"
  /\ UNCHANGED <<kind, messages, upstream, taken, client, content, input>>

\* The end of streamWithWriter: what goes into Deduct and Save.
Settle == /\ output' = Estimate
          /\ settlement' = [content |-> content, input |-> input, output |-> output',
                            total |-> input + output']
          /\ phase' = "ended"
          /\ UNCHANGED <<kind, messages, upstream, taken, client, content, input>>

EndOfBody == /\ phase = "read" /\ closed /\ taken = Len(wire)
             /\ Settle
             /\ UNCHANGED shown

\* Wrong failures: one does not check scanner.Err, one is not caused by leaving.
ReadFailsSilently == /\ phase = "read" /\ kind # "mock"
                     /\ Settle
                     /\ UNCHANGED shown
ReadFailsIfOpen == /\ phase = "read" /\ kind # "mock" /\ open
                   /\ OnChunk([mark |-> "[ERROR]"])
                   /\ Settle

\* A wrong failure: handled as a failed request, after text was passed on.
ReadFailsUnsettled == /\ phase = "read" /\ kind # "mock"
                      /\ OnChunk([mark |-> "[ERROR]"])
                      /\ phase' = "failed"
                      /\ UNCHANGED <<kind, messages, upstream, taken, client, content, input,
                                     output, settlement>>

\* The connection breaks, 120 s are over, a line is too long, or the client left.
ReadFails == /\ phase = "read" /\ kind # "mock"
             /\ OnChunk([mark |-> "[ERROR]"])
             /\ Settle
-----------------------------------------------------------------------------
(***************************************************************************)
(* The mock: "[mock:model] echo: " and the last user message, word by word.*)
(* It has no upstream to fail, and does not look at the context.           *)
(***************************************************************************)
ReplyWords ==
  LET asked == {i \in DOMAIN messages : messages[i].role = "user"}
  IN  2 + IF asked = {} THEN 0 ELSE messages[Max(asked)].words

InputWords == SumFunction([i \in DOMAIN messages |-> messages[i].words])

\* A wrong word: the space after it is kept, but not sent.
MockWordUnspaced ==
  /\ kind = "mock" /\ phase = "read" /\ Fields(content) < ReplyWords
  /\ content' = content \o <<"w", Space>>
  /\ OnChunk([mark |-> "text", text |-> <<"w">>])
  /\ UNCHANGED <<kind, messages, phase, upstream, taken, client, input, output, settlement>>

MockWord ==
  /\ kind = "mock" /\ phase = "read" /\ Fields(content) < ReplyWords
  /\ Deliver(<<"w", Space>>)
  /\ UNCHANGED <<kind, messages, phase, upstream, taken, client, input, output, settlement>>

MockEnd ==
  /\ kind = "mock" /\ phase = "read" /\ Fields(content) = ReplyWords
  /\ OnChunk([mark |-> "[DONE]"])
  /\ input' = InputWords
  /\ output' = ReplyWords
  /\ settlement' = [content |-> content, input |-> input', output |-> output',
                    total |-> input' + output']
  /\ phase' = "ended"
  /\ UNCHANGED <<kind, messages, upstream, taken, client, content>>
-----------------------------------------------------------------------------
Handler == \/ RequestFails \/ (\E r \in BOOLEAN : Respond(r))
           \/ Skip \/ ScanDone \/ ScanChunk \/ ScanStart \/ ScanText \/ ScanDelta
           \/ EndOfBody \/ ReadFails
           \/ MockWord \/ MockEnd

Next == Leave \/ Stall \/ (\E l \in Lines[kind] : Send(l)) \/ Close \/ Handler

Spec == Init /\ [][Next]_vars

(***************************************************************************)
(* Fairness: the context and the 120 s of the http client end a read that  *)
(* gets nothing, and the scheduler runs a handler that can run.  Nothing   *)
(* ends a write to a client that stays without reading: its handler may    *)
(* stand still for ever.                                                   *)
(***************************************************************************)
HeldUp == open /\ stalled

FairSpec == Spec /\ WF_vars(~HeldUp /\ Handler)
-----------------------------------------------------------------------------
(***************************************************************************)
(* The properties.                                                         *)
(***************************************************************************)
Settled == settlement # None

\* The lines the handler read that report on a count or hold text.
Read(e) == {i \in 1..taken : wire[i].event = e}
Reports == {i \in Read("chunk") : wire[i].usage # None}
LastOf(S, f(_), default) == IF S = {} THEN default ELSE f(wire[Max(S)])

TextRead ==
  FlattenSeq([i \in 1..taken |-> IF i \in Read("chunk") \cup Read("text_delta")
                                 THEN wire[i].text ELSE <<>>])

TextShown ==
  FlattenSeq([i \in DOMAIN shown |-> IF shown[i].mark = "text" THEN shown[i].text ELSE <<>>])

Marked(m) == \E i \in DOMAIN shown : shown[i].mark = m

ReportedUsage ==
  CASE kind = "openai" ->
         LET in(l) == l.usage.input
             out(l) == l.usage.output
         IN  [input |-> LastOf(Reports, in, 0), output |-> LastOf(Reports, out, 0)]
    [] kind = "anthropic" ->
         LET in(l) == l.input
             out(l) == l.output
         IN  [input |-> LastOf(Read("message_start"), in, 0),
              output |-> LastOf(Read("message_delta"), out, 0)]
    [] kind = "mock" -> [input |-> InputWords, output |-> Fields(content)]

\* A stream is charged by the last counts the upstream reported before it ended,
\* however it ended; an OpenAI-compatible one without any, by its words.
ChargedAsReported ==
  Settled =>
    LET u == ReportedUsage
        unreported == kind = "openai" /\ u.input + u.output = 0
    IN  settlement.total = IF unreported THEN Fields(TextRead) ELSE u.input + u.output

\* Nobody reads words for nothing: a client that got some is charged something,
\* though it left or the stream broke, unless Anthropic never started a message.
TextIsCharged ==
  phase \in {"ended", "failed"} /\ Fields(TextShown) > 0 =>
    \/ Settled /\ settlement.total > 0
    \/ kind = "anthropic" /\ Read("message_start") = {}

\* The audit log has the text of every line that was read: what a client that
\* stayed saw, and the continuation of what one that left saw.
LogIsTranscript ==
  Settled =>
    /\ kind # "mock" => settlement.content = TextRead
    /\ IsPrefix(TextShown, settlement.content)
    /\ open => TextShown = settlement.content

\* A client that stayed can tell a stream that broke off from a complete one: if
\* the handler gave up before the end of the body, [ERROR] is its last event.
TruncationReported ==
  phase = "ended" /\ kind # "mock" /\ open /\ ~(closed /\ taken = Len(wire)) =>
    shown # <<>> /\ Last(shown).mark = "[ERROR]"

\* Every stream comes to its end: an upstream that falls silent does not keep it,
\* nor does a client that left, in the middle of a write or before; only a client
\* that stays and does not read holds it up, and with it what it owes.
StreamEnds == []<>(phase \in {"ended", "failed"} \/ HeldUp)

\* A stream keeps the bookkeeper's contract: it fails owing nothing only if no text
\* was shown, settles once for a record with all it showed, and then shows no more.
Contract == INSTANCE StreamContract WITH
              state <- CASE phase = "ended" -> "settled"
                         [] phase = "failed" -> "failed"
                         [] OTHER -> "open",
              text <- TextShown,
              record <- settlement,
              NoRecord <- None
ImplementsContract == Contract!Spec
=============================================================================
