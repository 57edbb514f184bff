----------------------------- MODULE EventStream -----------------------------
(***************************************************************************)
(* How the answer of a stream gets into the window: gin encodes each piece *)
(* of text as an event, the network cuts the bytes anywhere, and the       *)
(* callback of useStream.ts puts together what chatStream hands it.        *)
(*                                                                         *)
(* The two disagree: gin (gin-contrib/sse v0.1.0) writes "data:" and the   *)
(* text, the callback takes lines that start with "data: " only, with a    *)
(* space.  What it takes are the lines of the text that start with one.    *)
(*                                                                         *)
(* Texts and bytes are sequences of symbols: "d" is "data:", "s" a space,  *)
(* "n" a line break, "r" a carriage return, "D" the sentinel [DONE], "E"   *)
(* the mark [ERROR] and "t" any other text.                                *)
(***************************************************************************)
EXTENDS Integers, SequencesExt

CONSTANTS Answers     \* the sequences of texts that servers send

Text == Seq({"t", "s", "n", "r", "D", "E"})
Symbol == {"t", "s", "n", "D", "E", "d"}
Bytes == Seq(Symbol)

ASSUME AnswersAssumption == Answers \subseteq Seq(Text)

VARIABLES sent,         \* the texts of this answer
          wire,         \* what is left of its bytes
          status,       \* "asked", "open", "done" or "failed"
          partial,      \* the bytes of an event that is not complete
          accumulated   \* the text so far

eventVars == <<sent, wire, status, partial, accumulated>>

\* A loop over s, which starts with base.
Loop(step, base, s) == FoldLeft(LAMBDA state, x : step[state][x], base, s)

\* String.split: the parts found, and what may become one more.
Cut == [parts : Seq(Bytes), rest : Bytes]
Uncut == [parts |-> <<>>, rest |-> <<>>]

CutAtBreak == [c \in Cut |-> [x \in Symbol |->
  IF x = "n" THEN [parts |-> Append(c.parts, c.rest), rest |-> <<>>]
  ELSE [parts |-> c.parts, rest |-> Append(c.rest, x)]]]

CutAtBlank == [c \in Cut |-> [x \in Symbol |->
  IF x = "n" /\ c.rest # <<>> /\ Last(c.rest) = "n"
  THEN [parts |-> Append(c.parts, Front(c.rest)), rest |-> <<>>]
  ELSE [parts |-> c.parts, rest |-> Append(c.rest, x)]]]

Lines(s) == LET c == Loop(CutAtBreak, Uncut, s) IN Append(c.parts, c.rest)

Join(lines) == Front(FlattenSeq([i \in DOMAIN lines |-> Append(lines[i], "n")]))

\* SSEvent: each line of the text is a data field, without a space before it, and a
\* blank line ends the event.  A carriage return is written as a backslash and an r.
Field(line) == <<"d">> \o line \o <<"n">>
Escaped(text) == [i \in DOMAIN text |-> IF text[i] = "r" THEN "t" ELSE text[i]]
Encode(text) == LET lines == Lines(Escaped(text))
                IN  FlattenSeq([i \in DOMAIN lines |-> Field(lines[i])]) \o <<"n">>

EventInit ==
  /\ sent \in Answers
  /\ wire = FlattenSeq([i \in DOMAIN sent |-> Encode(sent[i])])
  /\ status = "asked"
  /\ partial = <<>> /\ accumulated = <<>>
-----------------------------------------------------------------------------
\* One event: the data of its lines up to the sentinel, if any.  The prefix of a line
\* with data is "data: ".
Sentinel == <<"D">>
Spaced(line) == line # <<>> /\ Head(line) = "s"
IsData(line) == line # <<>> /\ Head(line) = "d" /\ Spaced(Tail(line))
DataIn(line) == Tail(Tail(line))

Data == [lines : Seq(Bytes), done : BOOLEAN]
TakeLine == [e \in Data |-> [line \in Bytes |->
  IF e.done \/ ~IsData(line) THEN e
  ELSE IF DataIn(line) = Sentinel THEN [lines |-> e.lines, done |-> TRUE]
  ELSE [lines |-> Append(e.lines, DataIn(line)), done |-> FALSE]]]
DataOf(part) == Loop(TakeLine, [lines |-> <<>>, done |-> FALSE], Lines(part))

\* The text of whole events, up to the first with the sentinel.
Taken == [text : Bytes, done : BOOLEAN]
TakePart == [a \in Taken |-> [part \in Bytes |->
  IF a.done THEN a
  ELSE [text |-> a.text \o Join(DataOf(part).lines), done |-> DataOf(part).done]]]
TextOf(parts) == Loop(TakePart, [text |-> <<>>, done |-> FALSE], parts).text

IsError(raw) == raw # <<>> /\ Head(raw) = "E"

\* Wrong callback: the tail of a piece of data is not kept for the next one.
OnChunkWithoutTail(raw) ==
  LET cut == Loop(CutAtBlank, Uncut, raw)
  IN  IF IsError(raw) THEN accumulated' = raw /\ UNCHANGED partial
      ELSE accumulated' = accumulated \o TextOf(cut.parts) /\ UNCHANGED partial

\* The callback of useStream.  What is left of the last event waits for more.  Data
\* that starts with the mark is taken for an error of chatStream, and replaces all.
OnChunk(raw) ==
  LET cut == Loop(CutAtBlank, Uncut, partial \o raw)
  IN  IF IsError(raw) THEN accumulated' = raw /\ UNCHANGED partial
      ELSE accumulated' = accumulated \o TextOf(cut.parts) /\ partial' = cut.rest

Respond == /\ status = "asked"
           /\ status' = "open"
           /\ UNCHANGED <<sent, wire, partial, accumulated>>

\* reader.read returns some of the bytes.
ReadBytes(k) == /\ status = "open"
                /\ OnChunk(SubSeq(wire, 1, k))
                /\ wire' = SubSeq(wire, k + 1, Len(wire))
                /\ UNCHANGED <<sent, status>>

EndOfBody == /\ status = "open" /\ wire = <<>>
             /\ status' = "done"
             /\ UNCHANGED <<sent, wire, partial, accumulated>>

\* A status other than 200, or a connection that breaks, at any time.
Fail == /\ status \in {"asked", "open"}
        /\ OnChunk(<<"E", "t">>)
        /\ status' = "failed"
        /\ UNCHANGED <<sent, wire>>

EventNext == Respond \/ (\E k \in 1..Len(wire) : ReadBytes(k)) \/ EndOfBody \/ Fail

EventSpec == EventInit /\ [][EventNext]_eventVars
-----------------------------------------------------------------------------
\* What is readable of a text, all its events taken one by one: its lines that start
\* with a space, without it.
Readable(line) == IF Spaced(line) THEN <<Tail(line)>> ELSE <<>>
ReadableText(text) == LET lines == Lines(Escaped(text))
                      IN  Join(FlattenSeq([i \in DOMAIN lines |-> Readable(lines[i])]))

HasError == \E i \in DOMAIN sent : Contains(sent[i], "E")

\* A text with a line that the callback takes for the sentinel.
HasSentinel == \E i \in DOMAIN sent : Contains(Lines(Escaped(sent[i])), <<"s", "D">>)

\* However the network cuts the bytes, the window ends up with the same text: the
\* readable one of each event, in their order.  Only an error may replace it: one of
\* the call always does, and the mark [ERROR] in an event or in a text does if the
\* bytes are cut right before it.  What follows a line " [DONE]" is left open.
ReadableArrives ==
  /\ status = "failed" => accumulated = <<"E", "t">>
  /\ status = "done" /\ ~HasSentinel =>
       \/ accumulated = FlattenSeq([i \in DOMAIN sent |-> ReadableText(sent[i])])
       \/ HasError /\ accumulated # <<>> /\ Head(accumulated) = "E"

\* docs/api.md: with stream=true the text comes piece by piece in lines "data: ...",
\* the format from gin by the comment of useStream.ts.  Then a call that is answered
\* without an error shows the text that was sent.
TextAsSent ==
  status = "done" /\ ~HasError =>
    accumulated = FlattenSeq([i \in DOMAIN sent |->
                                IF sent[i] = Sentinel THEN <<>> ELSE sent[i]])
=============================================================================
