------------------------ MODULE ProviderStreamProofs ------------------------
(***************************************************************************)
(* For any prompts, texts and usage reports, any number of lines, and any  *)
(* order of the steps of upstream, handler and client: what a stream       *)
(* charges and records is what was reported, read and shown, and it keeps  *)
(* the bookkeeper's contract.                                              *)
(***************************************************************************)
EXTENDS ProviderStream, DataLemmas

-----------------------------------------------------------------------------
(***************************************************************************)
(* Texts.                                                                  *)
(***************************************************************************)
LEMMA TextConcat ==
  ASSUME NEW t \in Text, NEW u \in Text
  PROVE  t \o u \in Text
BY ConcatProperties DEF Text

LEMMA TextEmpty == <<>> \in Text
BY EmptySeq DEF Text

LEMMA TextConcatEmpty ==
  ASSUME NEW t \in Text
  PROVE  t \o <<>> = t /\ <<>> \o t = t
BY ConcatEmptySeq DEF Text

\* A prefix, as one expects it.
LEMMA PrefixIs ==
  ASSUME NEW t \in Text, NEW u \in Text
  PROVE  IsPrefix(t, u) <=> Len(t) <= Len(u) /\ \A i \in 1..Len(t) : t[i] = u[i]
<1>1. Len(t) \in Nat /\ Len(u) \in Nat
  BY LenProperties DEF Text
<1> SUFFICES ASSUME Len(t) <= Len(u)
             PROVE  SubSeq(t, 1, Len(t)) = SubSeq(u, 1, Len(t))
                      <=> \A i \in 1..Len(t) : t[i] = u[i]
  BY DEF IsPrefix
<1> DEFINE a == SubSeq(t, 1, Len(t))
           b == SubSeq(u, 1, Len(t))
<1>2. /\ a \in Seq({"w", Space}) /\ Len(a) = Len(t)
      /\ \A i \in 1..Len(t) : a[i] = t[i]
  <2>1. a = t
    BY SubSeqFull DEF Text
  <2> QED
    BY <2>1 DEF Text
<1>3. /\ b \in Seq({"w", Space}) /\ Len(b) = Len(t)
      /\ \A i \in 1..Len(t) : b[i] = u[i]
  <2>1. /\ b \in Seq({"w", Space})
        /\ Len(b) = IF 1 <= Len(t) THEN Len(t) - 1 + 1 ELSE 0
        /\ \A i \in 1..(Len(t) - 1 + 1) : b[i] = u[1 + i - 1]
    <3>1. \A i \in 1..Len(t) : i \in 1..Len(u)
      BY <1>1
    <3>2. \A i \in 1..Len(t) : u[i] \in {"w", Space}
      BY <3>1, ElementOfSeq DEF Text
    <3> QED
      BY <1>1, <3>2, SubSeqProperties DEF Text
  <2> HIDE DEF b
  <2> QED
    BY <1>1, <2>1
<1> HIDE DEF a, b
<1>4. a = b <=> \A i \in 1..Len(t) : a[i] = b[i]
  <2>1. Len(a) = Len(b)
    BY <1>2, <1>3
  <2> QED
    BY <1>2, <1>3, <2>1, SeqEqual
<1> QED
  BY <1>2, <1>3, <1>4 DEF a, b

LEMMA PrefixSame == ASSUME NEW t \in Text PROVE IsPrefix(t, t)
BY LenProperties DEF IsPrefix, Text

LEMMA PrefixConcat ==
  ASSUME NEW t \in Text, NEW u \in Text, NEW v \in Text, IsPrefix(t, u)
  PROVE  IsPrefix(t, u \o v)
<1>1. /\ u \o v \in Text /\ Len(u \o v) = Len(u) + Len(v)
      /\ \A i \in 1..(Len(u) + Len(v)) :
           (u \o v)[i] = IF i <= Len(u) THEN u[i] ELSE v[i - Len(u)]
  BY TextConcat, ConcatProperties DEF Text
<1>2. Len(t) \in Nat /\ Len(u) \in Nat /\ Len(v) \in Nat
  BY LenProperties DEF Text
<1>3. Len(t) <= Len(u) /\ \A i \in 1..Len(t) : t[i] = u[i]
  BY PrefixIs
<1>4. Len(t) <= Len(u \o v)
  BY <1>1, <1>2, <1>3
<1>5. ASSUME NEW i \in 1..Len(t) PROVE t[i] = (u \o v)[i]
  <2>1. i \in 1..(Len(u) + Len(v)) /\ i <= Len(u)
    BY <1>2, <1>3
  <2> QED
    BY <1>1, <1>3, <2>1
<1> QED
  BY <1>1, <1>4, <1>5, PrefixIs

\* The words of a text are as many as their beginnings.
WordsAt(t) == {i \in DOMAIN t : t[i] = "w" /\ (i > 1 => t[i - 1] = Space)}

LEMMA FieldsType ==
  ASSUME NEW t \in Text
  PROVE  IsFiniteSet(WordsAt(t)) /\ Fields(t) = Cardinality(WordsAt(t)) /\ Fields(t) \in Nat
<1>1. DOMAIN t = 1..Len(t) /\ Len(t) \in Nat
  BY LenProperties DEF Text
<1>2. IsFiniteSet(1..Len(t)) /\ WordsAt(t) \subseteq 1..Len(t)
  BY <1>1, FS_Interval DEF WordsAt
<1>3. IsFiniteSet(WordsAt(t))
  BY <1>2, FS_Subset
<1>4. Cardinality(WordsAt(t)) \in Nat
  BY <1>3, FS_CardinalityType
<1> QED
  BY <1>3, <1>4 DEF Fields, WordsAt

\* A longer text has no fewer words.
LEMMA FieldsMonotone ==
  ASSUME NEW t \in Text, NEW u \in Text, IsPrefix(t, u)
  PROVE  Fields(t) <= Fields(u)
<1>1. /\ DOMAIN t = 1..Len(t) /\ DOMAIN u = 1..Len(u)
      /\ Len(t) \in Nat /\ Len(u) \in Nat
  BY LenProperties DEF Text
<1>2. Len(t) <= Len(u) /\ \A i \in 1..Len(t) : t[i] = u[i]
  BY PrefixIs
<1>3. WordsAt(t) \subseteq WordsAt(u)
  <2> SUFFICES ASSUME NEW i \in 1..Len(t), t[i] = "w", i > 1 => t[i - 1] = Space
               PROVE  i \in 1..Len(u) /\ u[i] = "w" /\ (i > 1 => u[i - 1] = Space)
    BY <1>1 DEF WordsAt
  <2>1. i \in 1..Len(u) /\ (i > 1 => i - 1 \in 1..Len(t))
    BY <1>1, <1>2
  <2> QED
    BY <1>2, <2>1
<1> QED
  BY <1>3, FieldsType, FS_Subset

LEMMA FieldsEmpty == Fields(<<>>) = 0
<1>1. WordsAt(<<>>) = {}
  BY DEF WordsAt
<1> QED
  BY <1>1, FieldsType, TextEmpty, FS_EmptySet
\* Texts one after another.
LEMMA TextsFlatten ==
  ASSUME NEW m \in Seq(Text)
  PROVE  /\ FlattenSeq(m) \in Text
         /\ \A t \in Text : FlattenSeq(Append(m, t)) = FlattenSeq(m) \o t
BY FlattenType, FlattenAppend DEF Text
-----------------------------------------------------------------------------
(***************************************************************************)
(* Lines and events.                                                       *)
(***************************************************************************)

\* What the lines of each provider hold.
LEMMA LineIs ==
  ASSUME TypeOK, NEW i \in 1..Len(wire), NEW l, l = wire[i]
  PROVE  /\ l \in Lines[kind] /\ kind # "mock"
         /\ l.event = "chunk" => /\ kind = "openai" /\ l.text \in Text
                                 /\ l.usage # None => l.usage \in Usage
         /\ l.event = "text_delta" => kind = "anthropic" /\ l.text \in Text
         /\ l.event = "message_start" => kind = "anthropic" /\ l.input \in Nat \ {0}
         /\ l.event = "message_delta" => kind = "anthropic" /\ l.output \in Nat
<1>1. l \in Lines[kind]
  BY ElementOfSeq DEF TypeOK
<1>2. CASE kind = "openai"
  <2>1. l \in OpenAILines
    BY <1>1, <1>2 DEF Lines
  <2> QED
    BY <1>1, <1>2, <2>1, StreamAssumption DEF OpenAILines, Ignored
<1>3. CASE kind = "anthropic"
  <2>1. l \in AnthropicLines
    BY <1>1, <1>3 DEF Lines
  <2> QED
    BY <1>1, <1>3, <2>1, StreamAssumption DEF AnthropicLines, Ignored, Usage
<1>4. CASE kind = "mock"
  BY <1>1, <1>4 DEF Lines
<1> QED
  BY <1>2, <1>3, <1>4 DEF TypeOK, Lines

\* The text read and shown, piece by piece.
LineText(l) == IF l.event \in {"chunk", "text_delta"} THEN l.text ELSE <<>>
PiecesRead == [i \in 1..taken |-> LineText(wire[i])]
EventText(e) == IF e.mark = "text" THEN e.text ELSE <<>>
PiecesShown == [i \in 1..Len(shown) |-> EventText(shown[i])]

LEMMA LineTextType ==
  ASSUME TypeOK, NEW i \in 1..Len(wire)
  PROVE  LineText(wire[i]) \in Text
BY LineIs, TextEmpty DEF LineText

LEMMA ReadIs ==
  ASSUME TypeOK
  PROVE  /\ TextRead = FlattenSeq(PiecesRead)
         /\ PiecesRead \in Seq(Text) /\ Len(PiecesRead) = taken
         /\ TextRead \in Text
<1>1. taken \in Nat /\ \A i \in 1..taken : i \in 1..Len(wire)
  BY LenProperties DEF TypeOK
<1>2. PiecesRead \in Seq(Text) /\ Len(PiecesRead) = taken
  <2>1. \A i \in 1..taken : LineText(wire[i]) \in Text
    BY <1>1, LineTextType
  <2> QED
    BY <1>1, <2>1 DEF PiecesRead
<1>3. PiecesRead = [i \in 1..taken |-> IF i \in Read("chunk") \cup Read("text_delta")
                                       THEN wire[i].text ELSE <<>>]
  BY DEF PiecesRead, LineText, Read
<1>4. TextRead = FlattenSeq(PiecesRead)
  BY <1>3, Zenon DEF TextRead
<1> QED
  BY <1>2, <1>4, TextsFlatten

LEMMA ShownIs ==
  ASSUME shown \in Seq(Event)
  PROVE  /\ TextShown = FlattenSeq(PiecesShown)
         /\ PiecesShown \in Seq(Text) /\ Len(PiecesShown) = Len(shown)
         /\ TextShown \in Text
<1>1. DOMAIN shown = 1..Len(shown) /\ Len(shown) \in Nat
  BY LenProperties
<1>2. PiecesShown \in Seq(Text) /\ Len(PiecesShown) = Len(shown)
  <2>1. \A i \in 1..Len(shown) : EventText(shown[i]) \in Text
    BY ElementOfSeq, TextEmpty DEF EventText, Event
  <2> QED
    BY <1>1, <2>1 DEF PiecesShown
<1>3. TextShown = FlattenSeq(PiecesShown)
  BY <1>1, Zenon DEF TextShown, PiecesShown, EventText
<1> QED
  BY <1>2, <1>3, TextsFlatten

\* A line is read.
LEMMA ReadNext ==
  ASSUME TypeOK, TypeOK', taken < Len(wire), taken' = taken + 1, wire' = wire
  PROVE  TextRead' = TextRead \o LineText(wire[taken + 1])
<1> DEFINE t == LineText(wire[taken + 1])
<1>1. taken \in Nat /\ taken + 1 \in 1..Len(wire)
  BY LenProperties DEF TypeOK
<1>2. PICK m \in Seq(Text) : m = PiecesRead /\ Len(m) = taken /\ TextRead = FlattenSeq(m)
  BY ReadIs
<1>3. ASSUME TypeOK' PROVE (TextRead = FlattenSeq(PiecesRead))'
  BY <1>3, ReadIs, PTL
<1>4. t \in Text
  BY <1>1, LineTextType
<1> HIDE DEF t
<1>5. /\ Append(m, t) \in Seq(Text) /\ Len(Append(m, t)) = taken + 1
      /\ \A i \in 1..taken : Append(m, t)[i] = m[i]
      /\ Append(m, t)[taken + 1] = t
  BY <1>2, <1>4, AppendProperties
<1>6. PICK o : o = PiecesRead'
  OBVIOUS
<1>7. o \in Seq(Text) /\ Len(o) = taken + 1
  <2>1. ASSUME TypeOK' PROVE (PiecesRead \in Seq(Text) /\ Len(PiecesRead) = taken)'
    BY <2>1, ReadIs, PTL
  <2> QED
    BY <1>6, <2>1
<1>8. ASSUME NEW i \in 1..(taken + 1) PROVE o[i] = Append(m, t)[i]
  <2>1. o[i] = LineText(wire[i])
    BY <1>6 DEF PiecesRead, LineText
  <2>2. CASE i = taken + 1
    BY <1>5, <2>1, <2>2 DEF t
  <2>3. CASE i # taken + 1
    <3>1. i \in 1..taken
      BY <1>1, <2>3
    <3>2. m[i] = LineText(wire[i])
      BY <1>2, <3>1 DEF PiecesRead
    <3> QED
      BY <1>5, <2>1, <3>1, <3>2
  <2> QED
    BY <2>2, <2>3
<1>9. o = Append(m, t)
  BY <1>5, <1>7, <1>8, SeqEqual
<1> QED
  BY <1>2, <1>3, <1>4, <1>6, <1>9, TextsFlatten DEF t

\* No line is read.
LEMMA ReadKept ==
  ASSUME taken' = taken, \A i \in 1..taken : wire'[i] = wire[i]
  PROVE  /\ TextRead' = TextRead
         /\ \A e : Read(e)' = Read(e)
         /\ Reports' = Reports
<1>1. \A e : Read(e)' = Read(e)
  BY DEF Read
<1>2. Reports' = Reports
  <2>1. Read("chunk")' = Read("chunk") /\ Read("chunk") \subseteq 1..taken
    BY DEF Read
  <2> QED
    BY <2>1 DEF Reports
<1>3. TextRead' = TextRead
  <2>1. /\ Read("chunk")' = Read("chunk") /\ Read("text_delta")' = Read("text_delta")
    BY DEF Read
  <2>2. PICK f, g : /\ f = [i \in 1..taken |-> IF i \in Read("chunk") \cup Read("text_delta")
                                              THEN wire[i].text ELSE <<>>]
                    /\ g = [i \in 1..taken' |-> IF i \in Read("chunk")' \cup Read("text_delta")'
                                               THEN wire'[i].text ELSE <<>>]
    OBVIOUS
  <2>3. f = g
    BY <2>1, <2>2
  <2> QED
    BY <2>2, <2>3, Zenon DEF TextRead
<1> QED
  BY <1>1, <1>2, <1>3

\* An event is written, which a client that left does not see.
LEMMA ShownNext ==
  ASSUME shown \in Seq(Event), NEW e \in Event, OnChunk(e)
  PROVE  /\ shown' \in Seq(Event)
         /\ TextShown' = IF open THEN TextShown \o EventText(e) ELSE TextShown
<1>1. CASE ~open
  BY <1>1 DEF OnChunk, TextShown
<1>2. CASE open
  <2> DEFINE t == EventText(e)
  <2>1. shown' = Append(shown, e)
    BY <1>2 DEF OnChunk
  <2>2. /\ Append(shown, e) \in Seq(Event) /\ Len(Append(shown, e)) = Len(shown) + 1
        /\ \A i \in 1..Len(shown) : Append(shown, e)[i] = shown[i]
        /\ Append(shown, e)[Len(shown) + 1] = e
    BY AppendProperties
  <2>3. PICK m \in Seq(Text) :
          m = PiecesShown /\ Len(m) = Len(shown) /\ TextShown = FlattenSeq(m)
    BY ShownIs
  <2>4. PICK o : o = PiecesShown'
    OBVIOUS
  <2>5. (shown \in Seq(Event))'
    BY <2>1, <2>2
  <2>6. o \in Seq(Text) /\ Len(o) = Len(shown) + 1 /\ TextShown' = FlattenSeq(o)
    <3>1. ASSUME (shown \in Seq(Event))'
          PROVE  (/\ TextShown = FlattenSeq(PiecesShown) /\ PiecesShown \in Seq(Text)
                  /\ Len(PiecesShown) = Len(shown))'
      BY <3>1, ShownIs, PTL
    <3> QED
      BY <2>1, <2>2, <2>4, <2>5, <3>1
  <2>7. t \in Text
    BY TextEmpty DEF EventText, Event
  <2> HIDE DEF t
  <2>8. /\ Append(m, t) \in Seq(Text) /\ Len(Append(m, t)) = Len(shown) + 1
        /\ \A i \in 1..Len(shown) : Append(m, t)[i] = m[i]
        /\ Append(m, t)[Len(shown) + 1] = t
    BY <2>3, <2>7, AppendProperties
  <2>9. Len(shown) \in Nat
    BY LenProperties
  <2>10. ASSUME NEW i \in 1..(Len(shown) + 1) PROVE o[i] = Append(m, t)[i]
    <3>1. o[i] = EventText(shown'[i])
      BY <2>1, <2>2, <2>4 DEF PiecesShown, EventText
    <3>2. CASE i = Len(shown) + 1
      BY <2>1, <2>2, <2>8, <3>1, <3>2 DEF t
    <3>3. CASE i # Len(shown) + 1
      <4>1. i \in 1..Len(shown)
        BY <2>9, <3>3
      <4>2. m[i] = EventText(shown[i])
        BY <2>3, <4>1 DEF PiecesShown
      <4> QED
        BY <2>1, <2>2, <2>8, <3>1, <4>1, <4>2
    <3> QED
      BY <3>2, <3>3
  <2>11. o = Append(m, t)
    BY <2>6, <2>8, <2>10, SeqEqual
  <2> QED
    BY <1>2, <2>3, <2>5, <2>6, <2>7, <2>11, TextsFlatten DEF t
<1> QED
  BY <1>1, <1>2
-----------------------------------------------------------------------------
(***************************************************************************)
(* Types.                                                                  *)
(***************************************************************************)
LEMMA PromptWords ==
  ASSUME TypeOK
  PROVE  InputWords \in Nat /\ ReplyWords \in Nat /\ ReplyWords >= 2
<1>1. messages \in Seq(Message)
  BY StreamAssumption DEF TypeOK
<1>2. /\ DOMAIN messages = 1..Len(messages) /\ Len(messages) \in Nat
      /\ \A i \in DOMAIN messages : messages[i].words \in Nat
  <2>1. DOMAIN messages = 1..Len(messages) /\ Len(messages) \in Nat
    BY <1>1, LenProperties
  <2>2. \A i \in 1..Len(messages) : messages[i] \in Message
    BY <1>1, ElementOfSeq
  <2> QED
    BY <2>1, <2>2 DEF Message
<1>3. IsFiniteSet(DOMAIN messages) /\ DOMAIN messages \subseteq Int
  BY <1>2, FS_Interval
<1>4. InputWords \in Nat
  <2> DEFINE f == [i \in DOMAIN messages |-> messages[i].words]
  <2>1. DOMAIN f = DOMAIN messages /\ \A i \in DOMAIN messages : f[i] \in Nat
    BY <1>2
  <2>2. InputWords = SumFunctionOnSet(f, DOMAIN f)
    BY DEF InputWords, SumFunction
  <2> HIDE DEF f
  <2>3. SumFunctionOnSet(f, DOMAIN messages) \in Nat
    BY <1>3, <2>1, SumNat
  <2> QED
    BY <2>1, <2>2, <2>3
<1> DEFINE asked == {i \in DOMAIN messages : messages[i].role = "user"}
<1>5. asked # {} => Max(asked) \in DOMAIN messages
  <2> HAVE asked # {}
  <2>1. asked \subseteq DOMAIN messages
    OBVIOUS
  <2> HIDE DEF asked
  <2>2. \E x \in asked : \A y \in asked : y <= x
    <3>1. IsFiniteSet(asked) /\ asked \subseteq Int
      BY <1>3, <2>1, FS_Subset
    <3> QED
      BY <3>1, HasGreatest
  <2>3. \E x \in asked : \A y \in asked : x >= y
    <3>1. asked \subseteq Int
      BY <1>3, <2>1
    <3> QED
      BY <2>2, <3>1
  <2>4. Max(asked) \in asked
    BY <2>3 DEF Max
  <2> QED
    BY <2>1, <2>4
<1>6. ReplyWords = 2 + IF asked = {} THEN 0 ELSE messages[Max(asked)].words
  BY DEF ReplyWords
<1> HIDE DEF asked
<1>7. ReplyWords \in Nat /\ ReplyWords >= 2
  BY <1>2, <1>5, <1>6
<1> QED
  BY <1>4, <1>7

LEMMA EventType ==
  ASSUME NEW t \in Text
  PROVE  /\ [mark |-> "text", text |-> t] \in Event
         /\ EventText([mark |-> "text", text |-> t]) = t
         /\ [mark |-> "[DONE]"] \in Event /\ [mark |-> "[ERROR]"] \in Event
         /\ EventText([mark |-> "[DONE]"]) = <<>> /\ EventText([mark |-> "[ERROR]"]) = <<>>
BY DEF Event, EventText

LEMMA TypeInit == Init => TypeOK
<1> SUFFICES ASSUME Init PROVE TypeOK
  OBVIOUS
<1>1. wire \in Seq(Lines[kind]) /\ Len(wire) = 0 /\ shown \in Seq(Event)
  BY EmptySeq DEF Init
<1>2. Len(wire) <= MaxLines /\ taken \in 0..Len(wire)
  BY <1>1, StreamAssumption DEF Init
<1> QED
  BY <1>1, <1>2, TextEmpty DEF Init, TypeOK

\* The two ways a step of the handler can leave the text.
LEMMA DeliverType ==
  ASSUME TypeOK, NEW t \in Text, Deliver(t) \/ (Nothing /\ t = <<>>)
  PROVE  /\ shown' \in Seq(Event) /\ content' \in Text
         /\ content' = content \o t
         /\ TextShown' = IF open THEN TextShown \o t ELSE TextShown
<1>1. content \in Text /\ shown \in Seq(Event)
  BY DEF TypeOK
<1>2. CASE Deliver(t)
  <2>1. /\ shown' \in Seq(Event)
        /\ TextShown' = IF open THEN TextShown \o t ELSE TextShown
    <3>1. PICK e \in Event : e = [mark |-> "text", text |-> t] /\ EventText(e) = t
      BY EventType
    <3>2. OnChunk(e)
      BY <1>2, <3>1 DEF Deliver
    <3> QED
      BY <1>1, <3>1, <3>2, ShownNext
  <2> QED
    BY <1>1, <1>2, <2>1, TextConcat DEF Deliver
<1>3. CASE Nothing /\ t = <<>>
  <2>1. TextShown \in Text
    BY <1>1, ShownIs
  <2>2. content' = content /\ shown' = shown
    BY <1>3 DEF Nothing
  <2>3. TextShown' = TextShown
    BY <2>2 DEF TextShown
  <2> QED
    BY <1>1, <1>3, <2>1, <2>2, <2>3, TextConcatEmpty
<1> QED
  BY <1>2, <1>3

\* An event without text.
LEMMA MarkType ==
  ASSUME TypeOK, NEW e \in {[mark |-> "[DONE]"], [mark |-> "[ERROR]"]}, OnChunk(e)
  PROVE  shown' \in Seq(Event) /\ TextShown' = TextShown
<1>1. shown \in Seq(Event) /\ e \in Event /\ EventText(e) = <<>>
  BY EventType, TextEmpty DEF TypeOK
<1>2. TextShown \in Text
  BY <1>1, ShownIs
<1> QED
  BY <1>1, <1>2, ShownNext, TextConcatEmpty

\* What a step that reads a line does.
LineStep(l, t) ==
  /\ phase = "read" /\ taken < Len(wire) /\ l = wire[taken + 1]
  /\ taken' = taken + 1
  /\ UNCHANGED <<kind, messages, phase, upstream, client, settlement>>
  /\ t = LineText(l)
  /\ shown' \in Seq(Event)
  /\ content' = content \o t
  /\ TextShown' = IF open THEN TextShown \o t ELSE TextShown
  /\ \/ /\ l.event = "chunk" /\ l.usage # None
        /\ input' = l.usage.input /\ output' = l.usage.output
     \/ l.event = "message_start" /\ input' = l.input /\ output' = output
     \/ l.event = "message_delta" /\ input' = input /\ output' = l.output
     \/ /\ l.event \notin {"message_start", "message_delta"}
        /\ l.event = "chunk" => l.usage = None
        /\ UNCHANGED <<input, output>>

Scans == \/ Skip \/ ScanDone \/ ScanChunk \/ ScanStart \/ ScanText \/ ScanDelta

LEMMA ScansIs ==
  ASSUME TypeOK, Scans
  PROVE  \E l \in Lines[kind], t \in Text : LineStep(l, t)
<1> SUFFICES ASSUME NEW l, l = Line, NEW t, t = LineText(l)
             PROVE  l \in Lines[kind] /\ t \in Text /\ LineStep(l, t)
  OBVIOUS
<1>1. /\ phase = "read" /\ taken < Len(wire) /\ l = wire[taken + 1] /\ taken' = taken + 1
      /\ UNCHANGED <<kind, messages, phase, upstream, client, settlement>>
  BY DEF Scans, Skip, ScanDone, ScanChunk, ScanStart, ScanText, ScanDelta, Scan, Line
<1>2. taken + 1 \in 1..Len(wire)
  BY <1>1, LenProperties DEF TypeOK
<1>3. l \in Lines[kind] /\ t \in Text
  BY <1>1, <1>2, LineIs, LineTextType
<1>4. shown \in Seq(Event) /\ content \in Text /\ TextShown \in Text
  BY ShownIs DEF TypeOK
<1>5. CASE Skip
  <2>1. l.event = "other" /\ Nothing /\ UNCHANGED <<input, output>>
    BY <1>1, <1>5 DEF Skip, Scan
  <2>2. t = <<>>
    BY <2>1 DEF LineText
  <2> QED
    BY <1>1, <1>3, <2>1, <2>2, DeliverType DEF LineStep
<1>6. CASE ScanDone
  <2>1. /\ l.event \in {"[DONE]", "message_stop"} /\ OnChunk([mark |-> "[DONE]"])
        /\ UNCHANGED <<content, input, output>>
    BY <1>1, <1>6 DEF ScanDone, Scan
  <2>2. t = <<>>
    BY <2>1 DEF LineText
  <2>3. shown' \in Seq(Event) /\ TextShown' = TextShown
    BY <2>1, MarkType
  <2> QED
    BY <1>1, <1>3, <1>4, <2>1, <2>2, <2>3, TextConcatEmpty DEF LineStep
<1>7. CASE ScanChunk
  <2>1. /\ l.event = "chunk"
        /\ IF l.usage = None THEN UNCHANGED <<input, output>>
           ELSE input' = l.usage.input /\ output' = l.usage.output
        /\ IF l.text = <<>> THEN Nothing ELSE Deliver(l.text)
    BY <1>1, <1>7 DEF ScanChunk, Scan, Line
  <2>2. t = l.text
    BY <2>1 DEF LineText
  <2> QED
    BY <1>1, <1>3, <2>1, <2>2, DeliverType DEF LineStep
<1>8. CASE ScanStart
  <2>1. l.event = "message_start" /\ Nothing /\ input' = l.input /\ UNCHANGED output
    BY <1>1, <1>8 DEF ScanStart, Scan, Line
  <2>2. t = <<>>
    BY <2>1 DEF LineText
  <2> QED
    BY <1>1, <1>3, <2>1, <2>2, DeliverType DEF LineStep
<1>9. CASE ScanText
  <2>1. l.event = "text_delta" /\ Deliver(l.text) /\ UNCHANGED <<input, output>>
    BY <1>1, <1>9 DEF ScanText, Scan, Line
  <2>2. t = l.text
    BY <2>1 DEF LineText
  <2> QED
    BY <1>1, <1>3, <2>1, <2>2, DeliverType DEF LineStep
<1>10. CASE ScanDelta
  <2>1. l.event = "message_delta" /\ Nothing /\ output' = l.output /\ UNCHANGED input
    BY <1>1, <1>10 DEF ScanDelta, Scan, Line
  <2>2. t = <<>>
    BY <2>1 DEF LineText
  <2> QED
    BY <1>1, <1>3, <2>1, <2>2, DeliverType DEF LineStep
<1> QED
  BY <1>5, <1>6, <1>7, <1>8, <1>9, <1>10 DEF Scans

\* What the end of a call to an upstream does: the settlement is as the counts say.
SettleStep ==
  /\ phase = "read" /\ kind # "mock" /\ phase' = "ended"
  /\ UNCHANGED <<kind, messages, upstream, taken, client, content, input>>
  /\ output' = Estimate
  /\ settlement' = [content |-> content, input |-> input, output |-> output',
                    total |-> input + output']
  /\ settlement' \in Settlement
  /\ shown' \in Seq(Event) /\ TextShown' = TextShown

LEMMA SettleIs ==
  ASSUME TypeOK, closed => kind # "mock", EndOfBody \/ ReadFails
  PROVE  SettleStep
<1>1. /\ phase = "read" /\ kind # "mock" /\ Settle
      /\ OnChunk([mark |-> "[ERROR]"]) \/ UNCHANGED shown
  BY DEF EndOfBody, ReadFails
<1>2. shown' \in Seq(Event) /\ TextShown' = TextShown
  <2>1. CASE OnChunk([mark |-> "[ERROR]"])
    BY <2>1, MarkType
  <2>2. CASE UNCHANGED shown
    BY <2>2 DEF TextShown, TypeOK
  <2> QED
    BY <1>1, <2>1, <2>2
<1>3. content \in Text /\ input \in Nat /\ output \in Nat
  BY DEF TypeOK
<1>4. Estimate \in Nat
  BY <1>3, FieldsType DEF Estimate
<1>5. input + Estimate \in Nat
  BY <1>3, <1>4
<1> QED
  BY <1>1, <1>2, <1>3, <1>4, <1>5 DEF Settle, SettleStep, Settlement

LEMMA TypeStep == TypeOK /\ (closed => kind # "mock") /\ [Next]_vars => TypeOK'
<1> SUFFICES ASSUME TypeOK, closed => kind # "mock", [Next]_vars PROVE TypeOK'
  OBVIOUS
<1> USE DEF upstream, client
<1>1. CASE UNCHANGED vars
  BY <1>1 DEF vars, TypeOK
<1>2. CASE Leave \/ Stall \/ Close
  BY <1>2 DEF Leave, Stall, Close, TypeOK
<1>3. ASSUME NEW l \in Lines[kind], Send(l) PROVE TypeOK'
  <2>1. wire \in Seq(Lines[kind]) /\ Len(wire) \in Nat /\ Len(wire) < MaxLines
    BY <1>3, LenProperties DEF Send, TypeOK
  <2>2. wire' \in Seq(Lines[kind]) /\ Len(wire') = Len(wire) + 1
    BY <1>3, <2>1, AppendProperties DEF Send
  <2>3. Len(wire') <= MaxLines /\ taken' \in 0..Len(wire')
    BY <1>3, <2>1, <2>2, StreamAssumption DEF Send, TypeOK
  <2> QED
    BY <1>3, <2>2, <2>3 DEF Send, TypeOK
<1>4. CASE RequestFails
  <2>1. shown' \in Seq(Event)
    BY <1>4, MarkType DEF RequestFails
  <2> QED
    BY <1>4, <2>1 DEF RequestFails, TypeOK
<1>5. CASE \E r \in BOOLEAN : Respond(r)
  BY <1>5 DEF Respond, TypeOK
<1>6. CASE Scans
  <2>1. PICK l \in Lines[kind], t \in Text : LineStep(l, t)
    BY <1>6, ScansIs
  <2>2. taken + 1 \in 1..Len(wire)
    BY <2>1, LenProperties DEF LineStep, TypeOK
  <2>3. input' \in Nat /\ output' \in Nat
    BY <2>1, <2>2, LineIs DEF LineStep, TypeOK, Usage
  <2>4. content' \in Text
    BY <2>1, TextConcat DEF LineStep, TypeOK
  <2>5. taken' \in 0..Len(wire')
    BY <2>1, <2>2 DEF LineStep
  <2> QED
    BY <2>1, <2>3, <2>4, <2>5 DEF LineStep, TypeOK
<1>7. CASE EndOfBody \/ ReadFails
  <2>1. SettleStep
    BY <1>7, SettleIs
  <2>2. output' \in Nat
    BY <2>1 DEF SettleStep, Settlement
  <2> QED
    BY <2>1, <2>2 DEF SettleStep, TypeOK
<1>8. CASE MockWord
  <2>1. <<"w", Space>> \in Text
    BY DEF Text
  <2>2. shown' \in Seq(Event) /\ content' \in Text
    BY <1>8, <2>1, DeliverType DEF MockWord
  <2> QED
    BY <1>8, <2>2 DEF MockWord, TypeOK
<1>9. CASE MockEnd
  <2>1. shown' \in Seq(Event)
    BY <1>9, MarkType DEF MockEnd
  <2>2. input' \in Nat /\ output' \in Nat
    BY <1>9, PromptWords DEF MockEnd
  <2>3. input' + output' \in Nat
    <3>1. PICK i \in Nat, o \in Nat : i = input' /\ o = output'
      BY <2>2
    <3>2. i + o \in Nat
      OBVIOUS
    <3> QED
      BY <3>1, <3>2
  <2>4. settlement' \in Settlement
    BY <1>9, <2>2, <2>3 DEF MockEnd, Settlement, TypeOK
  <2> QED
    BY <1>9, <2>1, <2>2, <2>4 DEF MockEnd, TypeOK
<1> QED
  BY <1>1, <1>2, <1>3, <1>4, <1>5, <1>6, <1>7, <1>8, <1>9 DEF Next, Handler, Scans
-----------------------------------------------------------------------------
(***************************************************************************)
(* The text: what was read, shown and kept.                                *)
(***************************************************************************)
StreamInv ==
  /\ closed => kind # "mock"
  /\ phase = "ended" <=> settlement # None
  /\ phase \in {"request", "failed"} => TextShown = <<>>
  /\ kind # "mock" => content = TextRead
  /\ IsPrefix(TextShown, content)
  /\ open => TextShown = content
  /\ settlement # None => /\ settlement.content = content
                          /\ settlement.input = input /\ settlement.output = output
                          /\ settlement.total = input + output

LEMMA StreamInit == Init => StreamInv
<1> SUFFICES ASSUME Init PROVE StreamInv
  OBVIOUS
<1>1. TypeOK
  BY TypeInit
<1>2. PiecesRead = <<>> /\ PiecesShown = <<>>
  <2>1. Len(PiecesRead) = 0 /\ PiecesRead \in Seq(Text)
    BY <1>1, ReadIs DEF Init
  <2>2. Len(PiecesShown) = 0 /\ PiecesShown \in Seq(Text)
    BY <1>1, ShownIs DEF Init, TypeOK
  <2> QED
    BY <2>1, <2>2, EmptySeq
<1>3. TextRead = <<>> /\ TextShown = <<>>
  BY <1>1, <1>2, ReadIs, ShownIs, FlattenEmpty DEF TypeOK
<1>4. IsPrefix(<<>>, <<>>)
  BY TextEmpty, PrefixSame
<1> QED
  BY <1>3, <1>4 DEF Init, StreamInv

\* What the other steps keep: what was read, shown and counted.
Kept ==
  /\ UNCHANGED <<kind, messages, taken, shown, content, input, output, settlement>>
  /\ phase' = phase \/ (phase = "request" /\ phase' = "read")
  /\ open' => open
  /\ \A i \in 1..taken : wire'[i] = wire[i]
  /\ closed' => kind # "mock"

LEMMA KeptIs ==
  ASSUME TypeOK, StreamInv,
         \/ UNCHANGED vars \/ Leave \/ Stall \/ Close
         \/ \E l \in Lines[kind] : Send(l)
         \/ \E r \in BOOLEAN : Respond(r)
  PROVE  Kept
<1>1. ASSUME NEW l \in Lines[kind], Send(l) PROVE \A i \in 1..taken : wire'[i] = wire[i]
  <2>1. /\ Len(wire) \in Nat /\ taken <= Len(wire)
        /\ \A i \in 1..Len(wire) : wire'[i] = wire[i]
    BY <1>1, AppendProperties, LenProperties DEF Send, TypeOK
  <2> QED
    BY <2>1 DEF TypeOK
<1>2. \A i \in 1..taken : wire'[i] = wire[i]
  BY <1>1 DEF vars, upstream, client, Leave, Stall, Close, Respond
<1> QED
  BY <1>2 DEF vars, upstream, client, Leave, Stall, Close, Send, Respond, Kept, StreamInv

LEMMA StreamStep == TypeOK /\ StreamInv /\ [Next]_vars => StreamInv'
<1> SUFFICES ASSUME TypeOK, StreamInv, [Next]_vars PROVE StreamInv'
  OBVIOUS
<1>0. TypeOK'
  BY TypeStep DEF StreamInv
<1>1. content \in Text /\ TextShown \in Text
  BY ShownIs DEF TypeOK
<1>2. CASE Kept
  <2>1. TextRead' = TextRead /\ TextShown' = TextShown
    BY <1>2, ReadKept DEF Kept, TextShown
  <2> QED
    BY <1>2, <2>1 DEF Kept, StreamInv
<1>3. CASE RequestFails
  <2>1. TextShown' = TextShown
    BY <1>3, MarkType DEF RequestFails
  <2>2. TextRead' = TextRead
    BY <1>3, ReadKept DEF RequestFails, upstream
  <2> QED
    BY <1>3, <2>1, <2>2 DEF RequestFails, StreamInv, upstream, client
<1>4. CASE Scans
  <2>1. PICK l \in Lines[kind], t \in Text : LineStep(l, t)
    BY <1>4, ScansIs
  <2>2. TextRead' = TextRead \o t
    BY <1>0, <2>1, ReadNext DEF LineStep, upstream
  <2>3. kind # "mock" /\ phase = "read" /\ phase' = "read" /\ settlement = None
    <3>1. taken + 1 \in 1..Len(wire)
      BY <2>1, LenProperties DEF LineStep, TypeOK
    <3> QED
      BY <2>1, <3>1, LineIs DEF LineStep, StreamInv
  <2>4. IsPrefix(TextShown', content')
    <3>1. CASE open
      <4>1. TextShown' = content' /\ content' \in Text
        BY <1>1, <2>1, <3>1, TextConcat DEF LineStep, StreamInv
      <4> QED
        BY <4>1, PrefixSame
    <3>2. CASE ~open
      BY <1>1, <2>1, <3>2, PrefixConcat DEF LineStep, StreamInv
    <3> QED
      BY <3>1, <3>2
  <2> QED
    BY <2>1, <2>2, <2>3, <2>4 DEF LineStep, StreamInv, upstream, client
<1>5. CASE EndOfBody \/ ReadFails
  <2>1. SettleStep
    BY <1>5, SettleIs DEF StreamInv
  <2>2. TextRead' = TextRead
    BY <2>1, ReadKept DEF SettleStep, upstream
  <2>3. settlement' # None
    BY <2>1, StreamAssumption DEF SettleStep
  <2> QED
    BY <2>1, <2>2, <2>3 DEF SettleStep, StreamInv, upstream, client
<1>6. CASE MockWord
  <2> DEFINE t == <<"w", Space>>
  <2>1. t \in Text
    BY DEF Text
  <2>2. content' = content \o t /\ TextShown' = IF open THEN TextShown \o t ELSE TextShown
    BY <1>6, <2>1, DeliverType DEF MockWord
  <2> HIDE DEF t
  <2>3. IsPrefix(TextShown', content')
    <3>1. CASE open
      <4>1. TextShown' = content' /\ content' \in Text
        BY <1>1, <2>1, <2>2, <3>1, TextConcat DEF StreamInv
      <4> QED
        BY <4>1, PrefixSame
    <3>2. CASE ~open
      BY <1>1, <2>1, <2>2, <3>2, PrefixConcat DEF StreamInv
    <3> QED
      BY <3>1, <3>2
  <2> QED
    BY <1>6, <2>2, <2>3 DEF MockWord, StreamInv, upstream, client
<1>7. CASE MockEnd
  <2>1. TextShown' = TextShown
    BY <1>7, MarkType DEF MockEnd
  <2>2. settlement' # None
    <3>1. PICK i \in Nat, o \in Nat : i = input' /\ o = output'
      BY <1>7, PromptWords DEF MockEnd
    <3>2. settlement' = [content |-> content, input |-> i, output |-> o, total |-> i + o]
      BY <1>7, <3>1 DEF MockEnd
    <3>3. settlement' \in Settlement
      BY <1>1, <3>2 DEF Settlement
    <3> QED
      BY <3>3, StreamAssumption
  <2> QED
    BY <1>7, <2>1, <2>2 DEF MockEnd, StreamInv, upstream, client
<1> QED
  BY <1>2, <1>3, <1>4, <1>5, <1>6, <1>7, KeptIs DEF Next, Handler, Scans

\* Every state of a stream is well typed.
THEOREM TypeCorrect == Spec => []TypeOK
<1>1. TypeOK /\ StreamInv /\ [Next]_vars => TypeOK'
  BY TypeStep DEF StreamInv
<1> QED
  BY <1>1, TypeInit, StreamInit, StreamStep, PTL DEF Spec

\* The audit log has the text of every line that was read, and what was shown.
THEOREM LogsAreTranscripts == Spec => []LogIsTranscript
<1>1. StreamInv => LogIsTranscript
  BY DEF StreamInv, LogIsTranscript, Settled
<1>2. TypeOK /\ StreamInv /\ [Next]_vars => TypeOK'
  BY TypeStep DEF StreamInv
<1> QED
  BY <1>1, <1>2, TypeInit, StreamInit, StreamStep, PTL DEF Spec

\* A client that stayed can tell a stream that broke off from a complete one.
THEOREM TruncationIsReported == Spec => []TruncationReported
<1>1. Init => TruncationReported
  BY DEF Init, TruncationReported
<1>2. TypeOK /\ StreamInv /\ TruncationReported /\ [Next]_vars => TruncationReported'
  <2> SUFFICES ASSUME TypeOK, StreamInv, TruncationReported, [Next]_vars
               PROVE  TruncationReported'
    OBVIOUS
  <2>1. CASE ReadFails
    <3>1. open' => shown' = Append(shown, [mark |-> "[ERROR]"])
      BY <2>1 DEF ReadFails, OnChunk, Settle, client
    <3>2. PICK e \in Event : e = [mark |-> "[ERROR]"]
      BY EventType, TextEmpty
    <3>3. /\ Append(shown, e) # <<>> /\ Len(Append(shown, e)) = Len(shown) + 1
          /\ Append(shown, e)[Len(shown) + 1] = e
      BY AppendProperties DEF TypeOK
    <3>4. open' => shown' # <<>> /\ Last(shown').mark = "[ERROR]"
      BY <3>1, <3>2, <3>3 DEF Last
    <3> QED
      BY <3>4 DEF TruncationReported, Last
  <2>2. CASE EndOfBody
    BY <2>2 DEF EndOfBody, Settle, TruncationReported, upstream
  <2>3. CASE phase' # "ended" \/ kind = "mock"
    BY <2>3 DEF TruncationReported, Next, Handler, vars, Leave, Stall, Close, Send,
                RequestFails, Respond, Skip, ScanDone, ScanChunk, ScanStart, ScanText,
                ScanDelta, Scan, EndOfBody, ReadFails, Settle, MockWord, MockEnd
  <2>4. CASE UNCHANGED <<phase, kind, shown, wire, closed, taken>> /\ (open' => open)
    BY <2>4 DEF TruncationReported
  <2> QED
    BY <2>1, <2>2, <2>3, <2>4
       DEF Next, Handler, vars, upstream, client, Leave, Stall, Close, Send, RequestFails,
           Respond, Skip, ScanDone, ScanChunk, ScanStart, ScanText, ScanDelta, Scan, MockWord,
           MockEnd
<1>3. TypeOK /\ StreamInv /\ [Next]_vars => TypeOK'
  BY TypeStep DEF StreamInv
<1> QED
  BY <1>1, <1>2, <1>3, TypeInit, StreamInit, StreamStep, PTL DEF Spec
-----------------------------------------------------------------------------
(***************************************************************************)
(* The counts.  While the body is read they are those of the last reports; *)
(* the settlement adds them up, or counts words if there are none.         *)
(***************************************************************************)
OpenAICounts ==
  IF Reports = {} THEN input = 0 /\ output = 0
  ELSE input = wire[Max(Reports)].usage.input /\ output = wire[Max(Reports)].usage.output

AnthropicCounts ==
  /\ input = IF Read("message_start") = {} THEN 0 ELSE wire[Max(Read("message_start"))].input
  /\ output = IF Read("message_delta") = {} THEN 0 ELSE wire[Max(Read("message_delta"))].output

CountInv == phase \in {"request", "read"} => /\ kind = "openai" => OpenAICounts
                                             /\ kind = "anthropic" => AnthropicCounts

\* What a settlement owes.
Owes ==
  settlement # None =>
    /\ ChargedAsReported
    /\ Fields(content) > 0 =>
         settlement.total > 0 \/ (kind = "anthropic" /\ Read("message_start") = {})

\* The last of the lines read, and one more.
LEMMA MaxIs ==
  ASSUME TypeOK, NEW S, S \subseteq 1..taken, S # {}
  PROVE  Max(S) \in S /\ Max(S) \in 1..Len(wire)
<1>1. taken \in Nat /\ 1..taken \subseteq 1..Len(wire)
  BY LenProperties DEF TypeOK
<1>2. IsFiniteSet(S) /\ S \subseteq Int
  <2>1. IsFiniteSet(1..taken) /\ 1..taken \subseteq Int
    BY <1>1, FS_Interval
  <2> QED
    BY <2>1, FS_Subset
<1>3. \E x \in S : \A y \in S : y <= x
  BY <1>2, HasGreatest
<1>4. \E x \in S : \A y \in S : x >= y
  BY <1>2, <1>3
<1>5. Max(S) \in S
  BY <1>4 DEF Max
<1> QED
  BY <1>1, <1>5

LEMMA MaxNext ==
  ASSUME TypeOK, NEW S, S \subseteq 1..taken
  PROVE  Max(S \cup {taken + 1}) = taken + 1
<1> DEFINE U == S \cup {taken + 1}
<1>1. taken \in Nat
  BY LenProperties DEF TypeOK
<1>2. taken + 1 \in U /\ \A y \in U : taken + 1 >= y
  BY <1>1
<1>3. \A x \in U : (\A y \in U : x >= y) => x = taken + 1
  BY <1>1
<1> HIDE DEF U
<1>4. Max(U) \in U /\ \A y \in U : Max(U) >= y
  BY <1>2 DEF Max
<1> QED
  BY <1>3, <1>4 DEF U

\* A line that is read is the last of its kind.
LEMMA ReadOne ==
  ASSUME TypeOK, NEW l, NEW t, LineStep(l, t)
  PROVE  /\ \A e : Read(e)' = IF l.event = e THEN Read(e) \cup {taken + 1} ELSE Read(e)
         /\ Reports' = IF l.event = "chunk" /\ l.usage # None
                       THEN Reports \cup {taken + 1} ELSE Reports
         /\ \A e : Read(e) \subseteq 1..taken
         /\ Reports \subseteq 1..taken
<1>1. /\ taken \in Nat /\ taken' = taken + 1 /\ wire' = wire /\ l = wire[taken + 1]
      /\ 1..(taken + 1) = (1..taken) \cup {taken + 1} /\ taken + 1 \notin 1..taken
  BY LenProperties DEF LineStep, TypeOK, upstream
<1>2. \A e : Read(e)' = IF l.event = e THEN Read(e) \cup {taken + 1} ELSE Read(e)
  <2> SUFFICES ASSUME NEW e
               PROVE  Read(e)' = IF l.event = e THEN Read(e) \cup {taken + 1} ELSE Read(e)
    OBVIOUS
  <2>1. Read(e)' = {i \in (1..taken) \cup {taken + 1} : wire[i].event = e}
    BY <1>1 DEF Read
  <2> QED
    BY <1>1, <2>1 DEF Read
<1>3. \A e : Read(e) \subseteq 1..taken
  BY DEF Read
<1>4. Reports' = {i \in Read("chunk")' : wire[i].usage # None}
  BY <1>1 DEF Reports
<1>5. Reports' = IF l.event = "chunk" /\ l.usage # None
                 THEN Reports \cup {taken + 1} ELSE Reports
  BY <1>1, <1>2, <1>4 DEF Reports
<1> QED
  BY <1>2, <1>3, <1>5 DEF Reports

LEMMA CountInit == Init => CountInv /\ Owes
<1> SUFFICES ASSUME Init PROVE CountInv /\ Owes
  OBVIOUS
<1>1. taken = 0
  BY DEF Init
<1>2. \A e : Read(e) = {}
  BY <1>1 DEF Read
<1>3. Reports = {}
  BY <1>2 DEF Reports
<1> QED
  BY <1>2, <1>3 DEF Init, CountInv, OpenAICounts, AnthropicCounts, Owes

LEMMA CountStep == TypeOK /\ StreamInv /\ CountInv /\ [Next]_vars => CountInv'
<1> SUFFICES ASSUME TypeOK, StreamInv, CountInv, [Next]_vars PROVE CountInv'
  OBVIOUS
<1>1. CASE Kept
  <2>1. (\A e : Read(e)' = Read(e)) /\ Reports' = Reports
    BY <1>1, ReadKept DEF Kept
  <2>2. \A e : Read(e) \subseteq 1..taken
    BY DEF Read
  <2>3. \A e : Read(e) # {} => wire'[Max(Read(e))] = wire[Max(Read(e))]
    <3> SUFFICES ASSUME NEW e, Read(e) # {} PROVE wire'[Max(Read(e))] = wire[Max(Read(e))]
      OBVIOUS
    <3>1. Max(Read(e)) \in Read(e)
      BY <2>2, MaxIs
    <3> QED
      BY <1>1, <2>2, <3>1 DEF Kept
  <2>4. Reports # {} => wire'[Max(Reports)] = wire[Max(Reports)]
    <3> HAVE Reports # {}
    <3>1. Reports \subseteq 1..taken
      BY <2>2 DEF Reports
    <3>2. Max(Reports) \in Reports
      BY <3>1, MaxIs
    <3> QED
      BY <1>1, <3>1, <3>2 DEF Kept
  <2>5. phase' \in {"request", "read"} => phase \in {"request", "read"}
    BY <1>1 DEF Kept
  <2>6. kind = "openai" /\ OpenAICounts => OpenAICounts'
    BY <1>1, <2>1, <2>4 DEF OpenAICounts, Kept
  <2>7. kind = "anthropic" /\ AnthropicCounts => AnthropicCounts'
    BY <1>1, <2>1, <2>3 DEF AnthropicCounts, Kept
  <2> QED
    BY <1>1, <2>5, <2>6, <2>7 DEF CountInv, Kept
<1>2. CASE Scans
  <2>1. PICK l \in Lines[kind], t \in Text : LineStep(l, t)
    BY <1>2, ScansIs
  <2>2. /\ \A e : Read(e)' = IF l.event = e THEN Read(e) \cup {taken + 1} ELSE Read(e)
        /\ Reports' = IF l.event = "chunk" /\ l.usage # None
                      THEN Reports \cup {taken + 1} ELSE Reports
        /\ \A e : Read(e) \subseteq 1..taken
        /\ Reports \subseteq 1..taken
    BY <2>1, ReadOne
  <2>3. /\ \A e : l.event = e => Max(Read(e)') = taken + 1
        /\ l.event = "chunk" /\ l.usage # None => Max(Reports') = taken + 1
    BY <2>2, MaxNext
  <2>4. /\ phase = "read" /\ wire' = wire /\ kind' = kind /\ l = wire[taken + 1]
        /\ taken + 1 \in 1..Len(wire)
    BY <2>1, LenProperties DEF LineStep, TypeOK, upstream
  <2>5. /\ l.event = "chunk" => kind = "openai"
        /\ l.event \in {"message_start", "message_delta"} => kind = "anthropic"
    BY <2>4, LineIs
  <2>6. ASSUME kind = "openai" PROVE OpenAICounts'
    <3>1. OpenAICounts
      BY <2>4, <2>6 DEF CountInv
    <3>2. CASE l.event = "chunk" /\ l.usage # None
      <4>1. input' = l.usage.input /\ output' = l.usage.output
        BY <2>1, <3>2 DEF LineStep
      <4>2. Reports' # {} /\ wire'[Max(Reports')] = l
        BY <2>2, <2>3, <2>4, <3>2
      <4> QED
        BY <4>1, <4>2 DEF OpenAICounts
    <3>3. CASE ~ (l.event = "chunk" /\ l.usage # None)
      <4>1. UNCHANGED <<input, output>> /\ Reports' = Reports
        BY <2>1, <2>2, <2>5, <2>6, <3>3 DEF LineStep
      <4> QED
        BY <2>4, <3>1, <4>1 DEF OpenAICounts
    <3> QED
      BY <3>2, <3>3
  <2>7. ASSUME kind = "anthropic" PROVE AnthropicCounts'
    <3>1. AnthropicCounts /\ l.event # "chunk"
      BY <2>4, <2>5, <2>7 DEF CountInv
    <3>2. CASE l.event = "message_start"
      <4>1. input' = l.input /\ output' = output
        BY <2>1, <3>2 DEF LineStep
      <4>2. /\ Read("message_start")' # {} /\ wire'[Max(Read("message_start")')] = l
            /\ Read("message_delta")' = Read("message_delta")
        BY <2>2, <2>3, <2>4, <3>2
      <4> QED
        BY <2>4, <3>1, <4>1, <4>2 DEF AnthropicCounts
    <3>3. CASE l.event = "message_delta"
      <4>1. input' = input /\ output' = l.output
        BY <2>1, <3>3 DEF LineStep
      <4>2. /\ Read("message_delta")' # {} /\ wire'[Max(Read("message_delta")')] = l
            /\ Read("message_start")' = Read("message_start")
        BY <2>2, <2>3, <2>4, <3>3
      <4> QED
        BY <2>4, <3>1, <4>1, <4>2 DEF AnthropicCounts
    <3>4. CASE l.event \notin {"message_start", "message_delta"}
      <4>1. UNCHANGED <<input, output>>
        BY <2>1, <3>1, <3>4 DEF LineStep
      <4>2. /\ Read("message_delta")' = Read("message_delta")
            /\ Read("message_start")' = Read("message_start")
        BY <2>2, <3>4
      <4> QED
        BY <2>4, <3>1, <4>1, <4>2 DEF AnthropicCounts
    <3> QED
      BY <3>2, <3>3, <3>4
  <2> QED
    BY <2>4, <2>6, <2>7 DEF CountInv
<1>3. CASE MockWord
  BY <1>3 DEF MockWord, CountInv
<1>4. CASE phase' \notin {"request", "read"}
  BY <1>4 DEF CountInv
<1>5. RequestFails \/ EndOfBody \/ ReadFails \/ MockEnd => phase' \notin {"request", "read"}
  BY DEF RequestFails, EndOfBody, ReadFails, MockEnd, Settle
<1> QED
  BY <1>1, <1>2, <1>3, <1>4, <1>5, KeptIs DEF Next, Handler, Scans
\* The counts as the upstream reported them.
LEMMA ReportedIs ==
  /\ kind = "openai" =>
       ReportedUsage = [input |-> IF Reports = {} THEN 0 ELSE wire[Max(Reports)].usage.input,
                        output |-> IF Reports = {} THEN 0 ELSE wire[Max(Reports)].usage.output]
  /\ kind = "anthropic" =>
       ReportedUsage =
         [input |-> IF Read("message_start") = {} THEN 0
                    ELSE wire[Max(Read("message_start"))].input,
          output |-> IF Read("message_delta") = {} THEN 0
                     ELSE wire[Max(Read("message_delta"))].output]
  /\ kind = "mock" => ReportedUsage = [input |-> InputWords, output |-> Fields(content)]
<1>1. CASE kind = "openai"
  BY <1>1, Zenon DEF ReportedUsage, LastOf
<1>2. CASE kind = "anthropic"
  BY <1>2, Zenon DEF ReportedUsage, LastOf
<1>3. CASE kind = "mock"
  BY <1>3, Zenon DEF ReportedUsage
<1> QED
  BY <1>1, <1>2, <1>3

LEMMA OwesKept ==
  ASSUME UNCHANGED <<kind, messages, wire, taken, content>>
  PROVE  /\ ReportedUsage' = ReportedUsage
         /\ TextRead' = TextRead /\ Read("message_start")' = Read("message_start")
<1>1. TextRead' = TextRead /\ (\A e : Read(e)' = Read(e)) /\ Reports' = Reports
  BY ReadKept
<1>2. ReportedUsage' = ReportedUsage
  BY <1>1, Zenon DEF ReportedUsage, LastOf, InputWords, Fields
<1> QED
  BY <1>1, <1>2

LEMMA OwesStep == TypeOK /\ StreamInv /\ CountInv /\ Owes /\ [Next]_vars => Owes'
<1> SUFFICES ASSUME TypeOK, StreamInv, CountInv, Owes, [Next]_vars, settlement' # None
             PROVE  Owes'
  BY DEF Owes
<1>1. CASE UNCHANGED <<kind, messages, wire, taken, content, settlement>>
  <2>1. Fields(content)' = Fields(content)
    BY <1>1 DEF Fields
  <2> QED
    BY <1>1, <2>1, OwesKept DEF Owes, ChargedAsReported, Settled
<1>2. CASE EndOfBody \/ ReadFails
  <2>1. SettleStep
    BY <1>2, SettleIs DEF StreamInv
  <2>2. /\ UNCHANGED <<kind, messages, wire, taken, content, input>> /\ output' = Estimate
        /\ settlement'.total = input + output' /\ phase = "read" /\ kind # "mock"
    BY <2>1 DEF SettleStep, upstream
  <2>3. /\ ReportedUsage' = ReportedUsage
        /\ TextRead' = TextRead /\ Read("message_start")' = Read("message_start")
    BY <2>2, OwesKept
  <2>4. ReportedUsage = [input |-> input, output |-> output]
    <3>1. CASE kind = "openai"
      BY <2>2, <3>1, ReportedIs DEF CountInv, OpenAICounts
    <3>2. CASE kind = "anthropic"
      BY <2>2, <3>2, ReportedIs DEF CountInv, AnthropicCounts
    <3> QED
      BY <2>2, <3>1, <3>2 DEF TypeOK, Lines
  <2>5. /\ input \in Nat /\ output \in Nat /\ Fields(content) \in Nat
        /\ (input = 0 /\ output = 0 <=> input + output = 0)
    BY FieldsType DEF TypeOK
  <2>6. kind # "mock" /\ content = TextRead
    BY <2>2 DEF StreamInv
  <2>7. settlement'.total = IF kind = "openai" /\ input + output = 0 THEN Fields(content)
                            ELSE input + output
    BY <2>2, <2>5 DEF Estimate
  <2>8. ChargedAsReported'
    <3>1. Fields(TextRead)' = Fields(TextRead)
      BY <2>3 DEF Fields
    <3> QED
      BY <2>2, <2>3, <2>4, <2>6, <2>7, <3>1 DEF ChargedAsReported, Settled
  <2>9. kind = "anthropic" /\ Read("message_start") # {} => input # 0
    <3> HAVE kind = "anthropic" /\ Read("message_start") # {}
    <3>1. input = wire[Max(Read("message_start"))].input
      BY <2>2 DEF CountInv, AnthropicCounts
    <3>2. Read("message_start") \subseteq 1..taken
      BY DEF Read
    <3>3. /\ Max(Read("message_start")) \in Read("message_start")
          /\ Max(Read("message_start")) \in 1..Len(wire)
      BY <3>2, MaxIs
    <3>4. wire[Max(Read("message_start"))].event = "message_start"
      BY <3>3 DEF Read
    <3> QED
      BY <3>1, <3>3, <3>4, LineIs
  <2>10. Fields(content) > 0 =>
           settlement'.total > 0 \/ (kind = "anthropic" /\ Read("message_start") = {})
    <3>1. CASE kind = "openai"
      BY <2>5, <2>7, <3>1
    <3>2. CASE kind = "anthropic"
      BY <2>5, <2>7, <2>9, <3>2
    <3> QED
      BY <2>6, <3>1, <3>2 DEF TypeOK, Lines
  <2>11. Fields(content)' = Fields(content)
    BY <2>2 DEF Fields
  <2> QED
    BY <2>2, <2>3, <2>8, <2>10, <2>11 DEF Owes
<1>3. CASE MockEnd
  <2>1. /\ UNCHANGED <<kind, messages, wire, taken, content>> /\ kind = "mock"
        /\ Fields(content) = ReplyWords
        /\ settlement'.total = InputWords + ReplyWords
    BY <1>3 DEF MockEnd, upstream
  <2>2. InputWords \in Nat /\ ReplyWords \in Nat /\ ReplyWords >= 2
    BY PromptWords
  <2>3. ReportedUsage' = [input |-> InputWords, output |-> Fields(content)]
    BY <2>1, OwesKept, ReportedIs
  <2>4. ChargedAsReported'
    BY <2>1, <2>3 DEF ChargedAsReported, Settled
  <2>5. settlement'.total > 0
    BY <2>1, <2>2
  <2> QED
    BY <2>4, <2>5 DEF Owes
<1>4. CASE settlement # None
  <2>1. phase = "ended"
    BY <1>4 DEF StreamInv
  <2>2. UNCHANGED <<kind, messages, wire, taken, content, settlement>>
    BY <2>1 DEF Next, Handler, vars, upstream, client, Leave, Stall, Close, Send, RequestFails,
                Respond, Skip, ScanDone, ScanChunk, ScanStart, ScanText, ScanDelta, Scan,
                EndOfBody, ReadFails, MockWord, MockEnd
  <2> QED
    BY <1>1, <2>2
<1>5. settlement' = settlement \/ EndOfBody \/ ReadFails \/ MockEnd
  BY DEF Next, Handler, vars, upstream, client, Leave, Stall, Close, Send, RequestFails,
         Respond, Skip, ScanDone, ScanChunk, ScanStart, ScanText, ScanDelta, Scan, MockWord
<1> QED
  BY <1>2, <1>3, <1>4, <1>5

\* A stream is charged by the last counts the upstream reported, or by its words.
THEOREM ChargesAsReported == Spec => []ChargedAsReported
<1>1. Owes => ChargedAsReported
  BY DEF Owes, ChargedAsReported, Settled
<1>2. TypeOK /\ StreamInv /\ [Next]_vars => TypeOK'
  BY TypeStep DEF StreamInv
<1> QED
  BY <1>1, <1>2, TypeInit, StreamInit, StreamStep, CountInit, CountStep, OwesStep, PTL DEF Spec

\* A client that got words is charged something, unless Anthropic never started.
THEOREM TextsAreCharged == Spec => []TextIsCharged
<1>1. TypeOK /\ StreamInv /\ Owes => TextIsCharged
  <2> SUFFICES ASSUME TypeOK, StreamInv, Owes, phase \in {"ended", "failed"},
                      Fields(TextShown) > 0
               PROVE  /\ settlement # None
                      /\ \/ settlement.total > 0
                         \/ kind = "anthropic" /\ Read("message_start") = {}
    BY DEF TextIsCharged, Settled
  <2>1. content \in Text /\ TextShown \in Text /\ IsPrefix(TextShown, content)
    BY ShownIs DEF TypeOK, StreamInv
  <2>2. Fields(content) > 0
    <3>1. /\ Fields(TextShown) \in Nat /\ Fields(content) \in Nat
          /\ Fields(TextShown) <= Fields(content)
      BY <2>1, FieldsType, FieldsMonotone
    <3> QED
      BY <3>1
  <2>3. phase = "ended"
    BY FieldsEmpty DEF StreamInv
  <2> QED
    BY <2>2, <2>3 DEF StreamInv, Owes
<1>2. TypeOK /\ StreamInv /\ [Next]_vars => TypeOK'
  BY TypeStep DEF StreamInv
<1> QED
  BY <1>1, <1>2, TypeInit, StreamInit, StreamStep, CountInit, CountStep, OwesStep, PTL DEF Spec
-----------------------------------------------------------------------------
(***************************************************************************)
(* The contract.                                                           *)
(***************************************************************************)
ContractState == CASE phase = "ended" -> "settled"
                   [] phase = "failed" -> "failed"
                   [] OTHER -> "open"

LEMMA StateIs ==
  /\ phase = "ended" => ContractState = "settled"
  /\ phase = "failed" => ContractState = "failed"
  /\ phase \notin {"ended", "failed"} => ContractState = "open"
<1>1. CASE phase = "ended"
  BY <1>1, Zenon DEF ContractState
<1>2. CASE phase = "failed"
  BY <1>2, Zenon DEF ContractState
<1>3. CASE phase # "ended" /\ phase # "failed"
  BY <1>3, Zenon DEF ContractState
<1> QED
  BY <1>1, <1>2, <1>3

\* The contract has a copy of its own of the library's operators.
LEMMA ContractPrefix ==
  ASSUME NEW t, NEW u, IsPrefix(t, u)
  PROVE  Contract!IsPrefix(t, u)
BY DEF IsPrefix, Contract!IsPrefix

\* The steps of the contract, in terms of the stream.
LEMMA ContractIs ==
  /\ /\ ContractState = "open" /\ IsPrefix(TextShown, TextShown') /\ TextShown' # TextShown
     /\ ContractState' = ContractState /\ settlement' = settlement
     => Contract!Show
  /\ /\ ContractState = "open" /\ ContractState' = "settled"
     /\ settlement' # None /\ settlement'.total = settlement'.input + settlement'.output
     /\ IsPrefix(TextShown, settlement'.content) /\ TextShown' = TextShown
     => Contract!Settle
<1>1. ASSUME ContractState = "open", IsPrefix(TextShown, TextShown'), TextShown' # TextShown,
             ContractState' = ContractState, settlement' = settlement
      PROVE  Contract!Show
  <2>1. UNCHANGED <<ContractState, settlement>>
    BY <1>1
  <2>2. Contract!IsPrefix(TextShown, TextShown')
    BY <1>1, ContractPrefix
  <2> QED
    BY <1>1, <2>1, <2>2, Zenon DEF Contract!Show, ContractState
<1>2. ASSUME ContractState = "open", ContractState' = "settled", settlement' # None,
             settlement'.total = settlement'.input + settlement'.output,
             IsPrefix(TextShown, settlement'.content), TextShown' = TextShown
      PROVE  Contract!Settle
  <2>1. Contract!IsPrefix(TextShown, settlement'.content)
    BY <1>2, ContractPrefix
  <2> QED
    BY <1>2, <2>1, Zenon DEF Contract!Settle, ContractState
<1> QED
  BY <1>1, <1>2

LEMMA ContractStep ==
  ASSUME TypeOK, StreamInv, [Next]_vars
  PROVE  \/ Contract!Show \/ Contract!Settle \/ Contract!Fail
         \/ ContractState' = ContractState /\ TextShown' = TextShown /\ UNCHANGED settlement
<1>0. (/\ phase = "ended" => ContractState = "settled"
       /\ phase = "failed" => ContractState = "failed"
       /\ phase \notin {"ended", "failed"} => ContractState = "open")'
  BY StateIs, PTL
<1>1. content \in Text /\ TextShown \in Text
  BY ShownIs DEF TypeOK
<1>2. CASE Kept
  <2>1. TextShown' = TextShown
    BY <1>2 DEF Kept, TextShown
  <2>2. ContractState' = ContractState
    BY <1>0, <1>2, StateIs DEF Kept
  <2> QED
    BY <1>2, <2>1, <2>2 DEF Kept
<1>3. CASE RequestFails
  <2>1. phase = "request" /\ phase' = "failed" /\ UNCHANGED settlement
    BY <1>3 DEF RequestFails
  <2>2. TextShown' = TextShown /\ TextShown = <<>>
    BY <1>3, <2>1, MarkType DEF RequestFails, StreamInv
  <2>3. ContractState = "open" /\ ContractState' = "failed"
    BY <1>0, <2>1, StateIs
  <2> QED
    BY <2>1, <2>2, <2>3 DEF Contract!Fail, ContractState
<1>4. ASSUME NEW t \in Text, phase = "read", phase' = "read", UNCHANGED settlement,
             TextShown' = IF open THEN TextShown \o t ELSE TextShown
      PROVE  Contract!Show \/ (ContractState' = ContractState /\ TextShown' = TextShown)
  <2>1. ContractState = "open" /\ ContractState' = "open"
    BY <1>0, <1>4, StateIs
  <2>2. IsPrefix(TextShown, TextShown')
    BY <1>1, <1>4, PrefixSame, PrefixConcat
  <2> QED
    BY <1>4, <2>1, <2>2, ContractIs
<1>5. CASE Scans
  BY <1>4, <1>5, ScansIs DEF LineStep
<1>6. CASE MockWord
  <2>1. <<"w", Space>> \in Text
    BY DEF Text
  <2> QED
    BY <1>4, <1>6, <2>1, DeliverType DEF MockWord
<1>7. ASSUME phase = "read", phase' = "ended", TextShown' = TextShown,
             settlement' \in Settlement, settlement'.content = content,
             settlement'.total = settlement'.input + settlement'.output
      PROVE  Contract!Settle
  <2>1. ContractState = "open" /\ ContractState' = "settled"
    BY <1>0, <1>7, StateIs
  <2>2. settlement' # None
    BY <1>7, StreamAssumption
  <2>3. IsPrefix(TextShown, settlement'.content)
    BY <1>7 DEF StreamInv
  <2> QED
    BY <1>7, <2>1, <2>2, <2>3, ContractIs
<1>8. CASE EndOfBody \/ ReadFails
  <2>1. SettleStep
    BY <1>8, SettleIs DEF StreamInv
  <2> QED
    BY <1>7, <2>1 DEF SettleStep
<1>9. CASE MockEnd
  <2>1. TextShown' = TextShown
    BY <1>9, MarkType DEF MockEnd
  <2>2. PICK i \in Nat, o \in Nat : i = input' /\ o = output'
    BY <1>9, PromptWords DEF MockEnd
  <2>3. settlement' = [content |-> content, input |-> i, output |-> o, total |-> i + o]
    BY <1>9, <2>2 DEF MockEnd
  <2>4. settlement' \in Settlement
    BY <1>1, <2>3 DEF Settlement
  <2> QED
    BY <1>7, <1>9, <2>1, <2>3, <2>4 DEF MockEnd
<1> QED
  BY <1>2, <1>3, <1>5, <1>6, <1>8, <1>9, KeptIs DEF Next, Handler, Scans

\* Every behaviour of a stream keeps the contract with the bookkeeper.
THEOREM StreamsKeepTheContract == Spec => ImplementsContract
<1>1. Init => Contract!Init
  <2> SUFFICES ASSUME Init PROVE Contract!Init
    OBVIOUS
  <2>1. ContractState = "open" /\ settlement = None
    BY StateIs DEF Init
  <2>2. TextShown = <<>>
    BY TypeInit, StreamInit, FlattenEmpty DEF Init, StreamInv
  <2> QED
    BY <2>1, <2>2 DEF Contract!Init, ContractState
<1>2. TypeOK /\ StreamInv /\ [Next]_vars => [Contract!Next]_(Contract!vars)
  BY ContractStep DEF Contract!Next, Contract!vars, ContractState
<1>3. TypeOK /\ StreamInv /\ [Next]_vars => TypeOK'
  BY TypeStep DEF StreamInv
<1> QED
  BY <1>1, <1>2, <1>3, TypeInit, StreamInit, StreamStep, PTL
     DEF Spec, ImplementsContract, Contract!Spec
=============================================================================
