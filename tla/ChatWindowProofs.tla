-------------------------- MODULE ChatWindowProofs --------------------------
(***************************************************************************)
(* For any windows, users and sessions, and any order of the callbacks and *)
(* settlements: conversations stay private, the history does not go back,  *)
(* and a window that is used with care shows what the history has.         *)
(***************************************************************************)
EXTENDS ChatWindow, DataLemmas

-----------------------------------------------------------------------------
(***************************************************************************)
(* The inductive invariant.  Turns are numbered in order; a turn's reply,  *)
(* content and row are what its settlement made of it; the window of a     *)
(* call still holds its stream.                                            *)
(***************************************************************************)
AskingInv == \E k \in 0..MaxTurns : Asking = 1..k

RowOf(n) == [user_id |-> UserOf[request[n].window], session_id |-> request[n].session_id,
             request_at |-> n, request_messages |-> request[n].messages,
             response_content |-> content[n]]

TurnOf(n) ==
  /\ job[n] = "none" <=> request[n] = None
  /\ job[n] \in {"none", "call"} => reply[n] = None
  /\ job[n] \in {"save", "saved"} => /\ content[n] \in {"answer", NoText}
                                     /\ reply[n] \in {"remnant", NoText, "error"}
  /\ job[n] = "call" => streaming[request[n].window] = n
  /\ job[n] = "saved" => RowOf(n) \in chat_logs
TurnInv == /\ \A n \in Turns : TurnOf(n)
           /\ \A l \in chat_logs : job[l.request_at] = "saved" /\ l = RowOf(l.request_at)
           /\ \A w \in Windows : streaming[w] # None =>
                /\ request[streaming[w]] # None
                /\ request[streaming[w]].window = w

(***************************************************************************)
(* Privacy: the messages in windows, in GETs and in requests are of turns  *)
(* that were asked by the user they are shown to or sent for.              *)
(***************************************************************************)
Owned(m, u) == \A i \in DOMAIN m : m[i].turn \in Asking /\ UserOfTurn(m[i].turn) = u

OwnInv == /\ \A w \in Windows : Owned(messages[w], UserOf[w])
          /\ \A w \in Windows : \A i \in DOMAIN loads[w] :
               loads[w][i].result # None => Owned(loads[w][i].result, UserOf[w])
          /\ \A n \in Asking : Owned(request[n].messages, UserOfTurn(n))

(***************************************************************************)
(* Windows used with care.  InView, Unsaved and Recorded are the turns of  *)
(* the session shown, those not settled and the history; Mine says that no *)
(* other window asked in it.  Convo is the history a saved turn leaves,    *)
(* and Heard what a window has of it that saw the turn's stream.           *)
(***************************************************************************)
InView(w) == Asked(UserOf[w], session[w])
Unsaved(w) == Pending(UserOf[w], session[w])
Recorded(w) == GetSession(UserOf[w], session[w])
Mine(w) == \A n \in InView(w) : request[n].window = w
Convo(n) == Append(request[n].messages,
                   [role |-> "assistant", turn |-> n, text |-> content[n]])
Heard(n) == Append(request[n].messages,
                   [role |-> "assistant", turn |-> n, text |-> reply[n]])

Streams(w) ==
  streaming[w] # None =>
    /\ loads[w] = <<>>
    /\ request[streaming[w]].session_id = session[w]
    /\ messages[w] = request[streaming[w]].messages
    /\ Mine(w) => \A n \in InView(w) : n <= streaming[w]

Waits(w) ==
  loads[w] # <<>> =>
    /\ Len(loads[w]) = 1
    /\ loads[w][1].session = session[w]
    /\ Mine(w) /\ loads[w][1].result # None =>
         /\ Unsaved(w) = {}
         /\ loads[w][1].result = Recorded(w)

Agrees(w) ==
  Mine(w) /\ streaming[w] = None /\ loads[w] = <<>> =>
    \A n \in InView(w) :
      /\ \A o \in InView(w) : o <= n
      /\ job[n] \in {"save", "saved"}
      => \/ Visible(messages[w]) = Visible(Convo(n))
         \/ Visible(messages[w]) = Visible(Heard(n))

CareInv == \A w \in Windows \ careless : Streams(w) /\ Waits(w) /\ Agrees(w)
-----------------------------------------------------------------------------
(***************************************************************************)
(* Sequences.                                                              *)
(***************************************************************************)
LEMMA RemoveAtProperties ==
  ASSUME NEW S, NEW m \in Seq(S), NEW i \in DOMAIN m
  PROVE  /\ RemoveAt(m, i) \in Seq(S)
         /\ Len(RemoveAt(m, i)) = Len(m) - 1
         /\ \A j \in DOMAIN RemoveAt(m, i) : \E k \in DOMAIN m : RemoveAt(m, i)[j] = m[k]
<1> DEFINE a == SubSeq(m, 1, i - 1)
           b == SubSeq(m, i + 1, Len(m))
<1>1. i \in 1..Len(m) /\ Len(m) \in Nat /\ \A j \in 1..Len(m) : m[j] \in S
  BY LenProperties
<1>2. a \in Seq(S) /\ Len(a) = i - 1 /\ \A j \in 1..(i - 1) : a[j] = m[j]
  <2>1. /\ a \in Seq(S) /\ Len(a) = IF 1 <= i - 1 THEN (i - 1) - 1 + 1 ELSE 0
        /\ \A j \in 1..((i - 1) - 1 + 1) : a[j] = m[1 + j - 1]
    BY <1>1, SubSeqProperties
  <2> HIDE DEF a
  <2> QED
    BY <1>1, <2>1
<1>3. b \in Seq(S) /\ Len(b) = Len(m) - i /\ \A j \in 1..(Len(m) - i) : b[j] = m[i + j]
  <2>1. /\ b \in Seq(S) /\ Len(b) = IF i + 1 <= Len(m) THEN Len(m) - (i + 1) + 1 ELSE 0
        /\ \A j \in 1..(Len(m) - (i + 1) + 1) : b[j] = m[(i + 1) + j - 1]
    BY <1>1, SubSeqProperties
  <2> HIDE DEF b
  <2> QED
    BY <1>1, <2>1
<1> HIDE DEF a, b
<1>4. /\ a \o b \in Seq(S)
      /\ Len(a \o b) = Len(a) + Len(b)
      /\ \A j \in 1..(Len(a) + Len(b)) :
           (a \o b)[j] = IF j <= Len(a) THEN a[j] ELSE b[j - Len(a)]
  BY <1>2, <1>3, ConcatProperties
<1>5. Len(a) + Len(b) = Len(m) - 1
  BY <1>1, <1>2, <1>3
<1>6. DOMAIN (a \o b) = 1..(Len(m) - 1)
  BY <1>4, <1>5, LenProperties
<1>7. ASSUME NEW j \in 1..(Len(m) - 1)
      PROVE  \E k \in 1..Len(m) : (a \o b)[j] = m[k]
  <2>1. (a \o b)[j] = IF j <= i - 1 THEN a[j] ELSE b[j - (i - 1)]
    BY <1>2, <1>4, <1>5
  <2>2. CASE j <= i - 1
    <3>1. j \in 1..(i - 1) /\ j \in 1..Len(m)
      BY <1>1, <2>2
    <3> QED
      BY <1>2, <2>1, <2>2, <3>1
  <2>3. CASE ~ (j <= i - 1)
    <3>1. j - (i - 1) \in 1..(Len(m) - i) /\ i + (j - (i - 1)) = j + 1 /\ j + 1 \in 1..Len(m)
      BY <1>1, <2>3
    <3> QED
      BY <1>3, <2>1, <2>3, <3>1
  <2> QED
    BY <2>2, <2>3
<1>8. RemoveAt(m, i) = a \o b
  BY DEF RemoveAt, a, b
<1>9. DOMAIN m = 1..Len(m)
  BY LenProperties
<1> QED
  BY <1>4, <1>5, <1>6, <1>7, <1>8, <1>9

\* Visible, as a recursion over the messages up to the n-th.
VisibleStep(m, v, i) ==
  IF i = 0 THEN <<>> ELSE IF m[i].text = NoText THEN v[i - 1] ELSE Append(v[i - 1], m[i])
Unfolds(m, n, v) == v = [i \in 0..n |-> VisibleStep(m, v, i)]

LEMMA VisibleIs == ASSUME NEW m PROVE Visible(m) = (CHOOSE v : Unfolds(m, Len(m), v))[Len(m)]
BY Zenon DEF Visible, Unfolds, VisibleStep

\* The recursion has a solution, and one for a longer conversation begins with it.
LEMMA UnfoldsExists ==
  ASSUME NEW m, NEW n \in Nat
  PROVE  \E v : Unfolds(m, n, v)
<1> DEFINE T == {i \in 0..n : \E v : Unfolds(m, i, v)}
<1>1. 0 \in T
  <2> DEFINE v == [i \in 0..0 |-> <<>>]
  <2>1. Unfolds(m, 0, v)
    BY DEF Unfolds, VisibleStep
  <2> QED
    BY <2>1
<1>2. ASSUME NEW i \in 0..(n - 1), i \in T PROVE i + 1 \in T
  <2>1. PICK v : Unfolds(m, i, v)
    BY <1>2
  <2> DEFINE w == [j \in 0..(i + 1) |->
                     IF j = i + 1 THEN VisibleStep(m, v, i + 1) ELSE v[j]]
  <2>2. ASSUME NEW j \in 0..(i + 1) PROVE w[j] = VisibleStep(m, w, j)
    <3>1. CASE j = 0
      <4>1. w[0] = v[0] /\ v[0] = VisibleStep(m, v, 0)
        BY <2>1 DEF Unfolds
      <4> QED
        BY <3>1, <4>1 DEF VisibleStep
    <3>2. CASE j # 0
      <4>1. w[j - 1] = v[j - 1] /\ j - 1 \in 0..i
        BY <3>2
      <4>2. w[j] = VisibleStep(m, v, j)
        <5>1. CASE j = i + 1
          BY <5>1
        <5>2. CASE j # i + 1
          BY <2>1, <5>2 DEF Unfolds
        <5> QED
          BY <5>1, <5>2
      <4> QED
        BY <3>2, <4>1, <4>2 DEF VisibleStep
    <3> QED
      BY <3>1, <3>2
  <2>3. w = [j \in 0..(i + 1) |-> w[j]]
    OBVIOUS
  <2> HIDE DEF w
  <2>4. Unfolds(m, i + 1, w)
    BY <2>2, <2>3, Zenon DEF Unfolds
  <2> QED
    BY <2>4
<1> HIDE DEF T
<1>3. n \in T
  BY <1>1, <1>2, UpTo
<1> QED
  BY <1>3 DEF T

LEMMA UnfoldsAgree ==
  ASSUME NEW k \in Nat, NEW m, NEW n \in Nat, NEW v, NEW o, NEW p \in Nat, NEW w,
         k <= n, k <= p, \A i \in 1..k : m[i] = o[i], Unfolds(m, n, v), Unfolds(o, p, w)
  PROVE  v[k] = w[k]
<1> DEFINE T == {i \in 0..k : v[i] = w[i]}
<1>1. \A i \in 0..k : v[i] = VisibleStep(m, v, i) /\ w[i] = VisibleStep(o, w, i)
  <2>1. \A i \in 0..k : i \in 0..n /\ i \in 0..p
    OBVIOUS
  <2> QED
    BY <2>1, Zenon DEF Unfolds
<1>2. 0 \in T
  <2>1. 0 \in 0..k
    OBVIOUS
  <2> QED
    BY <1>1, <2>1 DEF VisibleStep
<1>3. ASSUME NEW i \in 0..(k - 1), i \in T PROVE i + 1 \in T
  <2>1. i + 1 \in 0..k /\ i + 1 # 0 /\ (i + 1) - 1 = i /\ m[i + 1] = o[i + 1] /\ v[i] = w[i]
    BY <1>3
  <2> QED
    BY <1>1, <2>1 DEF VisibleStep
<1> HIDE DEF T
<1>4. k \in T
  BY <1>2, <1>3, UpTo
<1> QED
  BY <1>4 DEF T

\* An empty message does not show.
LEMMA EmptyNotVisible ==
  ASSUME NEW m \in Seq(Message), NEW x \in Message, x.text = NoText
  PROVE  Visible(Append(m, x)) = Visible(m)
<1> DEFINE n == Len(m)
           o == Append(m, x)
<1>1. n \in Nat
  BY LenProperties
<1>2. Len(o) = n + 1 /\ (\A i \in 1..n : o[i] = m[i]) /\ o[n + 1] = x
  BY AppendProperties
<1> HIDE DEF n, o
<1>3. PICK v : v = (CHOOSE f : Unfolds(m, n, f)) /\ Unfolds(m, n, v)
  BY <1>1, UnfoldsExists
<1>4. PICK w : w = (CHOOSE f : Unfolds(o, n + 1, f)) /\ Unfolds(o, n + 1, w)
  <2>1. \E f : Unfolds(o, n + 1, f)
    BY <1>1, UnfoldsExists
  <2> QED
    BY <2>1
<1>5. v[n] = w[n]
  <2>1. n + 1 \in Nat /\ n <= n + 1 /\ n <= n /\ \A i \in 1..n : m[i] = o[i]
    BY <1>1, <1>2
  <2> QED
    BY <1>1, <1>3, <1>4, <2>1, UnfoldsAgree
<1>6. w[n + 1] = w[n]
  <2>1. w[n + 1] = VisibleStep(o, w, n + 1)
    <3>1. n + 1 \in 0..(n + 1)
      BY <1>1
    <3> QED
      BY <1>4, <3>1, Zenon DEF Unfolds
  <2>2. n + 1 # 0 /\ (n + 1) - 1 = n
    BY <1>1
  <2> QED
    BY <1>2, <2>1, <2>2 DEF VisibleStep
<1>7. Visible(o) = w[n + 1] /\ Visible(m) = v[n]
  BY <1>2, <1>3, <1>4, VisibleIs DEF n
<1> QED
  BY <1>5, <1>6, <1>7 DEF o
-----------------------------------------------------------------------------
(***************************************************************************)
(* Types.                                                                  *)
(***************************************************************************)

\* The row GetSession answers from.
LEMMA LastRowIs ==
  ASSUME chat_logs \subseteq Row, NEW u, NEW s, Rows(u, s) # {}
  PROVE  /\ LastRow(u, s) \in Rows(u, s)
         /\ \A o \in Rows(u, s) : o.request_at <= LastRow(u, s).request_at
<1> DEFINE S == {l.request_at : l \in Rows(u, s)}
<1>1. S \subseteq 1..MaxTurns /\ S # {}
  BY DEF Rows, Row, Turns
<1>2. IsFiniteSet(1..MaxTurns)
  BY HistoryAssumption, FS_Interval
<1>3. \E x \in S : \A y \in S : y <= x
  <2> HIDE DEF S
  <2>1. IsFiniteSet(S)
    BY <1>1, <1>2, FS_Subset
  <2>2. S \subseteq Int /\ S # {}
    BY <1>1, HistoryAssumption
  <2> QED
    BY <2>1, <2>2, HasGreatest
<1>4. \E l \in Rows(u, s) : \A o \in Rows(u, s) : o.request_at <= l.request_at
  BY <1>3
<1> QED
  BY <1>4 DEF LastRow

LEMMA GetSessionType ==
  ASSUME chat_logs \subseteq Row, NEW u, NEW s
  PROVE  GetSession(u, s) \in Seq(Message)
<1>1. CASE Rows(u, s) = {}
  BY <1>1, EmptySeq DEF GetSession
<1>2. CASE Rows(u, s) # {}
  <2> DEFINE l == LastRow(u, s)
             x == [role |-> "assistant", turn |-> l.request_at, text |-> l.response_content]
  <2>1. l \in Row
    BY <1>2, LastRowIs DEF Rows
  <2>2. l.request_messages \in Seq(Message)
    BY <2>1 DEF Row
  <2>3. l.request_at \in Turns /\ l.response_content \in {"answer", NoText}
    BY <2>1 DEF Row
  <2> HIDE DEF l
  <2>4. x \in Message
    BY <2>3 DEF Message
  <2>5. Append(l.request_messages, x) \in Seq(Message)
    <3> HIDE DEF x
    <3> QED
      BY <2>2, <2>4, AppendProperties
  <2> QED
    BY <1>2, <2>5 DEF GetSession, l
<1> QED
  BY <1>1, <1>2

LEMMA TypeInit == Init => TypeOK
<1> SUFFICES ASSUME Init PROVE TypeOK
  OBVIOUS
<1>1. messages \in [Windows -> Seq(Message)] /\ session \in [Windows -> Sessions]
  BY EmptySeq DEF Init
<1>2. loads \in [Windows -> Seq(Load)] /\ \A w \in Windows : Len(loads[w]) <= MaxLoads
  <2>1. \A w \in Windows : [session |-> session[w], result |-> None] \in Load
    BY <1>1 DEF Load
  <2>2. \A w \in Windows : loads[w] \in Seq(Load) /\ Len(loads[w]) = 1
    BY <2>1 DEF Init
  <2>3. loads = [w \in Windows |-> loads[w]]
    BY DEF Init
  <2>4. loads \in [Windows -> Seq(Load)]
    BY <2>2, <2>3
  <2>5. 1 <= MaxLoads
    BY WindowAssumption
  <2>6. \A w \in Windows : Len(loads[w]) <= MaxLoads
    BY <2>2, <2>5
  <2> QED
    BY <2>4, <2>6
<1> QED
  BY <1>1, <1>2 DEF Init, TypeOK

\* The number of the next turn.
LEMMA NextTurnIs ==
  ASSUME AskingInv, NextTurn \in Turns
  PROVE  /\ Asking = 1..(NextTurn - 1)
         /\ NextTurn \notin Asking
         /\ NextTurn \in Turns \ Asking
<1>1. PICK k \in 0..MaxTurns : Asking = 1..k
  BY DEF AskingInv
<1>2. Cardinality(1..k) = k
  BY <1>1, FS_Interval, HistoryAssumption
<1>3. NextTurn = k + 1
  BY <1>1, <1>2 DEF NextTurn
<1> QED
  BY <1>1, <1>3, HistoryAssumption

\* A message that is put at the end of those shown.
LEMMA PutType ==
  ASSUME TypeOK, NEW w \in Windows, NEW role \in {"user", "assistant"}, NEW n \in Turns,
         NEW text \in {"question", "answer", "remnant", "error", NoText}
  PROVE  /\ [role |-> role, turn |-> n, text |-> text] \in Message
         /\ Put(w, role, n, text) \in Seq(Message)
<1> DEFINE x == [role |-> role, turn |-> n, text |-> text]
<1>1. x \in Message
  BY DEF Message
<1>2. messages[w] \in Seq(Message)
  BY DEF TypeOK
<1> HIDE DEF x
<1>3. Append(messages[w], x) \in Seq(Message)
  BY <1>1, <1>2, AppendProperties
<1> QED
  BY <1>1, <1>3 DEF Put, x

\* The GETs of a window.
LEMMA LoadsAppend ==
  ASSUME TypeOK, NEW w \in Windows, NEW s \in Sessions, Len(loads[w]) < MaxLoads,
         loads' = [loads EXCEPT ![w] = Append(@, [session |-> s, result |-> None])]
  PROVE  /\ loads' \in [Windows -> Seq(Load)]
         /\ \A v \in Windows : Len(loads'[v]) <= MaxLoads
<1> DEFINE x == [session |-> s, result |-> None]
<1>1. x \in Load
  BY DEF Load
<1>2. loads[w] \in Seq(Load) /\ Len(loads[w]) \in Nat /\ MaxLoads \in Nat
  BY LenProperties, WindowAssumption DEF TypeOK
<1> HIDE DEF x
<1>3. Append(loads[w], x) \in Seq(Load) /\ Len(Append(loads[w], x)) = Len(loads[w]) + 1
  BY <1>1, <1>2, AppendProperties
<1>4. loads' = [loads EXCEPT ![w] = Append(loads[w], x)]
  BY DEF x
<1> QED
  BY <1>2, <1>3, <1>4 DEF TypeOK

LEMMA LoadsRemove ==
  ASSUME TypeOK, NEW w \in Windows, NEW i \in DOMAIN loads[w],
         loads' = [loads EXCEPT ![w] = RemoveAt(@, i)]
  PROVE  /\ loads' \in [Windows -> Seq(Load)]
         /\ \A v \in Windows : Len(loads'[v]) <= MaxLoads
         /\ Len(loads'[w]) = Len(loads[w]) - 1
         /\ \A j \in DOMAIN loads'[w] : \E k \in DOMAIN loads[w] : loads'[w][j] = loads[w][k]
<1>1. loads[w] \in Seq(Load) /\ Len(loads[w]) \in Nat /\ MaxLoads \in Nat
  BY LenProperties, WindowAssumption DEF TypeOK
<1> DEFINE m == RemoveAt(loads[w], i)
<1>2. /\ m \in Seq(Load) /\ Len(m) = Len(loads[w]) - 1
      /\ \A j \in DOMAIN m : \E k \in DOMAIN loads[w] : m[j] = loads[w][k]
  BY <1>1, RemoveAtProperties
<1>3. loads' = [loads EXCEPT ![w] = m]
  OBVIOUS
<1> HIDE DEF m
<1>4. loads'[w] = m /\ \A v \in Windows \ {w} : loads'[v] = loads[v]
  BY <1>3 DEF TypeOK
<1>5. loads' \in [Windows -> Seq(Load)]
  BY <1>2, <1>3 DEF TypeOK
<1> QED
  BY <1>1, <1>2, <1>4, <1>5 DEF TypeOK

LEMMA LoadsResult ==
  ASSUME TypeOK, NEW w \in Windows, NEW i \in DOMAIN loads[w],
         NEW r \in Seq(Message), Result(w, i, r)
  PROVE  /\ loads' \in [Windows -> Seq(Load)]
         /\ \A v \in Windows : Len(loads'[v]) = Len(loads[v])
         /\ \A v \in Windows \ {w} : loads'[v] = loads[v]
         /\ loads'[w][i] = [session |-> loads[w][i].session, result |-> r]
         /\ \A j \in DOMAIN loads'[w] \ {i} :
              j \in DOMAIN loads[w] /\ loads'[w][j] = loads[w][j]
<1> DEFINE x == [loads[w][i] EXCEPT !.result = r]
           m == [loads[w] EXCEPT ![i] = x]
<1>1. loads[w] \in Seq(Load) /\ i \in 1..Len(loads[w])
  BY LenProperties DEF TypeOK
<1>2. loads[w][i] \in Load
  BY <1>1, ElementOfSeq
<1>3. x \in Load /\ x = [session |-> loads[w][i].session, result |-> r]
  BY <1>2 DEF Load
<1>4. loads' = [loads EXCEPT ![w] = m]
  BY DEF Result
<1> HIDE DEF x
<1>5. /\ m \in Seq(Load) /\ Len(m) = Len(loads[w]) /\ m[i] = x
      /\ \A j \in 1..Len(loads[w]) : j # i => m[j] = loads[w][j]
  BY <1>1, <1>3, ExceptSeq
<1> HIDE DEF m
<1>6. DOMAIN m = 1..Len(loads[w]) /\ DOMAIN loads[w] = 1..Len(loads[w])
  BY <1>1, <1>5, LenProperties
<1>7. loads'[w] = m /\ \A v \in Windows \ {w} : loads'[v] = loads[v]
  BY <1>4 DEF TypeOK
<1>8. loads' \in [Windows -> Seq(Load)]
  BY <1>4, <1>5 DEF TypeOK
<1> QED
  BY <1>3, <1>5, <1>6, <1>7, <1>8

\* However a turn ends, something is read of it and something is left to save or not.
LEMMA EndIs ==
  ASSUME NEW n, \/ \E c \in {"answer", NoText} : Answer(n, c) \/ Break(n, c)
                \/ Refuse(n)
  PROVE  \E r \in {"remnant", "error", NoText}, c \in {None, "answer", NoText} :
           EndTurn(n, r, c)
<1>1. ReadableOf("answer") \subseteq {"remnant", NoText} /\ ReadableOf(NoText) = {NoText}
  BY DEF ReadableOf, NoText
<1> QED
  BY <1>1 DEF Answer, Break, Refuse

LEMMA TypeStep == TypeOK /\ AskingInv /\ TurnInv /\ [Next]_vars => TypeOK'
<1> SUFFICES ASSUME TypeOK, AskingInv, TurnInv, [Next]_vars PROVE TypeOK'
  OBVIOUS
<1> USE DEF windowVars, turnVars
<1>1. CASE UNCHANGED vars
  BY <1>1 DEF vars, TypeOK
<1>2. ASSUME NEW w \in Windows, NEW s \in Sessions, Select(w, s) \/ NewSession(w, s)
      PROVE  TypeOK'
  <2>1. Show(w, s) /\ (created' = created \/ created' = [created EXCEPT ![w] = @ \cup {s}])
    BY <1>2 DEF Select, NewSession
  <2>2. /\ loads' \in [Windows -> Seq(Load)]
        /\ \A v \in Windows : Len(loads'[v]) <= MaxLoads
    BY <2>1, LoadsAppend DEF Show
  <2>3. messages' \in [Windows -> Seq(Message)]
    BY <2>1, EmptySeq DEF Show, TypeOK
  <2>4. created' \in [Windows -> SUBSET Sessions]
    <3>1. created[w] \cup {s} \in SUBSET Sessions
      BY DEF TypeOK
    <3> QED
      BY <2>1, <3>1 DEF TypeOK
  <2> QED
    BY <2>1, <2>2, <2>3, <2>4 DEF Show, CarelessIf, TypeOK
<1>3. ASSUME NEW w \in Windows, Submit(w) PROVE TypeOK'
  <2> DEFINE n == NextTurn
             m == Put(w, "user", n, "question")
  <2>1. n \in Turns /\ m \in Seq(Message)
    BY <1>3, PutType DEF Submit
  <2>2. [window |-> w, session_id |-> session[w], messages |-> m] \in Request
    BY <2>1 DEF Request, TypeOK
  <2>3. /\ messages' = [messages EXCEPT ![w] = m]
        /\ request' = [request EXCEPT ![n] = [window |-> w, session_id |-> session[w],
                                              messages |-> m]]
        /\ streaming' = [streaming EXCEPT ![w] = n]
        /\ job' = [job EXCEPT ![n] = "call"]
        /\ UNCHANGED <<chat_logs, session, created, loads, reply, content>>
        /\ careless' \in {careless, careless \cup {w}}
    BY <1>3 DEF Submit, CarelessIf
  <2> HIDE DEF n, m
  <2>4. request' \in [Turns -> {None} \cup Request]
    BY <2>2, <2>3 DEF TypeOK
  <2>5. job' \in [Turns -> {"none", "call", "save", "saved", "lost"}]
    BY <2>3 DEF TypeOK
  <2>6. messages' \in [Windows -> Seq(Message)] /\ streaming' \in [Windows -> Turns \cup {None}]
    BY <2>1, <2>3 DEF TypeOK
  <2> QED
    BY <2>3, <2>4, <2>5, <2>6 DEF TypeOK
<1>4. ASSUME NEW w \in Windows, StreamDone(w) PROVE TypeOK'
  <2>1. streaming[w] \in Turns /\ reply[streaming[w]] \in {"remnant", "error", NoText}
    BY <1>4 DEF StreamDone, TypeOK
  <2>2. Put(w, "assistant", streaming[w], reply[streaming[w]]) \in Seq(Message)
    BY <2>1, PutType
  <2>3. messages' \in [Windows -> Seq(Message)]
    BY <1>4, <2>2 DEF StreamDone, TypeOK
  <2> QED
    BY <1>4, <2>3 DEF StreamDone, TypeOK
<1>5. ASSUME NEW w \in Windows, NEW i \in DOMAIN loads[w], LoadReturns(w, i) \/ LoadLost(w, i)
      PROVE  TypeOK'
  <2>1. loads' = [loads EXCEPT ![w] = RemoveAt(@, i)]
    BY <1>5 DEF LoadReturns, LoadLost
  <2>2. /\ loads' \in [Windows -> Seq(Load)]
        /\ \A v \in Windows : Len(loads'[v]) <= MaxLoads
    BY <2>1, LoadsRemove
  <2>3. loads[w][i] \in Load
    <3>1. loads[w] \in Seq(Load) /\ i \in 1..Len(loads[w])
      BY LenProperties DEF TypeOK
    <3> QED
      BY <3>1, ElementOfSeq
  <2>4. messages' \in [Windows -> Seq(Message)]
    BY <1>5, <2>3 DEF LoadReturns, LoadLost, Load, TypeOK
  <2>5. careless' \subseteq Windows
    BY <1>5 DEF LoadReturns, LoadLost, CarelessIf, TypeOK
  <2> QED
    BY <1>5, <2>2, <2>4, <2>5 DEF LoadReturns, LoadLost, TypeOK
<1>6. ASSUME NEW w \in Windows, NEW i \in DOMAIN loads[w], ServeLoad(w, i) \/ LoadError(w, i)
      PROVE  TypeOK'
  <2>1. PICK r \in Seq(Message) : Result(w, i, r)
    BY <1>6, GetSessionType, EmptySeq DEF ServeLoad, LoadError, TypeOK
  <2>2. /\ loads' \in [Windows -> Seq(Load)]
        /\ \A v \in Windows : Len(loads'[v]) <= MaxLoads
    BY <2>1, LoadsResult DEF TypeOK
  <2>3. careless' \subseteq Windows
    BY <1>6 DEF ServeLoad, LoadError, CarelessIf, TypeOK
  <2> QED
    BY <1>6, <2>2, <2>3 DEF ServeLoad, LoadError, TypeOK
<1>7. ASSUME NEW n \in Turns, NEW r \in {"remnant", "error", NoText},
             NEW c \in {None, "answer", NoText}, EndTurn(n, r, c)
      PROVE  TypeOK'
  BY <1>7 DEF EndTurn, TypeOK
<1>8. ASSUME NEW n \in Turns, SaveRow(n) PROVE TypeOK'
  <2>1. request[n] \in Request /\ content[n] \in {"answer", NoText}
    BY <1>8 DEF SaveRow, TurnInv, TurnOf, TypeOK
  <2>2. RowOf(n) \in Row
    BY <2>1, WindowAssumption DEF RowOf, Row, Request
  <2>3. chat_logs' = chat_logs \cup {RowOf(n)}
    BY <1>8 DEF SaveRow, Save, RowOf
  <2>4. chat_logs' \subseteq Row
    BY <2>2, <2>3 DEF TypeOK
  <2> QED
    BY <1>8, <2>4 DEF SaveRow, TypeOK
<1>9. ASSUME NEW n \in Turns, LoseRow(n) PROVE TypeOK'
  BY <1>9 DEF LoseRow, TypeOK
<1> QED
  BY <1>1, <1>2, <1>3, <1>4, <1>5, <1>6, <1>7, <1>8, <1>9, EndIs DEF Next, Window, Server
-----------------------------------------------------------------------------
(***************************************************************************)
(* Turns.                                                                  *)
(***************************************************************************)

\* What Submit does to the turns: it asks the next one, n.
LEMMA SubmitIs ==
  ASSUME TypeOK, AskingInv, NEW w \in Windows, Submit(w), NEW n, n = NextTurn
  PROVE  /\ n \in Turns /\ request[n] = None /\ Asking = 1..(n - 1)
         /\ request'[n] \in Request /\ request'[n] # None
         /\ request'[n].window = w /\ request'[n].session_id = session[w]
         /\ request'[n].messages = Put(w, "user", n, "question")
         /\ \A o \in Turns \ {n} : request'[o] = request[o]
         /\ job'[n] = "call" /\ \A o \in Turns \ {n} : job'[o] = job[o]
         /\ streaming'[w] = n /\ \A v \in Windows \ {w} : streaming'[v] = streaming[v]
         /\ messages'[w] = Put(w, "user", n, "question")
         /\ \A v \in Windows \ {w} : messages'[v] = messages[v]
<1> DEFINE m == Put(w, "user", n, "question")
           asked == [window |-> w, session_id |-> session[w], messages |-> m]
<1>1. /\ n \in Turns
      /\ messages' = [messages EXCEPT ![w] = m]
      /\ request' = [request EXCEPT ![n] = asked]
      /\ streaming' = [streaming EXCEPT ![w] = n]
      /\ job' = [job EXCEPT ![n] = "call"]
  BY DEF Submit
<1>2. Asking = 1..(n - 1) /\ n \notin Asking
  BY <1>1, NextTurnIs
<1>3. m \in Seq(Message)
  BY <1>1, PutType
<1> HIDE DEF m
<1>4. /\ asked \in Request /\ asked.messages = m /\ asked.window = w
      /\ asked.session_id = session[w]
  BY <1>3 DEF Request, TypeOK
<1>5. asked # None
  BY <1>4, WindowAssumption
<1> HIDE DEF asked
<1>6. request'[n] = asked /\ \A o \in Turns \ {n} : request'[o] = request[o]
  BY <1>1 DEF TypeOK
<1>7. job'[n] = "call" /\ \A o \in Turns \ {n} : job'[o] = job[o]
  BY <1>1 DEF TypeOK
<1>8. streaming'[w] = n /\ \A v \in Windows \ {w} : streaming'[v] = streaming[v]
  BY <1>1 DEF TypeOK
<1>9. messages'[w] = m /\ \A v \in Windows \ {w} : messages'[v] = messages[v]
  BY <1>1 DEF TypeOK
<1>10. request[n] = None
  BY <1>1, <1>2 DEF Asking
<1> QED
  BY <1>1, <1>2, <1>4, <1>5, <1>6, <1>7, <1>8, <1>9, <1>10 DEF m

LEMMA TurnsInit == Init => AskingInv /\ TurnInv
<1> SUFFICES ASSUME Init PROVE AskingInv /\ TurnInv
  OBVIOUS
<1>1. Asking = 1..0 /\ 0 \in 0..MaxTurns
  BY HistoryAssumption DEF Init, Asking
<1>2. TurnInv
  BY DEF Init, TurnInv, TurnOf
<1> QED
  BY <1>1, <1>2 DEF AskingInv

LEMMA AskingStep == TypeOK /\ AskingInv /\ [Next]_vars => AskingInv'
<1> SUFFICES ASSUME TypeOK, AskingInv, [Next]_vars PROVE AskingInv'
  OBVIOUS
<1>1. CASE UNCHANGED request
  BY <1>1 DEF AskingInv, Asking
<1>2. ASSUME NEW w \in Windows, Submit(w) PROVE AskingInv'
  <2>1. PICK n : /\ n \in Turns /\ Asking = 1..(n - 1) /\ request'[n] # None
                 /\ \A o \in Turns \ {n} : request'[o] = request[o]
    BY <1>2, SubmitIs
  <2>2. Asking' = Asking \cup {n}
    BY <2>1 DEF Asking
  <2>3. Asking' = 1..n /\ n \in 0..MaxTurns
    BY <2>1, <2>2, HistoryAssumption DEF Turns
  <2> QED
    BY <2>3 DEF AskingInv
<1>3. UNCHANGED request \/ \E w \in Windows : Submit(w)
  BY DEF Next, vars, Window, Server, Select, NewSession, Show, StreamDone, LoadReturns,
         LoadLost, ServeLoad, LoadError, Answer, Break, Refuse, EndTurn, SaveRow, LoseRow,
         turnVars
<1> QED
  BY <1>1, <1>2, <1>3

LEMMA TurnStep == TypeOK /\ AskingInv /\ TurnInv /\ [Next]_vars => TurnInv'
<1> SUFFICES ASSUME TypeOK, AskingInv, TurnInv, [Next]_vars PROVE TurnInv'
  OBVIOUS
<1>1. CASE UNCHANGED <<chat_logs, streaming, turnVars>>
  BY <1>1 DEF TurnInv, TurnOf, RowOf, turnVars
<1>2. ASSUME NEW w \in Windows, Submit(w) PROVE TurnInv'
  <2> SUFFICES ASSUME NEW n, n = NextTurn PROVE TurnInv'
    OBVIOUS
  <2>1. /\ n \in Turns /\ request[n] = None /\ request'[n] # None
        /\ request'[n].window = w
        /\ \A o \in Turns \ {n} : request'[o] = request[o]
        /\ job'[n] = "call" /\ \A o \in Turns \ {n} : job'[o] = job[o]
        /\ streaming'[w] = n /\ \A v \in Windows \ {w} : streaming'[v] = streaming[v]
    BY <1>2, SubmitIs
  <2>2. streaming[w] = None /\ UNCHANGED <<chat_logs, reply, content>>
    BY <1>2 DEF Submit
  <2>3. job[n] = "none" /\ reply[n] = None
    BY <2>1 DEF TurnInv, TurnOf
  <2>4. TurnOf(n)'
    BY <2>1, <2>2, <2>3 DEF TurnOf
  <2>5. ASSUME NEW o \in Turns, o # n PROVE TurnOf(o)'
    <3>1. TurnOf(o) /\ request'[o] = request[o] /\ job'[o] = job[o]
      BY <2>1, <2>5 DEF TurnInv
    <3>2. RowOf(o)' = RowOf(o)
      BY <2>2, <3>1 DEF RowOf
    <3>3. job[o] = "call" => streaming'[request[o].window] = o
      <4> HAVE job[o] = "call"
      <4>1. request[o] \in Request /\ request[o].window \in Windows
        BY <3>1 DEF TurnOf, TypeOK, Request
      <4>2. streaming[request[o].window] = o /\ o # None
        BY <3>1, WindowAssumption DEF TurnOf
      <4> QED
        BY <2>1, <2>2, <4>1, <4>2
    <3> QED
      BY <2>2, <3>1, <3>2, <3>3 DEF TurnOf
  <2>6. ASSUME NEW l \in chat_logs
       PROVE  job'[l.request_at] = "saved" /\ l = RowOf(l.request_at)'
    <3>1. l.request_at \in Turns /\ job[l.request_at] = "saved" /\ l = RowOf(l.request_at)
      BY DEF TurnInv, TypeOK, Row
    <3>2. l.request_at # n
      BY <2>3, <3>1
    <3> QED
      BY <2>1, <2>2, <3>1, <3>2 DEF RowOf
  <2>7. ASSUME NEW v \in Windows, streaming'[v] # None
        PROVE  request'[streaming'[v]] # None /\ request'[streaming'[v]].window = v
    <3>1. CASE v = w
      BY <2>1, <3>1
    <3>2. CASE v # w
      <4>1. /\ streaming'[v] = streaming[v] /\ streaming[v] \in Turns
            /\ request[streaming[v]] # None /\ request[streaming[v]].window = v
        BY <2>1, <2>7, <3>2 DEF TurnInv, TypeOK
      <4> QED
        BY <2>1, <4>1
    <3> QED
      BY <3>1, <3>2
  <2> QED
    BY <2>2, <2>4, <2>5, <2>6, <2>7 DEF TurnInv
<1>3. ASSUME NEW w \in Windows, StreamDone(w) PROVE TurnInv'
  <2>1. /\ UNCHANGED <<chat_logs, request, reply, content, job>>
        /\ streaming' = [streaming EXCEPT ![w] = None]
        /\ streaming[w] \in Turns /\ reply[streaming[w]] # None
    BY <1>3 DEF StreamDone, turnVars, TypeOK
  <2>2. ASSUME NEW n \in Turns, job[n] = "call" PROVE streaming'[request[n].window] = n
    <3>1. streaming[request[n].window] = n /\ reply[n] = None
      BY <2>2 DEF TurnInv, TurnOf
    <3>2. request[n].window # w
      BY <2>1, <3>1
    <3>3. request[n].window \in Windows
      BY <2>2 DEF TurnInv, TurnOf, TypeOK, Request
    <3> QED
      BY <2>1, <3>1, <3>2, <3>3 DEF TypeOK
  <2>3. \A n \in Turns : TurnOf(n)'
    BY <2>1, <2>2 DEF TurnInv, TurnOf, RowOf
  <2>4. \A v \in Windows : streaming'[v] # None => streaming'[v] = streaming[v]
    BY <2>1 DEF TypeOK
  <2> QED
    BY <2>1, <2>3, <2>4 DEF TurnInv, RowOf
<1>4. ASSUME NEW n \in Turns, NEW r \in {"remnant", "error", NoText},
             NEW c \in {None, "answer", NoText}, EndTurn(n, r, c)
      PROVE  TurnInv'
  <2>1. /\ job[n] = "call" /\ UNCHANGED <<chat_logs, streaming, request>>
        /\ reply'[n] = r /\ content'[n] = c
        /\ job'[n] = IF c = None THEN "lost" ELSE "save"
        /\ \A o \in Turns \ {n} : /\ reply'[o] = reply[o] /\ content'[o] = content[o]
                                  /\ job'[o] = job[o]
    BY <1>4 DEF EndTurn, windowVars, TypeOK
  <2>2. TurnOf(n)'
    BY <1>4, <2>1 DEF TurnInv, TurnOf
  <2>3. \A o \in Turns \ {n} : TurnOf(o)'
    BY <2>1 DEF TurnInv, TurnOf, RowOf
  <2>4. ASSUME NEW l \in chat_logs
       PROVE  job'[l.request_at] = "saved" /\ l = RowOf(l.request_at)'
    <3>1. l.request_at \in Turns /\ job[l.request_at] = "saved" /\ l = RowOf(l.request_at)
      BY DEF TurnInv, TypeOK, Row
    <3> QED
      BY <2>1, <3>1 DEF RowOf
  <2> QED
    BY <2>1, <2>2, <2>3, <2>4 DEF TurnInv
<1>5. ASSUME NEW n \in Turns, SaveRow(n) PROVE TurnInv'
  <2>1. /\ job[n] = "save" /\ UNCHANGED <<streaming, request, reply, content>>
        /\ chat_logs' = chat_logs \cup {RowOf(n)}
        /\ job'[n] = "saved" /\ \A o \in Turns \ {n} : job'[o] = job[o]
    BY <1>5 DEF SaveRow, Save, RowOf, windowVars, TypeOK
  <2>2. \A o \in Turns : RowOf(o)' = RowOf(o)
    BY <2>1 DEF RowOf
  <2>3. \A o \in Turns : TurnOf(o)'
    BY <2>1, <2>2 DEF TurnInv, TurnOf
  <2>4. ASSUME NEW l \in chat_logs'
        PROVE  job'[l.request_at] = "saved" /\ l = RowOf(l.request_at)'
    <3>1. CASE l \in chat_logs
      BY <2>1, <2>2, <3>1 DEF TurnInv, TypeOK, Row
    <3>2. CASE l = RowOf(n)
      BY <2>1, <2>2, <3>2 DEF RowOf
    <3> QED
      BY <2>1, <3>1, <3>2
  <2> QED
    BY <2>1, <2>3, <2>4 DEF TurnInv
<1>6. ASSUME NEW n \in Turns, LoseRow(n) PROVE TurnInv'
  <2>1. /\ job[n] = "save" /\ UNCHANGED <<chat_logs, streaming, request, reply, content>>
        /\ job'[n] = "lost" /\ \A o \in Turns \ {n} : job'[o] = job[o]
    BY <1>6 DEF LoseRow, windowVars, TypeOK
  <2>2. \A o \in Turns : TurnOf(o)'
    BY <2>1 DEF TurnInv, TurnOf, RowOf
  <2>3. ASSUME NEW l \in chat_logs
       PROVE  job'[l.request_at] = "saved" /\ l = RowOf(l.request_at)'
    BY <2>1 DEF TurnInv, RowOf, TypeOK, Row
  <2> QED
    BY <2>1, <2>2, <2>3 DEF TurnInv
<1>7. \/ UNCHANGED <<chat_logs, streaming, turnVars>>
      \/ \E w \in Windows : Submit(w) \/ StreamDone(w)
      \/ \E n \in Turns : \/ \E c \in {"answer", NoText} : Answer(n, c) \/ Break(n, c)
                          \/ Refuse(n) \/ SaveRow(n) \/ LoseRow(n)
  BY DEF Next, vars, windowVars, turnVars, Window, Server, Select, NewSession, Show,
         LoadReturns, LoadLost, ServeLoad, LoadError
<1> QED
  BY <1>1, <1>2, <1>3, <1>4, <1>5, <1>6, <1>7, EndIs

\* Every state of the windows, the turns and the audit table is well typed.
THEOREM TypeCorrect == Spec => []TypeOK
BY TypeInit, TypeStep, TurnsInit, AskingStep, TurnStep, PTL DEF Spec
-----------------------------------------------------------------------------
(***************************************************************************)
(* Privacy.                                                                *)
(***************************************************************************)

\* A turn asked stays as it was asked.
LEMMA RequestsKept ==
  ASSUME TypeOK, AskingInv, [Next]_vars, NEW n \in Asking
  PROVE  n \in Turns /\ request'[n] = request[n] /\ n \in Asking'
<1>1. n \in Turns /\ request[n] # None
  BY DEF Asking
<1>2. UNCHANGED request \/ \E w \in Windows : Submit(w)
  BY DEF Next, vars, Window, Server, Select, NewSession, Show, StreamDone, LoadReturns,
         LoadLost, ServeLoad, LoadError, Answer, Break, Refuse, EndTurn, SaveRow, LoseRow,
         turnVars
<1>3. request'[n] = request[n]
  <2>1. ASSUME NEW w \in Windows, Submit(w) PROVE request'[n] = request[n]
    <3>1. PICK o : o = NextTurn
      OBVIOUS
    <3>2. request[o] = None /\ \A p \in Turns \ {o} : request'[p] = request[p]
      BY <2>1, <3>1, SubmitIs
    <3> QED
      BY <1>1, <3>2
  <2> QED
    BY <1>2, <2>1
<1> QED
  BY <1>1, <1>3 DEF Asking

LEMMA OwnedKept ==
  ASSUME TypeOK, AskingInv, [Next]_vars, NEW m, NEW u, Owned(m, u)
  PROVE  Owned(m, u)'
BY RequestsKept DEF Owned, UserOfTurn

\* One more message.
LEMMA AppendCases ==
  ASSUME NEW S, NEW m \in Seq(S), NEW x \in S
  PROVE  \A i \in DOMAIN Append(m, x) : \/ Append(m, x)[i] = x
                                        \/ i \in DOMAIN m /\ Append(m, x)[i] = m[i]
<1> DEFINE a == Append(m, x)
<1>1. /\ a \in Seq(S) /\ Len(a) = Len(m) + 1 /\ a[Len(m) + 1] = x
      /\ \A i \in 1..Len(m) : a[i] = m[i]
  BY AppendProperties
<1> HIDE DEF a
<1>2. DOMAIN a = 1..(Len(m) + 1) /\ DOMAIN m = 1..Len(m) /\ Len(m) \in Nat
  BY <1>1, LenProperties
<1>3. \A i \in DOMAIN a : a[i] = x \/ (i \in DOMAIN m /\ a[i] = m[i])
  BY <1>1, <1>2
<1> QED
  BY <1>3 DEF a

LEMMA OwnedAppend ==
  ASSUME NEW m \in Seq(Message), NEW x \in Message, NEW u, Owned(m, u),
         x.turn \in Asking, UserOfTurn(x.turn) = u
  PROVE  Owned(Append(m, x), u)
BY AppendCases DEF Owned

LEMMA OwnedAppendNext ==
  ASSUME NEW m \in Seq(Message), NEW x \in Message, NEW u, Owned(m, u)',
         x.turn \in Asking', UserOf[request'[x.turn].window] = u
  PROVE  Owned(Append(m, x), u)'
BY AppendCases DEF Owned, UserOfTurn

LEMMA OwnedEmpty == ASSUME NEW u PROVE Owned(<<>>, u)
BY DEF Owned

\* The history of a user's session is of the user's own turns.
LEMMA HistoryOwned ==
  ASSUME TypeOK, TurnInv, OwnInv, NEW u, NEW s
  PROVE  Owned(GetSession(u, s), u)
<1>1. CASE Rows(u, s) = {}
  BY <1>1, OwnedEmpty DEF GetSession
<1>2. CASE Rows(u, s) # {}
  <2>1. PICK l \in chat_logs : l = LastRow(u, s) /\ l.user_id = u
    BY <1>2, LastRowIs DEF TypeOK, Rows
  <2>2. l.request_at \in Turns
    BY DEF TypeOK, Row
  <2>3. PICK n \in Turns : n = l.request_at /\ job[n] = "saved" /\ l = RowOf(n)
    BY <2>2 DEF TurnInv
  <2>4. n \in Asking /\ UserOfTurn(n) = u
    BY <2>1, <2>3 DEF TurnInv, TurnOf, Asking, RowOf, UserOfTurn
  <2>5. request[n] \in Request /\ Owned(request[n].messages, u)
    BY <2>4 DEF OwnInv, Asking, TypeOK
  <2>6. content[n] \in {"answer", NoText}
    BY <2>3 DEF TurnInv, TurnOf
  <2> DEFINE x == [role |-> "assistant", turn |-> n, text |-> content[n]]
  <2>7. x \in Message /\ x.turn = n
    BY <2>6 DEF Message
  <2>8. GetSession(u, s) = Append(request[n].messages, x)
    BY <1>2, <2>1, <2>3 DEF GetSession, RowOf
  <2> HIDE DEF x
  <2>9. request[n].messages \in Seq(Message)
    BY <2>5 DEF Request
  <2> QED
    BY <2>4, <2>5, <2>7, <2>8, <2>9, OwnedAppend
<1> QED
  BY <1>1, <1>2

LEMMA OwnInit == Init => OwnInv
<1> SUFFICES ASSUME Init PROVE OwnInv
  OBVIOUS
<1>1. \A w \in Windows : \A i \in DOMAIN loads[w] : loads[w][i].result = None
  BY DEF Init
<1>2. Asking = {} /\ \A w \in Windows : messages[w] = <<>>
  BY DEF Init, Asking
<1> QED
  BY <1>1, <1>2, OwnedEmpty DEF OwnInv

\* What is put at the end of the messages of a window.
LEMMA PutOwned ==
  ASSUME TypeOK, AskingInv, OwnInv, [Next]_vars, NEW w \in Windows,
         NEW role \in {"user", "assistant"}, NEW n \in Turns,
         NEW text \in {"question", "answer", "remnant", "error", NoText},
         n \in Asking', request'[n].window = w, NEW m, m = Put(w, role, n, text)
  PROVE  Owned(m, UserOf[w])'
<1> DEFINE x == [role |-> role, turn |-> n, text |-> text]
<1>1. x \in Message /\ x.turn = n
  BY PutType
<1>2. PICK o \in Seq(Message) : o = messages[w] /\ Owned(o, UserOf[w])
  BY DEF OwnInv, TypeOK
<1>3. m = Append(o, x)
  BY <1>2 DEF Put
<1> HIDE DEF x
<1>4. Owned(o, UserOf[w])'
  BY <1>2, OwnedKept
<1> QED
  BY <1>1, <1>2, <1>3, <1>4, OwnedAppendNext

\* What a window shows next.
LEMMA ShownStep ==
  ASSUME TypeOK, AskingInv, TurnInv, OwnInv, [Next]_vars, NEW w \in Windows
  PROVE  Owned(messages[w], UserOf[w])'
<1> SUFFICES ASSUME NEW m, m = messages'[w] PROVE Owned(m, UserOf[w])'
  BY DEF Owned
<1>1. CASE m = messages[w] \/ m = <<>>
  <2>1. CASE m = messages[w]
    <3>1. Owned(m, UserOf[w])
      BY <2>1 DEF OwnInv
    <3> QED
      BY <3>1, OwnedKept
  <2>2. CASE m = <<>>
    BY <2>2 DEF Owned
  <2> QED
    BY <1>1, <2>1, <2>2
<1>2. ASSUME NEW v \in Windows, Submit(v) PROVE Owned(m, UserOf[w])'
  <2>1. PICK n : n = NextTurn
    OBVIOUS
  <2>2. /\ n \in Turns /\ n \in Asking' /\ request'[n].window = v
        /\ messages'[v] = Put(v, "user", n, "question")
        /\ \A o \in Windows \ {v} : messages'[o] = messages[o]
    BY <1>2, <2>1, SubmitIs DEF Asking
  <2>3. CASE v = w
    BY <2>2, <2>3, PutOwned
  <2> QED
    BY <1>1, <2>2, <2>3
<1>3. ASSUME NEW v \in Windows, StreamDone(v) PROVE Owned(m, UserOf[w])'
  <2>1. PICK n \in Turns, text \in {"remnant", "error", NoText} :
               n = streaming[v] /\ text = reply[n]
    BY <1>3 DEF StreamDone, TypeOK
  <2>2. n \in Asking /\ request[n].window = v
    BY <1>3, <2>1 DEF StreamDone, TurnInv, Asking
  <2>3. n \in Asking' /\ request'[n].window = v
    BY <2>2, RequestsKept
  <2>4. messages' \in {messages, [messages EXCEPT ![v] = Put(v, "assistant", n, text)]}
    BY <1>3, <2>1 DEF StreamDone
  <2>5. m = messages[w] \/ (w = v /\ m = Put(v, "assistant", n, text))
    BY <2>4 DEF TypeOK
  <2> QED
    BY <1>1, <2>3, <2>5, PutOwned
<1>4. ASSUME NEW v \in Windows, NEW i \in DOMAIN loads[v], LoadReturns(v, i)
      PROVE  Owned(m, UserOf[w])'
  <2>1. m = messages[w] \/ (w = v /\ m = loads[v][i].result /\ m # None)
    BY <1>4 DEF LoadReturns, TypeOK
  <2>2. m # messages[w] => Owned(m, UserOf[w])
    BY <2>1 DEF OwnInv
  <2> QED
    BY <1>1, <2>2, OwnedKept
<1>5. ASSUME NEW v \in Windows, NEW s \in Sessions, Show(v, s) PROVE Owned(m, UserOf[w])'
  BY <1>1, <1>5 DEF Show, TypeOK
<1>6. \/ UNCHANGED messages
      \/ \E v \in Windows : \/ Submit(v) \/ StreamDone(v)
                            \/ \E i \in DOMAIN loads[v] : LoadReturns(v, i)
                            \/ \E s \in Sessions : Show(v, s)
  BY DEF Next, vars, windowVars, Window, Server, Select, NewSession, LoadLost, ServeLoad,
         LoadError, Answer, Break, Refuse, EndTurn, SaveRow, LoseRow
<1> QED
  BY <1>1, <1>2, <1>3, <1>4, <1>5, <1>6

\* What is on its way to a window.
LEMMA ComingStep ==
  ASSUME TypeOK, AskingInv, TurnInv, OwnInv, [Next]_vars, NEW w \in Windows,
         NEW j \in DOMAIN loads'[w], loads'[w][j].result # None
  PROVE  Owned(loads[w][j].result, UserOf[w])'
<1> SUFFICES ASSUME NEW r, r = loads'[w][j].result, r # None PROVE Owned(r, UserOf[w])'
  BY DEF Owned
<1>1. CASE Owned(r, UserOf[w])
  BY <1>1, OwnedKept
<1>2. CASE \E k \in DOMAIN loads[w] : loads'[w][j] = loads[w][k]
  BY <1>1, <1>2 DEF OwnInv
<1>3. ASSUME NEW v \in Windows, NEW s \in Sessions, Show(v, s) PROVE Owned(r, UserOf[w])'
  <2> DEFINE x == [session |-> s, result |-> None]
  <2>1. loads[v] \in Seq(Load) /\ x \in Load /\ x.result = None
    BY DEF TypeOK, Load
  <2>2. loads' = [loads EXCEPT ![v] = Append(loads[v], x)]
    BY <1>3 DEF Show
  <2> HIDE DEF x
  <2>3. \A i \in DOMAIN Append(loads[v], x) :
          \/ Append(loads[v], x)[i] = x
          \/ i \in DOMAIN loads[v] /\ Append(loads[v], x)[i] = loads[v][i]
    BY <2>1, AppendCases
  <2>4. CASE w = v
    BY <1>2, <2>1, <2>2, <2>3, <2>4 DEF TypeOK
  <2>5. CASE w # v
    BY <1>2, <2>2, <2>5 DEF TypeOK
  <2> QED
    BY <2>4, <2>5
<1>4. ASSUME NEW v \in Windows, NEW i \in DOMAIN loads[v], LoadReturns(v, i) \/ LoadLost(v, i)
      PROVE  Owned(r, UserOf[w])'
  <2>1. loads' = [loads EXCEPT ![v] = RemoveAt(@, i)]
    BY <1>4 DEF LoadReturns, LoadLost
  <2>2. CASE w = v
    BY <1>2, <2>1, <2>2, LoadsRemove
  <2>3. CASE w # v
    BY <1>2, <2>1, <2>3 DEF TypeOK
  <2> QED
    BY <2>2, <2>3
<1>5. ASSUME NEW v \in Windows, NEW i \in DOMAIN loads[v], ServeLoad(v, i) \/ LoadError(v, i)
      PROVE  Owned(r, UserOf[w])'
  <2>1. PICK g \in Seq(Message) : Result(v, i, g) /\ Owned(g, UserOf[v])
    BY <1>5, GetSessionType, EmptySeq, HistoryOwned, OwnedEmpty DEF ServeLoad, LoadError, TypeOK
  <2>2. /\ \A o \in Windows \ {v} : loads'[o] = loads[o]
        /\ loads'[v][i] = [session |-> loads[v][i].session, result |-> g]
        /\ \A k \in DOMAIN loads'[v] \ {i} : k \in DOMAIN loads[v] /\ loads'[v][k] = loads[v][k]
    BY <2>1, LoadsResult
  <2>3. loads'[v][i].result = g
    BY <2>2
  <2> QED
    BY <1>1, <1>2, <2>1, <2>2, <2>3
<1>6. \/ UNCHANGED loads
      \/ \E v \in Windows : \/ \E s \in Sessions : Show(v, s)
                            \/ \E i \in DOMAIN loads[v] : \/ LoadReturns(v, i) \/ LoadLost(v, i)
                                                          \/ ServeLoad(v, i) \/ LoadError(v, i)
  BY DEF Next, vars, windowVars, Window, Server, Select, NewSession, Submit, StreamDone,
         Answer, Break, Refuse, EndTurn, SaveRow, LoseRow
<1> QED
  BY <1>2, <1>3, <1>4, <1>5, <1>6

\* What is sent with a request.
LEMMA SentStep ==
  ASSUME TypeOK, AskingInv, OwnInv, [Next]_vars, NEW n \in Asking'
  PROVE  Owned(request[n].messages, UserOfTurn(n))'
<1> SUFFICES ASSUME NEW m, m = request'[n].messages, NEW u, u = UserOf[request'[n].window]
             PROVE  Owned(m, u)'
  BY DEF Owned, UserOfTurn
<1>1. CASE n \in Asking
  <2>1. m = request[n].messages /\ u = UserOfTurn(n)
    BY <1>1, RequestsKept DEF UserOfTurn
  <2> QED
    BY <1>1, <2>1, OwnedKept DEF OwnInv
<1>2. CASE n \notin Asking
  <2>1. PICK w \in Windows : Submit(w)
    <3>1. ~ UNCHANGED request
      BY <1>2 DEF Asking
    <3> QED
      BY <3>1 DEF Next, vars, Window, Server, Select, NewSession, Show, StreamDone, LoadReturns,
         LoadLost, ServeLoad, LoadError, Answer, Break, Refuse, EndTurn, SaveRow, LoseRow,
         turnVars
  <2>2. n = NextTurn
    <3>1. PICK o : o = NextTurn
      OBVIOUS
    <3>2. \A p \in Turns \ {o} : request'[p] = request[p]
      BY <2>1, <3>1, SubmitIs
    <3> QED
      BY <1>2, <3>1, <3>2 DEF Asking
  <2>3. n \in Turns /\ request'[n].window = w /\ m = Put(w, "user", n, "question")
    BY <2>1, <2>2, SubmitIs
  <2> QED
    BY <2>3, PutOwned
<1> QED
  BY <1>1, <1>2

LEMMA OwnStep == TypeOK /\ AskingInv /\ TurnInv /\ OwnInv /\ [Next]_vars => OwnInv'
<1> SUFFICES ASSUME TypeOK, AskingInv, TurnInv, OwnInv, [Next]_vars PROVE OwnInv'
  OBVIOUS
<1>1. \A w \in Windows : Owned(messages[w], UserOf[w])'
  BY ShownStep
<1>2. \A w \in Windows : \A i \in DOMAIN loads'[w] :
        loads'[w][i].result # None => Owned(loads[w][i].result, UserOf[w])'
  BY ComingStep
<1>3. \A n \in Asking' : Owned(request[n].messages, UserOfTurn(n))'
  BY SentStep
<1> QED
  BY <1>1, <1>2, <1>3 DEF OwnInv

\* What one user says and is told never reaches a window of another.
THEOREM SessionsArePrivate == Spec => []SessionsPrivate
<1>1. OwnInv => SessionsPrivate
  BY DEF OwnInv, Owned, SessionsPrivate, TurnsIn
<1> QED
  BY <1>1, TypeInit, TypeStep, TurnsInit, AskingStep, TurnStep, OwnInit, OwnStep, PTL DEF Spec

\* Rows only come, so the last one never becomes an earlier one.
THEOREM HistoryDoesNotRegress == Spec => HistoryNeverRegresses
<1> DEFINE Later == \A u \in Users, s \in Sessions :
                      Rows(u, s) # {} => LastRow(u, s).request_at <= LastRow(u, s).request_at'
<1>1. TypeOK /\ TypeOK' /\ [Next]_vars => Later
  <2> SUFFICES ASSUME TypeOK, TypeOK', [Next]_vars, NEW u \in Users, NEW s \in Sessions,
                      Rows(u, s) # {}
               PROVE  LastRow(u, s).request_at <= LastRow(u, s).request_at'
    OBVIOUS
  <2>1. chat_logs \subseteq chat_logs'
    BY DEF Next, vars, Window, Server, Select, NewSession, Show, Submit, StreamDone,
           LoadReturns, LoadLost, ServeLoad, LoadError, Answer, Break, Refuse, EndTurn, SaveRow,
           LoseRow, Save
  <2>2. Rows(u, s) \subseteq Rows(u, s)'
    BY <2>1 DEF Rows
  <2>3. LastRow(u, s) \in Rows(u, s)
    BY LastRowIs DEF TypeOK
  <2>4. \A o \in Rows(u, s)' : o.request_at <= LastRow(u, s).request_at'
    <3>1. ASSUME (chat_logs \subseteq Row)', (Rows(u, s) # {})'
          PROVE  (\A o \in Rows(u, s) : o.request_at <= LastRow(u, s).request_at)'
      BY <3>1, LastRowIs, PTL
    <3> QED
      BY <2>2, <3>1 DEF TypeOK, Row
  <2> QED
    BY <2>2, <2>3, <2>4
<1> QED
  BY <1>1, TypeInit, TypeStep, TurnsInit, AskingStep, TurnStep, PTL
     DEF Spec, HistoryNeverRegresses
-----------------------------------------------------------------------------
(***************************************************************************)
(* Windows used with care.                                                 *)
(***************************************************************************)

\* Once the last turn of a session is saved, its history is the conversation of it.
LEMMA LastSaved ==
  ASSUME TypeOK, TurnInv, NEW u, NEW s, NEW n \in Asked(u, s),
         \A o \in Asked(u, s) : o <= n, job[n] = "saved"
  PROVE  GetSession(u, s) = Convo(n)
<1>1. n \in Turns /\ UserOf[request[n].window] = u /\ request[n].session_id = s
  BY DEF Asked
<1>2. RowOf(n) \in chat_logs
  BY <1>1 DEF TurnInv, TurnOf
<1>3. RowOf(n) \in Rows(u, s)
  BY <1>1, <1>2 DEF Rows, RowOf
<1>4. /\ LastRow(u, s) \in Rows(u, s)
      /\ \A o \in Rows(u, s) : o.request_at <= LastRow(u, s).request_at
  BY <1>3, LastRowIs DEF TypeOK
<1>5. PICK l \in chat_logs : /\ l = LastRow(u, s) /\ l.user_id = u /\ l.session_id = s
                             /\ n <= l.request_at
  <2>1. RowOf(n).request_at = n
    BY DEF RowOf
  <2> QED
    BY <1>3, <1>4, <2>1 DEF Rows
<1>6. PICK k \in Turns : k = l.request_at /\ job[k] = "saved" /\ l = RowOf(k)
  BY DEF TurnInv, TypeOK, Row
<1>7. k \in Asked(u, s)
  BY <1>5, <1>6 DEF TurnInv, TurnOf, Asked, RowOf
<1>8. k = n
  <2>1. n \in Int /\ k \in Int /\ n <= k /\ k <= n
    BY <1>1, <1>5, <1>6, <1>7, HistoryAssumption DEF Turns
  <2> QED
    BY <2>1
<1> QED
  BY <1>3, <1>5, <1>6, <1>8 DEF GetSession, RowOf, Convo

\* What is heard of a turn is its conversation with another answer.
LEMMA HeardIs ==
  ASSUME TypeOK, TurnInv, NEW n \in Turns, request[n] # None, job[n] = "saved"
  PROVE  WithLast(Convo(n), reply[n]) = Heard(n)
<1>1. PICK m \in Seq(Message) : m = request[n].messages
  BY DEF TypeOK, Request
<1>2. PICK r, c : r = reply[n] /\ c = content[n]
  OBVIOUS
<1> DEFINE x == [role |-> "assistant", turn |-> n, text |-> c]
           y == [role |-> "assistant", turn |-> n, text |-> r]
<1>3. x \in Message /\ y \in Message /\ y = [x EXCEPT !.text = r]
  BY <1>2 DEF TurnInv, TurnOf, Message
<1> HIDE DEF x, y
<1>4. PICK k \in Nat : k = Len(m)
  BY LenProperties
<1>5. PICK a \in Seq(Message) :
        a = Append(m, x) /\ Len(a) = k + 1 /\ a[k + 1] = x /\ \A i \in 1..k : a[i] = m[i]
  <2>1. PICK o \in Seq(Message) : o = Append(m, x)
    BY <1>3, AppendProperties
  <2>2. Len(o) = k + 1 /\ o[k + 1] = x /\ \A i \in 1..k : o[i] = m[i]
    BY <1>3, <1>4, <2>1, AppendProperties
  <2> QED
    BY <2>1, <2>2
<1>6. PICK b \in Seq(Message) :
        b = Append(m, y) /\ Len(b) = k + 1 /\ b[k + 1] = y /\ \A i \in 1..k : b[i] = m[i]
  <2>1. PICK o \in Seq(Message) : o = Append(m, y)
    BY <1>3, AppendProperties
  <2>2. Len(o) = k + 1 /\ o[k + 1] = y /\ \A i \in 1..k : o[i] = m[i]
    BY <1>3, <1>4, <2>1, AppendProperties
  <2> QED
    BY <2>1, <2>2
<1>7. DOMAIN a = 1..(k + 1) /\ DOMAIN b = 1..(k + 1)
  BY <1>5, <1>6, LenProperties
<1>8. a = [i \in 1..(k + 1) |-> a[i]] /\ b = [i \in 1..(k + 1) |-> b[i]]
  BY <1>7
<1>9. [a EXCEPT ![k + 1].text = r] = [i \in 1..(k + 1) |-> IF i = k + 1 THEN y ELSE a[i]]
  BY <1>3, <1>5, <1>7
<1>10. \A i \in 1..(k + 1) : b[i] = IF i = k + 1 THEN y ELSE a[i]
  BY <1>5, <1>6
<1>11. [a EXCEPT ![k + 1].text = r] = b
  BY <1>8, <1>9, <1>10
<1>12. Convo(n) = a /\ Heard(n) = b
  BY <1>1, <1>2, <1>5, <1>6 DEF Convo, Heard, x, y
<1> QED
  BY <1>2, <1>5, <1>11, <1>12 DEF WithLast

\* A window that a step leaves alone.
LEMMA CareElsewhere ==
  ASSUME TypeOK, TurnInv, NEW w \in Windows, Streams(w), Waits(w), Agrees(w),
         messages'[w] = messages[w], streaming'[w] = streaming[w], loads'[w] = loads[w],
         session'[w] = session[w],
         \A n \in Asking : request'[n] = request[n],
         Mine(w)' => Mine(w) /\ InView(w)' = InView(w),
         Mine(w)' /\ Unsaved(w) = {} => Unsaved(w)' = {} /\ Recorded(w)' = Recorded(w),
         Mine(w)' /\ streaming[w] = None =>
           \A n \in InView(w) : job'[n] \in {"save", "saved"} =>
             /\ job[n] \in {"save", "saved"}
             /\ reply'[n] = reply[n] /\ content'[n] = content[n]
  PROVE  Streams(w)' /\ Waits(w)' /\ Agrees(w)'
<1>1. streaming[w] # None => streaming[w] \in Asking
  BY DEF TurnInv, TypeOK, Asking
<1>2. Streams(w)'
  BY <1>1 DEF Streams
<1>3. Waits(w)'
  BY DEF Waits
<1>4. Agrees(w)'
  <2>1. InView(w) \subseteq Asking
    BY DEF InView, Asked, Asking
  <2>2. SUFFICES ASSUME Mine(w)', streaming'[w] = None, loads'[w] = <<>>, NEW n \in InView(w)',
                        \A o \in InView(w)' : o <= n, job'[n] \in {"save", "saved"}
                 PROVE  \/ Visible(messages'[w]) = Visible(Convo(n)')
                        \/ Visible(messages'[w]) = Visible(Heard(n)')
    BY DEF Agrees, Visible
  <2>3. Convo(n)' = Convo(n) /\ Heard(n)' = Heard(n)
    BY <2>1, <2>2 DEF Convo, Heard
  <2> QED
    BY <2>2, <2>3 DEF Agrees
<1> QED
  BY <1>2, <1>3, <1>4
\* The turns of a session, when no request is made.
LEMMA ViewKept ==
  ASSUME UNCHANGED <<request, session>>, NEW w \in Windows
  PROVE  InView(w)' = InView(w) /\ (Mine(w)' <=> Mine(w))
BY DEF InView, Mine, Asked

LEMMA UnsavedKept ==
  ASSUME UNCHANGED <<request, session, job>>, NEW w \in Windows
  PROVE  Unsaved(w)' = Unsaved(w)
BY DEF Unsaved, Pending, Asked

LEMMA RecordKept ==
  ASSUME UNCHANGED <<session, chat_logs>>, NEW w \in Windows
  PROVE  Recorded(w)' = Recorded(w)
BY DEF Recorded, GetSession, Rows, LastRow

\* A step of another window, or of a GET of it.
LEMMA CareOther ==
  ASSUME TypeOK, TurnInv, CareInv, NEW w \in Windows \ careless,
         UNCHANGED <<chat_logs, turnVars>>, session'[w] = session[w],
         messages'[w] = messages[w], streaming'[w] = streaming[w], loads'[w] = loads[w]
  PROVE  Streams(w)' /\ Waits(w)' /\ Agrees(w)'
<1>1. InView(w)' = InView(w) /\ (Mine(w)' <=> Mine(w))
  BY DEF InView, Mine, Asked, turnVars
<1>2. Unsaved(w)' = Unsaved(w) /\ Recorded(w)' = Recorded(w)
  BY DEF Unsaved, Pending, Asked, Recorded, GetSession, Rows, LastRow, turnVars
<1>3. Streams(w) /\ Waits(w) /\ Agrees(w)
  BY DEF CareInv
<1> QED
  BY <1>1, <1>2, <1>3, CareElsewhere DEF turnVars

\* A request is made in a window: in this one, or in another.
LEMMA CareSubmit ==
  ASSUME TypeOK, AskingInv, TurnInv, CareInv, NEW w \in Windows \ careless', NEW v \in Windows,
         Submit(v)
  PROVE  Streams(w)' /\ Waits(w)' /\ Agrees(w)'
<1>1. PICK n : n = NextTurn
  OBVIOUS
<1>2. /\ n \in Turns /\ request[n] = None /\ Asking = 1..(n - 1)
      /\ request'[n] # None
      /\ request'[n].window = v /\ request'[n].session_id = session[v]
      /\ request'[n].messages = Put(v, "user", n, "question")
      /\ \A o \in Turns \ {n} : request'[o] = request[o]
      /\ job'[n] = "call" /\ \A o \in Turns \ {n} : job'[o] = job[o]
      /\ streaming'[v] = n /\ \A x \in Windows \ {v} : streaming'[x] = streaming[x]
      /\ messages'[v] = Put(v, "user", n, "question")
      /\ \A x \in Windows \ {v} : messages'[x] = messages[x]
  BY <1>1, SubmitIs
<1>3. UNCHANGED <<chat_logs, session, loads, reply, content>>
  BY DEF Submit
<1>4. w \in Windows \ careless /\ (w = v => loads[w] = <<>>)
  BY DEF Submit, CarelessIf
<1>5. CASE w = v
  <2>1. Streams(w)'
    <3>1. ASSUME NEW o \in InView(w)' PROVE o <= n
      <4>1. o \in Turns /\ (o = n \/ o \in Asking)
        BY <1>2 DEF InView, Asked, Asking
      <4>2. n \in Int /\ o \in Int
        BY <1>2, <4>1, HistoryAssumption DEF Turns
      <4> QED
        BY <1>2, <4>1, <4>2
    <3> QED
      BY <1>2, <1>3, <1>4, <1>5, <3>1 DEF Streams
  <2>2. streaming'[w] # None /\ loads'[w] = <<>>
    BY <1>2, <1>3, <1>4, <1>5, WindowAssumption
  <2> QED
    BY <2>1, <2>2 DEF Waits, Agrees
<1>6. CASE w # v
  <2>1. \A o \in Asking : request'[o] = request[o] /\ job'[o] = job[o]
    BY <1>2 DEF Asking
  <2>2. Mine(w)' => Mine(w) /\ InView(w)' = InView(w)
    <3> HAVE Mine(w)'
    <3>1. n \notin InView(w)' /\ n \notin InView(w)
      BY <1>2, <1>6 DEF Mine, InView, Asked
    <3>2. InView(w)' = InView(w)
      BY <1>2, <1>3, <3>1 DEF InView, Asked
    <3> QED
      BY <2>1, <3>2 DEF Mine, InView, Asked, Asking
  <2>3. Mine(w)' /\ Unsaved(w) = {} => Unsaved(w)' = {}
    <3> HAVE Mine(w)' /\ Unsaved(w) = {}
    <3>1. \A o \in InView(w) : job'[o] \notin {"call", "save"}
      BY <2>1 DEF Unsaved, Pending, InView, Asked, Asking
    <3> QED
      BY <2>2, <3>1 DEF Unsaved, Pending, InView
  <2>4. Recorded(w)' = Recorded(w)
    BY <1>3, RecordKept
  <2>5. \A o \in InView(w) : job'[o] = job[o]
    BY <2>1 DEF InView, Asked, Asking
  <2>6. Streams(w) /\ Waits(w) /\ Agrees(w)
    BY <1>4 DEF CareInv
  <2>7. /\ messages'[w] = messages[w] /\ streaming'[w] = streaming[w]
        /\ loads'[w] = loads[w] /\ session'[w] = session[w]
    BY <1>2, <1>3, <1>6
  <2> QED
    BY <1>3, <1>4, <2>1, <2>2, <2>3, <2>4, <2>5, <2>6, <2>7, CareElsewhere
<1> QED
  BY <1>5, <1>6

\* What the server does about a turn.
LEMMA CareServed ==
  ASSUME TypeOK, TurnInv, CareInv, NEW w \in Windows \ careless', NEW n \in Turns,
         \/ \E c \in {"answer", NoText} : Answer(n, c) \/ Break(n, c)
         \/ Refuse(n) \/ SaveRow(n) \/ LoseRow(n)
  PROVE  Streams(w)' /\ Waits(w)' /\ Agrees(w)'
<1>1. UNCHANGED <<session, messages, streaming, loads, request, careless>>
  BY DEF Answer, Break, Refuse, EndTurn, SaveRow, LoseRow, windowVars
<1>2. Streams(w) /\ Waits(w) /\ Agrees(w)
  BY <1>1 DEF CareInv
<1>3. InView(w)' = InView(w) /\ (Mine(w)' <=> Mine(w))
  BY <1>1, ViewKept
<1>4. \A o \in Turns \ {n} : /\ job'[o] = job[o] /\ reply'[o] = reply[o]
                             /\ content'[o] = content[o]
  BY DEF Answer, Break, Refuse, EndTurn, SaveRow, LoseRow, TypeOK
<1>5. \/ job[n] = "call" /\ job'[n] \in {"save", "lost"}
      \/ job[n] = "save" /\ job'[n] \in {"saved", "lost"} /\ UNCHANGED <<reply, content>>
  BY DEF Answer, Break, Refuse, EndTurn, SaveRow, LoseRow, TypeOK
<1>6. Unsaved(w) = {} => Unsaved(w)' = {}
  <2> HAVE Unsaved(w) = {}
  <2>1. \A o \in InView(w) : o \in Turns /\ job[o] \notin {"call", "save"}
    BY DEF Unsaved, Pending, InView, Asked
  <2>2. n \notin InView(w)
    BY <1>5, <2>1
  <2>3. \A o \in InView(w) : job'[o] \notin {"call", "save"}
    BY <1>4, <2>1, <2>2
  <2> QED
    BY <1>3, <2>3 DEF Unsaved, Pending, InView
<1>7. Unsaved(w) = {} => Recorded(w)' = Recorded(w)
  <2> HAVE Unsaved(w) = {}
  <2>1. CASE UNCHANGED chat_logs
    BY <1>1, <2>1, RecordKept
  <2>2. CASE SaveRow(n)
    <3>1. n \notin InView(w) /\ request[n] # None
      BY <2>2 DEF SaveRow, Unsaved, Pending, InView, TurnInv, TurnOf
    <3>2. chat_logs' = chat_logs \cup {RowOf(n)}
      BY <2>2 DEF SaveRow, Save, RowOf
    <3>3. RowOf(n).user_id = UserOf[w] /\ RowOf(n).session_id = session[w] => n \in InView(w)
      BY <3>1 DEF RowOf, InView, Asked
    <3>4. PICK u, s : u = UserOf[w] /\ s = session[w] /\ s = session'[w]
      BY <1>1
    <3>5. Rows(u, s)' = Rows(u, s)
      BY <3>1, <3>2, <3>3, <3>4 DEF Rows
    <3>6. GetSession(u, s)' = GetSession(u, s)
      BY <3>5 DEF GetSession, LastRow
    <3> QED
      BY <3>4, <3>6 DEF Recorded
  <2> QED
    BY <2>1, <2>2 DEF Answer, Break, Refuse, EndTurn, LoseRow
<1>8. Mine(w) /\ streaming[w] = None =>
        \A o \in InView(w) : job'[o] \in {"save", "saved"} =>
          /\ job[o] \in {"save", "saved"}
          /\ reply'[o] = reply[o] /\ content'[o] = content[o]
  <2> SUFFICES ASSUME Mine(w), streaming[w] = None, NEW o \in InView(w),
                      job'[o] \in {"save", "saved"}
               PROVE  /\ job[o] \in {"save", "saved"}
                      /\ reply'[o] = reply[o] /\ content'[o] = content[o]
    OBVIOUS
  <2>1. o \in Turns /\ request[o].window = w
    BY DEF InView, Asked, Mine
  <2>2. job[o] # "call"
    BY <2>1, WindowAssumption DEF TurnInv, TurnOf
  <2> QED
    BY <1>4, <1>5, <2>1, <2>2
<1> QED
  BY <1>1, <1>2, <1>3, <1>6, <1>7, <1>8, CareElsewhere
\* The window shows another session.
LEMMA CareShow ==
  ASSUME TypeOK, TurnInv, CareInv, NEW w \in Windows \ careless', NEW v \in Windows,
         NEW s \in Sessions, Show(v, s)
  PROVE  Streams(w)' /\ Waits(w)' /\ Agrees(w)'
<1> DEFINE x == [session |-> s, result |-> None]
<1>1. w \in Windows \ careless /\ (w = v => streaming[w] = None /\ loads[w] = <<>>)
  BY DEF Show, CarelessIf
<1>2. /\ UNCHANGED <<chat_logs, turnVars, streaming>>
      /\ \A o \in Windows \ {v} : /\ session'[o] = session[o] /\ messages'[o] = messages[o]
                                  /\ loads'[o] = loads[o]
      /\ session'[v] = s /\ loads'[v] = Append(loads[v], x)
  BY DEF Show, TypeOK
<1>3. CASE w = v
  <2>1. x \in Load /\ x.session = s /\ x.result = None
    BY DEF Load
  <2> HIDE DEF x
  <2>2. loads'[w] = Append(<<>>, x)
    BY <1>1, <1>2, <1>3
  <2>3. Append(<<>>, x) = <<x>>
    BY <2>1
  <2>4. Len(loads'[w]) = 1 /\ loads'[w][1] = x /\ loads'[w] # <<>>
    BY <2>2, <2>3
  <2>5. streaming'[w] = None /\ session'[w] = s
    BY <1>1, <1>2, <1>3
  <2> QED
    BY <2>1, <2>4, <2>5 DEF Streams, Waits, Agrees
<1>4. CASE w # v
  <2>1. /\ session'[w] = session[w] /\ messages'[w] = messages[w]
        /\ loads'[w] = loads[w] /\ streaming'[w] = streaming[w]
    BY <1>2, <1>4
  <2> QED
    BY <1>1, <1>2, <2>1, CareOther
<1> QED
  BY <1>3, <1>4

\* The stream of the window ends: what it appended is the history the turn leaves.
LEMMA CareDone ==
  ASSUME TypeOK, TurnInv, CareInv, NEW w \in Windows \ careless', NEW v \in Windows,
         StreamDone(v)
  PROVE  Streams(w)' /\ Waits(w)' /\ Agrees(w)'
<1>1. /\ UNCHANGED <<chat_logs, turnVars, session, loads, careless>>
      /\ streaming'[v] = None
      /\ \A o \in Windows \ {v} : messages'[o] = messages[o] /\ streaming'[o] = streaming[o]
  BY DEF StreamDone, TypeOK
<1>2. CASE w = v
  <2>1. PICK n \in Turns : n = streaming[w]
    BY <1>2 DEF StreamDone, TypeOK
  <2>2. /\ n # None /\ reply[n] # None
        /\ messages'[w] = IF reply[n] = NoText THEN messages[w]
                          ELSE Put(w, "assistant", n, reply[n])
    BY <1>2, <2>1 DEF StreamDone, TypeOK
  <2>3. request[n] \in Request /\ request[n].window = w
    BY <2>1, <2>2 DEF TurnInv, TypeOK
  <2>4. /\ loads[w] = <<>> /\ request[n].session_id = session[w]
        /\ messages[w] = request[n].messages
        /\ Mine(w) => \A k \in InView(w) : k <= n
    BY <1>1, <2>1, <2>2 DEF CareInv, Streams
  <2>5. n \in InView(w)
    BY <2>2, <2>3, <2>4, WindowAssumption DEF InView, Asked
  <2>6. ASSUME Mine(w), NEW k \in InView(w), \A o \in InView(w) : o <= k,
               job[k] \in {"save", "saved"}
        PROVE  Visible(messages'[w]) = Visible(Heard(k))
    <3>1. k = n
      <4>1. k \in Int /\ n \in Int
        BY HistoryAssumption DEF InView, Asked, Turns
      <4> QED
        BY <2>4, <2>5, <2>6, <4>1
    <3>2. reply[n] \in {"remnant", NoText, "error"}
      BY <2>6, <3>1 DEF TurnInv, TurnOf
    <3> DEFINE x == [role |-> "assistant", turn |-> n, text |-> reply[n]]
    <3>3. x \in Message /\ x.text = reply[n]
      BY <3>2 DEF Message
    <3>4. PICK m \in Seq(Message) : m = messages[w] /\ m = request[n].messages
      BY <2>4 DEF TypeOK
    <3>5. Heard(k) = Append(m, x)
      BY <3>1, <3>4 DEF Heard
    <3>6. messages'[w] = IF reply[n] = NoText THEN m ELSE Append(m, x)
      BY <2>2, <3>2, <3>4 DEF Put
    <3> HIDE DEF x
    <3>7. reply[n] = NoText => Visible(Append(m, x)) = Visible(m)
      BY <3>2, <3>3, EmptyNotVisible
    <3> QED
      BY <3>5, <3>6, <3>7
  <2>7. InView(w)' = InView(w) /\ (Mine(w)' <=> Mine(w))
    BY <1>1, ViewKept DEF turnVars
  <2>8. \A k \in InView(w) : Convo(k)' = Convo(k) /\ Heard(k)' = Heard(k)
    BY <1>1 DEF Convo, Heard, turnVars
  <2>9. Agrees(w)'
    <3>1. SUFFICES ASSUME Mine(w)', NEW k \in InView(w)', \A o \in InView(w)' : o <= k,
                          job'[k] \in {"save", "saved"}
                   PROVE  Visible(messages'[w]) = Visible(Heard(k)')
      BY DEF Agrees, Visible
    <3> QED
      BY <1>1, <2>6, <2>7, <2>8, <3>1 DEF turnVars
  <2> QED
    BY <1>1, <1>2, <2>4, <2>9 DEF Streams, Waits
<1>3. CASE w # v
  BY <1>1, <1>3, CareOther
<1> QED
  BY <1>2, <1>3

\* A GET returns, or fails.
LEMMA CareLoad ==
  ASSUME TypeOK, TurnInv, CareInv, NEW w \in Windows \ careless', NEW v \in Windows,
         NEW i \in DOMAIN loads[v], LoadReturns(v, i) \/ LoadLost(v, i)
  PROVE  Streams(w)' /\ Waits(w)' /\ Agrees(w)'
<1>1. /\ UNCHANGED <<chat_logs, turnVars, session, streaming>>
      /\ loads' = [loads EXCEPT ![v] = RemoveAt(@, i)]
      /\ \A o \in Windows \ {v} : messages'[o] = messages[o] /\ loads'[o] = loads[o]
  BY DEF LoadReturns, LoadLost, TypeOK
<1>2. w \in Windows \ careless /\ (w = v => LoadReturns(v, i))
  BY DEF LoadReturns, LoadLost, CarelessIf
<1>3. CASE w = v
  <2>1. loads[w][i].result # None /\ messages'[w] = loads[w][i].result
    BY <1>2, <1>3 DEF LoadReturns, TypeOK
  <2>2. loads[w] # <<>> /\ i \in 1..Len(loads[w])
    <3>1. loads[w] \in Seq(Load) /\ i \in 1..Len(loads[w])
      BY <1>3, LenProperties DEF TypeOK
    <3> QED
      BY <3>1, LenProperties
  <2>3. /\ Len(loads[w]) = 1
        /\ Mine(w) /\ loads[w][1].result # None =>
             Unsaved(w) = {} /\ loads[w][1].result = Recorded(w)
    BY <1>2, <2>2 DEF CareInv, Waits
  <2>4. i = 1
    BY <2>2, <2>3
  <2>5. streaming[w] = None
    BY <1>2, <2>2 DEF CareInv, Streams
  <2>6. loads'[w] = <<>>
    <3>1. PICK m : m = loads'[w] /\ m \in Seq(Load) /\ Len(m) = Len(loads[w]) - 1
      BY <1>1, <1>3, LoadsRemove
    <3>2. Len(m) = 0
      BY <2>3, <3>1
    <3> QED
      BY <3>1, <3>2, EmptySeq
  <2>7. InView(w)' = InView(w) /\ (Mine(w)' <=> Mine(w))
    BY <1>1, ViewKept DEF turnVars
  <2>8. \A k \in InView(w) : Convo(k)' = Convo(k) /\ Heard(k)' = Heard(k)
    BY <1>1 DEF Convo, Heard, turnVars
  <2>9. ASSUME Mine(w), NEW k \in InView(w), \A o \in InView(w) : o <= k,
               job[k] \in {"save", "saved"}
        PROVE  messages'[w] = Convo(k)
    <3>1. messages'[w] = Recorded(w) /\ Unsaved(w) = {}
      BY <2>1, <2>3, <2>4, <2>9
    <3>2. job[k] = "saved"
      BY <2>9, <3>1 DEF Unsaved, Pending, InView
    <3>3. GetSession(UserOf[w], session[w]) = Convo(k)
      BY <2>9, <3>2, LastSaved DEF InView
    <3> QED
      BY <3>1, <3>3 DEF Recorded
  <2>10. Agrees(w)'
    <3>1. SUFFICES ASSUME Mine(w)', NEW k \in InView(w)', \A o \in InView(w)' : o <= k,
                          job'[k] \in {"save", "saved"}
                   PROVE  Visible(messages'[w]) = Visible(Convo(k)')
      BY DEF Agrees, Visible
    <3> QED
      BY <1>1, <2>7, <2>8, <2>9, <3>1 DEF turnVars
  <2> QED
    BY <1>1, <2>5, <2>6, <2>10 DEF Streams, Waits
<1>4. CASE w # v
  BY <1>1, <1>2, <1>4, CareOther
<1> QED
  BY <1>3, <1>4

\* The server answers a GET.
LEMMA CareServe ==
  ASSUME TypeOK, TurnInv, CareInv, NEW w \in Windows \ careless', NEW v \in Windows,
         NEW i \in DOMAIN loads[v], ServeLoad(v, i) \/ LoadError(v, i)
  PROVE  Streams(w)' /\ Waits(w)' /\ Agrees(w)'
<1>1. UNCHANGED <<chat_logs, turnVars, session, streaming, messages>>
  BY DEF ServeLoad, LoadError
<1>2. w \in Windows \ careless /\ (w = v => ServeLoad(v, i))
  BY DEF ServeLoad, LoadError, CarelessIf
<1>3. PICK r \in Seq(Message) :
        /\ Result(v, i, r)
        /\ w = v => r = GetSession(UserOf[w], loads[w][i].session)
  BY <1>2, GetSessionType, EmptySeq DEF ServeLoad, LoadError, TypeOK
<1>4. /\ \A o \in Windows : Len(loads'[o]) = Len(loads[o])
      /\ \A o \in Windows \ {v} : loads'[o] = loads[o]
      /\ loads'[v][i] = [session |-> loads[v][i].session, result |-> r]
  BY <1>3, LoadsResult
<1>5. CASE w = v
  <2>1. loads[w] # <<>> /\ i \in 1..Len(loads[w])
    <3>1. loads[w] \in Seq(Load) /\ i \in 1..Len(loads[w])
      BY <1>5, LenProperties DEF TypeOK
    <3> QED
      BY <3>1, LenProperties
  <2>2. Len(loads[w]) = 1 /\ loads[w][1].session = session[w]
    BY <1>2, <2>1 DEF CareInv, Waits
  <2>3. i = 1
    BY <2>1, <2>2
  <2>4. streaming[w] = None
    BY <1>2, <2>1 DEF CareInv, Streams
  <2>5. Unsaved(w) = {} /\ r = Recorded(w)
    BY <1>2, <1>3, <1>5, <2>2, <2>3 DEF ServeLoad, CarelessIf, Unsaved, Recorded
  <2>6. Unsaved(w)' = Unsaved(w) /\ Recorded(w)' = Recorded(w)
    BY <1>1, UnsavedKept, RecordKept DEF turnVars
  <2>7. /\ Len(loads'[w]) = 1 /\ loads'[w][1].session = session'[w]
        /\ loads'[w][1].result = r /\ loads'[w] # <<>>
    BY <1>1, <1>4, <1>5, <2>2, <2>3
  <2> QED
    BY <1>1, <2>4, <2>5, <2>6, <2>7 DEF Streams, Waits, Agrees
<1>6. CASE w # v
  BY <1>1, <1>2, <1>4, <1>6, CareOther
<1> QED
  BY <1>5, <1>6

LEMMA CareInit == Init => CareInv
<1> SUFFICES ASSUME Init, NEW w \in Windows PROVE Streams(w) /\ Waits(w) /\ Agrees(w)
  BY DEF CareInv
<1>1. /\ streaming[w] = None
      /\ loads[w] = <<[session |-> session[w], result |-> None]>>
  BY DEF Init
<1>2. /\ Len(loads[w]) = 1 /\ loads[w][1] = [session |-> session[w], result |-> None]
      /\ loads[w] # <<>>
  BY <1>1
<1> QED
  BY <1>1, <1>2 DEF Streams, Waits, Agrees

LEMMA CareStep == TypeOK /\ AskingInv /\ TurnInv /\ CareInv /\ [Next]_vars => CareInv'
<1> SUFFICES ASSUME TypeOK, AskingInv, TurnInv, CareInv, [Next]_vars,
                    NEW w \in Windows \ careless'
             PROVE  Streams(w)' /\ Waits(w)' /\ Agrees(w)'
  BY DEF CareInv
<1>1. CASE UNCHANGED vars
  BY <1>1, CareOther DEF vars, windowVars
<1>2. CASE \E v \in Windows : Submit(v)
  BY <1>2, CareSubmit
<1>3. CASE \E v \in Windows : \E s \in Sessions : Select(v, s) \/ NewSession(v, s)
  BY <1>3, CareShow DEF Select, NewSession
<1>4. CASE \E v \in Windows : StreamDone(v)
  BY <1>4, CareDone
<1>5. CASE \E v \in Windows : \E i \in DOMAIN loads[v] : LoadReturns(v, i) \/ LoadLost(v, i)
  BY <1>5, CareLoad
<1>6. CASE \E v \in Windows : \E i \in DOMAIN loads[v] : ServeLoad(v, i) \/ LoadError(v, i)
  BY <1>6, CareServe
<1>7. CASE \E n \in Turns : \/ \E c \in {"answer", NoText} : Answer(n, c) \/ Break(n, c)
                            \/ Refuse(n) \/ SaveRow(n) \/ LoseRow(n)
  BY <1>7, CareServed
<1> QED
  BY <1>1, <1>2, <1>3, <1>4, <1>5, <1>6, <1>7, Zenon DEF Next, Window, Server

\* A window that is used with care shows what the history has, once the last request
\* of its session is saved.
THEOREM WindowMatches == Spec => []WindowMatchesHistory
<1>1. TypeOK /\ TurnInv /\ CareInv => WindowMatchesHistory
  <2> SUFFICES ASSUME TypeOK, TurnInv, CareInv, NEW w \in Windows \ careless,
                      NEW u, u = UserOf[w], NEW s, s = session[w],
                      NEW last, last = Max(Asked(u, s)),
                      streaming[w] = None, loads[w] = <<>>, Asked(u, s) # {},
                      \A n \in Asked(u, s) : request[n].window = w,
                      job[last] = "saved"
               PROVE  \E m \in {GetSession(u, s), WithLast(GetSession(u, s), reply[last])} :
                        Visible(messages[w]) = Visible(m)
    BY DEF WindowMatchesHistory
  <2>1. Asked(u, s) \subseteq 1..MaxTurns
    BY DEF Asked, Turns
  <2>2. IsFiniteSet(Asked(u, s)) /\ Asked(u, s) \subseteq Int
    <3>1. IsFiniteSet(1..MaxTurns) /\ 1..MaxTurns \subseteq Int
      BY HistoryAssumption, FS_Interval
    <3> QED
      BY <2>1, <3>1, FS_Subset
  <2>3. \E x \in Asked(u, s) : \A y \in Asked(u, s) : y <= x
    BY <2>2, HasGreatest
  <2>4. last \in Asked(u, s) /\ \A y \in Asked(u, s) : y <= last
    <3>1. last \in Asked(u, s) /\ \A y \in Asked(u, s) : last >= y
      BY <2>3 DEF Max
    <3> QED
      BY <2>2, <3>1
  <2>5. InView(w) = Asked(u, s)
    BY DEF InView
  <2>6. \/ Visible(messages[w]) = Visible(Convo(last))
        \/ Visible(messages[w]) = Visible(Heard(last))
    BY <2>4, <2>5 DEF CareInv, Agrees, Mine
  <2>7. GetSession(u, s) = Convo(last)
    BY <2>4, LastSaved
  <2>8. WithLast(GetSession(u, s), reply[last]) = Heard(last)
    BY <2>4, <2>7, HeardIs DEF Asked
  <2> QED
    BY <2>6, <2>7, <2>8
<1> QED
  BY <1>1, TypeInit, TypeStep, TurnsInit, AskingStep, TurnStep, CareInit, CareStep, PTL DEF Spec
=============================================================================
