----------------------------- MODULE ChatWindow -----------------------------
(***************************************************************************)
(* The web client on top of the history: windows of the browser, each with *)
(* one ChatWindow component, whose callbacks come back from the server in  *)
(* any order.                                                              *)
(*                                                                         *)
(* A window shows one session at a time.  Changing it starts a GET of the  *)
(* history, and whichever GET returns replaces the messages shown; a       *)
(* submit sends all messages shown with the new one, and the end of its    *)
(* stream appends the answer to whatever is then shown.  The component is  *)
(* the same one for all sessions, so neither callback is tied to the       *)
(* session it was started for.                                             *)
(*                                                                         *)
(* The server's side is one turn per request: a call that is answered or   *)
(* refused, then a settlement that saves the row or fails to.              *)
(***************************************************************************)
EXTENDS SessionHistory

CONSTANTS Windows,
          UserOf,       \* whose window it is
          MaxLoads,     \* bound on the GETs in flight of a window
          None          \* no turn, no request, no result

Request == [window : Windows, session_id : Sessions, messages : Seq(Message)]

\* A GET: the session, and the history once the server has answered.
Load == [session : Sessions, result : {None} \cup Seq(Message)]

ASSUME WindowAssumption ==
  /\ UserOf \in [Windows -> Users]
  /\ MaxLoads \in Nat \ {0}
  /\ None \notin Turns /\ None \notin Request

VARIABLES session,      \* sessionId
          messages,     \* what is shown
          created,      \* sessions made by newSession, for the sidebar
          streaming,    \* the turn whose stream is open, or None
          loads,        \* GETs in flight: the session and the result, if any
          request,      \* requests by turn
          reply,        \* what the client accumulates of a stream that ended
          content,      \* what the settlement has of it
          job,          \* where the server is with a turn
          careless      \* history: windows used in a way that may confuse them

windowVars == <<session, messages, created, streaming, loads>>
turnVars == <<request, reply, content, job>>
vars == <<chat_logs, windowVars, turnVars, careless>>

TypeOK ==
  /\ chat_logs \subseteq Row
  /\ session \in [Windows -> Sessions]
  /\ messages \in [Windows -> Seq(Message)]
  /\ created \in [Windows -> SUBSET Sessions]
  /\ streaming \in [Windows -> Turns \cup {None}]
  /\ loads \in [Windows -> Seq(Load)]
  /\ \A w \in Windows : Len(loads[w]) <= MaxLoads
  /\ request \in [Turns -> {None} \cup Request]
  /\ reply \in [Turns -> {None, "remnant", NoText, "error"}]
  /\ content \in [Turns -> {None, "answer", NoText}]
  /\ job \in [Turns -> {"none", "call", "save", "saved", "lost"}]
  /\ careless \subseteq Windows

\* ChatPage names its first session with a new UUID.  Nothing makes clients of
\* different users choose different ones.
Init ==
  /\ chat_logs = {}
  /\ session \in [Windows -> Sessions]
  /\ \A v, w \in Windows : v # w /\ UserOf[v] = UserOf[w] => session[v] # session[w]
  /\ messages = [w \in Windows |-> <<>>]
  /\ created = [w \in Windows |-> {}]
  /\ streaming = [w \in Windows |-> None]
  /\ loads = [w \in Windows |-> <<[session |-> session[w], result |-> None]>>]
  /\ request = [n \in Turns |-> None]
  /\ reply = [n \in Turns |-> None]
  /\ content = [n \in Turns |-> None]
  /\ job = [n \in Turns |-> "none"]
  /\ careless = {}
-----------------------------------------------------------------------------
(***************************************************************************)
(* The window.                                                             *)
(***************************************************************************)
Asked(u, s) == {n \in Turns : /\ request[n] # None
                              /\ UserOf[request[n].window] = u
                              /\ request[n].session_id = s}

Pending(u, s) == {n \in Asked(u, s) : job[n] \in {"call", "save"}}

CarelessIf(w, b) == careless' = IF b THEN careless \cup {w} ELSE careless

\* The effect of a change of sessionId.
Show(w, s) ==
  /\ session[w] # s
  /\ Len(loads[w]) < MaxLoads
  /\ session' = [session EXCEPT ![w] = s]
  /\ messages' = [messages EXCEPT ![w] = <<>>]
  /\ loads' = [loads EXCEPT ![w] = Append(@, [session |-> s, result |-> None])]
  /\ CarelessIf(w, streaming[w] # None \/ loads[w] # <<>>)
  /\ UNCHANGED <<chat_logs, streaming, turnVars>>

\* A click on the sidebar: what the user had when the page was loaded or later
\* (rows stay, so an older list holds no more), and what newSession added.
Select(w, s) == /\ s \in ListSessions(UserOf[w]) \cup created[w]
                /\ Show(w, s)
                /\ UNCHANGED created

InUse(s) == \/ \E w \in Windows : session[w] = s \/ s \in created[w]
            \/ \E u \in Users : Asked(u, s) # {}

\* Also what choosing another model does to a session that has messages.
NewSession(w, s) == /\ ~InUse(s)
                    /\ Show(w, s)
                    /\ created' = [created EXCEPT ![w] = @ \cup {s}]

Asking == {n \in Turns : request[n] # None}
NextTurn == Cardinality(Asking) + 1

Put(w, role, n, text) == Append(messages[w], [role |-> role, turn |-> n, text |-> text])

\* A wrong submit: the context is sent without the new message.
SubmitContextOnly(w) ==
  /\ streaming[w] = None
  /\ NextTurn \in Turns
  /\ LET n == NextTurn
     IN  /\ messages' = [messages EXCEPT ![w] = Put(w, "user", n, "question")]
         /\ request' = [request EXCEPT ![n] = [window |-> w, session_id |-> session[w],
                                               messages |-> messages[w]]]
         /\ streaming' = [streaming EXCEPT ![w] = n]
         /\ job' = [job EXCEPT ![n] = "call"]
  /\ CarelessIf(w, loads[w] # <<>>)
  /\ UNCHANGED <<chat_logs, session, created, loads, reply, content>>

\* submit sends what is shown and the new message.  Turns are numbered when the
\* gateway notes request_at, which nothing the windows do can come between.
Submit(w) ==
  /\ streaming[w] = None
  /\ NextTurn \in Turns
  /\ LET n == NextTurn
         updated == Put(w, "user", n, "question")
     IN  /\ messages' = [messages EXCEPT ![w] = updated]
         /\ request' = [request EXCEPT ![n] = [window |-> w, session_id |-> session[w],
                                               messages |-> updated]]
         /\ streaming' = [streaming EXCEPT ![w] = n]
         /\ job' = [job EXCEPT ![n] = "call"]
  /\ CarelessIf(w, loads[w] # <<>>)
  /\ UNCHANGED <<chat_logs, session, created, loads, reply, content>>

\* A wrong end: the answer is taken before it is there.
StreamDoneEarly(w) ==
  /\ streaming[w] # None
  /\ messages' = [messages EXCEPT ![w] =
                    Put(w, "assistant", streaming[w], reply[streaming[w]])]
  /\ streaming' = [streaming EXCEPT ![w] = None]
  /\ UNCHANGED <<chat_logs, session, created, loads, turnVars, careless>>

\* onDone appends to what is shown now; an empty answer is not shown.
StreamDone(w) ==
  /\ streaming[w] # None
  /\ reply[streaming[w]] # None
  /\ messages' = IF reply[streaming[w]] = NoText THEN messages
                 ELSE [messages EXCEPT ![w] =
                         Put(w, "assistant", streaming[w], reply[streaming[w]])]
  /\ streaming' = [streaming EXCEPT ![w] = None]
  /\ UNCHANGED <<chat_logs, session, created, loads, turnVars, careless>>

\* The history returns: it is shown, whichever session it is of.
LoadReturns(w, i) ==
  /\ loads[w][i].result # None
  /\ messages' = [messages EXCEPT ![w] = loads[w][i].result]
  /\ loads' = [loads EXCEPT ![w] = RemoveAt(@, i)]
  /\ UNCHANGED <<chat_logs, session, created, streaming, turnVars, careless>>

\* The network fails: the error is caught and ignored.
LoadLost(w, i) ==
  /\ loads' = [loads EXCEPT ![w] = RemoveAt(@, i)]
  /\ CarelessIf(w, TRUE)
  /\ UNCHANGED <<chat_logs, session, messages, created, streaming, turnVars>>
-----------------------------------------------------------------------------
(***************************************************************************)
(* The server.                                                             *)
(***************************************************************************)
Result(w, i, r) == loads' = [loads EXCEPT ![w][i].result = r]

ServeLoad(w, i) ==
  /\ loads[w][i].result = None
  /\ Result(w, i, GetSession(UserOf[w], loads[w][i].session))
  /\ CarelessIf(w, Pending(UserOf[w], loads[w][i].session) # {})
  /\ UNCHANGED <<chat_logs, session, messages, created, streaming, turnVars>>

\* A 500 has a JSON body without messages: the client shows none.
LoadError(w, i) ==
  /\ loads[w][i].result = None
  /\ Result(w, i, <<>>)
  /\ CarelessIf(w, TRUE)
  /\ UNCHANGED <<chat_logs, session, messages, created, streaming, turnVars>>

\* The stream ends for the client with r, and the settlement has c to save.
EndTurn(n, r, c) ==
  /\ job[n] = "call"
  /\ reply' = [reply EXCEPT ![n] = r]
  /\ content' = [content EXCEPT ![n] = c]
  /\ job' = [job EXCEPT ![n] = IF c = None THEN "lost" ELSE "save"]
  /\ UNCHANGED <<chat_logs, windowVars, request, careless>>

\* What the client reads of an answer, less than it or nothing: see EventStream.
ReadableOf(c) == IF c = NoText THEN {NoText} ELSE {"remnant", NoText}

Answer(n, c) == \E r \in ReadableOf(c) : EndTurn(n, r, c)

\* The upstream broke off.  The event that says so is read if the bytes are cut right
\* before its text, and lost like any other else.
Break(n, c) == \E r \in ReadableOf(c) \cup {"error"} : EndTurn(n, r, c)

\* A request that was refused, by the gateway or in an event of the provider, or cut off
\* by a stop of the gateway.
Refuse(n) == \E r \in {"error", NoText} : EndTurn(n, r, None)

SaveRow(n) ==
  /\ job[n] = "save"
  /\ Save([user_id |-> UserOf[request[n].window], session_id |-> request[n].session_id,
           request_at |-> n, request_messages |-> request[n].messages,
           response_content |-> content[n]])
  /\ job' = [job EXCEPT ![n] = "saved"]
  /\ UNCHANGED <<windowVars, request, reply, content, careless>>

\* Save failed, or the gateway stopped before it.
LoseRow(n) ==
  /\ job[n] = "save"
  /\ job' = [job EXCEPT ![n] = "lost"]
  /\ UNCHANGED <<chat_logs, windowVars, request, reply, content, careless>>
-----------------------------------------------------------------------------
Window(w) ==
  \/ \E s \in Sessions : Select(w, s) \/ NewSession(w, s)
  \/ Submit(w) \/ StreamDone(w)
  \/ \E i \in DOMAIN loads[w] : LoadReturns(w, i) \/ LoadLost(w, i)

Server ==
  \/ \E w \in Windows : \E i \in DOMAIN loads[w] : ServeLoad(w, i) \/ LoadError(w, i)
  \/ \E n \in Turns : \/ \E c \in {"answer", NoText} : Answer(n, c) \/ Break(n, c)
                      \/ Refuse(n) \/ SaveRow(n) \/ LoseRow(n)

Next == (\E w \in Windows : Window(w)) \/ Server

Spec == Init /\ [][Next]_vars
-----------------------------------------------------------------------------
(***************************************************************************)
(* The properties.                                                         *)
(***************************************************************************)
TurnsIn(m) == {m[i].turn : i \in DOMAIN m}

UserOfTurn(n) == UserOf[request[n].window]

\* What one user says and is told never reaches a window of another, whatever the
\* callbacks are mixed up with and whoever names the same session.
SessionsPrivate ==
  \A w \in Windows : \A n \in TurnsIn(messages[w]) : UserOfTurn(n) = UserOf[w]

\* A settlement that comes late does not turn the history back: the conversation
\* GetSession answers is never replaced by one requested earlier.
HistoryNeverRegresses ==
  [][\A u \in Users, s \in Sessions :
       Rows(u, s) # {} => LastRow(u, s).request_at <= LastRow(u, s).request_at']_vars

\* What is left of a conversation when the empty messages are left out.
Visible(m) ==
  LET visible[i \in 0..Len(m)] ==
        IF i = 0 THEN <<>>
        ELSE IF m[i].text = NoText THEN visible[i - 1]
        ELSE Append(visible[i - 1], m[i])
  IN  visible[Len(m)]

\* A window that lets its GETs and streams end before it goes on, and whose GETs
\* did not fail or overtake a settlement, shows what the history has once its last
\* request is saved, even if rows of earlier ones were lost.  Only the last answer may
\* be shown as the client read it, until the history is loaded again.
WithLast(m, text) == [m EXCEPT ![Len(m)].text = text]
WindowMatchesHistory ==
  \A w \in Windows \ careless :
    LET u == UserOf[w]
        s == session[w]
        last == Max(Asked(u, s))
    IN  /\ streaming[w] = None /\ loads[w] = <<>> /\ Asked(u, s) # {}
        /\ \A n \in Asked(u, s) : request[n].window = w
        /\ job[last] = "saved"
        => \E m \in {GetSession(u, s), WithLast(GetSession(u, s), reply[last])} :
             Visible(messages[w]) = Visible(m)

\* docs/Design.md section 5: GET /api/sessions/:session_id returns the complete
\* record of a session.  Here, the turns of a session all of which were saved.
CompleteRecord ==
  \A u \in Users, s \in Sessions :
    (\A n \in Asked(u, s) : job[n] = "saved") => TurnsIn(GetSession(u, s)) = Asked(u, s)
=============================================================================
