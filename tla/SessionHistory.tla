--------------------------- MODULE SessionHistory ---------------------------
(***************************************************************************)
(* The audit table as the history of conversations: chat.Repository and    *)
(* the two handlers that read it.  Nothing stores a conversation.  A row   *)
(* holds the whole context its request was sent with, and the conversation *)
(* of a session is the context and the answer of its last row.             *)
(*                                                                         *)
(* Requests are numbered in the order of request_at, which is taken before *)
(* the provider is called; rows are inserted when settlements get to it.   *)
(***************************************************************************)
EXTENDS Integers, SequencesExt

CONSTANTS Users,
          Sessions,     \* the UUIDs that clients name their sessions with
          MaxTurns      \* bound on the requests

ASSUME HistoryAssumption == MaxTurns \in Nat

VARIABLE chat_logs      \* the rows

Turns == 1..MaxTurns

\* An answer or message without content.
NoText == ""

\* What a message says is told apart only as far as clients do.
Message == [role : {"user", "assistant"}, turn : Turns,
            text : {"question", "answer", "remnant", "error", NoText}]

Row == [user_id : Users, session_id : Sessions, request_at : Turns,
        request_messages : Seq(Message), response_content : {"answer", NoText}]

Save(row) == chat_logs' = chat_logs \cup {row}

\* Wrong rows, for testing the properties: those of every user.
RowsOfAll(u, s) == {l \in chat_logs : l.session_id = s}

\* Repository.GetSession.
Rows(u, s) == {l \in chat_logs : l.user_id = u /\ l.session_id = s}

\* Repository.ListSessions.
ListSessions(u) == {l.session_id : l \in {r \in chat_logs : r.user_id = u}}

\* Wrong row: the first one.
FirstRow(u, s) ==
  CHOOSE l \in Rows(u, s) : \A o \in Rows(u, s) : o.request_at >= l.request_at

LastRow(u, s) ==
  CHOOSE l \in Rows(u, s) : \A o \in Rows(u, s) : o.request_at <= l.request_at

\* What GET /api/sessions/:session_id answers.
GetSession(u, s) ==
  IF Rows(u, s) = {} THEN <<>>
  ELSE Append(LastRow(u, s).request_messages,
              [role |-> "assistant", turn |-> LastRow(u, s).request_at,
               text |-> LastRow(u, s).response_content])
=============================================================================
