------------------------------ MODULE WebAccess ------------------------------
(***************************************************************************)
(* Logging in and out: the tabs of one browser, which share the token in   *)
(* localStorage, and the server they call.                                 *)
(*                                                                         *)
(* A tab shows the chat or the login page.  The chat page calls the API    *)
(* with the token stored at that moment; an answer 401 removes whatever    *)
(* token is stored by then and goes to the login page.  Going to a page    *)
(* loads it anew, and the calls of the old page come to nothing.           *)
(***************************************************************************)
EXTENDS Auth

CONSTANTS Tabs,
          Slots,            \* for the calls of a page, a bound on their number
          Usernames,        \* what users type, known to the server or not
          NoTab,
          MaxLogins, MaxRestarts, MaxTime    \* bounds

ASSUME WebAssumption ==
  /\ NoTab \notin Tabs
  /\ MaxLogins \in Nat /\ MaxRestarts \in Nat /\ MaxTime \in Nat

VARIABLES token,         \* localStorage
          page,          \* what each tab shows
          calls,         \* its API calls, with the token they were sent with
          login,         \* its call of dev-login
          devLoginEnabled, \* VITE_ENABLE_DEV_LOGIN of this build
          logins, restarts,
          writer,        \* history: the tab that stored the token
          interrupted    \* history: tabs whose last call was cut off

tabVars == <<token, page, calls, login, writer, interrupted>>
vars == <<config, now, tabVars, devLoginEnabled, logins, restarts>>

NoCall == [stage |-> "none", token |-> NoToken]
NoUser == ""
NoLogin == [stage |-> "none", user |-> NoUser, token |-> NoToken]

MaybeToken == Token \cup {NoToken}
CallState == [stage : {"none", "sent", "ok", "401"}, token : MaybeToken]
LoginState == [stage : {"none", "sent", "ok", "error"}, user : Usernames \cup {NoUser},
               token : MaybeToken]

TypeOK ==
  /\ config \in Configs /\ now \in 0..MaxTime
  /\ token \in MaybeToken
  /\ page \in [Tabs -> {"chat", "login", "away"}]
  /\ calls \in [Tabs -> [Slots -> CallState]] /\ login \in [Tabs -> LoginState]
  /\ \A t \in Tabs : /\ \A i \in Slots : calls[t][i] # NoCall => page[t] = "chat"
                     /\ login[t] # NoLogin => page[t] = "login"
  /\ devLoginEnabled \in BOOLEAN
  /\ logins \in 0..MaxLogins /\ restarts \in 0..MaxRestarts
  /\ writer \in Tabs \cup {NoTab} /\ interrupted \in [Tabs -> BOOLEAN]

Init ==
  /\ config \in Configs /\ now = 0
  /\ token = NoToken
  /\ page = [t \in Tabs |-> "login"]
  /\ calls = [t \in Tabs |-> [i \in Slots |-> NoCall]]
  /\ login = [t \in Tabs |-> NoLogin]
  /\ devLoginEnabled \in BOOLEAN
  /\ logins = 0 /\ restarts = 0
  /\ writer = NoTab /\ interrupted = [t \in Tabs |-> FALSE]
-----------------------------------------------------------------------------
(***************************************************************************)
(* Pages.                                                                  *)
(***************************************************************************)
\* Wrong navigation: a change of route, which leaves the calls of the page alone.
GotoByRoute(t, p) == /\ page' = [page EXCEPT ![t] = p]
                     /\ login' = [login EXCEPT ![t] = NoLogin]
                     /\ UNCHANGED calls

\* window.location.href = ... loads the page anew.
Goto(t, p) == /\ page' = [page EXCEPT ![t] = p]
              /\ calls' = [calls EXCEPT ![t] = [i \in Slots |-> NoCall]]
              /\ login' = [login EXCEPT ![t] = NoLogin]

Server == UNCHANGED <<config, now, devLoginEnabled, logins, restarts>>

\* The route "/" asks whether there is a token, not whether it is a good one.
Home(t) == Goto(t, IF token' # NoToken THEN "chat" ELSE "login")

\* The user loads the application, or loads it again.
Open(t) == /\ UNCHANGED <<token, writer>>
           /\ Home(t)
           /\ interrupted' = [interrupted EXCEPT ![t] = TRUE]
           /\ Server

\* logout of client.ts.
Logout(t) == /\ token' = NoToken
             /\ writer' = NoTab
             /\ Goto(t, "login")

ClickLogout(t) == /\ page[t] = "chat"
                  /\ Logout(t)
                  /\ interrupted' = [interrupted EXCEPT ![t] = TRUE]
                  /\ Server
-----------------------------------------------------------------------------
(***************************************************************************)
(* Calls of the API, by fetchJSON and chatStream alike.                    *)
(***************************************************************************)
Call(t, i) ==
  /\ page[t] = "chat" /\ calls[t][i].stage = "none"
  /\ calls' = [calls EXCEPT ![t][i] = [stage |-> "sent", token |-> token]]
  /\ interrupted' = [interrupted EXCEPT ![t] = FALSE]
  /\ UNCHANGED <<token, page, login, writer>> /\ Server

Serve(t, i) ==
  /\ calls[t][i].stage = "sent"
  /\ calls' = [calls EXCEPT ![t][i].stage = IF JWTAuth(calls[t][i].token) THEN "ok" ELSE "401"]
  /\ UNCHANGED <<token, page, login, writer, interrupted>> /\ Server

\* An answer, whatever it is, that is not a 401.
Return(t, i) ==
  /\ calls[t][i].stage = "ok"
  /\ calls' = [calls EXCEPT ![t][i] = NoCall]
  /\ UNCHANGED <<token, page, login, writer, interrupted>> /\ Server

ReturnUnauthorized(t, i) ==
  /\ calls[t][i].stage = "401"
  /\ Logout(t)
  /\ UNCHANGED interrupted /\ Server

\* The network fails; the error is caught and the page stays.
LoseCall(t, i) ==
  /\ calls[t][i].stage # "none"
  /\ calls' = [calls EXCEPT ![t][i] = NoCall]
  /\ interrupted' = [interrupted EXCEPT ![t] = TRUE]
  /\ UNCHANGED <<token, page, login, writer>> /\ Server
-----------------------------------------------------------------------------
(***************************************************************************)
(* The login page.                                                         *)
(***************************************************************************)
\* Without the development login, the browser leaves for a placeholder.
LeaveForSSO(t) ==
  /\ page[t] = "login" /\ ~devLoginEnabled
  /\ Goto(t, "away")
  /\ UNCHANGED <<token, writer, interrupted>> /\ Server

SendLogin(t, u) ==
  /\ page[t] = "login" /\ login[t].stage = "none" /\ devLoginEnabled
  /\ login' = [login EXCEPT ![t] = [stage |-> "sent", user |-> u, token |-> NoToken]]
  /\ UNCHANGED <<token, page, calls, writer, interrupted>> /\ Server

ServeLogin(t) ==
  /\ login[t].stage = "sent" /\ logins < MaxLogins
  /\ \E status \in DevLogin(login[t].user) :
       IF status = 200
       THEN /\ login' = [login EXCEPT ![t].stage = "ok",
                                      ![t].token = SignToken(login[t].user, logins)]
            /\ logins' = logins + 1
       ELSE /\ login' = [login EXCEPT ![t].stage = "error"]
            /\ UNCHANGED logins
  /\ UNCHANGED <<token, page, calls, writer, interrupted, config, now, devLoginEnabled,
                 restarts>>

LoginSucceeds(t) ==
  /\ login[t].stage = "ok"
  /\ token' = login[t].token
  /\ writer' = t
  /\ Home(t)
  /\ UNCHANGED interrupted /\ Server

\* The error is shown: that of the server, or of a request that was lost.
LoginFails(t) ==
  /\ login[t].stage # "none"
  /\ login' = [login EXCEPT ![t] = NoLogin]
  /\ UNCHANGED <<token, page, calls, writer, interrupted>> /\ Server
-----------------------------------------------------------------------------
Tick == /\ now < MaxTime
        /\ now' = now + 1
        /\ UNCHANGED <<config, tabVars, devLoginEnabled, logins, restarts>>

\* Another process with another configuration; connections to the old one break.
Restart ==
  /\ restarts < MaxRestarts
  /\ restarts' = restarts + 1
  /\ config' \in Configs
  /\ calls' = [t \in Tabs |-> [i \in Slots |->
                 IF calls[t][i].stage = "sent" THEN NoCall ELSE calls[t][i]]]
  /\ login' = [t \in Tabs |-> IF login[t].stage = "sent" THEN NoLogin ELSE login[t]]
  /\ interrupted' = [t \in Tabs |-> interrupted[t] \/ calls'[t] # calls[t]]
  /\ UNCHANGED <<now, token, page, writer, devLoginEnabled, logins>>

Tab(t) == \/ Open(t) \/ ClickLogout(t) \/ LeaveForSSO(t)
          \/ \E i \in Slots : \/ Call(t, i) \/ Serve(t, i) \/ Return(t, i)
                              \/ ReturnUnauthorized(t, i) \/ LoseCall(t, i)
          \/ \E u \in Usernames : SendLogin(t, u)
          \/ ServeLogin(t) \/ LoginSucceeds(t) \/ LoginFails(t)

Next == (\E t \in Tabs : Tab(t)) \/ Tick \/ Restart

Spec == Init /\ [][Next]_vars

(***************************************************************************)
(* Fairness: the middleware answers, and a page that is not left runs the  *)
(* callbacks of its calls.                                                 *)
(***************************************************************************)
FairSpec ==
  /\ Spec
  /\ \A t \in Tabs, i \in Slots :
       WF_vars(Serve(t, i)) /\ WF_vars(Return(t, i) \/ ReturnUnauthorized(t, i))
-----------------------------------------------------------------------------
\* A login is not undone by an answer to what was sent before it: a token goes by
\* a logout or by the refusal of a call that was sent with it.  Only a tab other
\* than the one that logged in may do worse, with a 401 that comes late.
LoginKept ==
  [][token # NoToken /\ token' = NoToken =>
       \E t \in Tabs :
         \/ ClickLogout(t)
         \/ \E i \in Slots : /\ calls[t][i].stage = "401" /\ page'[t] = "login"
                             /\ calls[t][i].token = token \/ writer # t]_vars

\* A login lasts: no token is refused in the hour it was signed in, even if the
\* configuration sets no expire_hours, unless a restart has changed the secret.
LoginLasts ==
  [][\A t \in Tabs, i \in Slots :
       /\ calls[t][i].stage = "sent" /\ calls[t][i].token # NoToken
       /\ calls'[t][i].stage = "401"
       => calls[t][i].token.secret # config.secret \/ calls[t][i].token.issued < now]_vars

\* A session that is over ends at the login page: so does a page that calls with
\* a token which has expired, or which was signed with another secret than a restart
\* has brought, if neither the network nor the user cuts that off.
RefusalEndsAtLogin ==
  \A t \in Tabs, i \in Slots :
    /\ calls[t][i].stage = "sent" /\ calls[t][i].token # NoToken
    /\ Expired(calls[t][i].token) \/ calls[t][i].token.secret # config.secret
    ~> page[t] = "login" \/ interrupted[t]
=============================================================================
