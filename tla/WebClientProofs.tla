-------------------------- MODULE WebClientProofs --------------------------
(***************************************************************************)
(* The web client.                                                         *)
(*                                                                         *)
(* Logins, for any tabs, calls, users and configurations, any number of    *)
(* logins and restarts: a login lasts its hour, and is undone only by a    *)
(* logout, by the refusal of its own token or by an answer that another    *)
(* tab gets late.  Everything rests on where tokens come from: each was    *)
(* signed for an hour at least, and as long as the tab that stored the     *)
(* token has a call in flight, the call carries that token.                *)
(*                                                                         *)
(* Texts, for any answers, however their bytes are cut: the text that is   *)
(* sent is the text that arrives.  Everything rests on what the callback   *)
(* holds back: if the bytes it holds and those still on the wire are cut   *)
(* at once, the parts are those of the whole answer that it has not taken  *)
(* yet, and nothing is left over.                                          *)
(***************************************************************************)
EXTENDS WebAccess, EventStream, DataLemmas

-----------------------------------------------------------------------------
(***************************************************************************)
(* Types.                                                                  *)
(***************************************************************************)
LEMMA NoneTyped ==
  /\ NoCall \in CallState /\ NoLogin \in LoginState
  /\ NoCall.stage = "none" /\ NoLogin.stage = "none"
  /\ NoToken \in MaybeToken
BY DEF NoCall, NoLogin, CallState, LoginState, MaybeToken

LEMMA TypeInit == Init => TypeOK
<1> SUFFICES ASSUME Init PROVE TypeOK
  OBVIOUS
<1>1. 0 \in 0..MaxTime /\ 0 \in 0..MaxLogins /\ 0 \in 0..MaxRestarts
  BY WebAssumption
<1>2. calls \in [Tabs -> [Slots -> CallState]] /\ login \in [Tabs -> LoginState]
  BY NoneTyped DEF Init
<1> QED
  BY <1>1, <1>2, NoneTyped DEF Init, TypeOK

\* A token that is signed is one, and good for an hour at least.
LEMMA SignedIs ==
  ASSUME TypeOK, NEW u \in UserRows, NEW n \in Nat
  PROVE  /\ SignToken(u, n) \in Token /\ SignToken(u, n) # NoToken
         /\ SignToken(u, n).exp > SignToken(u, n).issued
<1>1. config \in ConfigType /\ now \in Nat
  BY AuthAssumption, WebAssumption DEF TypeOK
<1>2. Lifetime \in Nat /\ Lifetime > 0
  BY <1>1 DEF Lifetime, ConfigType
<1>3. SignToken(u, n) \in Token
  BY <1>1, <1>2 DEF SignToken, Token, ConfigType
<1> QED
  BY <1>1, <1>2, <1>3, AuthAssumption DEF SignToken

\* Going to a page leaves nothing of the page before.
LEMMA GotoIs ==
  ASSUME TypeOK, NEW t \in Tabs, NEW p \in {"chat", "login", "away"}, Goto(t, p)
  PROVE  /\ page' \in [Tabs -> {"chat", "login", "away"}]
         /\ calls' \in [Tabs -> [Slots -> CallState]] /\ login' \in [Tabs -> LoginState]
         /\ page'[t] = p /\ (\A i \in Slots : calls'[t][i] = NoCall) /\ login'[t] = NoLogin
         /\ \A o \in Tabs \ {t} :
              page'[o] = page[o] /\ calls'[o] = calls[o] /\ login'[o] = login[o]
<1>1. [i \in Slots |-> NoCall] \in [Slots -> CallState]
  BY NoneTyped
<1> QED
  BY <1>1, NoneTyped DEF Goto, TypeOK

\* Such a step keeps the types, given those of the token and its history.
LEMMA GotoTypes ==
  ASSUME TypeOK, NEW t \in Tabs, NEW p \in {"chat", "login", "away"}, Goto(t, p),
         token' \in MaybeToken, writer' \in Tabs \cup {NoTab},
         interrupted' \in [Tabs -> BOOLEAN], Server
  PROVE  TypeOK'
BY GotoIs DEF TypeOK, Server

\* One call of a tab changes and everything else stays.
LEMMA CallTypes ==
  ASSUME TypeOK, NEW t \in Tabs, NEW i \in Slots, NEW c \in CallState,
         calls' = [calls EXCEPT ![t][i] = c],
         c # NoCall => page[t] = "chat",
         interrupted' \in [Tabs -> BOOLEAN],
         UNCHANGED <<token, page, login, writer>>, Server
  PROVE  TypeOK'
<1>1. calls' \in [Tabs -> [Slots -> CallState]]
  BY DEF TypeOK
<1>2. \A o \in Tabs, j \in Slots :
        calls'[o][j] = IF o = t /\ j = i THEN c ELSE calls[o][j]
  BY DEF TypeOK
<1>3. \A o \in Tabs, j \in Slots : calls'[o][j] # NoCall => page'[o] = "chat"
  BY <1>2 DEF TypeOK
<1>4. \A o \in Tabs : login'[o] # NoLogin => page'[o] = "login"
  BY DEF TypeOK
<1> QED
  BY <1>1, <1>3, <1>4 DEF TypeOK, Server

\* The login of a tab changes and everything else of the tabs stays.
LEMMA LoginTypes ==
  ASSUME TypeOK, NEW t \in Tabs, NEW c \in LoginState,
         login' = [login EXCEPT ![t] = c],
         c # NoLogin => page[t] = "login",
         logins' \in 0..MaxLogins,
         UNCHANGED <<token, page, calls, writer, interrupted, config, now, devLoginEnabled>>,
         UNCHANGED restarts
  PROVE  TypeOK'
<1>1. login' \in [Tabs -> LoginState]
  BY DEF TypeOK
<1>2. \A o \in Tabs : login'[o] = IF o = t THEN c ELSE login[o]
  BY DEF TypeOK
<1>3. \A o \in Tabs : login'[o] # NoLogin => page'[o] = "login"
  BY <1>2 DEF TypeOK
<1> QED
  BY <1>1, <1>3 DEF TypeOK

\* The step of a tab's call, with the call it becomes.
CallStep(t, i, c) ==
  /\ calls' = [calls EXCEPT ![t][i] = c]
  /\ UNCHANGED <<token, page, login, writer>> /\ Server

LEMMA ServeIs ==
  ASSUME TypeOK, NEW t \in Tabs, NEW i \in Slots, Serve(t, i)
  PROVE  /\ UNCHANGED interrupted
         /\ \E c \in CallState :
              /\ CallStep(t, i, c) /\ c.token = calls[t][i].token /\ c.stage # "none"
              /\ c.stage = "401" <=> ~JWTAuth(calls[t][i].token)
<1> DEFINE answer == IF JWTAuth(calls[t][i].token) THEN "ok" ELSE "401"
           c == [calls[t][i] EXCEPT !.stage = answer]
<1>1. calls[t][i] \in CallState /\ answer \in {"ok", "401"}
  BY DEF TypeOK
<1>2. c \in CallState /\ c.token = calls[t][i].token /\ c.stage = answer
  BY <1>1 DEF CallState
<1>3. CallStep(t, i, c)
  BY DEF Serve, CallStep
<1> HIDE DEF c
<1> QED
  BY <1>1, <1>2, <1>3 DEF Serve

\* A call that is sent carries the token of that moment.
LEMMA SentIs ==
  ASSUME TypeOK, NEW t \in Tabs, NEW i \in Slots, Call(t, i)
  PROVE  /\ page[t] = "chat" /\ interrupted' \in [Tabs -> BOOLEAN]
         /\ \E c \in CallState : CallStep(t, i, c) /\ c.stage = "sent" /\ c.token = token
<1> DEFINE c == [stage |-> "sent", token |-> token]
<1>1. c \in CallState /\ CallStep(t, i, c)
  BY DEF Call, CallStep, CallState, TypeOK
<1> QED
  BY <1>1 DEF Call, TypeOK

LEMMA TabTypes ==
  ASSUME TypeOK, NEW t \in Tabs, Tab(t)
  PROVE  TypeOK'
<1>1. token \in MaybeToken /\ writer \in Tabs \cup {NoTab} /\ interrupted \in [Tabs -> BOOLEAN]
  BY DEF TypeOK
<1>2. CASE Open(t)
  <2>1. Goto(t, "chat") \/ Goto(t, "login")
    BY <1>2 DEF Open, Home
  <2> QED
    BY <1>1, <1>2, <2>1, GotoTypes DEF Open
<1>3. CASE ClickLogout(t)
  BY <1>1, <1>3, GotoTypes, NoneTyped DEF ClickLogout, Logout
<1>4. CASE LeaveForSSO(t)
  BY <1>1, <1>4, GotoTypes DEF LeaveForSSO
<1>5. ASSUME NEW i \in Slots, Call(t, i) PROVE TypeOK'
  BY <1>5, SentIs, CallTypes DEF CallStep
<1>6. ASSUME NEW i \in Slots, Serve(t, i) PROVE TypeOK'
  <2>1. page[t] = "chat"
    BY <1>6, NoneTyped DEF Serve, TypeOK
  <2> QED
    BY <1>1, <1>6, <2>1, ServeIs, CallTypes DEF CallStep
<1>7. ASSUME NEW i \in Slots, Return(t, i) \/ LoseCall(t, i) PROVE TypeOK'
  <2>1. CASE Return(t, i)
    BY <1>1, <2>1, NoneTyped, CallTypes DEF Return
  <2>2. CASE LoseCall(t, i)
    BY <1>1, <2>2, NoneTyped, CallTypes DEF LoseCall
  <2> QED
    BY <1>7, <2>1, <2>2
<1>8. ASSUME NEW i \in Slots, ReturnUnauthorized(t, i) PROVE TypeOK'
  BY <1>1, <1>8, GotoTypes, NoneTyped DEF ReturnUnauthorized, Logout
<1>9. ASSUME NEW u \in Usernames, SendLogin(t, u) PROVE TypeOK'
  <2>1. [stage |-> "sent", user |-> u, token |-> NoToken] \in LoginState
    BY NoneTyped DEF LoginState
  <2>2. logins \in 0..MaxLogins
    BY DEF TypeOK
  <2> QED
    BY <1>9, <2>1, <2>2, LoginTypes DEF SendLogin, Server
<1>10. CASE ServeLogin(t)
  <2>1. login[t] \in LoginState /\ login[t].stage = "sent" /\ page[t] = "login"
    BY <1>10, NoneTyped DEF ServeLogin, TypeOK
  <2>2. logins \in 0..MaxLogins /\ logins \in Nat /\ logins < MaxLogins /\ MaxLogins \in Nat
    BY <1>10, WebAssumption DEF ServeLogin, TypeOK
  <2>3. CASE /\ login[t].user \in UserRows /\ logins' = logins + 1
             /\ login' = [login EXCEPT ![t].stage = "ok",
                                       ![t].token = SignToken(login[t].user, logins)]
    <3> DEFINE k == SignToken(login[t].user, logins)
               c == [stage |-> "ok", user |-> login[t].user, token |-> k]
    <3>1. k \in MaybeToken
      BY <2>2, <2>3, SignedIs DEF MaybeToken
    <3> HIDE DEF k
    <3>2. c \in LoginState
      BY <2>1, <3>1 DEF LoginState
    <3>3. login' = [login EXCEPT ![t] = c]
      <4>1. [[login[t] EXCEPT !.stage = "ok"] EXCEPT !.token = k] = c
        <5>1. /\ DOMAIN login[t] = {"stage", "user", "token"}
              /\ c = [x \in {"stage", "user", "token"} |->
                        IF x = "stage" THEN "ok" ELSE IF x = "user" THEN login[t].user ELSE k]
          BY <2>1 DEF LoginState
        <5> QED
          BY <5>1
      <4>2. login' = [[login EXCEPT ![t].stage = "ok"] EXCEPT ![t].token = k]
        BY <2>3 DEF k
      <4>3. login \in [Tabs -> LoginState]
        BY DEF TypeOK
      <4> HIDE DEF c
      <4>4. \A o \in Tabs : login'[o] = IF o = t THEN c ELSE login[o]
        BY <4>1, <4>2, <4>3
      <4> QED
        BY <4>2, <4>3, <4>4
    <3>4. logins' \in 0..MaxLogins
      BY <2>2, <2>3
    <3> HIDE DEF c
    <3> QED
      BY <1>10, <2>1, <3>2, <3>3, <3>4, LoginTypes DEF ServeLogin
  <2>4. CASE login' = [login EXCEPT ![t].stage = "error"] /\ UNCHANGED logins
    <3> DEFINE c == [login[t] EXCEPT !.stage = "error"]
    <3>1. c \in LoginState
      BY <2>1 DEF LoginState
    <3>2. login' = [login EXCEPT ![t] = c]
      BY <2>4
    <3> HIDE DEF c
    <3> QED
      BY <1>10, <2>1, <2>2, <2>4, <3>1, <3>2, LoginTypes DEF ServeLogin
  <2> QED
    BY <1>10, <2>3, <2>4 DEF ServeLogin, DevLogin
<1>11. CASE LoginSucceeds(t)
  <2>1. Goto(t, "chat") \/ Goto(t, "login")
    BY <1>11 DEF LoginSucceeds, Home
  <2>2. token' \in MaybeToken
    BY <1>11 DEF LoginSucceeds, TypeOK, LoginState
  <2> QED
    BY <1>1, <1>11, <2>1, <2>2, GotoTypes DEF LoginSucceeds
<1>12. CASE LoginFails(t)
  <2>1. logins \in 0..MaxLogins
    BY DEF TypeOK
  <2> QED
    BY <1>12, <2>1, NoneTyped, LoginTypes DEF LoginFails, Server
<1> QED
  BY <1>2, <1>3, <1>4, <1>5, <1>6, <1>7, <1>8, <1>9, <1>10, <1>11, <1>12 DEF Tab

LEMMA TypeStep == TypeOK /\ [Next]_vars => TypeOK'
<1> SUFFICES ASSUME TypeOK, [Next]_vars PROVE TypeOK'
  OBVIOUS
<1>1. CASE Tick
  <2>1. now' \in 0..MaxTime
    BY <1>1, WebAssumption DEF Tick, TypeOK
  <2> QED
    BY <1>1, <2>1 DEF Tick, tabVars, TypeOK
<1>2. CASE Restart
  <2>1. /\ calls' \in [Tabs -> [Slots -> CallState]]
        /\ \A t \in Tabs, i \in Slots :
             calls'[t][i] = IF calls[t][i].stage = "sent" THEN NoCall ELSE calls[t][i]
    BY <1>2, NoneTyped DEF Restart, TypeOK
  <2>2. /\ login' \in [Tabs -> LoginState]
        /\ \A t \in Tabs :
             login'[t] = IF login[t].stage = "sent" THEN NoLogin ELSE login[t]
    BY <1>2, NoneTyped DEF Restart, TypeOK
  <2>3. interrupted' \in [Tabs -> BOOLEAN]
    BY <1>2 DEF Restart, TypeOK
  <2>4. restarts' \in 0..MaxRestarts
    BY <1>2, WebAssumption DEF Restart, TypeOK
  <2>5. \A t \in Tabs : /\ \A i \in Slots : calls'[t][i] # NoCall => page'[t] = "chat"
                        /\ login'[t] # NoLogin => page'[t] = "login"
    BY <1>2, <2>1, <2>2 DEF Restart, TypeOK
  <2> QED
    BY <1>2, <2>1, <2>2, <2>3, <2>4, <2>5 DEF Restart, TypeOK
<1>3. CASE UNCHANGED vars
  BY <1>3 DEF vars, tabVars, TypeOK
<1> QED
  BY <1>1, <1>2, <1>3, TabTypes DEF Next

\* A page has calls of its own only, and what is stored or sent as a token is one.
THEOREM TypeCorrect == Spec => []TypeOK
BY TypeInit, TypeStep, PTL DEF Spec
-----------------------------------------------------------------------------
(***************************************************************************)
(* Where tokens come from.                                                 *)
(***************************************************************************)
GoodForAnHour(k) == k # NoToken => k.exp > k.issued

\* The calls of the tab that stored the token carry it.
Carries(t, i) == writer = t /\ calls[t][i].stage # "none" => calls[t][i].token = token

TokenInv ==
  /\ GoodForAnHour(token)
  /\ \A t \in Tabs : /\ \A i \in Slots : GoodForAnHour(calls[t][i].token) /\ Carries(t, i)
                     /\ GoodForAnHour(login[t].token)
                     /\ login[t].stage = "ok" => login[t].token # NoToken

LEMMA TokenInit == Init => TokenInv
BY DEF Init, TokenInv, GoodForAnHour, Carries, NoCall, NoLogin

\* What may become of a call.
CallNext(t, i) ==
  \/ calls'[t][i] = calls[t][i]
  \/ calls'[t][i] = NoCall
  \/ calls'[t][i].stage = "sent" /\ calls'[t][i].token = token /\ UNCHANGED <<token, writer>>
  \/ /\ calls[t][i].stage = "sent" /\ calls'[t][i].token = calls[t][i].token
     /\ calls'[t][i].stage = "401" <=> ~JWTAuth(calls[t][i].token)
     /\ UNCHANGED <<token, writer, config, now>>

LEMMA OneCall ==
  ASSUME TypeOK, NEW o \in Tabs, NEW j \in Slots, NEW c, CallStep(o, j, c)
  PROVE  /\ calls'[o][j] = c
         /\ \A t \in Tabs, i \in Slots : t # o \/ i # j => calls'[t][i] = calls[t][i]
         /\ UNCHANGED <<token, writer, config, now>>
BY DEF CallStep, TypeOK, Server

LEMMA GotoCalls ==
  ASSUME TypeOK, NEW o \in Tabs, NEW p, Goto(o, p), NEW t \in Tabs, NEW i \in Slots
  PROVE  calls'[t][i] \in {calls[t][i], NoCall}
<1>1. calls' = [calls EXCEPT ![o] = [j \in Slots |-> NoCall]]
  BY DEF Goto
<1>2. calls'[t] = IF t = o THEN [j \in Slots |-> NoCall] ELSE calls[t]
  BY <1>1 DEF TypeOK
<1> QED
  BY <1>2

LEMMA CallsStep ==
  ASSUME TypeOK, [Next]_vars, NEW t \in Tabs, NEW i \in Slots
  PROVE  CallNext(t, i)
<1>1. ASSUME NEW o \in Tabs, NEW j \in Slots, Call(o, j) PROVE CallNext(t, i)
  BY <1>1, SentIs, OneCall DEF CallNext
<1>2. ASSUME NEW o \in Tabs, NEW j \in Slots, Serve(o, j) PROVE CallNext(t, i)
  <2>1. calls[o][j].stage = "sent"
    BY <1>2 DEF Serve
  <2> QED
    BY <1>2, <2>1, ServeIs, OneCall DEF CallNext
<1>3. ASSUME NEW o \in Tabs, NEW j \in Slots, Return(o, j) \/ LoseCall(o, j)
      PROVE  CallNext(t, i)
  <2>1. CallStep(o, j, NoCall)
    BY <1>3 DEF Return, LoseCall, CallStep
  <2> QED
    BY <2>1, OneCall DEF CallNext
<1>4. ASSUME NEW o \in Tabs, NEW p, Goto(o, p) PROVE CallNext(t, i)
  BY <1>4, GotoCalls DEF CallNext
<1>5. CASE Restart
  BY <1>5 DEF Restart, CallNext
<1>6. CASE calls' = calls
  BY <1>6 DEF CallNext
<1> QED
  BY <1>1, <1>2, <1>3, <1>4, <1>5, <1>6
     DEF Next, Tab, vars, tabVars, Open, Home, ClickLogout, Logout, ReturnUnauthorized,
         LeaveForSSO, SendLogin, ServeLogin, LoginSucceeds, LoginFails, Tick

\* What may become of the token stored.
TokenNext ==
  \/ UNCHANGED <<token, writer>>
  \/ /\ token' = NoToken /\ writer' = NoTab
     /\ \E t \in Tabs : ClickLogout(t) \/ \E i \in Slots : ReturnUnauthorized(t, i)
  \/ \E t \in Tabs : LoginSucceeds(t)

LEMMA TokenStep == [Next]_vars => TokenNext
BY DEF TokenNext, Next, Tab, vars, tabVars, Open, ClickLogout, Logout, LeaveForSSO, Call, Serve,
       Return, ReturnUnauthorized, LoseCall, SendLogin, ServeLogin, LoginSucceeds, LoginFails,
       Tick, Restart

\* What may become of a login.
LoginNext(t) ==
  \/ login'[t] = login[t]
  \/ login'[t].token \in {NoToken, login[t].token} /\ login'[t].stage # "ok"
  \/ \E u \in UserRows, n \in Nat : login'[t].token = SignToken(u, n)

LEMMA LoginStep ==
  ASSUME TypeOK, [Next]_vars, NEW t \in Tabs
  PROVE  LoginNext(t)
<1>0. NoLogin.token = NoToken /\ NoLogin.stage = "none" /\ login[t] \in LoginState
  BY DEF NoLogin, TypeOK
<1>1. ASSUME NEW o \in Tabs, NEW u \in Usernames, SendLogin(o, u) PROVE LoginNext(t)
  BY <1>1 DEF SendLogin, TypeOK, LoginNext
<1>2. ASSUME NEW o \in Tabs, ServeLogin(o) PROVE LoginNext(t)
  <2>1. logins \in Nat
    BY WebAssumption DEF TypeOK
  <2>2. CASE /\ login[o].user \in UserRows
             /\ login' = [login EXCEPT ![o].stage = "ok",
                                       ![o].token = SignToken(login[o].user, logins)]
    <3>1. PICK k : k = SignToken(login[o].user, logins)
      OBVIOUS
    <3>2. login' = [[login EXCEPT ![o].stage = "ok"] EXCEPT ![o].token = k]
      BY <2>2, <3>1
    <3>3. t # o => login'[t] = login[t]
      BY <3>2 DEF TypeOK
    <3>4. t = o => login'[t].token = k
      BY <1>0, <3>2 DEF TypeOK, LoginState
    <3> QED
      BY <2>1, <2>2, <3>1, <3>3, <3>4 DEF LoginNext
  <2>3. CASE login' = [login EXCEPT ![o].stage = "error"]
    <3>1. login[o] \in LoginState
      BY DEF TypeOK
    <3> QED
      BY <2>3, <3>1 DEF LoginNext, LoginState, TypeOK
  <2> QED
    BY <1>2, <2>2, <2>3 DEF ServeLogin, DevLogin
<1>3. ASSUME NEW o \in Tabs, login' = [login EXCEPT ![o] = NoLogin] PROVE LoginNext(t)
  BY <1>0, <1>3 DEF LoginNext, TypeOK
<1>4. CASE Restart
  BY <1>0, <1>4 DEF Restart, LoginNext
<1>5. CASE login' = login
  BY <1>5 DEF LoginNext
<1> QED
  BY <1>1, <1>2, <1>3, <1>4, <1>5
     DEF Next, Tab, vars, tabVars, Open, Home, Goto, ClickLogout, Logout, ReturnUnauthorized,
         LeaveForSSO, Call, Serve, Return, LoseCall, LoginSucceeds, LoginFails, Tick

LEMMA TokenInvStep == TypeOK /\ TokenInv /\ [Next]_vars => TokenInv'
<1> SUFFICES ASSUME TypeOK, TokenInv, [Next]_vars PROVE TokenInv'
  OBVIOUS
<1>1. GoodForAnHour(token')
  <2>1. CASE UNCHANGED token \/ token' = NoToken
    BY <2>1 DEF TokenInv, GoodForAnHour
  <2>2. ASSUME NEW t \in Tabs, LoginSucceeds(t) PROVE GoodForAnHour(token')
    BY <2>2 DEF LoginSucceeds, TokenInv, GoodForAnHour
  <2> QED
    BY <2>1, <2>2, TokenStep DEF TokenNext
<1>2. ASSUME NEW t \in Tabs, NEW i \in Slots PROVE GoodForAnHour(calls'[t][i].token)
  BY CallsStep DEF CallNext, TokenInv, GoodForAnHour, NoCall
<1>3. ASSUME NEW t \in Tabs
      PROVE  /\ GoodForAnHour(login'[t].token)
             /\ login'[t].stage = "ok" => login'[t].token # NoToken
  BY LoginStep, SignedIs DEF LoginNext, TokenInv, GoodForAnHour
<1>4. ASSUME NEW t \in Tabs, NEW i \in Slots PROVE Carries(t, i)'
  <2>1. CASE UNCHANGED <<token, writer>>
    BY <2>1, CallsStep DEF CallNext, TokenInv, Carries, NoCall
  <2>2. CASE writer' = NoTab
    BY <2>2, WebAssumption DEF Carries
  <2>3. ASSUME NEW o \in Tabs, LoginSucceeds(o) PROVE Carries(t, i)'
    <3>1. writer' = o /\ (Goto(o, "chat") \/ Goto(o, "login"))
      BY <2>3 DEF LoginSucceeds, Home
    <3>2. t = o => calls'[t][i] = NoCall
      BY <3>1, GotoIs
    <3> QED
      BY <3>1, <3>2 DEF Carries, NoCall
  <2> QED
    BY <2>1, <2>2, <2>3, TokenStep DEF TokenNext
<1> QED
  BY <1>1, <1>2, <1>3, <1>4 DEF TokenInv, GoodForAnHour
-----------------------------------------------------------------------------
\* A token is refused by its date or its secret only, and its date is an hour
\* away at least when it is signed, also if no lifetime is configured.
THEOREM LoginsLast == Spec => LoginLasts
<1> DEFINE Lasts(t, i) ==
             /\ calls[t][i].stage = "sent" /\ calls[t][i].token # NoToken
             /\ calls'[t][i].stage = "401"
             => calls[t][i].token.secret # config.secret \/ calls[t][i].token.issued < now
<1>1. ASSUME TypeOK, TokenInv, [Next]_vars, NEW t \in Tabs, NEW i \in Slots
      PROVE  Lasts(t, i)
  <2> SUFFICES ASSUME calls[t][i].stage = "sent", calls[t][i].token # NoToken,
                      calls'[t][i].stage = "401"
               PROVE  \/ calls[t][i].token.secret # config.secret
                      \/ calls[t][i].token.issued < now
    OBVIOUS
  <2>1. ~JWTAuth(calls[t][i].token)
    BY <1>1, CallsStep DEF CallNext, NoCall
  <2>2. calls[t][i].token \in Token /\ now \in Nat
    BY <1>1, WebAssumption DEF TypeOK, CallState, MaybeToken
  <2>3. calls[t][i].token.exp > calls[t][i].token.issued
    BY <1>1 DEF TokenInv, GoodForAnHour
  <2> QED
    BY <2>1, <2>2, <2>3 DEF JWTAuth, Expired, Token
<1>2. TypeOK /\ TokenInv /\ [Next]_vars => [\A t \in Tabs, i \in Slots : Lasts(t, i)]_vars
  BY <1>1
<1> QED
  BY <1>2, TypeInit, TypeStep, TokenInit, TokenInvStep, PTL DEF Spec, LoginLasts

\* What a tab removes the token for is a logout, a refusal of that very token, or,
\* in a tab other than the one that logged in, a refusal of an earlier one.
THEOREM LoginsAreKept == Spec => LoginKept
<1> DEFINE Ends(t) ==
             \/ ClickLogout(t)
             \/ \E i \in Slots : /\ calls[t][i].stage = "401" /\ page'[t] = "login"
                                 /\ calls[t][i].token = token \/ writer # t
           Kept == token # NoToken /\ token' = NoToken => \E t \in Tabs : Ends(t)
<1>1. ASSUME TypeOK, TokenInv, [Next]_vars PROVE Kept
  <2> SUFFICES ASSUME token # NoToken, token' = NoToken PROVE \E t \in Tabs : Ends(t)
    OBVIOUS
  <2>1. ASSUME NEW t \in Tabs, LoginSucceeds(t) PROVE FALSE
    BY <1>1, <2>1 DEF LoginSucceeds, TokenInv
  <2>2. ASSUME NEW t \in Tabs, NEW i \in Slots, ReturnUnauthorized(t, i) PROVE Ends(t)
    <3>1. calls[t][i].stage = "401" /\ page'[t] = "login"
      BY <1>1, <2>2, GotoIs DEF ReturnUnauthorized, Logout
    <3>2. calls[t][i].token = token \/ writer # t
      BY <1>1, <3>1 DEF TokenInv, Carries
    <3> QED
      BY <3>1, <3>2
  <2> QED
    BY <1>1, <2>1, <2>2, TokenStep DEF TokenNext
<1>2. TypeOK /\ TokenInv /\ [Next]_vars => [Kept]_vars
  BY <1>1
<1> QED
  BY <1>2, TypeInit, TypeStep, TokenInit, TokenInvStep, PTL DEF Spec, LoginKept

-----------------------------------------------------------------------------
(***************************************************************************)
(* Loops.  FoldLeft is a recursive function over the sets of indices, which*)
(* takes the greatest first; it is shown to be defined, and then to do one *)
(* step for each element.                                                  *)
(***************************************************************************)
\* The greatest element.
LEMMA MaxIn ==
  ASSUME NEW s, IsFiniteSet(s), s \subseteq Int, s # {}
  PROVE  Max(s) \in s /\ \A y \in s : y <= Max(s)
<1>1. \E x \in s : \A y \in s : x >= y
  <2>1. PICK x \in s : \A y \in s : y <= x
    BY HasGreatest
  <2> QED
    BY <2>1
<1> QED
  BY <1>1 DEF Max

Indices(s, u) == IsFiniteSet(s) /\ s \subseteq Int /\ u \subseteq s
LoopBody(g, b, q, f, s) ==
  IF s = {} THEN b ELSE g[f[s \ {Max(s)}]][q[Max(s)]]
LoopSolves(g, b, q, f, S) == f = [s \in SUBSET S |-> LoopBody(g, b, q, f, s)]
LoopFcn(g, b, q, S) == CHOOSE f : LoopSolves(g, b, q, f, S)

LEMMA LoopIs ==
  ASSUME NEW g, NEW b, NEW q
  PROVE  Loop(g, b, q) = LoopFcn(g, b, q, DOMAIN q)[DOMAIN q]
BY Zenon DEF Loop, FoldLeft, MapThenFoldSet, LoopFcn, LoopBody, LoopSolves

\* Two solutions of a loop's recursion agree on the smaller domain.
LEMMA LoopsAgree ==
  ASSUME NEW g, NEW b, NEW q, NEW V, NEW W, NEW f, NEW h,
         Indices(V, W),
         LoopSolves(g, b, q, f, V), LoopSolves(g, b, q, h, W)
  PROVE  f[W] = h[W]
<1> DEFINE T == {s \in SUBSET W : f[s] = h[s]}
<1>1. IsFiniteSet(W) /\ W \subseteq Int
  BY FS_Subset DEF Indices
<1>2. ASSUME NEW s \in SUBSET W, \A u \in SUBSET s : u # s => u \in T
      PROVE  s \in T
  <2>1. f[s] = LoopBody(g, b, q, f, s) /\ h[s] = LoopBody(g, b, q, h, s)
    <3>1. s \in SUBSET V
      BY DEF Indices
    <3> QED
      BY <3>1, Zenon DEF LoopSolves
  <2>2. CASE s = {}
    BY <2>1, <2>2 DEF LoopBody
  <2>3. CASE s # {}
    <3>1. Max(s) \in s
      <4>1. IsFiniteSet(s) /\ s \subseteq Int
        BY <1>1, FS_Subset
      <4> QED
        BY <2>3, <4>1, MaxIn
    <3>2. s \ {Max(s)} \in T
      BY <1>2, <3>1
    <3> QED
      BY <2>1, <2>3, <3>2 DEF LoopBody
  <2> QED
    BY <2>2, <2>3
<1> HIDE DEF T
<1>3. W \in T
  BY <1>1, <1>2, SubsetInduction
<1> QED
  BY <1>3 DEF T

\* The recursion has a solution: the values of the solutions for smaller sets.
LEMMA LoopFcnSolves ==
  ASSUME NEW g, NEW b, NEW q, NEW S, IsFiniteSet(S), S \subseteq Int
  PROVE  LoopSolves(g, b, q, LoopFcn(g, b, q, S), S)
<1> DEFINE F(s) == LoopFcn(g, b, q, s)
           T == {s \in SUBSET S : LoopSolves(g, b, q, F(s), s)}
<1>0. \A s \in SUBSET S : s # {} => Max(s) \in s
  BY MaxIn, FS_Subset
<1>1. ASSUME NEW s \in SUBSET S, \A u \in SUBSET s : u # s => u \in T
      PROVE  s \in T
  <2> DEFINE val(u) == F(u)[u]
             f == [u \in SUBSET s |->
                     IF u = {} THEN b ELSE g[val(u \ {Max(u)})][q[Max(u)]]]
  <2>1. \A u \in SUBSET s : u # s => f[u] = val(u)
    <3> SUFFICES ASSUME NEW u \in SUBSET s, u # s PROVE f[u] = val(u)
      OBVIOUS
    <3>1. LoopSolves(g, b, q, F(u), u)
      BY <1>1
    <3>2. val(u) = LoopBody(g, b, q, F(u), u)
      BY <3>1, Zenon DEF LoopSolves
    <3>3. CASE u = {}
      BY <3>2, <3>3 DEF LoopBody
    <3>4. CASE u # {}
      <4> DEFINE w == u \ {Max(u)}
      <4>1. Max(u) \in u
        BY <1>0, <3>4
      <4>2. w \in SUBSET s /\ w # s /\ w \in SUBSET u
        BY <4>1
      <4>3. LoopSolves(g, b, q, F(w), w)
        BY <1>1, <4>2
      <4>4. F(u)[w] = F(w)[w]
        <5>1. Indices(u, w)
          BY <4>2, FS_Subset DEF Indices
        <5> HIDE DEF w
        <5> QED
          BY <3>1, <4>3, <5>1, LoopsAgree
      <4>5. val(u) = g[val(w)][q[Max(u)]]
        BY <3>2, <3>4, <4>4 DEF LoopBody
      <4> QED
        BY <3>4, <4>5
    <3> QED
      BY <3>3, <3>4
  <2>2. ASSUME NEW u \in SUBSET s
        PROVE  f[u] = LoopBody(g, b, q, f, u)
    <3>1. CASE u = {}
      BY <3>1 DEF LoopBody
    <3>2. CASE u # {}
      <4>1. Max(u) \in u
        BY <1>0, <3>2
      <4>2. u \ {Max(u)} \in SUBSET s /\ u \ {Max(u)} # s
        BY <4>1
      <4>3. f[u \ {Max(u)}] = val(u \ {Max(u)})
        BY <2>1, <4>2
      <4> QED
        BY <3>2, <4>3 DEF LoopBody
    <3> QED
      BY <3>1, <3>2
  <2>3. LoopSolves(g, b, q, f, s)
    <3> HIDE DEF val
    <3>1. f = [u \in SUBSET s |-> f[u]]
      OBVIOUS
    <3> HIDE DEF f
    <3> QED
      BY <2>2, <3>1, Zenon DEF LoopSolves
  <2> HIDE DEF f
  <2> QED
    BY <2>3, Zenon DEF LoopFcn
<1> HIDE DEF T
<1>2. \A s \in SUBSET S : s \in T
  BY <1>1, SubsetInduction
<1> QED
  BY <1>2 DEF T

\* What a loop makes of no elements, and of one more.
LEMMA LoopEmpty ==
  ASSUME NEW g, NEW b
  PROVE  Loop(g, b, <<>>) = b
<1>1. DOMAIN <<>> = {}
  OBVIOUS
<1>2. LoopSolves(g, b, <<>>, LoopFcn(g, b, <<>>, {}), {})
  BY LoopFcnSolves, FS_EmptySet
<1>3. LoopFcn(g, b, <<>>, {})[{}] = LoopBody(g, b, <<>>, LoopFcn(g, b, <<>>, {}), {})
  BY <1>2, Zenon DEF LoopSolves
<1> QED
  BY <1>1, <1>3, LoopIs DEF LoopBody

LEMMA LoopAppend ==
  ASSUME NEW g, NEW b, NEW A, NEW s \in Seq(A), NEW x \in A
  PROVE  Loop(g, b, Append(s, x)) = g[Loop(g, b, s)][x]
<1> DEFINE t == Append(s, x)
<1>1. PICK n \in Nat : n = Len(s)
  BY LenProperties
<1>2. /\ DOMAIN s = 1..n /\ DOMAIN t = 1..(n + 1)
      /\ t[n + 1] = x /\ \A i \in 1..n : t[i] = s[i]
  <2>1. t \in Seq(A) /\ Len(t) = n + 1
    BY <1>1, AppendProperties
  <2>2. DOMAIN t = 1..Len(t) /\ DOMAIN s = 1..Len(s)
    BY <2>1, LenProperties
  <2> QED
    BY <1>1, <2>1, <2>2, AppendProperties
<1> HIDE DEF t
<1> DEFINE I == 1..n
           J == 1..(n + 1)
           f == LoopFcn(g, b, s, I)
           h == LoopFcn(g, b, t, J)
<1>3. /\ IsFiniteSet(J) /\ J \subseteq Int /\ I \subseteq J /\ I # J /\ J # {}
      /\ J \ {n + 1} = I
  <2>1. IsFiniteSet(J)
    BY FS_Interval
  <2>2. J \subseteq Int /\ I \subseteq J /\ n + 1 \in J /\ n + 1 \notin I
    OBVIOUS
  <2>3. J \ {n + 1} = I
    OBVIOUS
  <2> HIDE DEF I, J
  <2> QED
    BY <2>1, <2>2, <2>3
<1>4. IsFiniteSet(I) /\ I \subseteq Int
  BY <1>3, FS_Subset
<1>5. LoopSolves(g, b, s, f, I) /\ LoopSolves(g, b, t, h, J)
  <2> HIDE DEF I, J
  <2> QED
    BY <1>3, <1>4, LoopFcnSolves
<1>6. Max(J) = n + 1
  <2>1. Max(J) \in J /\ \A y \in J : y <= Max(J)
    <3> HIDE DEF J
    <3> QED
      BY <1>3, MaxIn
  <2>2. n + 1 \in J
    OBVIOUS
  <2> QED
    BY <2>1, <2>2
<1> DEFINE r == [u \in SUBSET I |-> h[u]]
<1>7. LoopSolves(g, b, s, r, I)
  <2> SUFFICES ASSUME NEW u \in SUBSET I PROVE h[u] = LoopBody(g, b, s, r, u)
    BY Zenon DEF LoopSolves
  <2>1. h[u] = LoopBody(g, b, t, h, u)
    <3>1. u \in SUBSET J
      BY <1>3
    <3> QED
      BY <1>5, <3>1, Zenon DEF LoopSolves
  <2>2. CASE u = {}
    BY <2>1, <2>2 DEF LoopBody
  <2>3. CASE u # {}
    <3>1. Max(u) \in u
      <4>1. IsFiniteSet(u) /\ u \subseteq Int
        BY <1>4, FS_Subset
      <4> QED
        BY <2>3, <4>1, MaxIn
    <3>2. t[Max(u)] = s[Max(u)]
      BY <1>2, <3>1
    <3>3. u \ {Max(u)} \in SUBSET I
      OBVIOUS
    <3>4. r[u \ {Max(u)}] = h[u \ {Max(u)}]
      BY <3>3
    <3> HIDE DEF r, h, I
    <3> QED
      BY <2>1, <2>3, <3>2, <3>4 DEF LoopBody
  <2> QED
    BY <2>2, <2>3
<1>8. f[I] = h[I]
  <2>1. r[I] = h[I]
    OBVIOUS
  <2>2. Indices(I, I)
    BY <1>4 DEF Indices
  <2> HIDE DEF r, f, h, I
  <2>3. f[I] = r[I]
    BY <1>5, <1>7, <2>2, LoopsAgree
  <2> QED
    BY <2>1, <2>3
<1>9. h[J] = LoopBody(g, b, t, h, J)
  <2>1. J \in SUBSET J
    OBVIOUS
  <2> HIDE DEF h, J
  <2> QED
    BY <1>5, <2>1, Zenon DEF LoopSolves
<1>10. h[J] = g[h[I]][x]
  <2> HIDE DEF h, I, J
  <2> QED
    BY <1>2, <1>3, <1>6, <1>9 DEF LoopBody
<1>11. Loop(g, b, s) = f[I] /\ Loop(g, b, t) = h[J]
  BY <1>2, LoopIs
<1> QED
  BY <1>8, <1>10, <1>11 DEF t
-----------------------------------------------------------------------------
(***************************************************************************)
(* Sequences.                                                              *)
(***************************************************************************)
LEMMA FrontLast ==
  ASSUME NEW A, NEW s \in Seq(A), NEW x \in A
  PROVE  Front(Append(s, x)) = s /\ Last(Append(s, x)) = x
<1> DEFINE t == Append(s, x)
<1>1. PICK n \in Nat : n = Len(s)
  BY LenProperties
<1>2. /\ t \in Seq(A) /\ Len(t) = n + 1 /\ t[n + 1] = x
      /\ \A i \in 1..n : t[i] = s[i]
  BY <1>1, AppendProperties
<1> DEFINE f == SubSeq(t, 1, n)
<1> HIDE DEF t
<1>3. Front(t) = f /\ Last(t) = x
  BY <1>2 DEF Front, Last
<1>4. \A i \in 1..n : t[i] \in A
  BY <1>2, ElementOfSeq
<1>5. f \in Seq(A) /\ Len(f) = n /\ \A i \in 1..n : f[i] = t[i]
  <2>1. /\ f \in Seq(A) /\ Len(f) = IF 1 <= n THEN n - 1 + 1 ELSE 0
        /\ \A i \in 1..(n - 1 + 1) : f[i] = t[1 + i - 1]
    BY <1>4, SubSeqProperties
  <2> HIDE DEF f
  <2> QED
    BY <2>1
<1> HIDE DEF f
<1>6. f = s
  <2>1. \A i \in 1..Len(f) : f[i] = s[i]
    BY <1>2, <1>5
  <2> QED
    BY <1>1, <1>5, <2>1, SeqEqual
<1> QED
  BY <1>3, <1>6 DEF t

\* A function applied to each element, and the results one after another.
Maps(h, A, B) == \A y \in A : h[y] \in B
Each(h, s) == [i \in DOMAIN s |-> h[s[i]]]
All(h, s) == FlattenSeq(Each(h, s))

LEMMA EachType ==
  ASSUME NEW A, NEW B, NEW h, NEW s \in Seq(A), Maps(h, A, B)
  PROVE  Each(h, s) \in Seq(B)
<1>1. DOMAIN s = 1..Len(s) /\ Len(s) \in Nat
  BY LenProperties
<1>2. \A i \in 1..Len(s) : s[i] \in A
  BY ElementOfSeq
<1>3. Each(h, s) \in [1..Len(s) -> B]
  BY <1>1, <1>2 DEF Each, Maps
<1>4. Seq(B) = UNION {[1..n -> B] : n \in Nat}
  BY SeqDef, Zenon
<1> QED
  BY <1>1, <1>3, <1>4, Zenon

LEMMA EachAt ==
  ASSUME NEW A, NEW B, NEW h, NEW s \in Seq(A), Maps(h, A, B)
  PROVE  Len(Each(h, s)) = Len(s) /\ \A i \in 1..Len(s) : Each(h, s)[i] = h[s[i]]
<1>1. DOMAIN s = 1..Len(s) /\ Len(s) \in Nat
  BY LenProperties
<1>2. PICK e \in Seq(B) : e = Each(h, s)
  BY EachType
<1>3. DOMAIN e = 1..Len(e) /\ Len(e) \in Nat
  BY LenProperties
<1>4. DOMAIN e = DOMAIN s /\ \A i \in DOMAIN s : e[i] = h[s[i]]
  BY <1>2 DEF Each
<1>5. 1..Len(e) = 1..Len(s)
  BY <1>1, <1>3, <1>4
<1>6. Len(e) = Len(s)
  <2>1. PICK m \in Nat, n \in Nat : m = Len(e) /\ n = Len(s)
    BY <1>1, <1>3
  <2>2. 1..m = 1..n
    BY <1>5, <2>1
  <2> QED
    BY <2>1, <2>2
<1> QED
  BY <1>1, <1>2, <1>4, <1>6

LEMMA EachAppend ==
  ASSUME NEW A, NEW B, NEW h, NEW s \in Seq(A), NEW x \in A, Maps(h, A, B)
  PROVE  Each(h, Append(s, x)) = Append(Each(h, s), h[x])
<1> DEFINE t == Append(s, x)
           e == Each(h, s)
           u == Each(h, t)
           v == Append(e, h[x])
<1>1. PICK n \in Nat : n = Len(s)
  BY LenProperties
<1>2. /\ t \in Seq(A) /\ Len(t) = n + 1 /\ t[n + 1] = x
      /\ \A i \in 1..n : t[i] = s[i]
  BY <1>1, AppendProperties
<1> HIDE DEF t
<1>3. u \in Seq(B) /\ Len(u) = n + 1 /\ \A i \in 1..(n + 1) : u[i] = h[t[i]]
  <2>1. t \in Seq(A)
    BY <1>2
  <2>2. u \in Seq(B)
    BY <2>1, EachType
  <2>3. Len(u) = Len(t) /\ \A i \in 1..Len(t) : u[i] = h[t[i]]
    BY <2>1, EachAt
  <2> HIDE DEF u
  <2> QED
    BY <1>2, <2>2, <2>3
<1>4. e \in Seq(B) /\ Len(e) = n /\ \A i \in 1..n : e[i] = h[s[i]]
  <2> HIDE DEF u, v
  <2>1. e \in Seq(B)
    BY EachType
  <2>2. Len(e) = Len(s) /\ \A i \in 1..Len(s) : e[i] = h[s[i]]
    BY EachAt
  <2> HIDE DEF e
  <2> QED
    BY <1>1, <2>1, <2>2
<1>5. h[x] \in B
  BY DEF Maps
<1> HIDE DEF e, u
<1>6. /\ v \in Seq(B) /\ Len(v) = n + 1 /\ v[n + 1] = h[x]
      /\ \A i \in 1..n : v[i] = e[i]
  BY <1>4, <1>5, AppendProperties
<1> HIDE DEF v
<1>7. ASSUME NEW i \in 1..(n + 1) PROVE u[i] = v[i]
  <2>1. CASE i = n + 1
    BY <1>2, <1>3, <1>6, <2>1
  <2>2. CASE i # n + 1
    <3>1. i \in 1..n
      BY <2>2
    <3> QED
      BY <1>2, <1>3, <1>4, <1>6, <3>1
  <2> QED
    BY <2>1, <2>2
<1>8. u = v
  BY <1>3, <1>6, <1>7, SeqEqual
<1> QED
  BY <1>8 DEF t, e, u, v

LEMMA AllEmpty == ASSUME NEW h PROVE All(h, <<>>) = <<>>
<1>1. Each(h, <<>>) = <<>>
  BY DEF Each
<1> QED
  BY <1>1, FlattenEmpty DEF All

LEMMA AllType ==
  ASSUME NEW A, NEW B, NEW h, NEW s \in Seq(A), Maps(h, A, Seq(B))
  PROVE  All(h, s) \in Seq(B)
<1>1. Each(h, s) \in Seq(Seq(B))
  BY EachType
<1> QED
  BY <1>1, FlattenType DEF All

LEMMA AllAppend ==
  ASSUME NEW A, NEW B, NEW h, NEW s \in Seq(A), NEW x \in A, Maps(h, A, Seq(B))
  PROVE  All(h, Append(s, x)) = All(h, s) \o h[x]
<1>1. Each(h, Append(s, x)) = Append(Each(h, s), h[x])
  BY EachAppend
<1>2. Each(h, s) \in Seq(Seq(B)) /\ h[x] \in Seq(B)
  <2>1. Each(h, s) \in Seq(Seq(B))
    BY EachType
  <2> QED
    BY <2>1 DEF Maps
<1> QED
  BY <1>1, <1>2, FlattenAppend DEF All

\* More on concatenation.
LEMMA AppendConcat ==
  ASSUME NEW A, NEW s \in Seq(A), NEW t \in Seq(A), NEW x \in A
  PROVE  Append(s \o t, x) = s \o Append(t, x)
<1>1. <<x>> \in Seq(A) /\ s \o t \in Seq(A)
  BY ConcatProperties
<1>2. Append(s \o t, x) = (s \o t) \o <<x>> /\ Append(t, x) = t \o <<x>>
  BY <1>1, AppendIsConcat
<1> QED
  BY <1>1, <1>2, ConcatAssociative

Cat(s, t) == s \o t

LEMMA CatIs ==
  ASSUME NEW A, NEW s \in Seq(A), NEW t \in Seq(A), NEW u \in Seq(A)
  PROVE  Cat(Cat(s, t), u) = Cat(s, Cat(t, u))
BY ConcatAssociative DEF Cat

LEMMA CatAppend ==
  ASSUME NEW A, NEW s \in Seq(A), NEW t \in Seq(A), NEW x \in A
  PROVE  Append(Cat(s, t), x) = Cat(s, Append(t, x))
<1>1. PICK u \in Seq(A) : u = <<x>>
  <2>1. <<x>> \in Seq(A)
    OBVIOUS
  <2> QED
    BY <2>1, Zenon
<1>2. Cat(s, t) \in Seq(A)
  BY ConcatProperties DEF Cat
<1>3. Append(Cat(s, t), x) = Cat(Cat(s, t), u)
  BY <1>1, <1>2, AppendIsConcat DEF Cat
<1>4. Append(t, x) = Cat(t, u)
  BY <1>1, AppendIsConcat DEF Cat
<1>5. Cat(Cat(s, t), u) = Cat(s, Cat(t, u))
  BY CatIs
<1> QED
  BY <1>3, <1>4, <1>5, Zenon

LEMMA AllConcat ==
  ASSUME NEW A, NEW B, NEW h, NEW s \in Seq(A), NEW t \in Seq(A), Maps(h, A, Seq(B))
  PROVE  All(h, s \o t) = All(h, s) \o All(h, t)
<1> DEFINE T == {u \in Seq(A) : All(h, s \o u) = All(h, s) \o All(h, u)}
<1> HIDE DEF T
<1>1. <<>> \in T
  <2>1. s \o <<>> = s /\ All(h, s) \in Seq(B)
    BY AllType, ConcatEmptySeq
  <2>2. All(h, s) \o <<>> = All(h, s)
    BY <2>1, ConcatEmptySeq
  <2>3. <<>> \in Seq(A)
    OBVIOUS
  <2> QED
    BY <2>1, <2>2, <2>3, AllEmpty DEF T
<1>2. ASSUME NEW u \in Seq(A), NEW x \in A, u \in T PROVE Append(u, x) \in T
  <2>1. PICK w \in Seq(A) : w = s \o u
    BY ConcatProperties
  <2>2. s \o Append(u, x) = Append(w, x) /\ Append(u, x) \in Seq(A)
    BY <2>1, AppendConcat, AppendProperties
  <2>3. All(h, Append(w, x)) = All(h, w) \o h[x]
    BY AllAppend
  <2>4. All(h, Append(u, x)) = All(h, u) \o h[x]
    BY AllAppend
  <2>5. PICK p \in Seq(B), q \in Seq(B), r \in Seq(B) :
          p = All(h, s) /\ q = All(h, u) /\ r = h[x]
    <3>1. h[x] \in Seq(B)
      BY DEF Maps
    <3> QED
      BY <3>1, AllType
  <2>6. (p \o q) \o r = p \o (q \o r)
    <3>1. Cat(Cat(p, q), r) = Cat(p, Cat(q, r))
      BY CatIs
    <3> QED
      BY <3>1, Zenon DEF Cat
  <2>7. All(h, w) = p \o q
    BY <1>2, <2>1, <2>5 DEF T
  <2> QED
    BY <2>2, <2>3, <2>4, <2>5, <2>6, <2>7 DEF T
<1>3. t \in T
  BY <1>1, <1>2, SeqInduction
<1> QED
  BY <1>3 DEF T

\* A loop keeps a type that each of its steps keeps.
Keeps(g, A, S) == \A c \in S : \A x \in A : g[c][x] \in S

LEMMA LoopType ==
  ASSUME NEW g, NEW b, NEW A, NEW S, NEW s \in Seq(A), b \in S, Keeps(g, A, S)
  PROVE  Loop(g, b, s) \in S
<1> DEFINE T == {u \in Seq(A) : Loop(g, b, u) \in S}
<1>1. <<>> \in T
  <2>1. <<>> \in Seq(A)
    OBVIOUS
  <2> QED
    BY <2>1, LoopEmpty
<1>2. ASSUME NEW u \in Seq(A), NEW x \in A, u \in T PROVE Append(u, x) \in T
  <2>1. Append(u, x) \in Seq(A)
    BY AppendProperties
  <2>2. Loop(g, b, Append(u, x)) = g[Loop(g, b, u)][x]
    BY LoopAppend
  <2>3. Loop(g, b, u) \in S
    BY <1>2
  <2> QED
    BY <2>1, <2>2, <2>3 DEF Keeps
<1> HIDE DEF T
<1>3. s \in T
  BY <1>1, <1>2, SeqInduction
<1> QED
  BY <1>3 DEF T

-----------------------------------------------------------------------------
(***************************************************************************)
(* Cutting.                                                                *)
(***************************************************************************)
AtBreaks(s) == Loop(CutAtBreak, Uncut, s)
AtBlanks(s) == Loop(CutAtBlank, Uncut, s)

\* What is cut, over an alphabet.
CutsOf(B) == [parts : Seq(Seq(B)), rest : Seq(B)]

LEMMA CutIs ==
  ASSUME NEW B, NEW p \in Seq(Seq(B)), NEW r \in Seq(B)
  PROVE  [parts |-> p, rest |-> r] \in CutsOf(B)
BY DEF CutsOf

LEMMA CutHas ==
  ASSUME NEW B, NEW c \in CutsOf(B)
  PROVE  /\ c.parts \in Seq(Seq(B)) /\ c.rest \in Seq(B)
         /\ c = [parts |-> c.parts, rest |-> c.rest]
BY DEF CutsOf

LEMMA CutGrows ==
  ASSUME NEW B, B \subseteq Symbol, NEW c \in CutsOf(B)
  PROVE  c \in Cut
<1>1. c.parts \in Seq(Seq(B)) /\ c.rest \in Seq(B) /\ c = [parts |-> c.parts, rest |-> c.rest]
  BY CutHas
<1>2. c.rest \in Bytes
  BY <1>1, SeqMonotonic DEF Bytes
<1>3. Seq(B) \subseteq Bytes
  BY SeqMonotonic DEF Bytes
<1>4. c.parts \in Seq(Bytes)
  BY <1>1, <1>3, SeqMonotonic
<1> QED
  BY <1>1, <1>2, <1>4 DEF Cut

LEMMA CutBytes == Cut = CutsOf(Symbol)
BY DEF Cut, CutsOf, Bytes

LEMMA UncutIs == ASSUME NEW B PROVE Uncut \in CutsOf(B)
<1>1. <<>> \in Seq(Seq(B)) /\ <<>> \in Seq(B)
  OBVIOUS
<1> QED
  BY <1>1, CutIs DEF Uncut

LEMMA BreakIs ==
  ASSUME NEW c \in Cut, NEW x \in Symbol
  PROVE  CutAtBreak[c][x] =
           IF x = "n" THEN [parts |-> Append(c.parts, c.rest), rest |-> <<>>]
           ELSE [parts |-> c.parts, rest |-> Append(c.rest, x)]
BY DEF CutAtBreak

LEMMA BlankIs ==
  ASSUME NEW c \in Cut, NEW x \in Symbol
  PROVE  CutAtBlank[c][x] =
           IF x = "n" /\ c.rest # <<>> /\ Last(c.rest) = "n"
           THEN [parts |-> Append(c.parts, Front(c.rest)), rest |-> <<>>]
           ELSE [parts |-> c.parts, rest |-> Append(c.rest, x)]
BY DEF CutAtBlank

\* Lines are made of the symbols of the text, without its line breaks.
LEMMA BreaksType ==
  ASSUME NEW B, B \subseteq Symbol, NEW s \in Seq(B)
  PROVE  AtBreaks(s) \in CutsOf(B \ {"n"})
<1> DEFINE C == B \ {"n"}
<1>1. ASSUME NEW c \in CutsOf(C), NEW x \in B PROVE CutAtBreak[c][x] \in CutsOf(C)
  <2> HIDE DEF C
  <2>1. PICK p \in Seq(Seq(C)), r \in Seq(C) : c = [parts |-> p, rest |-> r]
    BY CutHas
  <2>2. c \in Cut /\ x \in Symbol
    <3>1. C \subseteq Symbol
      BY DEF C
    <3> QED
      BY <3>1, CutGrows
  <2>3. CASE x = "n"
    <3>1. CutAtBreak[c][x] = [parts |-> Append(p, r), rest |-> <<>>]
      BY <2>1, <2>2, <2>3, BreakIs
    <3>2. Append(p, r) \in Seq(Seq(C)) /\ <<>> \in Seq(C)
      BY AppendProperties
    <3> QED
      BY <3>1, <3>2, CutIs
  <2>4. CASE x # "n"
    <3>1. CutAtBreak[c][x] = [parts |-> p, rest |-> Append(r, x)]
      BY <2>1, <2>2, <2>4, BreakIs
    <3>2. x \in C
      BY <2>4 DEF C
    <3>3. Append(r, x) \in Seq(C)
      BY <3>2, AppendProperties
    <3> QED
      BY <3>1, <3>3, CutIs
  <2> QED
    BY <2>3, <2>4
<1>2. Uncut \in CutsOf(C)
  BY UncutIs
<1> HIDE DEF C
<1>3. Keeps(CutAtBreak, B, CutsOf(C))
  BY <1>1 DEF Keeps
<1> QED
  BY <1>2, <1>3, LoopType DEF AtBreaks, C

\* One more symbol.
LEMMA BreaksAppend ==
  ASSUME NEW s \in Bytes, NEW x \in Symbol
  PROVE  AtBreaks(Append(s, x)) = CutAtBreak[AtBreaks(s)][x]
BY LoopAppend DEF AtBreaks, Bytes

LEMMA BlanksAppend ==
  ASSUME NEW s \in Bytes, NEW x \in Symbol
  PROVE  AtBlanks(Append(s, x)) = CutAtBlank[AtBlanks(s)][x]
BY LoopAppend DEF AtBlanks, Bytes

LEMMA BreaksCut == ASSUME NEW s \in Bytes PROVE AtBreaks(s) \in Cut
<1>1. PICK B : B = Symbol
  OBVIOUS
<1>2. AtBreaks(s) \in CutsOf(B \ {"n"}) /\ B \ {"n"} \subseteq Symbol
  BY <1>1, BreaksType DEF Bytes
<1> QED
  BY <1>2, CutGrows

LEMMA FrontType ==
  ASSUME NEW A, NEW s \in Seq(A), s # <<>>
  PROVE  Front(s) \in Seq(A) /\ Last(s) \in A /\ s = Append(Front(s), Last(s))
<1>1. PICK t \in Seq(A), x \in A : s = Append(t, x)
  BY SequenceEmptyOrAppend
<1> QED
  BY <1>1, FrontLast

LEMMA BlankCut ==
  ASSUME NEW c \in Cut, NEW x \in Symbol
  PROVE  CutAtBlank[c][x] \in Cut
<1>1. PICK p \in Seq(Bytes), r \in Bytes : c = [parts |-> p, rest |-> r]
  BY DEF Cut
<1>2. CASE x = "n" /\ r # <<>> /\ Last(r) = "n"
  <2>1. CutAtBlank[c][x] = [parts |-> Append(p, Front(r)), rest |-> <<>>]
    BY <1>1, <1>2, BlankIs
  <2>2. Front(r) \in Bytes
    BY <1>2, FrontType DEF Bytes
  <2>3. Append(p, Front(r)) \in Seq(Bytes) /\ <<>> \in Bytes
    BY <2>2, AppendProperties DEF Bytes
  <2> QED
    BY <2>1, <2>3 DEF Cut
<1>3. CASE ~(x = "n" /\ r # <<>> /\ Last(r) = "n")
  <2>1. CutAtBlank[c][x] = [parts |-> p, rest |-> Append(r, x)]
    BY <1>1, <1>3, BlankIs
  <2>2. Append(r, x) \in Bytes
    BY AppendProperties DEF Bytes
  <2> QED
    BY <2>1, <2>2 DEF Cut
<1> QED
  BY <1>2, <1>3

LEMMA BlanksCut == ASSUME NEW s \in Bytes PROVE AtBlanks(s) \in Cut
<1>1. Uncut \in Cut
  BY UncutIs, CutBytes
<1>2. Keeps(CutAtBlank, Symbol, Cut)
  BY BlankCut DEF Keeps
<1> QED
  BY <1>1, <1>2, LoopType DEF AtBlanks, Bytes

\* What is left of a cut is not cut again.
Whole(s) == AtBlanks(s) = [parts |-> <<>>, rest |-> s]

LEMMA WholeAppend ==
  ASSUME NEW s \in Bytes, NEW x \in Symbol, Whole(s),
         x # "n" \/ s = <<>> \/ Last(s) # "n"
  PROVE  Whole(Append(s, x))
<1>1. PICK c \in Cut : c = AtBlanks(s)
  BY BlanksCut
<1>2. c.parts = <<>> /\ c.rest = s
  BY <1>1 DEF Whole
<1>3. CutAtBlank[c][x] = [parts |-> c.parts, rest |-> Append(c.rest, x)]
  BY <1>2, BlankIs
<1> QED
  BY <1>1, <1>2, <1>3, BlanksAppend DEF Whole

LEMMA WholeEmpty == Whole(<<>>)
BY LoopEmpty DEF Whole, AtBlanks, Uncut

LEMMA RestWhole == ASSUME NEW s \in Bytes PROVE Whole(AtBlanks(s).rest)
<1> DEFINE T == {u \in Bytes : Whole(AtBlanks(u).rest)}
<1> HIDE DEF T
<1>1. <<>> \in T
  <2>1. AtBlanks(<<>>).rest = <<>>
    BY LoopEmpty DEF AtBlanks, Uncut
  <2>2. <<>> \in Bytes
    BY DEF Bytes
  <2> QED
    BY <2>1, <2>2, WholeEmpty DEF T
<1>2. ASSUME NEW u \in Bytes, NEW x \in Symbol, u \in T PROVE Append(u, x) \in T
  <2>1. PICK c \in Cut : c = AtBlanks(u)
    BY BlanksCut
  <2>2. AtBlanks(Append(u, x)) = CutAtBlank[c][x]
    BY <2>1, BlanksAppend
  <2>3. Whole(c.rest) /\ c.rest \in Bytes
    BY <1>2, <2>1 DEF Cut, T
  <2>4. Append(u, x) \in Bytes
    BY AppendProperties DEF Bytes
  <2>5. CASE x = "n" /\ c.rest # <<>> /\ Last(c.rest) = "n"
    <3>1. CutAtBlank[c][x] = [parts |-> Append(c.parts, Front(c.rest)), rest |-> <<>>]
      BY <2>5, BlankIs
    <3>2. CutAtBlank[c][x].rest = <<>>
      BY <3>1
    <3> QED
      BY <2>2, <2>4, <3>2, WholeEmpty DEF T
  <2>6. CASE ~(x = "n" /\ c.rest # <<>> /\ Last(c.rest) = "n")
    <3>1. CutAtBlank[c][x] = [parts |-> c.parts, rest |-> Append(c.rest, x)]
      BY <2>6, BlankIs
    <3>2. CutAtBlank[c][x].rest = Append(c.rest, x)
      BY <3>1
    <3>3. Whole(Append(c.rest, x))
      BY <2>3, <2>6, WholeAppend
    <3> QED
      BY <2>2, <2>4, <3>2, <3>3 DEF T
  <2> QED
    BY <2>5, <2>6
<1>3. s \in T
  BY <1>1, <1>2, SeqInduction DEF Bytes
<1> QED
  BY <1>3 DEF T

\* Cutting goes on from what is left.
Over(p, c) == [parts |-> p \o c.parts, rest |-> c.rest]

LEMMA PartsAppend ==
  ASSUME NEW p \in Seq(Bytes), NEW q \in Seq(Bytes), NEW f \in Bytes
  PROVE  Append(p \o q, f) = p \o Append(q, f)
<1>1. Append(Cat(p, q), f) = Cat(p, Append(q, f))
  BY CatAppend
<1> QED
  BY <1>1 DEF Cat

LEMMA BlankOver ==
  ASSUME NEW p \in Seq(Bytes), NEW c \in Cut, NEW x \in Symbol
  PROVE  CutAtBlank[Over(p, c)][x] = Over(p, CutAtBlank[c][x])
<1>1. PICK q \in Seq(Bytes), r \in Bytes : c = [parts |-> q, rest |-> r]
  BY DEF Cut
<1>2. p \o q \in Seq(Bytes)
  BY ConcatProperties
<1>3. Over(p, c) = [parts |-> p \o q, rest |-> r] /\ Over(p, c) \in Cut
  BY <1>1, <1>2 DEF Over, Cut
<1>4. CASE x = "n" /\ r # <<>> /\ Last(r) = "n"
  <2>1. CutAtBlank[c][x] = [parts |-> Append(q, Front(r)), rest |-> <<>>]
    BY <1>1, <1>4, BlankIs
  <2>2. CutAtBlank[Over(p, c)][x] = [parts |-> Append(p \o q, Front(r)), rest |-> <<>>]
    BY <1>3, <1>4, BlankIs
  <2>3. PICK f \in Bytes : f = Front(r)
    BY <1>4, FrontType DEF Bytes
  <2>4. Append(p \o q, f) = p \o Append(q, f)
    BY PartsAppend
  <2> QED
    <3>1. Over(p, CutAtBlank[c][x]) = [parts |-> p \o Append(q, f), rest |-> <<>>]
      BY <2>1, <2>3 DEF Over
    <3> QED
      BY <2>2, <2>3, <2>4, <3>1
<1>5. CASE ~(x = "n" /\ r # <<>> /\ Last(r) = "n")
  <2>1. CutAtBlank[c][x] = [parts |-> q, rest |-> Append(r, x)]
    BY <1>1, <1>5, BlankIs
  <2>2. CutAtBlank[Over(p, c)][x] = [parts |-> p \o q, rest |-> Append(r, x)]
    BY <1>3, <1>5, BlankIs
  <2> QED
    BY <2>1, <2>2 DEF Over
<1> QED
  BY <1>4, <1>5

LEMMA BytesAppend ==
  ASSUME NEW t \in Bytes, NEW x \in Symbol
  PROVE  Append(t, x) \in Bytes /\ \A s \in Bytes : s \o Append(t, x) = Append(s \o t, x)
BY AppendConcat, AppendProperties DEF Bytes

LEMMA BlanksConcat ==
  ASSUME NEW s \in Bytes, NEW t \in Bytes
  PROVE  AtBlanks(s \o t) = Over(AtBlanks(s).parts, AtBlanks(AtBlanks(s).rest \o t))
<1>1. PICK c \in Cut : c = AtBlanks(s)
  BY BlanksCut
<1>2. PICK p \in Seq(Bytes), r \in Bytes : c = [parts |-> p, rest |-> r]
  BY DEF Cut
<1> DEFINE T == {u \in Bytes : AtBlanks(s \o u) = Over(p, AtBlanks(r \o u))}
<1> HIDE DEF T
<1>3. <<>> \in T
  <2>1. <<>> \in Bytes /\ s \o <<>> = s /\ r \o <<>> = r /\ p \o <<>> = p
    BY ConcatEmptySeq DEF Bytes
  <2>2. AtBlanks(r) = [parts |-> <<>>, rest |-> r]
    <3>1. Whole(AtBlanks(s).rest)
      BY RestWhole
    <3>2. AtBlanks(s).rest = r
      BY <1>1, <1>2
    <3> QED
      BY <3>1, <3>2 DEF Whole
  <2>3. AtBlanks(s) = Over(p, AtBlanks(r))
    BY <1>1, <1>2, <2>1, <2>2 DEF Over
  <2> QED
    BY <2>1, <2>3 DEF T
<1>4. ASSUME NEW u \in Bytes, NEW x \in Symbol, u \in T PROVE Append(u, x) \in T
  <2>1. PICK v \in Bytes, w \in Bytes : v = s \o u /\ w = r \o u
    BY ConcatProperties DEF Bytes
  <2>2. s \o Append(u, x) = Append(v, x) /\ r \o Append(u, x) = Append(w, x)
    BY <2>1, BytesAppend
  <2>3. PICK d \in Cut : d = AtBlanks(w)
    BY BlanksCut
  <2>4. AtBlanks(v) = Over(p, d)
    BY <1>4, <2>1, <2>3 DEF T
  <2>5. /\ AtBlanks(Append(v, x)) = CutAtBlank[Over(p, d)][x]
        /\ AtBlanks(Append(w, x)) = CutAtBlank[d][x]
    BY <2>3, <2>4, BlanksAppend
  <2>6. AtBlanks(Append(v, x)) = Over(p, AtBlanks(Append(w, x)))
    BY <2>5, BlankOver
  <2> QED
    BY <2>2, <2>6, BytesAppend DEF T
<1>5. t \in T
  BY <1>3, <1>4, SeqInduction DEF Bytes
<1>6. AtBlanks(s \o t) = Over(p, AtBlanks(r \o t))
  BY <1>5 DEF T
<1> QED
  BY <1>1, <1>2, <1>6

-----------------------------------------------------------------------------
(***************************************************************************)
(* Lines.                                                                  *)
(***************************************************************************)
Plain == Seq(Symbol \ {"n"})

LEMMA PlainIs == ASSUME NEW l \in Plain PROVE l \in Bytes
BY SeqMonotonic DEF Plain, Bytes

LEMMA PlainLines == ASSUME NEW m \in Seq(Plain) PROVE m \in Seq(Bytes)
<1>1. Plain \subseteq Bytes
  BY PlainIs
<1> QED
  BY <1>1, SeqMonotonic

LEMMA BytesEmpty == <<>> \in Bytes /\ <<>> \in Plain
BY DEF Bytes, Plain

LEMMA BytesConcat ==
  ASSUME NEW s \in Bytes, NEW t \in Bytes
  PROVE  s \o t \in Bytes
BY ConcatProperties DEF Bytes

LEMMA LinesType ==
  ASSUME NEW B, B \subseteq Symbol, NEW t \in Seq(B)
  PROVE  /\ AtBreaks(t).parts \in Seq(Seq(B \ {"n"})) /\ AtBreaks(t).rest \in Seq(B \ {"n"})
         /\ Lines(t) = Append(AtBreaks(t).parts, AtBreaks(t).rest)
         /\ Lines(t) \in Seq(Seq(B \ {"n"}))
<1> DEFINE C == B \ {"n"}
<1>1. AtBreaks(t) \in CutsOf(C)
  BY BreaksType
<1>2. Lines(t) = Append(AtBreaks(t).parts, AtBreaks(t).rest)
  BY DEF Lines, AtBreaks
<1> HIDE DEF C
<1>3. AtBreaks(t).parts \in Seq(Seq(C)) /\ AtBreaks(t).rest \in Seq(C)
  BY <1>1, CutHas
<1>4. Lines(t) \in Seq(Seq(C))
  BY <1>2, <1>3, AppendProperties
<1> QED
  BY <1>2, <1>3, <1>4 DEF C

LEMMA LinesPlain ==
  ASSUME NEW t \in Bytes
  PROVE  /\ AtBreaks(t).parts \in Seq(Plain) /\ AtBreaks(t).rest \in Plain
         /\ Lines(t) = Append(AtBreaks(t).parts, AtBreaks(t).rest)
         /\ Lines(t) \in Seq(Plain)
BY LinesType DEF Plain, Bytes

AddBreak == [l \in Bytes |-> Append(l, "n")]

LEMMA AddBreakIs ==
  /\ Maps(AddBreak, Bytes, Seq(Symbol))
  /\ \A l \in Bytes : AddBreak[l] = Append(l, "n")
<1>1. "n" \in Symbol
  BY DEF Symbol
<1> QED
  BY <1>1, BytesAppend DEF AddBreak, Maps, Bytes

LEMMA JoinIs ==
  ASSUME NEW m \in Seq(Bytes)
  PROVE  Join(m) = Front(All(AddBreak, m))
<1>1. DOMAIN m = 1..Len(m) /\ \A i \in 1..Len(m) : m[i] \in Bytes
  BY LenProperties, ElementOfSeq
<1>2. [i \in DOMAIN m |-> Append(m[i], "n")] = Each(AddBreak, m)
  BY <1>1, AddBreakIs DEF Each
<1> QED
  BY <1>2, Zenon DEF Join, All

LEMMA JoinType ==
  ASSUME NEW m \in Seq(Bytes)
  PROVE  Join(m) \in Bytes
<1>1. PICK s \in Bytes : s = All(AddBreak, m)
  BY AllType, AddBreakIs DEF Bytes
<1>2. Join(m) = Front(s)
  BY <1>1, JoinIs
<1>3. CASE s = <<>>
  <2>1. Front(s) = <<>>
    BY <1>3 DEF Front
  <2> QED
    BY <1>2, <2>1, BytesEmpty
<1>4. CASE s # <<>>
  BY <1>2, <1>4, FrontType DEF Bytes
<1> QED
  BY <1>3, <1>4

LEMMA JoinEmpty == Join(<<>>) = <<>>
<1>1. <<>> \in Seq(Bytes)
  OBVIOUS
<1>2. Front(<<>>) = <<>>
  BY DEF Front
<1> QED
  BY <1>1, <1>2, JoinIs, AllEmpty

-----------------------------------------------------------------------------
(***************************************************************************)
(* Events.                                                                 *)
(***************************************************************************)
Prefixed == [l \in Bytes |-> <<"d">> \o l]
FieldOf == [l \in Bytes |-> Field(l)]

LEMMA FieldIs ==
  ASSUME NEW l \in Bytes
  PROVE  /\ Prefixed[l] = <<"d">> \o l /\ Prefixed[l] \in Bytes
         /\ Field(l) = Append(Prefixed[l], "n")
         /\ Field(l) \in Bytes
<1>1. <<"d">> \in Bytes /\ "n" \in Symbol /\ <<"n">> \in Bytes
  BY DEF Bytes, Symbol
<1>2. PICK s \in Bytes : s = <<"d">> \o l
  BY <1>1, BytesConcat
<1>3. s \o <<"n">> = Append(s, "n")
  BY <1>1, AppendIsConcat DEF Bytes
<1>4. Prefixed[l] = s
  BY <1>2 DEF Prefixed
<1>5. Field(l) = s \o <<"n">>
  BY <1>2 DEF Field
<1>6. s \o <<"n">> \in Bytes
  BY <1>1, BytesConcat
<1> QED
  BY <1>2, <1>3, <1>4, <1>5, <1>6

LEMMA PrefixedPlain ==
  ASSUME NEW l \in Plain
  PROVE  Prefixed[l] \in Plain
<1>1. <<"d">> \in Plain
  BY DEF Plain, Symbol
<1>2. <<"d">> \o l \in Plain
  BY <1>1, ConcatProperties DEF Plain
<1> QED
  BY <1>2, PlainIs, FieldIs

LEMMA FieldMaps == Maps(FieldOf, Bytes, Seq(Symbol))
BY FieldIs DEF Maps, FieldOf, Bytes

LEMMA AllFields ==
  ASSUME NEW m \in Seq(Bytes), NEW l \in Bytes
  PROVE  /\ All(FieldOf, m) \in Bytes
         /\ All(FieldOf, Append(m, l)) = Append(All(FieldOf, m) \o Prefixed[l], "n")
<1>1. All(FieldOf, m) \in Seq(Symbol)
  BY FieldMaps, AllType
<1>2. All(FieldOf, Append(m, l)) = All(FieldOf, m) \o FieldOf[l]
  BY FieldMaps, AllAppend
<1>3. FieldOf[l] = Append(Prefixed[l], "n") /\ Prefixed[l] \in Bytes
  BY FieldIs DEF FieldOf
<1>4. PICK s \in Bytes, u \in Bytes : s = All(FieldOf, m) /\ u = Prefixed[l]
  BY <1>1, <1>3 DEF Bytes
<1>5. s \o Append(u, "n") = Append(s \o u, "n")
  <2>1. "n" \in Symbol
    BY DEF Symbol
  <2> QED
    BY <2>1, BytesAppend
<1> QED
  BY <1>2, <1>3, <1>4, <1>5

\* A text without line breaks is no line of its own yet.
LEMMA BreaksPlain ==
  ASSUME NEW s \in Bytes, NEW l \in Plain
  PROVE  AtBreaks(s \o l) = [parts |-> AtBreaks(s).parts, rest |-> AtBreaks(s).rest \o l]
<1>1. PICK c \in Cut : c = AtBreaks(s)
  BY BreaksCut
<1>2. PICK p \in Seq(Bytes), r \in Bytes : c = [parts |-> p, rest |-> r]
  BY DEF Cut
<1> DEFINE T == {u \in Plain : AtBreaks(s \o u) = [parts |-> p, rest |-> r \o u]}
<1> HIDE DEF T
<1>3. <<>> \in T
  <2>1. s \o <<>> = s /\ r \o <<>> = r
    BY ConcatEmptySeq DEF Bytes
  <2> QED
    BY <1>1, <1>2, <2>1, BytesEmpty DEF T
<1>4. ASSUME NEW u \in Plain, NEW x \in Symbol \ {"n"}, u \in T PROVE Append(u, x) \in T
  <2>1. PICK v \in Bytes, w \in Bytes : v = s \o u /\ w = r \o u
    BY BytesConcat, PlainIs
  <2>2. u \in Bytes /\ x \in Symbol
    BY PlainIs
  <2>3. s \o Append(u, x) = Append(v, x) /\ r \o Append(u, x) = Append(w, x)
    BY <2>1, <2>2, BytesAppend
  <2>4. PICK d \in Cut : d = AtBreaks(v)
    BY BreaksCut
  <2>5. d = [parts |-> p, rest |-> w]
    BY <1>4, <2>1, <2>4 DEF T
  <2>6. CutAtBreak[d][x] = [parts |-> d.parts, rest |-> Append(d.rest, x)]
    BY <2>2, BreakIs
  <2>7. AtBreaks(Append(v, x)) = CutAtBreak[d][x]
    BY <2>2, <2>4, BreaksAppend
  <2>8. AtBreaks(Append(v, x)) = [parts |-> p, rest |-> Append(w, x)]
    BY <2>5, <2>6, <2>7
  <2>9. Append(u, x) \in Plain
    BY AppendProperties DEF Plain
  <2> QED
    BY <2>3, <2>8, <2>9 DEF T
<1>5. l \in T
  BY <1>3, <1>4, SeqInduction DEF Plain
<1> QED
  BY <1>1, <1>2, <1>5 DEF T

\* The lines of an event are its fields.
LEMMA BreaksFields ==
  ASSUME NEW m \in Seq(Plain)
  PROVE  AtBreaks(All(FieldOf, m)) = [parts |-> Each(Prefixed, m), rest |-> <<>>]
<1> DEFINE T == {o \in Seq(Plain) :
                   AtBreaks(All(FieldOf, o)) = [parts |-> Each(Prefixed, o), rest |-> <<>>]}
<1> HIDE DEF T
<1>1. <<>> \in T
  <2>1. AtBreaks(<<>>) = [parts |-> <<>>, rest |-> <<>>]
    BY LoopEmpty DEF AtBreaks, Uncut
  <2>2. Each(Prefixed, <<>>) = <<>> /\ <<>> \in Seq(Plain)
    BY DEF Each
  <2> QED
    BY <2>1, <2>2, AllEmpty DEF T
<1>2. ASSUME NEW o \in Seq(Plain), NEW l \in Plain, o \in T PROVE Append(o, l) \in T
  <2>1. o \in Seq(Bytes) /\ l \in Bytes
    BY PlainIs, PlainLines
  <2>2. PICK f \in Bytes : f = All(FieldOf, o)
    BY <2>1, AllFields
  <2>3. PICK q \in Plain : q = Prefixed[l]
    BY PrefixedPlain
  <2>4. PICK v \in Bytes : v = f \o q
    BY BytesConcat, PlainIs
  <2>5. All(FieldOf, Append(o, l)) = Append(v, "n")
    BY <2>1, <2>2, <2>3, <2>4, AllFields
  <2>6. AtBreaks(f) = [parts |-> Each(Prefixed, o), rest |-> <<>>]
    BY <1>2, <2>2 DEF T
  <2>7. PICK d \in Cut : d = AtBreaks(v)
    BY BreaksCut
  <2>8. d = [parts |-> Each(Prefixed, o), rest |-> q]
    <3>1. d = [parts |-> AtBreaks(f).parts, rest |-> AtBreaks(f).rest \o q]
      BY <2>4, <2>7, BreaksPlain
    <3>2. AtBreaks(f).parts = Each(Prefixed, o) /\ AtBreaks(f).rest = <<>>
      BY <2>6
    <3>3. <<>> \o q = q
      BY ConcatEmptySeq DEF Plain
    <3> QED
      BY <3>1, <3>2, <3>3
  <2>9. "n" \in Symbol
    BY DEF Symbol
  <2>10. AtBreaks(Append(v, "n")) = CutAtBreak[d]["n"]
    BY <2>7, <2>9, BreaksAppend
  <2>11. CutAtBreak[d]["n"] = [parts |-> Append(d.parts, d.rest), rest |-> <<>>]
    BY <2>9, BreakIs
  <2>12. Append(Each(Prefixed, o), q) = Each(Prefixed, Append(o, l))
    <3>1. Maps(Prefixed, Plain, Plain)
      BY PrefixedPlain DEF Maps
    <3> QED
      BY <2>3, <3>1, EachAppend
  <2>13. AtBreaks(Append(v, "n")) = [parts |-> Each(Prefixed, Append(o, l)), rest |-> <<>>]
    BY <2>8, <2>10, <2>11, <2>12
  <2>14. Append(o, l) \in Seq(Plain)
    BY AppendProperties
  <2> QED
    BY <2>5, <2>13, <2>14 DEF T
<1>3. m \in T
  BY <1>1, <1>2, SeqInduction
<1> QED
  BY <1>3 DEF T

\* No blank line ends an event before its end.
LEMMA LastConcat ==
  ASSUME NEW A, NEW s \in Seq(A), NEW t \in Seq(A), t # <<>>
  PROVE  Last(s \o t) = Last(t)
<1>1. PICK u \in Seq(A), x \in A : t = Append(u, x)
  BY SequenceEmptyOrAppend
<1>2. PICK w \in Seq(A) : w = s \o u
  BY ConcatProperties
<1>3. s \o t = Append(w, x)
  BY <1>1, <1>2, AppendConcat
<1>4. Last(Append(w, x)) = x /\ Last(Append(u, x)) = x
  BY FrontLast
<1> QED
  BY <1>1, <1>3, <1>4

LEMMA WholePlain ==
  ASSUME NEW s \in Bytes, NEW l \in Plain, Whole(s)
  PROVE  Whole(s \o l)
<1> DEFINE T == {u \in Plain : Whole(s \o u)}
<1> HIDE DEF T
<1>1. <<>> \in T
  <2>1. s \o <<>> = s
    BY ConcatEmptySeq DEF Bytes
  <2> QED
    BY <2>1, BytesEmpty DEF T
<1>2. ASSUME NEW u \in Plain, NEW x \in Symbol \ {"n"}, u \in T PROVE Append(u, x) \in T
  <2>1. PICK v \in Bytes : v = s \o u
    BY BytesConcat, PlainIs
  <2>2. u \in Bytes /\ x \in Symbol
    BY PlainIs
  <2>3. s \o Append(u, x) = Append(v, x)
    BY <2>1, <2>2, BytesAppend
  <2>4. Whole(Append(v, x))
    BY <1>2, <2>1, <2>2, WholeAppend DEF T
  <2>5. Append(u, x) \in Plain
    BY AppendProperties DEF Plain
  <2> QED
    BY <2>3, <2>4, <2>5 DEF T
<1>3. l \in T
  BY <1>1, <1>2, SeqInduction DEF Plain
<1> QED
  BY <1>3 DEF T

\* A field keeps an event whole.
LEMMA WholeField ==
  ASSUME NEW s \in Bytes, NEW l \in Plain, Whole(s)
  PROVE  Whole(Append(s \o Prefixed[l], "n"))
<1>1. PICK q \in Plain : q = Prefixed[l]
  BY PrefixedPlain
<1>2. PICK v \in Bytes : v = s \o q
  BY BytesConcat, PlainIs
<1>3. Whole(v)
  BY <1>2, WholePlain
<1>4. "n" \in Symbol /\ "d" \in Symbol \ {"n"}
  BY DEF Symbol
<1>5. q = <<"d">> \o l
  BY <1>1, FieldIs, PlainIs
<1>6. q # <<>>
  <2>1. <<"d">> \in Plain /\ Len(<<"d">>) = 1
    BY <1>4 DEF Plain
  <2>2. Len(<<"d">> \o l) = Len(<<"d">>) + Len(l)
    BY <2>1, ConcatProperties DEF Plain
  <2>3. Len(l) \in Nat
    BY LenProperties DEF Plain
  <2>4. Len(q) # 0
    BY <1>5, <2>1, <2>2, <2>3
  <2> QED
    BY <2>4, EmptySeq
<1>7. Last(q) \in Symbol \ {"n"}
  BY <1>6, FrontType DEF Plain
<1>8. Last(v) = Last(q)
  <2>1. s \in Seq(Symbol) /\ q \in Seq(Symbol)
    BY PlainIs DEF Bytes
  <2> QED
    BY <1>2, <1>6, <2>1, LastConcat
<1>9. Whole(Append(v, "n"))
  BY <1>3, <1>4, <1>7, <1>8, WholeAppend
<1> QED
  BY <1>1, <1>2, <1>9

LEMMA WholeFields ==
  ASSUME NEW m \in Seq(Plain)
  PROVE  Whole(All(FieldOf, m))
<1> DEFINE T == {o \in Seq(Plain) : Whole(All(FieldOf, o))}
<1> HIDE DEF T
<1>1. <<>> \in T
  <2>1. <<>> \in Seq(Plain)
    OBVIOUS
  <2> QED
    BY <2>1, AllEmpty, WholeEmpty DEF T
<1>2. ASSUME NEW o \in Seq(Plain), NEW l \in Plain, o \in T PROVE Append(o, l) \in T
  <2>1. o \in Seq(Bytes) /\ l \in Bytes
    BY PlainIs, PlainLines
  <2>2. PICK f \in Bytes : f = All(FieldOf, o)
    BY <2>1, AllFields
  <2>3. All(FieldOf, Append(o, l)) = Append(f \o Prefixed[l], "n")
    BY <2>1, <2>2, AllFields
  <2>4. Whole(Append(f \o Prefixed[l], "n"))
    BY <1>2, <2>2, WholeField DEF T
  <2>5. Append(o, l) \in Seq(Plain)
    BY AppendProperties
  <2> QED
    BY <2>3, <2>4, <2>5 DEF T
<1>3. m \in T
  BY <1>1, <1>2, SeqInduction
<1> QED
  BY <1>3 DEF T

\* The event of an escaped text.
Event(t) == LET lines == Lines(t)
            IN  FlattenSeq([i \in DOMAIN lines |-> Field(lines[i])]) \o <<"n">>

\* Its fields, of which the last break is one of two at the end.
Body(t) == Front(All(FieldOf, Lines(t)))

LEMMA BodyIs ==
  ASSUME NEW t \in Bytes
  PROVE  /\ Body(t) \in Bytes
         /\ All(FieldOf, Lines(t)) = Append(Body(t), "n")
         /\ Event(t) = Append(Append(Body(t), "n"), "n")
<1>1. PICK p \in Seq(Plain), r \in Plain : Lines(t) = Append(p, r)
  BY LinesPlain
<1>2. p \in Seq(Bytes) /\ r \in Bytes
  BY <1>1, PlainIs, PlainLines
<1>3. PICK f \in Bytes : f = All(FieldOf, p) \o Prefixed[r]
  BY <1>2, AllFields, FieldIs, BytesConcat
<1>4. All(FieldOf, Lines(t)) = Append(f, "n")
  BY <1>1, <1>2, <1>3, AllFields
<1>5. "n" \in Symbol
  BY DEF Symbol
<1>6. Front(Append(f, "n")) = f
  BY <1>5, FrontLast DEF Bytes
<1>7. Body(t) = f
  BY <1>4, <1>6 DEF Body
<1>8. Event(t) = All(FieldOf, Lines(t)) \o <<"n">>
  <2>1. Lines(t) \in Seq(Bytes)
    BY LinesPlain, PlainLines
  <2>2. PICK m \in Seq(Bytes) : m = Lines(t)
    BY <2>1
  <2>3. DOMAIN m = 1..Len(m) /\ \A i \in 1..Len(m) : m[i] \in Bytes
    BY LenProperties, ElementOfSeq
  <2>4. [i \in DOMAIN m |-> Field(m[i])] = Each(FieldOf, m)
    BY <2>3 DEF Each, FieldOf
  <2>5. [i \in DOMAIN Lines(t) |-> Field(Lines(t)[i])] = Each(FieldOf, Lines(t))
    BY <2>2, <2>4
  <2> QED
    BY <2>5, Zenon DEF Event, All
<1>9. Append(f, "n") \o <<"n">> = Append(Append(f, "n"), "n")
  <2>1. Append(f, "n") \in Seq(Symbol)
    BY <1>5, BytesAppend DEF Bytes
  <2> QED
    BY <1>5, <2>1, AppendIsConcat
<1> QED
  BY <1>4, <1>7, <1>8, <1>9

LEMMA EventBytes == ASSUME NEW t \in Bytes PROVE Event(t) \in Bytes
<1>1. "n" \in Symbol
  BY DEF Symbol
<1>2. PICK f \in Bytes : f = Body(t)
  BY BodyIs
<1>3. PICK g \in Bytes : g = Append(f, "n")
  BY <1>1, BytesAppend
<1>4. Event(t) = Append(g, "n")
  BY <1>2, <1>3, BodyIs
<1> QED
  BY <1>1, <1>4, BytesAppend

\* An event is one part, without a rest.
LEMMA EventIs ==
  ASSUME NEW t \in Bytes
  PROVE  AtBlanks(Event(t)) = [parts |-> <<Body(t)>>, rest |-> <<>>]
<1>1. PICK f \in Bytes : f = Body(t)
  BY BodyIs
<1>2. "n" \in Symbol
  BY DEF Symbol
<1>3. PICK g \in Bytes : g = Append(f, "n")
  BY <1>2, BytesAppend
<1>4. Event(t) = Append(g, "n") /\ g = All(FieldOf, Lines(t))
  BY <1>1, <1>3, BodyIs
<1>5. Whole(g)
  BY <1>4, WholeFields, LinesPlain
<1>6. PICK c \in Cut : c = AtBlanks(g)
  BY BlanksCut
<1>7. c = [parts |-> <<>>, rest |-> g]
  BY <1>5, <1>6 DEF Whole
<1>8. g # <<>> /\ Last(g) = "n" /\ Front(g) = f
  BY <1>2, <1>3, FrontLast, AppendProperties DEF Bytes
<1>9. CutAtBlank[c]["n"] = [parts |-> Append(<<>>, f), rest |-> <<>>]
  <2>1. c.parts = <<>> /\ c.rest = g
    BY <1>7
  <2> QED
    BY <1>2, <1>8, <2>1, BlankIs
<1>10. AtBlanks(Append(g, "n")) = CutAtBlank[c]["n"]
  BY <1>2, <1>6, BlanksAppend
<1>11. Append(<<>>, f) = <<f>>
  OBVIOUS
<1> QED
  BY <1>1, <1>4, <1>9, <1>10, <1>11

\* The lines of the part are the fields.
LEMMA BodyLines ==
  ASSUME NEW t \in Bytes
  PROVE  Lines(Body(t)) = Each(Prefixed, Lines(t))
<1>1. PICK f \in Bytes : f = Body(t)
  BY BodyIs
<1>2. "n" \in Symbol
  BY DEF Symbol
<1>3. PICK c \in Cut : c = AtBreaks(f)
  BY BreaksCut
<1>4. AtBreaks(Append(f, "n")) = CutAtBreak[c]["n"]
  BY <1>2, <1>3, BreaksAppend
<1>5. CutAtBreak[c]["n"] = [parts |-> Append(c.parts, c.rest), rest |-> <<>>]
  BY <1>2, BreakIs
<1>6. AtBreaks(Append(f, "n")) = [parts |-> Each(Prefixed, Lines(t)), rest |-> <<>>]
  <2>1. Lines(t) \in Seq(Plain) /\ All(FieldOf, Lines(t)) = Append(f, "n")
    BY <1>1, BodyIs, LinesPlain
  <2> QED
    BY <2>1, BreaksFields
<1>7. Lines(f) = Append(c.parts, c.rest)
  BY <1>3, LinesPlain
<1> QED
  BY <1>1, <1>4, <1>5, <1>6, <1>7
-----------------------------------------------------------------------------
(***************************************************************************)
(* Data.                                                                   *)
(***************************************************************************)
NoData == [lines |-> <<>>, done |-> FALSE]

LEMMA NoDataIs == NoData \in Data /\ NoData.lines = <<>> /\ NoData.done = FALSE
<1>1. <<>> \in Seq(Bytes)
  OBVIOUS
<1> QED
  BY <1>1 DEF NoData, Data

LEMMA DataLoop == ASSUME NEW part PROVE DataOf(part) = Loop(TakeLine, NoData, Lines(part))
BY DEF DataOf, NoData

LEMMA TakeLineType ==
  ASSUME NEW e \in Data, NEW l \in Bytes
  PROVE  TakeLine[e][l] \in Data
<1>1. CASE e.done \/ ~IsData(l)
  BY <1>1 DEF TakeLine
<1>2. CASE ~(e.done \/ ~IsData(l))
  <2>1. DataIn(l) \in Bytes /\ e.lines \in Seq(Bytes)
    <3>1. PICK u \in Bytes : u = Tail(l)
      BY <1>2, HeadTailProperties DEF IsData, Bytes
    <3>2. u # <<>>
      BY <1>2, <3>1 DEF IsData, Spaced
    <3>3. Tail(u) \in Bytes
      BY <3>2, HeadTailProperties DEF Bytes
    <3> QED
      BY <3>1, <3>3 DEF DataIn, Data
  <2>2. Append(e.lines, DataIn(l)) \in Seq(Bytes)
    BY <2>1, AppendProperties
  <2>3. CASE DataIn(l) = Sentinel
    <3>1. TakeLine[e][l] = [lines |-> e.lines, done |-> TRUE]
      BY <1>2, <2>3 DEF TakeLine
    <3> QED
      BY <2>1, <3>1 DEF Data
  <2>4. CASE DataIn(l) # Sentinel
    <3>1. TakeLine[e][l] = [lines |-> Append(e.lines, DataIn(l)), done |-> FALSE]
      BY <1>2, <2>4 DEF TakeLine
    <3> QED
      BY <2>2, <3>1 DEF Data
  <2> QED
    BY <2>3, <2>4
<1> QED
  BY <1>1, <1>2

LEMMA DataType ==
  ASSUME NEW part \in Bytes
  PROVE  DataOf(part) \in Data
<1>1. Keeps(TakeLine, Bytes, Data)
  BY TakeLineType DEF Keeps
<1>2. Lines(part) \in Seq(Bytes)
  BY LinesPlain, PlainLines
<1>3. PICK m \in Seq(Bytes) : m = Lines(part)
  BY <1>2
<1>4. Loop(TakeLine, NoData, m) \in Data
  BY <1>1, NoDataIs, LoopType
<1> QED
  BY <1>3, <1>4, DataLoop

\* What the callback makes of a field: a line that starts with a space, without it.
LEMMA TakeField ==
  ASSUME NEW e \in Data, NEW l \in Bytes, e.done = FALSE
  PROVE  TakeLine[e][Prefixed[l]] =
           IF ~Spaced(l) THEN e
           ELSE IF Tail(l) = Sentinel THEN [lines |-> e.lines, done |-> TRUE]
           ELSE [lines |-> Append(e.lines, Tail(l)), done |-> FALSE]
<1>1. PICK q \in Bytes : q = Prefixed[l]
  BY FieldIs
<1>2. q = <<"d">> \o l
  BY <1>1, FieldIs
<1>3. Len(l) \in Nat /\ <<"d">> \in Seq(Symbol) /\ Len(<<"d">>) = 1 /\ <<"d">>[1] = "d"
  BY LenProperties DEF Bytes, Symbol
<1>4. /\ Len(q) = 1 + Len(l)
      /\ \A i \in 1..(1 + Len(l)) : q[i] = IF i <= 1 THEN <<"d">>[i] ELSE l[i - 1]
  BY <1>2, <1>3, ConcatProperties DEF Bytes
<1>5. q # <<>> /\ Head(q) = "d"
  <2>1. Len(q) # 0 /\ q[1] = "d"
    BY <1>3, <1>4
  <2>2. q # <<>>
    BY <2>1, EmptySeq
  <2> QED
    BY <2>1, <2>2 DEF Bytes
<1>6. Tail(q) = l
  <2>1. PICK r \in Bytes : r = Tail(q)
    BY <1>5, HeadTailProperties DEF Bytes
  <2>2. Len(r) = Len(q) - 1 /\ \A i \in 1..Len(r) : r[i] = q[i + 1]
    BY <1>5, <2>1, HeadTailProperties DEF Bytes
  <2>3. Len(r) = Len(l)
    BY <1>3, <1>4, <2>2
  <2>4. \A i \in 1..Len(r) : r[i] = l[i]
    BY <1>3, <1>4, <2>2, <2>3
  <2>5. r = l
    BY <2>3, <2>4, SeqEqual DEF Bytes
  <2> QED
    BY <2>1, <2>5
<1>7. (IsData(q) <=> Spaced(l)) /\ DataIn(q) = Tail(l)
  BY <1>5, <1>6 DEF IsData, DataIn
<1> QED
  BY <1>1, <1>7 DEF TakeLine

\* The line of a text that the callback takes for the sentinel.
Stop == <<"s", "D">>

LEMMA StopIs ==
  ASSUME NEW l \in Bytes, Spaced(l), Tail(l) = Sentinel
  PROVE  l = Stop
<1>1. PICK r \in Bytes : r = Tail(l)
  BY HeadTailProperties DEF Spaced, Bytes
<1>2. /\ l[1] = "s" /\ Len(r) = Len(l) - 1
      /\ \A i \in 1..Len(r) : r[i] = l[i + 1]
  BY <1>1, HeadTailProperties DEF Spaced, Bytes
<1>3. Len(r) = 1 /\ r[1] = "D"
  <2>1. r = <<"D">>
    BY <1>1 DEF Sentinel
  <2> QED
    BY <2>1
<1>4. PICK n \in Nat : n = Len(l)
  BY LenProperties DEF Bytes
<1>5. Len(l) = 2 /\ l[2] = "D"
  <2>1. Len(l) = 2
    <3>1. 1 = n - 1
      BY <1>2, <1>3, <1>4
    <3>2. n = 2
      BY <3>1
    <3> QED
      BY <1>4, <3>2
  <2>2. 1 \in 1..Len(r) /\ 1 + 1 = 2
    BY <1>3
  <2>3. r[1] = l[1 + 1]
    BY <1>2, <2>2
  <2> QED
    BY <1>3, <2>1, <2>2, <2>3
<1>6. Stop \in Bytes /\ Len(Stop) = 2 /\ Stop[1] = "s" /\ Stop[2] = "D"
  BY DEF Stop, Bytes, Symbol
<1>7. \A i \in 1..Len(l) : l[i] = Stop[i]
  BY <1>2, <1>5, <1>6
<1> QED
  BY <1>5, <1>6, <1>7, SeqEqual DEF Bytes

ReadableOf == [l \in Bytes |-> Readable(l)]

LEMMA ReadableIs ==
  ASSUME NEW l \in Bytes
  PROVE  /\ ReadableOf[l] = Readable(l) /\ Readable(l) \in Seq(Bytes)
         /\ Spaced(l) => Tail(l) \in Bytes /\ Readable(l) = <<Tail(l)>>
         /\ ~Spaced(l) => Readable(l) = <<>>
<1>1. ASSUME Spaced(l) PROVE Tail(l) \in Bytes
  BY <1>1, HeadTailProperties DEF Spaced, Bytes
<1>2. CASE Spaced(l)
  <2>1. PICK u \in Bytes : u = Tail(l)
    BY <1>1, <1>2
  <2>2. <<u>> \in Seq(Bytes)
    OBVIOUS
  <2> QED
    BY <1>2, <2>1, <2>2 DEF Readable, ReadableOf
<1>3. CASE ~Spaced(l)
  <2>1. <<>> \in Seq(Bytes)
    OBVIOUS
  <2> QED
    BY <1>3, <2>1 DEF Readable, ReadableOf
<1> QED
  BY <1>2, <1>3

LEMMA ReadableMaps == Maps(ReadableOf, Bytes, Seq(Bytes))
BY ReadableIs DEF Maps

\* The data of the fields of lines that are no sentinel.
LEMMA TakeFields ==
  ASSUME NEW m \in Seq(Plain \ {Stop})
  PROVE  Loop(TakeLine, NoData, Each(Prefixed, m)) =
           [lines |-> All(ReadableOf, m), done |-> FALSE]
<1> DEFINE C == Plain \ {Stop}
           T == {o \in Seq(C) : Loop(TakeLine, NoData, Each(Prefixed, o)) =
                                  [lines |-> All(ReadableOf, o), done |-> FALSE]}
<1> HIDE DEF T
<1>1. <<>> \in T
  <2>1. Each(Prefixed, <<>>) = <<>> /\ <<>> \in Seq(C)
    BY DEF Each
  <2> QED
    BY <2>1, LoopEmpty, AllEmpty DEF NoData, T
<1>2. \A l \in C : l \in Plain /\ l \in Bytes /\ l # Stop
  BY PlainIs
<1> HIDE DEF C
<1>3. ASSUME NEW o \in Seq(C), NEW l \in C, o \in T PROVE Append(o, l) \in T
  <2>1. C \subseteq Plain /\ C \subseteq Bytes /\ Maps(Prefixed, C, Bytes)
    BY <1>2, FieldIs DEF Maps
  <2>2. Each(Prefixed, Append(o, l)) = Append(Each(Prefixed, o), Prefixed[l])
    BY <2>1, EachAppend
  <2>3. PICK u \in Seq(Bytes) : u = Each(Prefixed, o)
    BY <2>1, EachType
  <2>4. l \in Bytes /\ l # Stop /\ Prefixed[l] \in Bytes
    BY <1>2, FieldIs
  <2>5. Loop(TakeLine, NoData, Append(u, Prefixed[l])) =
          TakeLine[Loop(TakeLine, NoData, u)][Prefixed[l]]
    BY <2>4, LoopAppend
  <2>6. o \in Seq(Bytes)
    BY <2>1, SeqMonotonic
  <2>7. PICK d \in Seq(Bytes) : d = All(ReadableOf, o)
    BY <2>6, ReadableMaps, AllType
  <2>8. PICK e : e = [lines |-> d, done |-> FALSE]
    OBVIOUS
  <2>9. e \in Data /\ e.lines = d /\ e.done = FALSE
    BY <2>8 DEF Data
  <2>10. Loop(TakeLine, NoData, u) = e
    BY <1>3, <2>3, <2>7, <2>8 DEF T
  <2>11. All(ReadableOf, Append(o, l)) = d \o Readable(l)
    <3>1. All(ReadableOf, Append(o, l)) = All(ReadableOf, o) \o ReadableOf[l]
      BY <2>4, <2>6, ReadableMaps, AllAppend
    <3> QED
      BY <2>4, <2>7, <3>1, ReadableIs
  <2>12. TakeLine[e][Prefixed[l]] = [lines |-> d \o Readable(l), done |-> FALSE]
    <3>1. CASE ~Spaced(l)
      <4>1. Readable(l) = <<>> /\ d \o <<>> = d
        BY <2>4, <3>1, ReadableIs, ConcatEmptySeq
      <4>2. TakeLine[e][Prefixed[l]] = e
        BY <2>4, <2>9, <3>1, TakeField
      <4> QED
        BY <2>8, <4>1, <4>2
    <3>2. CASE Spaced(l)
      <4>1. PICK v \in Bytes : v = Tail(l) /\ Readable(l) = <<v>>
        BY <2>4, <3>2, ReadableIs
      <4>2. v # Sentinel
        BY <2>4, <3>2, <4>1, StopIs
      <4>3. TakeLine[e][Prefixed[l]] = [lines |-> Append(d, v), done |-> FALSE]
        BY <2>4, <2>9, <3>2, <4>1, <4>2, TakeField
      <4>4. Append(d, v) = d \o <<v>>
        BY AppendIsConcat
      <4> QED
        BY <4>1, <4>3, <4>4
    <3> QED
      BY <3>1, <3>2
  <2>13. Append(o, l) \in Seq(C)
    BY AppendProperties
  <2> QED
    BY <2>2, <2>3, <2>5, <2>10, <2>11, <2>12, <2>13 DEF T
<1>4. m \in T
  BY <1>1, <1>3, SeqInduction DEF C
<1> QED
  BY <1>4 DEF T

\* What is read back from an event of a text without such a line.
LEMMA DataOfBody ==
  ASSUME NEW t \in Bytes, ~Contains(Lines(t), Stop)
  PROVE  DataOf(Body(t)) = [lines |-> All(ReadableOf, Lines(t)), done |-> FALSE]
<1>1. PICK m \in Seq(Plain) : m = Lines(t)
  BY LinesPlain
<1>2. Len(m) \in Nat /\ m \in [1..Len(m) -> Plain]
  BY LenProperties
<1>3. \A i \in 1..Len(m) : m[i] \in Plain \ {Stop}
  BY <1>1, <1>2 DEF Contains
<1>4. m \in Seq(Plain \ {Stop})
  <2> DEFINE C == Plain \ {Stop}
  <2>1. m \in [1..Len(m) -> C]
    BY <1>2, <1>3
  <2> HIDE DEF C
  <2>2. Seq(C) = UNION {[1..n -> C] : n \in Nat}
    BY SeqDef, Zenon
  <2>3. m \in Seq(C)
    BY <1>2, <2>1, <2>2, Zenon
  <2> QED
    BY <2>3 DEF C
<1>5. Loop(TakeLine, NoData, Each(Prefixed, m)) =
        [lines |-> All(ReadableOf, m), done |-> FALSE]
  BY <1>4, TakeFields
<1> QED
  BY <1>1, <1>5, BodyLines, DataLoop

-----------------------------------------------------------------------------
(***************************************************************************)
(* The text of the parts.                                                  *)
(***************************************************************************)
PartText == [part \in Bytes |-> Join(DataOf(part).lines)]
NoText == [text |-> <<>>, done |-> FALSE]
NoneDone(p) == \A i \in 1..Len(p) : ~DataOf(p[i]).done

LEMMA PartTextIs ==
  ASSUME NEW part \in Bytes
  PROVE  PartText[part] = Join(DataOf(part).lines) /\ PartText[part] \in Bytes
<1>1. DataOf(part).lines \in Seq(Bytes)
  BY DataType DEF Data
<1> QED
  BY <1>1, JoinType DEF PartText

LEMMA PartTextMaps == Maps(PartText, Bytes, Seq(Symbol))
BY PartTextIs DEF Maps, Bytes

LEMMA TakePartIs ==
  ASSUME NEW a \in Taken, NEW part \in Bytes
  PROVE  TakePart[a][part] =
           IF a.done THEN a
           ELSE [text |-> a.text \o PartText[part], done |-> DataOf(part).done]
<1>1. TakePart[a][part] =
        IF a.done THEN a
        ELSE [text |-> a.text \o Join(DataOf(part).lines), done |-> DataOf(part).done]
  BY DEF TakePart
<1> QED
  BY <1>1, PartTextIs

LEMMA TakenType ==
  ASSUME NEW p \in Seq(Bytes)
  PROVE  Loop(TakePart, NoText, p) \in Taken
<1>1. NoText \in Taken
  BY BytesEmpty DEF NoText, Taken
<1>2. ASSUME NEW a \in Taken, NEW part \in Bytes PROVE TakePart[a][part] \in Taken
  <2>1. CASE a.done
    BY <2>1, TakePartIs
  <2>2. CASE ~a.done
    <3>1. PICK t \in Bytes : t = a.text \o PartText[part]
      <4>1. a.text \in Bytes
        BY DEF Taken
      <4> QED
        BY <4>1, BytesConcat, PartTextIs
    <3>2. DataOf(part).done \in BOOLEAN
      BY DataType DEF Data
    <3>3. TakePart[a][part] = [text |-> t, done |-> DataOf(part).done]
      BY <2>2, <3>1, TakePartIs
    <3> QED
      BY <3>2, <3>3 DEF Taken
  <2> QED
    BY <2>1, <2>2
<1>3. Keeps(TakePart, Bytes, Taken)
  BY <1>2 DEF Keeps
<1> QED
  BY <1>1, <1>3, LoopType

LEMMA TextType ==
  ASSUME NEW p \in Seq(Bytes)
  PROVE  TextOf(p) \in Bytes
BY TakenType DEF TextOf, NoText, Taken

LEMMA AllTexts ==
  ASSUME NEW p \in Seq(Bytes), NEW x \in Bytes
  PROVE  /\ All(PartText, p) \in Bytes
         /\ All(PartText, Append(p, x)) = All(PartText, p) \o PartText[x]
<1>1. All(PartText, p) \in Seq(Symbol)
  BY PartTextMaps, AllType
<1>2. All(PartText, Append(p, x)) = All(PartText, p) \o PartText[x]
  BY PartTextMaps, AllAppend
<1> QED
  BY <1>1, <1>2 DEF Bytes

\* The callback takes the text of each part, if none has the sentinel.
LEMMA TextOfParts ==
  ASSUME NEW p \in Seq(Bytes), NoneDone(p)
  PROVE  TextOf(p) = All(PartText, p)
<1> DEFINE Good(o) == /\ Loop(TakePart, NoText, o).text = All(PartText, o)
                      /\ ~Loop(TakePart, NoText, o).done
           T == {o \in Seq(Bytes) : NoneDone(o) => Good(o)}
<1> HIDE DEF T
<1>1. <<>> \in T
  <2>1. <<>> \in Seq(Bytes)
    OBVIOUS
  <2>2. Good(<<>>)
    BY LoopEmpty, AllEmpty DEF NoText
  <2> QED
    BY <2>1, <2>2 DEF T
<1>2. ASSUME NEW o \in Seq(Bytes), NEW x \in Bytes, o \in T PROVE Append(o, x) \in T
  <2>1. PICK v \in Seq(Bytes) : v = Append(o, x)
    BY AppendProperties
  <2>2. PICK n \in Nat : n = Len(o)
    BY LenProperties
  <2>3. Len(v) = n + 1 /\ v[n + 1] = x /\ \A i \in 1..n : v[i] = o[i]
    BY <2>1, <2>2, AppendProperties
  <2>4. ASSUME NoneDone(v) PROVE Good(v)
    <3>1. NoneDone(o) /\ ~DataOf(x).done
      <4>1. \A i \in 1..n : i \in 1..(n + 1)
        OBVIOUS
      <4>2. n + 1 \in 1..(n + 1)
        OBVIOUS
      <4> QED
        BY <2>2, <2>3, <2>4, <4>1, <4>2 DEF NoneDone
    <3>2. Good(o)
      BY <1>2, <3>1 DEF T
    <3>3. PICK a \in Taken : a = Loop(TakePart, NoText, o)
      BY TakenType
    <3>4. ~a.done /\ a.text = All(PartText, o)
      BY <3>2, <3>3
    <3>5. Loop(TakePart, NoText, v) = TakePart[a][x]
      BY <2>1, <3>3, LoopAppend
    <3>6. TakePart[a][x] = [text |-> a.text \o PartText[x], done |-> DataOf(x).done]
      BY <3>4, TakePartIs
    <3>7. All(PartText, v) = a.text \o PartText[x]
      BY <2>1, <3>4, AllTexts
    <3>8. PICK b : b = [text |-> a.text \o PartText[x], done |-> DataOf(x).done]
      OBVIOUS
    <3>9. b.text = a.text \o PartText[x] /\ b.done = DataOf(x).done
      BY <3>8, Zenon
    <3>10. Loop(TakePart, NoText, v) = b
      BY <3>5, <3>6, <3>8
    <3> QED
      BY <3>1, <3>7, <3>9, <3>10
  <2> HIDE DEF Good
  <2> QED
    BY <2>1, <2>4 DEF T
<1> HIDE DEF Good
<1>3. p \in T
  BY <1>1, <1>2, SeqInduction
<1>4. Loop(TakePart, NoText, p).text = All(PartText, p)
  BY <1>3 DEF T, Good
<1> QED
  BY <1>4 DEF TextOf, NoText

-----------------------------------------------------------------------------
(***************************************************************************)
(* The bytes of an answer.                                                 *)
(***************************************************************************)
EventOf == [t \in Bytes |-> Event(t)]
BodyOf == [t \in Bytes |-> Body(t)]
Bodies(m) == Each(BodyOf, m)

LEMMA BodyMaps == Maps(BodyOf, Bytes, Bytes)
BY BodyIs DEF Maps, BodyOf

LEMMA BodiesAre ==
  ASSUME NEW m \in Seq(Bytes)
  PROVE  /\ Bodies(m) \in Seq(Bytes) /\ Len(Bodies(m)) = Len(m)
         /\ \A i \in 1..Len(m) : m[i] \in Bytes /\ Bodies(m)[i] = Body(m[i])
<1>1. Bodies(m) \in Seq(Bytes)
  BY BodyMaps, EachType DEF Bodies
<1>2. Len(Bodies(m)) = Len(m) /\ \A i \in 1..Len(m) : Bodies(m)[i] = BodyOf[m[i]]
  BY BodyMaps, EachAt DEF Bodies
<1>3. \A i \in 1..Len(m) : m[i] \in Bytes
  BY ElementOfSeq
<1> QED
  BY <1>1, <1>2, <1>3 DEF BodyOf

LEMMA AllEvents ==
  ASSUME NEW m \in Seq(Bytes), NEW t \in Bytes
  PROVE  /\ All(EventOf, m) \in Bytes
         /\ All(EventOf, Append(m, t)) = All(EventOf, m) \o Event(t)
<1>1. Maps(EventOf, Bytes, Seq(Symbol))
  BY EventBytes DEF Maps, EventOf, Bytes
<1>2. All(EventOf, m) \in Seq(Symbol)
  BY <1>1, AllType
<1>3. All(EventOf, Append(m, t)) = All(EventOf, m) \o EventOf[t]
  BY <1>1, AllAppend
<1> QED
  BY <1>2, <1>3 DEF Bytes, EventOf

\* Each event is one part of what the callback gets, and nothing is left.
LEMMA EventsCut ==
  ASSUME NEW m \in Seq(Bytes)
  PROVE  AtBlanks(All(EventOf, m)) = [parts |-> Bodies(m), rest |-> <<>>]
<1> DEFINE T == {o \in Seq(Bytes) :
                   AtBlanks(All(EventOf, o)) = [parts |-> Bodies(o), rest |-> <<>>]}
<1> HIDE DEF T
<1>1. <<>> \in T
  <2>1. <<>> \in Seq(Bytes) /\ Bodies(<<>>) = <<>>
    BY DEF Bodies, Each
  <2>2. AtBlanks(<<>>) = [parts |-> <<>>, rest |-> <<>>]
    BY LoopEmpty DEF AtBlanks, Uncut
  <2> QED
    BY <2>1, <2>2, AllEmpty DEF T
<1>2. ASSUME NEW o \in Seq(Bytes), NEW t \in Bytes, o \in T PROVE Append(o, t) \in T
  <2>1. PICK s \in Bytes : s = All(EventOf, o)
    BY AllEvents
  <2>2. PICK e \in Bytes : e = Event(t)
    BY EventBytes
  <2>3. All(EventOf, Append(o, t)) = s \o e
    BY <2>1, <2>2, AllEvents
  <2>4. AtBlanks(s).parts = Bodies(o) /\ AtBlanks(s).rest = <<>>
    <3>1. AtBlanks(s) = [parts |-> Bodies(o), rest |-> <<>>]
      BY <1>2, <2>1 DEF T
    <3> QED
      BY <3>1
  <2>5. <<>> \o e = e
    BY ConcatEmptySeq DEF Bytes
  <2>6. AtBlanks(s \o e) = Over(Bodies(o), AtBlanks(e))
    <3>1. AtBlanks(s \o e) = Over(AtBlanks(s).parts, AtBlanks(AtBlanks(s).rest \o e))
      BY BlanksConcat
    <3> QED
      BY <2>4, <2>5, <3>1
  <2>7. AtBlanks(e).parts = <<Body(t)>> /\ AtBlanks(e).rest = <<>>
    <3>1. AtBlanks(e) = [parts |-> <<Body(t)>>, rest |-> <<>>]
      BY <2>2, EventIs
    <3> QED
      BY <3>1
  <2>8. Bodies(o) \o <<Body(t)>> = Bodies(Append(o, t))
    <3>1. Bodies(Append(o, t)) = Append(Bodies(o), BodyOf[t])
      BY BodyMaps, EachAppend DEF Bodies
    <3>2. BodyOf[t] = Body(t) /\ Body(t) \in Bytes /\ Bodies(o) \in Seq(Bytes)
      BY BodyIs, BodiesAre DEF BodyOf
    <3>3. Append(Bodies(o), Body(t)) = Bodies(o) \o <<Body(t)>>
      BY <3>2, AppendIsConcat
    <3> QED
      BY <3>1, <3>2, <3>3
  <2>9. AtBlanks(s \o e) = [parts |-> Bodies(Append(o, t)), rest |-> <<>>]
    BY <2>6, <2>7, <2>8 DEF Over
  <2>10. Append(o, t) \in Seq(Bytes)
    BY AppendProperties
  <2> QED
    BY <2>3, <2>9, <2>10 DEF T
<1>3. m \in T
  BY <1>1, <1>2, SeqInduction
<1> QED
  BY <1>3 DEF T

\* Encoding adds no mark of an error.
Calm == Symbol \ {"E"}

LEMMA EventCalm ==
  ASSUME NEW t \in Seq(Calm)
  PROVE  Event(t) \in Seq(Calm)
<1>1. /\ Calm \subseteq Symbol /\ "d" \in Calm /\ "n" \in Calm
      /\ <<"d">> \in Seq(Calm) /\ <<"n">> \in Seq(Calm)
  BY DEF Calm, Symbol
<1>2. t \in Bytes
  BY <1>1, SeqMonotonic DEF Bytes
<1>3. PICK m \in Seq(Seq(Calm \ {"n"})) : m = Lines(t)
  BY <1>1, LinesType
<1>4. ASSUME NEW l \in Seq(Calm \ {"n"}) PROVE FieldOf[l] \in Seq(Calm)
  <2>1. l \in Seq(Calm)
    BY SeqMonotonic
  <2>2. <<"d">> \o l \in Seq(Calm)
    BY <1>1, <2>1, ConcatProperties
  <2>3. Field(l) \in Seq(Calm)
    BY <1>1, <2>2, ConcatProperties DEF Field
  <2>4. l \in Bytes
    BY <1>1, <2>1, SeqMonotonic DEF Bytes
  <2> QED
    BY <2>3, <2>4 DEF FieldOf
<1>5. All(FieldOf, m) \in Seq(Calm)
  <2>1. Maps(FieldOf, Seq(Calm \ {"n"}), Seq(Calm))
    BY <1>4 DEF Maps
  <2> QED
    BY <2>1, AllType
<1>6. Event(t) = Append(All(FieldOf, m), "n")
  BY <1>2, <1>3, BodyIs
<1> QED
  BY <1>1, <1>5, <1>6, AppendProperties

-----------------------------------------------------------------------------
(***************************************************************************)
(* What is read of an event.                                               *)
(***************************************************************************)
LEMMA EscapedIs ==
  ASSUME NEW t \in Text
  PROVE  /\ Escaped(t) \in Bytes /\ Encode(t) = Event(Escaped(t))
         /\ ~Contains(t, "E") => Escaped(t) \in Seq(Calm)
<1>1. Len(t) \in Nat /\ t \in [1..Len(t) -> {"t", "s", "n", "r", "D", "E"}]
  BY LenProperties DEF Text
<1>2. ASSUME NEW B, \A i \in 1..Len(t) : Escaped(t)[i] \in B
      PROVE  Escaped(t) \in Seq(B)
  <2>1. Escaped(t) \in [1..Len(t) -> B]
    BY <1>1, <1>2 DEF Escaped
  <2>2. Seq(B) = UNION {[1..n -> B] : n \in Nat}
    BY SeqDef, Zenon
  <2> QED
    BY <1>1, <2>1, <2>2, Zenon
<1>3. \A i \in 1..Len(t) : Escaped(t)[i] \in Symbol
  BY <1>1 DEF Escaped, Symbol
<1>4. ASSUME ~Contains(t, "E") PROVE \A i \in 1..Len(t) : Escaped(t)[i] \in Calm
  BY <1>1, <1>4 DEF Contains, Escaped, Symbol, Calm
<1>5. Encode(t) = Event(Escaped(t))
  BY DEF Encode, Event
<1> QED
  BY <1>2, <1>3, <1>4, <1>5 DEF Bytes

LEMMA ReadBody ==
  ASSUME NEW t \in Text, ~Contains(Lines(Escaped(t)), Stop)
  PROVE  /\ PartText[Body(Escaped(t))] = ReadableText(t)
         /\ ~DataOf(Body(Escaped(t))).done
<1>1. PICK s \in Bytes : s = Escaped(t)
  BY EscapedIs
<1>2. PICK m \in Seq(Bytes) : m = Lines(s)
  BY LinesPlain, PlainLines
<1>3. DataOf(Body(s)) = [lines |-> All(ReadableOf, m), done |-> FALSE]
  BY <1>1, <1>2, DataOfBody
<1>4. DataOf(Body(s)).lines = All(ReadableOf, m) /\ ~DataOf(Body(s)).done
  BY <1>3
<1>5. PartText[Body(s)] = Join(DataOf(Body(s)).lines)
  BY BodyIs, PartTextIs
<1>6. DOMAIN m = 1..Len(m) /\ \A i \in 1..Len(m) : m[i] \in Bytes
  BY LenProperties, ElementOfSeq
<1>7. [i \in DOMAIN m |-> Readable(m[i])] = Each(ReadableOf, m)
  BY <1>6, ReadableIs DEF Each
<1>8. ReadableText(t) = Join(All(ReadableOf, m))
  <2>1. ReadableText(t) = Join(FlattenSeq([i \in DOMAIN m |-> Readable(m[i])]))
    BY <1>1, <1>2 DEF ReadableText
  <2> QED
    BY <1>7, <2>1, Zenon DEF All
<1> QED
  BY <1>1, <1>4, <1>5, <1>8

\* What the callback reads of one event are the lines of the text that start with a
\* space, without it, for any text without a line " [DONE]".
THEOREM EventIsRead ==
  ASSUME NEW t \in Text, ~Contains(Lines(Escaped(t)), <<"s", "D">>)
  PROVE  TextOf(Loop(CutAtBlank, Uncut, Encode(t)).parts) = ReadableText(t)
<1>1. PICK s \in Bytes : s = Escaped(t) /\ Encode(t) = Event(s)
  BY EscapedIs
<1>2. PICK f \in Bytes : f = Body(s)
  BY BodyIs
<1>3. AtBlanks(Event(s)) = [parts |-> <<f>>, rest |-> <<>>]
  BY <1>2, EventIs
<1>4. AtBlanks(Event(s)).parts = <<f>>
  BY <1>3
<1>5. PICK p \in Seq(Bytes) : p = Append(<<>>, f)
  <2>1. <<>> \in Seq(Bytes)
    OBVIOUS
  <2> QED
    BY <2>1, AppendProperties
<1>6. p = <<f>> /\ Len(p) = 1 /\ p[1] = f
  BY <1>5
<1>7. PartText[f] = ReadableText(t) /\ ~DataOf(f).done
  BY <1>1, <1>2, ReadBody DEF Stop
<1>8. TextOf(p) = All(PartText, p)
  <2>1. NoneDone(p)
    BY <1>6, <1>7 DEF NoneDone
  <2> QED
    BY <2>1, TextOfParts
<1>9. All(PartText, p) = PartText[f]
  <2>1. PICK o \in Seq(Bytes) : o = <<>>
    BY EmptySeq
  <2>2. All(PartText, Append(o, f)) = All(PartText, o) \o PartText[f]
    BY AllTexts
  <2>3. All(PartText, o) = <<>>
    BY <2>1, AllEmpty
  <2>4. <<>> \o PartText[f] = PartText[f]
    BY PartTextIs, ConcatEmptySeq DEF Bytes
  <2> QED
    BY <1>5, <2>1, <2>2, <2>3, <2>4
<1> QED
  BY <1>1, <1>4, <1>6, <1>7, <1>8, <1>9 DEF AtBlanks

\* In particular nothing is read of a text none of whose lines starts with a space.
THEOREM UnspacedIsLost ==
  ASSUME NEW t \in Text,
         \A i \in DOMAIN Lines(Escaped(t)) : ~Spaced(Lines(Escaped(t))[i])
  PROVE  TextOf(Loop(CutAtBlank, Uncut, Encode(t)).parts) = <<>>
<1>1. PICK m \in Seq(Bytes) : m = Lines(Escaped(t))
  BY EscapedIs, LinesPlain, PlainLines
<1>2. DOMAIN m = 1..Len(m) /\ \A i \in 1..Len(m) : m[i] \in Bytes /\ ~Spaced(m[i])
  BY <1>1, LenProperties, ElementOfSeq
<1>3. ~Contains(Lines(Escaped(t)), <<"s", "D">>)
  <2>1. Spaced(<<"s", "D">>)
    BY DEF Spaced
  <2> QED
    BY <1>1, <1>2, <2>1 DEF Contains
<1>4. All(ReadableOf, m) = <<>>
  <2> DEFINE T == {o \in Seq(Bytes) : (\A i \in 1..Len(o) : ~Spaced(o[i])) =>
                                        All(ReadableOf, o) = <<>>}
  <2> HIDE DEF T
  <2>1. <<>> \in T
    <3>1. <<>> \in Seq(Bytes)
      OBVIOUS
    <3> QED
      BY <3>1, AllEmpty DEF T
  <2>2. ASSUME NEW o \in Seq(Bytes), NEW l \in Bytes, o \in T PROVE Append(o, l) \in T
    <3>1. PICK v \in Seq(Bytes) : v = Append(o, l)
      BY AppendProperties
    <3>2. PICK n \in Nat : n = Len(o)
      BY LenProperties
    <3>3. Len(v) = n + 1 /\ v[n + 1] = l /\ \A i \in 1..n : v[i] = o[i]
      BY <3>1, <3>2, AppendProperties
    <3>4. ASSUME \A i \in 1..Len(v) : ~Spaced(v[i]) PROVE All(ReadableOf, v) = <<>>
      <4>1. ~Spaced(l) /\ \A i \in 1..n : ~Spaced(o[i])
        <5>1. n + 1 \in 1..(n + 1) /\ \A i \in 1..n : i \in 1..(n + 1)
          OBVIOUS
        <5> QED
          BY <3>3, <3>4, <5>1
      <4>2. All(ReadableOf, o) = <<>>
        BY <2>2, <3>2, <4>1 DEF T
      <4>3. ReadableOf[l] = <<>>
        BY <4>1, ReadableIs
      <4>4. All(ReadableOf, v) = All(ReadableOf, o) \o ReadableOf[l]
        BY <3>1, ReadableMaps, AllAppend
      <4>5. <<>> \o <<>> = <<>>
        OBVIOUS
      <4> QED
        BY <4>2, <4>3, <4>4, <4>5
    <3> QED
      BY <3>1, <3>4 DEF T
  <2>3. m \in T
    BY <2>1, <2>2, SeqInduction
  <2> QED
    BY <1>2, <2>3 DEF T
<1>5. [i \in DOMAIN m |-> Readable(m[i])] = Each(ReadableOf, m)
  BY <1>2, ReadableIs DEF Each
<1>6. ReadableText(t) = Join(<<>>)
  <2>1. ReadableText(t) = Join(FlattenSeq([i \in DOMAIN m |-> Readable(m[i])]))
    BY <1>1 DEF ReadableText
  <2>2. FlattenSeq([i \in DOMAIN m |-> Readable(m[i])]) = <<>>
    BY <1>4, <1>5, Zenon DEF All
  <2> QED
    BY <2>1, <2>2
<1>7. TextOf(Loop(CutAtBlank, Uncut, Encode(t)).parts) = ReadableText(t)
  BY <1>3, EventIsRead
<1> QED
  BY <1>6, <1>7, JoinEmpty

-----------------------------------------------------------------------------
(***************************************************************************)
(* The callback.                                                           *)
(***************************************************************************)
\* The texts as the events have them.
EscapedOf == [t \in Text |-> Escaped(t)]
Seen == Each(EscapedOf, sent)

LEMMA SeenIs ==
  ASSUME sent \in Seq(Text)
  PROVE  /\ Seen \in Seq(Bytes) /\ Len(Seen) = Len(sent)
         /\ DOMAIN sent = 1..Len(sent) /\ Len(sent) \in Nat
         /\ \A i \in 1..Len(sent) : sent[i] \in Text /\ Seen[i] = Escaped(sent[i])
<1>1. Maps(EscapedOf, Text, Bytes)
  BY EscapedIs DEF Maps, EscapedOf
<1>2. Seen \in Seq(Bytes)
  BY <1>1, EachType DEF Seen
<1>3. Len(Seen) = Len(sent) /\ \A i \in 1..Len(sent) : Seen[i] = EscapedOf[sent[i]]
  BY <1>1, EachAt DEF Seen
<1>4. /\ DOMAIN sent = 1..Len(sent) /\ Len(sent) \in Nat
      /\ \A i \in 1..Len(sent) : sent[i] \in Text
  BY LenProperties, ElementOfSeq
<1> QED
  BY <1>2, <1>3, <1>4 DEF EscapedOf

\* No text ends the reading of a piece of data.
Silent(texts) == \A i \in 1..Len(texts) : ~DataOf(Bodies(texts)[i]).done

LEMMA SeenSilent ==
  ASSUME sent \in Seq(Text), ~HasSentinel
  PROVE  Silent(Seen)
<1> SUFFICES ASSUME NEW i \in 1..Len(Seen) PROVE ~DataOf(Bodies(Seen)[i]).done
  BY DEF Silent
<1>1. i \in DOMAIN sent /\ sent[i] \in Text /\ Seen[i] = Escaped(sent[i])
  BY SeenIs
<1>2. Bodies(Seen)[i] = Body(Seen[i])
  BY SeenIs, BodiesAre
<1>3. ~Contains(Lines(Escaped(sent[i])), Stop)
  BY <1>1 DEF HasSentinel, Stop
<1> QED
  BY <1>1, <1>2, <1>3, ReadBody

\* The text of all events is what is readable of the answer.
ReadableAnswer == FlattenSeq([i \in DOMAIN sent |-> ReadableText(sent[i])])

LEMMA TextOfEvents ==
  ASSUME sent \in Seq(Text), ~HasSentinel
  PROVE  All(PartText, Bodies(Seen)) = ReadableAnswer
<1>1. Seen \in Seq(Bytes) /\ Len(Seen) = Len(sent) /\ DOMAIN sent = 1..Len(sent)
  BY SeenIs
<1>2. DOMAIN Bodies(Seen) = 1..Len(sent)
  BY <1>1, BodiesAre, LenProperties
<1>3. ASSUME NEW i \in 1..Len(sent) PROVE PartText[Bodies(Seen)[i]] = ReadableText(sent[i])
  <2>1. sent[i] \in Text /\ Seen[i] = Escaped(sent[i]) /\ Bodies(Seen)[i] = Body(Seen[i])
    BY <1>1, SeenIs, BodiesAre
  <2>2. ~Contains(Lines(Escaped(sent[i])), Stop)
    BY <1>1 DEF HasSentinel, Stop
  <2> QED
    BY <2>1, <2>2, ReadBody
<1>4. Each(PartText, Bodies(Seen)) = [i \in DOMAIN sent |-> ReadableText(sent[i])]
  BY <1>1, <1>2, <1>3 DEF Each
<1> QED
  BY <1>4, Zenon DEF All, ReadableAnswer

\* What the callback has, if no error replaced it: the text of the parts it found.  It
\* will find the others in what it holds back and what the wire still carries.
Clean(texts, parts, left, held, text) ==
  /\ parts \in Seq(Bytes) /\ Whole(held) /\ text = All(PartText, parts)
  /\ parts \o AtBlanks(held \o left).parts = Bodies(texts)
  /\ AtBlanks(held \o left).rest = <<>>

LEMMA Middle ==
  ASSUME NEW A, NEW p \in Seq(A), NEW c \in Seq(A), NEW q \in Seq(A)
  PROVE  /\ Len((p \o c) \o q) = (Len(p) + Len(c)) + Len(q)
         /\ \A i \in 1..Len(c) : ((p \o c) \o q)[Len(p) + i] = c[i]
<1>1. PICK k \in Nat, m \in Nat, n \in Nat : k = Len(p) /\ m = Len(c) /\ n = Len(q)
  BY LenProperties
<1>2. PICK s \in Seq(A) : s = p \o c
  BY ConcatProperties
<1>3. /\ Len(s) = k + m
      /\ \A i \in 1..(k + m) : s[i] = IF i <= k THEN p[i] ELSE c[i - k]
  BY <1>1, <1>2, ConcatProperties
<1>4. /\ Len(s \o q) = (k + m) + n
      /\ \A i \in 1..((k + m) + n) : (s \o q)[i] = IF i <= k + m THEN s[i] ELSE q[i - (k + m)]
  <2>1. /\ Len(s \o q) = Len(s) + Len(q)
        /\ \A i \in 1..(Len(s) + Len(q)) :
             (s \o q)[i] = IF i <= Len(s) THEN s[i] ELSE q[i - Len(s)]
    BY ConcatProperties
  <2> QED
    BY <1>1, <1>3, <2>1
<1>5. ASSUME NEW i \in 1..m PROVE (s \o q)[k + i] = c[i]
  <2>1. /\ k + i \in 1..(k + m) /\ k + i \in 1..((k + m) + n)
        /\ k + i <= k + m /\ ~(k + i <= k) /\ (k + i) - k = i
    OBVIOUS
  <2>2. (s \o q)[k + i] = s[k + i]
    BY <1>4, <2>1
  <2>3. s[k + i] = c[i]
    BY <1>3, <2>1
  <2> QED
    BY <2>2, <2>3
<1> QED
  BY <1>1, <1>2, <1>4, <1>5

LEMMA BytesRegroup ==
  ASSUME NEW s \in Bytes, NEW t \in Bytes, NEW u \in Bytes
  PROVE  Cat(s, Cat(t, u)) = Cat(Cat(s, t), u)
BY CatIs DEF Bytes

LEMMA TextsConcat ==
  ASSUME NEW p \in Seq(Bytes), NEW c \in Seq(Bytes)
  PROVE  All(PartText, p \o c) = All(PartText, p) \o All(PartText, c)
BY PartTextMaps, AllConcat

LEMMA CleanStep ==
  ASSUME NEW texts \in Seq(Bytes), Silent(texts),
         NEW parts, NEW raw \in Bytes, NEW left \in Bytes, NEW held \in Bytes, NEW text,
         Clean(texts, parts, raw \o left, held, text),
         NEW cut, cut = AtBlanks(held \o raw)
  PROVE  Clean(texts, parts \o cut.parts, left, cut.rest, text \o TextOf(cut.parts))
<1>1. PICK s \in Bytes : s = held \o raw
  BY BytesConcat
<1>2. cut \in Cut
  BY <1>1, BlanksCut
<1>3. PICK c \in Seq(Bytes), r \in Bytes : c = cut.parts /\ r = cut.rest
  BY <1>2 DEF Cut
<1>4. PICK p \in Seq(Bytes) : p = parts
  BY DEF Clean
<1>5. held \o (raw \o left) = s \o left
  <2>1. Cat(held, Cat(raw, left)) = Cat(Cat(held, raw), left)
    BY BytesRegroup
  <2> QED
    BY <1>1, <2>1, Zenon DEF Cat
<1>6. PICK d \in Cut : d = AtBlanks(r \o left)
  BY BytesConcat, BlanksCut
<1>7. PICK q \in Seq(Bytes) : q = d.parts
  BY DEF Cut
<1>8. AtBlanks(s \o left) = Over(c, d)
  <2>1. AtBlanks(s \o left) = Over(AtBlanks(s).parts, AtBlanks(AtBlanks(s).rest \o left))
    BY BlanksConcat
  <2> QED
    BY <1>1, <1>3, <1>6, <2>1
<1>9. AtBlanks(s \o left).parts = c \o q /\ AtBlanks(s \o left).rest = d.rest
  BY <1>7, <1>8 DEF Over
<1>10. p \o (c \o q) = Bodies(texts) /\ d.rest = <<>>
  <2>1. /\ p \o AtBlanks(s \o left).parts = Bodies(texts)
        /\ AtBlanks(s \o left).rest = <<>>
    BY <1>4, <1>5 DEF Clean
  <2> QED
    BY <1>9, <2>1
<1>11. PICK pc \in Seq(Bytes) : pc = p \o c
  BY ConcatProperties
<1>12. pc \o q = Bodies(texts)
  <2>1. (p \o c) \o q = p \o (c \o q)
    BY ConcatAssociative
  <2> QED
    BY <1>10, <1>11, <2>1
<1>13. NoneDone(c)
  <2>1. PICK k \in Nat, m \in Nat, n \in Nat : k = Len(p) /\ m = Len(c) /\ n = Len(q)
    BY LenProperties
  <2>2. PICK b \in Seq(Bytes) : b = Bodies(texts) /\ Len(b) = Len(texts)
    BY BodiesAre
  <2>3. Len(b) = (k + m) + n /\ \A i \in 1..m : b[k + i] = c[i]
    <3>1. b = (p \o c) \o q
      BY <1>11, <1>12, <2>2
    <3> QED
      BY <2>1, <3>1, Middle
  <2>4. ASSUME NEW i \in 1..m PROVE ~DataOf(c[i]).done
    <3>1. k + i \in 1..((k + m) + n)
      OBVIOUS
    <3> QED
      BY <2>2, <2>3, <3>1 DEF Silent
  <2> QED
    BY <2>1, <2>4 DEF NoneDone
<1>14. TextOf(c) = All(PartText, c)
  BY <1>13, TextOfParts
<1>15. All(PartText, pc) = All(PartText, p) \o All(PartText, c)
  BY <1>11, TextsConcat
<1>16. Whole(r)
  BY <1>1, <1>3, RestWhole
<1>17. text = All(PartText, p)
  BY <1>4 DEF Clean
<1>18. text \o TextOf(c) = All(PartText, pc)
  BY <1>14, <1>15, <1>17
<1>19. Clean(texts, pc, left, r, text \o TextOf(c))
  <2>1. pc \o AtBlanks(r \o left).parts = Bodies(texts)
    BY <1>6, <1>7, <1>12
  <2>2. AtBlanks(r \o left).rest = <<>>
    BY <1>6, <1>10
  <2> QED
    BY <1>16, <1>18, <2>1, <2>2 DEF Clean
<1> QED
  BY <1>3, <1>4, <1>11, <1>19

\* In the end the callback holds nothing back, and has the text.
LEMMA CleanEnd ==
  ASSUME sent \in Seq(Text), ~HasSentinel, NEW parts, NEW held \in Bytes, NEW text,
         Clean(Seen, parts, <<>>, held, text)
  PROVE  text = ReadableAnswer
<1>1. held \o <<>> = held
  BY ConcatEmptySeq DEF Bytes
<1>2. AtBlanks(held) = [parts |-> <<>>, rest |-> held]
  BY DEF Clean, Whole
<1>3. AtBlanks(held).parts = <<>>
  BY <1>2
<1>4. PICK p \in Seq(Bytes) : p = parts
  BY DEF Clean
<1>5. p \o <<>> = p
  BY ConcatEmptySeq
<1>6. p = Bodies(Seen)
  BY <1>1, <1>3, <1>4, <1>5 DEF Clean
<1>7. text = All(PartText, p)
  BY <1>4 DEF Clean
<1> QED
  BY <1>6, <1>7, TextOfEvents

-----------------------------------------------------------------------------
(***************************************************************************)
(* The text arrives.                                                       *)
(***************************************************************************)
Marked == HasError /\ accumulated # <<>> /\ Head(accumulated) = "E"

StreamInv ==
  /\ sent \in Seq(Text) /\ wire \in Bytes /\ partial \in Bytes /\ accumulated \in Bytes
  /\ HasError \/ wire \in Seq(Calm)
  /\ status = "done" => wire = <<>>
  /\ status = "failed" => accumulated = <<"E", "t">>
  /\ \/ status = "failed" \/ HasSentinel \/ Marked
     \/ \E parts : Clean(Seen, parts, wire, partial, accumulated)

LEMMA WireIs ==
  ASSUME sent \in Seq(Text)
  PROVE  /\ FlattenSeq([i \in DOMAIN sent |-> Encode(sent[i])]) = All(EventOf, Seen)
         /\ HasError \/ All(EventOf, Seen) \in Seq(Calm)
<1>1. /\ Seen \in Seq(Bytes) /\ Len(Seen) = Len(sent) /\ Len(sent) \in Nat
      /\ DOMAIN sent = 1..Len(sent) /\ DOMAIN Seen = 1..Len(sent)
  BY SeenIs, LenProperties
<1>2. ASSUME NEW i \in 1..Len(sent)
      PROVE  /\ Encode(sent[i]) = EventOf[Seen[i]]
             /\ HasError \/ Seen[i] \in Seq(Calm)
  <2>1. sent[i] \in Text /\ Seen[i] = Escaped(sent[i])
    BY SeenIs
  <2>2. Encode(sent[i]) = Event(Seen[i]) /\ Seen[i] \in Bytes
    BY <2>1, EscapedIs
  <2>3. ASSUME ~HasError PROVE Seen[i] \in Seq(Calm)
    <3>1. ~Contains(sent[i], "E")
      BY <1>1, <2>3 DEF HasError
    <3> QED
      BY <2>1, <3>1, EscapedIs
  <2> QED
    BY <2>2, <2>3 DEF EventOf
<1>3. [i \in DOMAIN sent |-> Encode(sent[i])] = Each(EventOf, Seen)
  BY <1>1, <1>2 DEF Each
<1>4. ASSUME ~HasError PROVE All(EventOf, Seen) \in Seq(Calm)
  <2>1. Seen \in Seq(Seq(Calm))
    <3> DEFINE C == Seq(Calm)
    <3>1. Seen \in [1..Len(sent) -> C]
      <4>1. Seen \in [1..Len(sent) -> Bytes]
        BY <1>1, LenProperties
      <4> QED
        BY <1>2, <1>4, <4>1
    <3> HIDE DEF C
    <3>2. Seq(C) = UNION {[1..n -> C] : n \in Nat}
      BY SeqDef, Zenon
    <3>3. Seen \in Seq(C)
      BY <1>1, <3>1, <3>2, Zenon
    <3> QED
      BY <3>3 DEF C
  <2>2. Maps(EventOf, Seq(Calm), Seq(Calm))
    <3>1. ASSUME NEW t \in Seq(Calm) PROVE EventOf[t] \in Seq(Calm)
      <4>1. t \in Bytes
        BY SeqMonotonic DEF Calm, Bytes
      <4> QED
        BY <4>1, EventCalm DEF EventOf
    <3> QED
      BY <3>1 DEF Maps
  <2> QED
    BY <2>1, <2>2, AllType
<1> QED
  BY <1>3, <1>4, Zenon DEF All

LEMMA StreamInit == EventInit => StreamInv
<1> SUFFICES ASSUME EventInit PROVE StreamInv
  OBVIOUS
<1>1. sent \in Seq(Text)
  BY AnswersAssumption DEF EventInit
<1>2. wire = All(EventOf, Seen) /\ (HasError \/ wire \in Seq(Calm))
  BY <1>1, WireIs DEF EventInit
<1>3. wire \in Bytes
  <2>1. Maps(EventOf, Bytes, Seq(Symbol))
    BY EventBytes DEF Maps, EventOf, Bytes
  <2>2. All(EventOf, Seen) \in Seq(Symbol)
    BY <1>1, <2>1, SeenIs, AllType
  <2> QED
    BY <1>2, <2>2 DEF Bytes
<1>4. partial = <<>> /\ accumulated = <<>> /\ status = "asked"
  BY DEF EventInit
<1>5. Clean(Seen, <<>>, wire, partial, accumulated)
  <2>1. partial \o wire = wire
    BY <1>3, <1>4, ConcatEmptySeq DEF Bytes
  <2>2. AtBlanks(wire) = [parts |-> Bodies(Seen), rest |-> <<>>]
    BY <1>1, <1>2, SeenIs, EventsCut
  <2>3. AtBlanks(wire).parts = Bodies(Seen) /\ AtBlanks(wire).rest = <<>>
    BY <2>2
  <2>4. <<>> \in Seq(Bytes) /\ <<>> \o Bodies(Seen) = Bodies(Seen)
    BY <1>1, SeenIs, BodiesAre, ConcatEmptySeq
  <2> QED
    BY <1>4, <2>1, <2>3, <2>4, AllEmpty, WholeEmpty DEF Clean
<1> QED
  BY <1>1, <1>2, <1>3, <1>4, <1>5, BytesEmpty DEF StreamInv

\* What the server sent does not change, so neither does what is said of it.
LEMMA SentSame ==
  ASSUME sent' = sent
  PROVE  HasError' = HasError /\ HasSentinel' = HasSentinel /\ Seen' = Seen
BY DEF HasError, HasSentinel, Seen

LEMMA HeadConcat ==
  ASSUME NEW s \in Bytes, NEW t \in Bytes, s # <<>>
  PROVE  s \o t # <<>> /\ Head(s \o t) = Head(s)
<1>1. Len(s) \in Nat /\ Len(s) # 0 /\ Len(t) \in Nat
  BY EmptySeq, LenProperties DEF Bytes
<1>2. PICK u \in Bytes : u = s \o t
  BY BytesConcat
<1>3. Len(u) = Len(s) + Len(t) /\ u[1] = s[1]
  <2>1. /\ Len(u) = Len(s) + Len(t)
        /\ \A i \in 1..(Len(s) + Len(t)) : u[i] = IF i <= Len(s) THEN s[i] ELSE t[i - Len(s)]
    BY <1>2, ConcatProperties DEF Bytes
  <2>2. 1 \in 1..(Len(s) + Len(t)) /\ 1 <= Len(s)
    BY <1>1
  <2> QED
    BY <2>1, <2>2
<1>4. u # <<>>
  BY <1>1, <1>3, EmptySeq
<1> QED
  BY <1>2, <1>3, <1>4 DEF Bytes

LEMMA ChunkStep ==
  ASSUME sent \in Seq(Text), NEW raw \in Bytes, NEW left \in Bytes,
         partial \in Bytes, accumulated \in Bytes, OnChunk(raw),
         HasError \/ raw \in Seq(Calm),
         \/ HasSentinel \/ Marked
         \/ \E parts : Clean(Seen, parts, raw \o left, partial, accumulated)
  PROVE  /\ partial' \in Bytes /\ accumulated' \in Bytes
         /\ \/ HasSentinel
            \/ HasError /\ accumulated' # <<>> /\ Head(accumulated') = "E"
            \/ \E parts : Clean(Seen, parts, left, partial', accumulated')
<1>1. PICK s \in Bytes : s = partial \o raw
  BY BytesConcat
<1>2. PICK cut \in Cut : cut = AtBlanks(s)
  BY BlanksCut
<1>3. PICK c \in Seq(Bytes), r \in Bytes : c = cut.parts /\ r = cut.rest
  BY <1>2 DEF Cut
<1>4. CASE IsError(raw)
  <2>1. accumulated' = raw /\ partial' = partial
    BY <1>4 DEF OnChunk
  <2>2. raw # <<>> /\ Head(raw) = "E"
    BY <1>4 DEF IsError
  <2>3. HasError
    <3>1. ASSUME raw \in Seq(Calm) PROVE FALSE
      <4>1. Head(raw) \in Calm
        BY <2>2, <3>1, HeadTailProperties
      <4> QED
        BY <2>2, <4>1 DEF Calm
    <3> QED
      BY <3>1
  <2> QED
    BY <2>1, <2>2, <2>3
<1>5. CASE ~IsError(raw)
  <2>1. PICK t \in Bytes : t = TextOf(c)
    BY TextType
  <2>2. accumulated' = accumulated \o t /\ partial' = r
    <3>1. Loop(CutAtBlank, Uncut, partial \o raw) = cut
      BY <1>1, <1>2 DEF AtBlanks
    <3> QED
      BY <1>3, <1>5, <2>1, <3>1 DEF OnChunk
  <2>3. accumulated' \in Bytes
    BY <2>2, BytesConcat
  <2>4. CASE HasSentinel
    BY <2>2, <2>3, <2>4
  <2>5. CASE Marked
    <3>1. PICK a \in Bytes : a = accumulated
      OBVIOUS
    <3>2. a # <<>> /\ Head(a) = "E" /\ HasError
      BY <2>5, <3>1 DEF Marked
    <3>3. a \o t # <<>> /\ Head(a \o t) = Head(a)
      BY <3>2, HeadConcat
    <3> QED
      BY <2>2, <2>3, <3>1, <3>2, <3>3
  <2>6. CASE ~HasSentinel /\ \E parts : Clean(Seen, parts, raw \o left, partial, accumulated)
    <3>1. PICK parts : Clean(Seen, parts, raw \o left, partial, accumulated)
      BY <2>6
    <3>2. cut = AtBlanks(partial \o raw)
      BY <1>1, <1>2
    <3>3. Clean(Seen, parts \o cut.parts, left, cut.rest, accumulated \o TextOf(cut.parts))
      BY <2>6, <3>1, <3>2, SeenIs, SeenSilent, CleanStep
    <3>4. Clean(Seen, parts \o c, left, partial', accumulated')
      BY <1>3, <2>1, <2>2, <3>3
    <3> QED
      BY <2>2, <2>3, <3>4
  <2> QED
    BY <2>4, <2>5, <2>6
<1> QED
  BY <1>4, <1>5

LEMMA RespondStep == StreamInv /\ Respond => StreamInv'
<1> SUFFICES ASSUME StreamInv, Respond PROVE StreamInv'
  OBVIOUS
<1>1. HasError' = HasError /\ HasSentinel' = HasSentinel /\ Seen' = Seen
  BY SentSame DEF Respond
<1> QED
  BY <1>1 DEF StreamInv, Respond, Marked

LEMMA EndStep == StreamInv /\ EndOfBody => StreamInv'
<1> SUFFICES ASSUME StreamInv, EndOfBody PROVE StreamInv'
  OBVIOUS
<1>1. HasError' = HasError /\ HasSentinel' = HasSentinel /\ Seen' = Seen
  BY SentSame DEF EndOfBody
<1> QED
  BY <1>1 DEF StreamInv, EndOfBody, Marked

LEMMA FailStep == StreamInv /\ Fail => StreamInv'
<1> SUFFICES ASSUME StreamInv, Fail PROVE StreamInv'
  OBVIOUS
<1>1. HasError' = HasError
  BY SentSame DEF Fail
<1>2. <<"E", "t">> # <<>> /\ Head(<<"E", "t">>) = "E" /\ <<"E", "t">> \in Bytes
  BY DEF Bytes, Symbol
<1>3. accumulated' = <<"E", "t">> /\ partial' = partial
  BY <1>2 DEF Fail, OnChunk, IsError
<1> QED
  BY <1>1, <1>2, <1>3 DEF StreamInv, Fail

LEMMA ReadStep ==
  ASSUME StreamInv, NEW k \in 1..Len(wire), ReadBytes(k)
  PROVE  StreamInv'
<1>1. /\ sent \in Seq(Text) /\ partial \in Bytes /\ accumulated \in Bytes
      /\ sent' = sent /\ status = "open" /\ status' = "open"
  BY DEF StreamInv, ReadBytes
<1>2. PICK w \in Bytes : w = wire
  BY DEF StreamInv
<1>3. PICK n \in Nat : n = Len(w) /\ k \in 1..n
  BY <1>2, LenProperties DEF Bytes
<1> DEFINE raw == SubSeq(w, 1, k)
           left == SubSeq(w, k + 1, n)
<1>4. ASSUME NEW A, w \in Seq(A) PROVE raw \in Seq(A) /\ left \in Seq(A)
  <2>1. \A i \in 1..n : w[i] \in A
    BY <1>3, <1>4, ElementOfSeq
  <2>2. raw \in Seq(A)
    <3>1. \A i \in 1..k : w[i] \in A
      BY <1>3, <2>1
    <3> QED
      BY <3>1, SubSeqProperties
  <2>3. left \in Seq(A)
    <3>1. \A i \in (k + 1)..n : w[i] \in A
      BY <1>3, <2>1
    <3> QED
      BY <1>3, <3>1, SubSeqProperties
  <2> QED
    BY <2>2, <2>3
<1>5. raw \o left = w
  <2>1. SubSeq(w, 1, k) \o SubSeq(w, k + 1, n) = SubSeq(w, 1, n)
    <3>1. /\ 1 \in 1..(n + 1) /\ k \in (1 - 1)..n /\ n \in k..n
      BY <1>3
    <3> QED
      BY <1>3, <3>1, ConcatAdjacentSubSeq DEF Bytes
  <2>2. SubSeq(w, 1, n) = w
    BY <1>3, SubSeqFull DEF Bytes
  <2> QED
    BY <2>1, <2>2
<1>6. OnChunk(raw) /\ wire' = left
  BY <1>2, <1>3 DEF ReadBytes
<1>7. raw \in Bytes /\ left \in Bytes
  BY <1>4 DEF Bytes
<1>8. HasError \/ (raw \in Seq(Calm) /\ left \in Seq(Calm))
  BY <1>2, <1>4 DEF StreamInv
<1> HIDE DEF raw, left
<1>9. \/ HasSentinel \/ Marked
      \/ \E parts : Clean(Seen, parts, raw \o left, partial, accumulated)
  BY <1>1, <1>2, <1>5 DEF StreamInv
<1>10. /\ partial' \in Bytes /\ accumulated' \in Bytes
       /\ \/ HasSentinel
          \/ HasError /\ accumulated' # <<>> /\ Head(accumulated') = "E"
          \/ \E parts : Clean(Seen, parts, left, partial', accumulated')
  BY <1>1, <1>6, <1>7, <1>8, <1>9, ChunkStep
<1>11. HasError' = HasError /\ HasSentinel' = HasSentinel /\ Seen' = Seen
  BY <1>1, SentSame
<1> QED
  BY <1>1, <1>6, <1>7, <1>8, <1>10, <1>11 DEF StreamInv, Marked

LEMMA StreamStep == StreamInv /\ [EventNext]_eventVars => StreamInv'
<1> SUFFICES ASSUME StreamInv, [EventNext]_eventVars PROVE StreamInv'
  OBVIOUS
<1>1. CASE UNCHANGED eventVars
  <2>1. HasError' = HasError /\ HasSentinel' = HasSentinel /\ Seen' = Seen
    BY <1>1, SentSame DEF eventVars
  <2> QED
    BY <1>1, <2>1 DEF StreamInv, Marked, eventVars
<1>2. CASE EventNext
  BY <1>2, RespondStep, EndStep, FailStep, ReadStep DEF EventNext
<1> QED
  BY <1>1, <1>2

LEMMA StreamSafe == StreamInv => ReadableArrives
<1> SUFFICES ASSUME StreamInv PROVE ReadableArrives
  OBVIOUS
<1>1. ASSUME status = "done", ~HasSentinel, ~Marked PROVE accumulated = ReadableAnswer
  <2>1. PICK parts : Clean(Seen, parts, wire, partial, accumulated)
    BY <1>1 DEF StreamInv
  <2>2. wire = <<>> /\ sent \in Seq(Text) /\ partial \in Bytes
    BY <1>1 DEF StreamInv
  <2>3. Clean(Seen, parts, <<>>, partial, accumulated)
    BY <2>1, <2>2
  <2> QED
    BY <1>1, <2>2, <2>3, CleanEnd
<1> QED
  BY <1>1 DEF StreamInv, ReadableArrives, ReadableAnswer, Marked

\* However the bytes are cut and wherever the call fails, for any answers without a line
\* " [DONE]": the window ends up with what is readable of each event, unless an error
\* replaces it.
THEOREM TextArrives == EventSpec => []ReadableArrives
<1>1. EventInit => StreamInv
  BY StreamInit
<1>2. StreamInv /\ [EventNext]_eventVars => StreamInv'
  BY StreamStep
<1>3. StreamInv => ReadableArrives
  BY StreamSafe
<1> QED
  BY <1>1, <1>2, <1>3, PTL DEF EventSpec
=============================================================================
