-------------------------------- MODULE Auth --------------------------------
(***************************************************************************)
(* Tokens: auth.Handler signs them, middleware.JWTAuth checks them, and    *)
(* nothing stores them, so they end by their date or with the secret they  *)
(* were signed with, which a process reads at its start.                   *)
(*                                                                         *)
(* Of single sign-on there are only stubs: Login redirects to a            *)
(* placeholder, Callback answers the text TODO, and Logout says so and     *)
(* changes nothing.  DevLogin is how one gets a token.                     *)
(***************************************************************************)
EXTENDS Integers

CONSTANTS UserRows,     \* the rows of table users
          Configs,      \* what config.yaml may say when a process starts
          NoToken

VARIABLES config, now   \* the configuration in force; the time, in hours

ConfigType == [env : {"development", "production"}, secret : STRING, expire_hours : Nat]

\* id and issued, when it was signed, are there for the properties.
Token == [sub : UserRows, secret : STRING, exp : Nat, id : Nat, issued : Nat]

ASSUME AuthAssumption == Configs \subseteq ConfigType /\ NoToken \notin Token

\* Wrong lifetime: an expire_hours that is not set is taken as it is.
LifetimeAsSet == config.expire_hours

Lifetime == IF config.expire_hours = 0 THEN 24 ELSE config.expire_hours

SignToken(u, id) == [sub |-> u, secret |-> config.secret, exp |-> now + Lifetime,
                     id |-> id, issued |-> now]

\* The statuses of POST /auth/dev-login; a failing query is a 500.
DevLogin(u) == IF config.env = "production" THEN {404}
               ELSE {500, IF u \in UserRows THEN 200 ELSE 401}

Expired(token) == now >= token.exp

\* Wrong check: any date will do.
JWTAuthIgnoresExp(token) == token # NoToken /\ token.secret = config.secret

\* Whether a request with this token gets past the middleware.
JWTAuth(token) == token # NoToken /\ token.secret = config.secret /\ ~Expired(token)
=============================================================================
