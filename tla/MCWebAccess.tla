---------------------------- MODULE MCWebAccess ----------------------------
(***************************************************************************)
(* Development processes with two secrets, with an hour for a token or     *)
(* none set, and one in production.                                        *)
(***************************************************************************)
EXTENDS WebAccess

Conf(e, s, h) == [env |-> e, secret |-> s, expire_hours |-> h]

MCConfigs == {Conf("development", "x", 0), Conf("development", "x", 1),
              Conf("production", "y", 1)}
=============================================================================
