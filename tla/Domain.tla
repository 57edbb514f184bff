------------------------------- MODULE Domain -------------------------------
(***************************************************************************)
(* Names shared by the components of the gateway.                          *)
(*                                                                         *)
(* Models are the model ids that requests and table rows mention, routed   *)
(* or not.  SessionIds are the non-empty session_id texts of requests,     *)
(* NoSession the empty one.  NoKey is the empty api_key of a provider      *)
(* section in config.yaml, ApiKeys the non-empty ones.                     *)
(***************************************************************************)
CONSTANTS Models, SessionIds, NoSession, ApiKeys, NoKey

ASSUME DomainAssumption == /\ NoSession \notin SessionIds
                           /\ NoKey \notin ApiKeys

\* The session_id field of a chat request: optional, so possibly empty.
RequestSessions == SessionIds \cup {NoSession}
=============================================================================
