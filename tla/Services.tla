------------------------------ MODULE Services ------------------------------
(***************************************************************************)
(* Four parts of the server that share no rows and no memory, side by      *)
(* side: each does its own steps, whatever the others do.                  *)
(***************************************************************************)
EXTENDS AuthSessions, OracleService, EscrowMirror, RealtimeSockets

servicesVars == <<authVars, oracleVars, mirrorVars, socketVars>>

Services == AuthSpec /\ OracleSpec /\ MirrorSpec /\ SocketSpec

ServicesTypeOK == AuthTypeOK /\ OracleTypeOK /\ MirrorTypeOK /\ SocketTypeOK
=============================================================================
