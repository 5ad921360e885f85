---------------------------- MODULE MCConnections ----------------------------
(***************************************************************************)
(* A small instance of Connections: calls of requests and of health checks *)
(* that meet in one refresh, and two authorizations.                       *)
(***************************************************************************)
EXTENDS Connections

CONSTANTS r1, h1, h2

\* The second authorization comes without a refresh token.
FirstOnly == {1}
=============================================================================
