-------------------------- MODULE MCReconnectingWs --------------------------
(***************************************************************************)
(* Three faults and three messages: a client can lose a connection, fail   *)
(* to get the next one and be terminated by the jitter loop in between.    *)
(***************************************************************************)
EXTENDS ReconnectingWs
=============================================================================
