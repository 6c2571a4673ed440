---------------------------- MODULE MCAvalanche ----------------------------
(***************************************************************************)
(* Two clients (95% of two are both) and three faults: one client flaps,   *)
(* or both go through the restart and one attempt fails.                   *)
(***************************************************************************)
EXTENDS Avalanche

CONSTANTS c1, c2

MCClient == {c1, c2}

=============================================================================
