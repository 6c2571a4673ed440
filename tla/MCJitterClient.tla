--------------------------- MODULE MCJitterClient ---------------------------
(***************************************************************************)
(* Each of the three tests with three messages, two jitters and two        *)
(* failures: a resumed session has something to replay, and a fresh socket *)
(* can hang, be given up on, and connect beside the next one.              *)
(***************************************************************************)
EXTENDS JitterClient

=============================================================================
