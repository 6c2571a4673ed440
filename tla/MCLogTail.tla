----------------------------- MODULE MCLogTail -----------------------------
(***************************************************************************)
(* Four texts over five lines: some behaviours repeat a text, the others   *)
(* do not for four lines.  The ring buffer holds three lines and a poll    *)
(* shows two, so that a tail can miss lines with or without an overflow.   *)
(***************************************************************************)
EXTENDS LogTail

MCText == {"a", "b", "c", "d"}

=============================================================================
