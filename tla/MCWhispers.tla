----------------------------- MODULE MCWhispers -----------------------------
(***************************************************************************)
(* Two shards of one client each in one room: each whisper has one peer,   *)
(* on the other shard.  Two failures, so that one client can come back and *)
(* break again, or both be away.                                           *)
(***************************************************************************)
EXTENDS Whispers

=============================================================================
