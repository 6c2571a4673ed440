---------------------------- MODULE MCPublisher ----------------------------
(***************************************************************************)
(* Four messages in each of the modes, and a pool of two: the pool fills,  *)
(* the loop waits, and several places can be given back before it runs.    *)
(***************************************************************************)
EXTENDS Publisher

MCMode == {"serial", "fireforget", "pool"}

=============================================================================
