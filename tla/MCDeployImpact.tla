-------------------------- MODULE MCDeployImpact --------------------------
(***************************************************************************)
(* A client of the first of two nodes, three messages and three instants:  *)
(* one message before an outage, one in it, one after; and one failure, of *)
(* the network, a publish, or a redeploy.                                  *)
(***************************************************************************)
EXTENDS DeployImpact

=============================================================================
