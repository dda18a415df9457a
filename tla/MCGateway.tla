------------------------------- MODULE MCGateway -------------------------------
(***************************************************************************)
(* Gateway on a small instance: a deployment, a redeployment of another    *)
(* commit whose volume has no space, and one with the kill switch on.      *)
(***************************************************************************)
EXTENDS Gateway

DeploymentOf(space, commit, kill) ==
    [required |-> TRUE, configured |-> TRUE, token |-> TRUE, mount |-> TRUE, space |-> space,
     override |-> FALSE, commit |-> commit, kill |-> kill]
MCDeployments ==
    {DeploymentOf(TRUE, "c1", FALSE), DeploymentOf(FALSE, "c2", FALSE), DeploymentOf(TRUE, "c2", TRUE)}
=============================================================================
