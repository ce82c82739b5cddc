----------------------------- MODULE MCDeployer -----------------------------
(* The patches of the registry, with their confidence. *)
EXTENDS Deployer, Registry

MCConfidence == [p \in Patches |-> GetPatch(p).confidence]
=============================================================================
