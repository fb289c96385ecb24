---------------------------- MODULE MCReinstall ----------------------------
(***************************************************************************)
(* Instances of Reinstall for TLC.                                         *)
(***************************************************************************)
EXTENDS Reinstall

BothResources == {"identity", "internal"}
AllModes == {"None", "All", "ClusterIdentity"}
IdentityMode == {"ClusterIdentity"}
=============================================================================
