----------------------------- MODULE MCDeletion -----------------------------
(***************************************************************************)
(* Instances of Deletion for TLC: two owned objects in two waves, with the *)
(* ManagedCluster in the lower one, and an object of another owner.        *)
(***************************************************************************)
EXTENDS Deletion, TLC

CONSTANTS mc, bmh, netpol

WaveOf == (mc :> 1) @@ (bmh :> 2) @@ (netpol :> 2)

\* One set within a wave, one across the waves.
PruneSetsOf == {{bmh, netpol}, {mc, bmh}}
=============================================================================
