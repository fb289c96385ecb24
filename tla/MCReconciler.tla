---------------------------- MODULE MCReconciler ----------------------------
(***************************************************************************)
(* Instances of ClusterInstanceReconciler for TLC.  The revisions of the   *)
(* spec swap the roles of two objects: rendered, suppressed, pruned.       *)
(***************************************************************************)
EXTENDS ClusterInstanceReconciler

CONSTANTS cd, bmh

\* Revision 2 drops bmh from the nodes and prunes it; revision 3 brings it back and
\* suppresses cd.
RenderOf == <<{cd, bmh}, {cd}, {bmh}>>
PruneOf == <<{}, {bmh}, {}>>
SuppressOf == <<{}, {}, {cd}>>

RenderTwo == <<{cd, bmh}, {cd}>>
PruneTwo == <<{}, {bmh}>>
SuppressTwo == <<{}, {}>>

\* Edits between reconciles only, the last of them invalid.
Quiet == [otherFinalizer |-> FALSE, restored |-> FALSE, midEdits |-> FALSE,
          invalid |-> {3}, maxFaults |-> 2]
\* Edits at any moment, with and without a finalizer of someone else, and after a restore.
Edited == [otherFinalizer |-> FALSE, restored |-> FALSE, midEdits |-> TRUE,
           invalid |-> {}, maxFaults |-> 0]
Shared == [Edited EXCEPT !.otherFinalizer = TRUE, !.maxFaults = 1]
FromBackup == [Edited EXCEPT !.restored = TRUE, !.maxFaults = 1]

AllScenarios == {Quiet, Shared, FromBackup}
EditedOnly == {Edited}
SharedOnly == {Shared}
=============================================================================
