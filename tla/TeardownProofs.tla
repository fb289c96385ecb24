--------------------------- MODULE TeardownProofs ---------------------------
(***************************************************************************)
(* Deletion implements Teardown, for every set of objects, every order of  *)
(* the sync-waves and every number of faults.                              *)
(*                                                                         *)
(* The step that needs an argument is the removal of the finalizer: the    *)
(* abstract Release wants the list of entries empty, and handleFinalizer   *)
(* does not look at the list again after the pass.  So the invariant       *)
(* follows the entries through the pass: a finalizer's pass has the whole  *)
(* list for its targets, every target it handled without waiting and       *)
(* without an error is to leave the list, and a patch that succeeds        *)
(* empties it.                                                             *)
(***************************************************************************)
EXTENDS DeletionProofs

\* The finalizer's pass, and the removal after it, belong to a deleted ClusterInstance.
AskedInv ==
  /\ caller = "finalizer" /\ pc \in {"waves", "delete", "patch", "result"} => deletionTimestamp
  /\ pc = "removeFinalizer" => deletionTimestamp

\* What becomes of the entries in the finalizer's pass.
EntryInv ==
  /\ caller = "finalizer" /\ pc \in {"waves", "delete", "patch"} =>
       targets = Listed(manifests)
  /\ caller = "finalizer" /\ pc \in {"waves", "delete"} /\ errs = {} /\ waveClear =>
       Handled \subseteq removed
  /\ caller = "finalizer" /\ pc = "patch" /\ completed /\ errs = {} =>
       targets \subseteq removed
  /\ caller = "finalizer" /\ pc = "result" /\ completed /\ errs = {} =>
       Listed(manifests) = {}
  /\ pc = "removeFinalizer" => Listed(manifests) = {}

RInv == IInv /\ AskedInv /\ EntryInv

-----------------------------------------------------------------------------
\* A pass starts with every target still to handle, and only the finalizer's pass is
\* started by a ClusterInstance that is being deleted.
LEMMA EntriesAtStart ==
  ASSUME RInv, pc = "idle", NEW who, NEW S \in SUBSET Objects, NEW ex,
         DeleteObjects(who, S, ex),
         who = "finalizer" => deletionTimestamp /\ S = Listed(manifests)
  PROVE  (AskedInv /\ EntryInv)'
<1> USE DEF DeleteObjects, serverVars
<1>1. Handled' = {}
  BY TopWaveIsTop DEF Handled
<1>2. AskedInv'
  BY DEF AskedInv
<1>3. EntryInv'
  BY <1>1 DEF EntryInv, Listed
<1>4. QED
  BY <1>2, <1>3

\* So does one that may find the list empty.
LEMMA EntriesAtRenderedStart ==
  ASSUME RInv, pc = "idle", NEW who, NEW ex, DeleteRenderedObjects(who, ex),
         who = "finalizer" => deletionTimestamp
  PROVE  (AskedInv /\ EntryInv)'
<1>1. Listed(manifests) \in SUBSET Objects
  BY DEF Listed
<1>2. CASE DeleteObjects(who, Listed(manifests), ex)
  BY <1>1, <1>2, EntriesAtStart
<1>3. CASE Listed(manifests) = {} /\ ~DeleteObjects(who, Listed(manifests), ex)
  BY <1>3 DEF DeleteRenderedObjects, AskedInv, EntryInv, Listed, serverVars
<1>4. QED
  BY <1>2, <1>3 DEF DeleteRenderedObjects

\* Every step keeps track of the entries.
LEMMA EntriesStep == RInv /\ [Next]_vars => (AskedInv /\ EntryInv)'
<1> SUFFICES ASSUME RInv, [Next]_vars PROVE (AskedInv /\ EntryInv)'
  OBVIOUS
<1>t. TypeOK /\ MemoryInv /\ WaveInv /\ CurInv /\ FinalizerInv /\ AskedInv /\ EntryInv
  BY DEF RInv, IInv
<1> DEFINE Goal == (AskedInv /\ EntryInv)'
<1>1. ASSUME BeginFinalize PROVE Goal
  BY <1>1, EntriesAtRenderedStart DEF BeginFinalize, Reconciling
<1>2. ASSUME BeginPrune PROVE Goal
  <2>1. PICK S \in PruneSets \ {{}} : DeleteObjects("prune", S, {})
    BY <1>2 DEF BeginPrune
  <2>2. S \in SUBSET Objects
    BY ONLY <2>1, DeletionAssumption
  <2>3. QED
    BY <1>2, <2>1, <2>2, EntriesAtStart DEF BeginPrune, Reconciling
<1>3. ASSUME BeginReinstall PROVE Goal
  BY <1>3, EntriesAtRenderedStart DEF BeginReinstall, Reconciling
<1>4. ASSUME EndWave PROVE Goal
  <2> USE <1>4 DEF EndWave, serverVars
  <2>1. AskedInv'
    BY <1>t DEF AskedInv
  <2>2. CASE pc' # "waves"
    BY <1>t, <2>1, <2>2 DEF EntryInv, Handled, Listed, WaveInv
  <2>3. CASE pc' = "waves"
    <3>1. Handled' = Handled
      BY <1>t, <2>3, TopWaveIsTop DEF Handled, WaveInv, TypeOK
    <3>2. QED
      BY <1>t, <2>1, <2>3, <3>1 DEF EntryInv, Listed
  <2>4. QED
    BY <2>2, <2>3
<1>5. ASSUME InitiateDeletion PROVE Goal
  BY <1>5, <1>t DEF InitiateDeletion, MarkInProgress, AskedInv, EntryInv, Listed, Handled
<1>6. ASSUME PatchManifests PROVE Goal
  <2> USE <1>6 DEF PatchManifests
  <2>1. AskedInv'
    BY <1>t DEF AskedInv
  <2>2. ASSUME caller = "finalizer", completed, errs' = {} PROVE Listed(manifests)' = {}
    <3>1. errs = {} /\ manifests' = FilterOutDeleted(mem, removed)
      BY <2>2
    <3>2. \A o \in Objects : o \in removed \/ mem[o] = "none"
      BY <1>t, <2>2, <3>1 DEF EntryInv, MemoryInv, Listed
    <3>3. QED
      BY <3>1, <3>2 DEF FilterOutDeleted, Listed
  <2>3. QED
    BY <2>1, <2>2 DEF EntryInv
<1>7. ASSUME HandleResult PROVE Goal
  BY <1>7, <1>t DEF HandleResult, ForgetPass, serverVars, AskedInv, EntryInv, Listed
<1>8. ASSUME ApplyPauseAnnotation PROVE Goal
  BY <1>8, <1>t DEF ApplyPauseAnnotation, passVars, AskedInv, EntryInv
<1>9. ASSUME ApplyPauseStatus PROVE Goal
  BY <1>9, <1>t DEF ApplyPauseStatus, passVars, AskedInv, EntryInv
<1>10. ASSUME ClearPausedStatus PROVE Goal
  BY <1>10, <1>t DEF ClearPausedStatus, passVars, AskedInv, EntryInv
<1>11. ASSUME RemoveFinalizer PROVE Goal
  BY <1>11, <1>t DEF RemoveFinalizer, passVars, AskedInv, EntryInv
<1>12. ASSUME Crash PROVE Goal
  BY <1>12, <1>t DEF Crash, ForgetPass, serverVars, AskedInv, EntryInv
<1>13. ASSUME UserDeletes PROVE Goal
  BY <1>13, <1>t DEF UserDeletes, passVars, AskedInv, EntryInv, Handled, Listed
<1>14. ASSUME UserUnpauses PROVE Goal
  BY <1>14, <1>t DEF UserUnpauses, passVars, AskedInv, EntryInv, Handled, Listed
<1>15. ASSUME NEW o \in Objects, SkipObject(o) PROVE Goal
  <2>1. caller = "finalizer" => FALSE
    BY <1>15, <1>t DEF SkipObject, Skipped, FinalizerInv, EntryInv, MemoryInv, WaveInv, Listed
  <2>2. QED
    BY <1>15, <1>t, <2>1 DEF SkipObject, serverVars, AskedInv, EntryInv
<1>16. ASSUME NEW o \in Objects, DropObject(o) PROVE Goal
  BY <1>16, <1>t DEF DropObject, serverVars, AskedInv, EntryInv, Handled, Listed
<1>17. ASSUME NEW o \in Objects, VerifyObject(o) PROVE Goal
  BY <1>17, <1>t DEF VerifyObject, serverVars, AskedInv, EntryInv, Handled, Listed
<1>18. ASSUME NEW o \in Objects, AwaitObject(o) PROVE Goal
  BY <1>18, <1>t DEF AwaitObject, MarkInProgress, serverVars, AskedInv, EntryInv, Handled, Listed
<1>19. ASSUME NEW o \in Objects, TimeOut(o) PROVE Goal
  BY <1>19, <1>t DEF TimeOut, serverVars, AskedInv, EntryInv, Listed
<1>20. ASSUME NEW o \in Objects, ObjectError(o) PROVE Goal
  BY <1>20, <1>t DEF ObjectError, serverVars, AskedInv, EntryInv, Listed
<1>21. ASSUME NEW o \in Objects, ObjectGone(o) \/ DeadlinePasses(o) \/ ExternalDelete(o)
       PROVE  Goal
  BY <1>21, <1>t DEF ObjectGone, DeadlinePasses, ExternalDelete, passVars, AskedInv, EntryInv,
                     Handled, Listed
<1>22. ASSUME UNCHANGED vars PROVE Goal
  BY <1>22, <1>t DEF vars, serverVars, passVars, AskedInv, EntryInv, Handled, Listed
<1>23. QED
  BY <1>1, <1>2, <1>3, <1>4, <1>5, <1>6, <1>7, <1>8, <1>9, <1>10, <1>11, <1>12, <1>13, <1>14,
     <1>15, <1>16, <1>17, <1>18, <1>19, <1>20, <1>21, <1>22
  DEF Next, Operator, ObjectStep, Environment

\* The invariant with the entries holds in every behaviour.
LEMMA EntriesInvariance == Spec => []RInv
<1>1. Init => RInv
  BY InvInit DEF RInv, AskedInv, EntryInv, Init
<1>2. RInv /\ [Next]_vars => RInv'
  BY InvStep, EntriesStep DEF RInv
<1>3. QED
  BY <1>1, <1>2, PTL DEF Spec

-----------------------------------------------------------------------------
\* Initial states map to initial states: what exists is listed.
LEMMA RefinesInit == Init => Promise!Init
  BY DeletionAssumption DEF Init, Promise!Init, Exists, Listed

\* Every step of the handler, of its callers and of the environment is a step of Teardown
\* or leaves its state alone.
LEMMA RefinesStep == RInv /\ [Next]_vars => [Promise!Next]_(Promise!vars)
<1> SUFFICES ASSUME RInv, [Next]_vars PROVE [Promise!Next]_(Promise!vars)
  OBVIOUS
<1>t. TypeOK /\ NoOrphans /\ MemoryInv /\ CurInv /\ FinalizerInv /\ AskedInv /\ EntryInv
  BY DEF RInv, IInv
<1> DEFINE Goal == [Promise!Next]_(Promise!vars)
<1> DEFINE There == {o \in Owned : Exists(o)}
<1>1. CASE UNCHANGED <<obj, manifests, deletionTimestamp, finalizer>>
  BY <1>1 DEF Promise!vars, Exists, Listed
<1>2. ASSUME InitiateDeletion PROVE Goal
  BY <1>2, <1>t DEF InitiateDeletion, TypeOK, Promise!vars, Exists, Listed
<1>3. ASSUME PatchManifests PROVE Goal
  <2>1. UNCHANGED <<There, deletionTimestamp, finalizer>>
    BY <1>3 DEF PatchManifests, Exists
  <2>2. CASE UNCHANGED manifests
    BY <2>1, <2>2 DEF Promise!vars, Listed
  <2>3. CASE manifests' = FilterOutDeleted(mem, removed)
    <3> DEFINE S == removed \cap Listed(manifests)
    <3>1. Listed(manifests)' = Listed(manifests) \ S
      BY <1>3, <1>t, <2>3 DEF PatchManifests, FilterOutDeleted, MemoryInv, Listed
    <3>2. S \subseteq Listed(manifests) \ There
      BY <1>3, <1>t DEF PatchManifests, MemoryInv, Gone, TypeOK
    <3>3. S \in SUBSET Objects
      BY DEF Listed
    <3>4. Promise!Unlist(S)
      BY <2>1, <3>1, <3>2 DEF Promise!Unlist
    <3>5. QED
      BY <3>3, <3>4 DEF Promise!Next
  <2>4. QED
    BY <1>3, <2>2, <2>3 DEF PatchManifests
<1>4. ASSUME RemoveFinalizer PROVE Goal
  <2>1. deletionTimestamp /\ There = {} /\ Listed(manifests) = {}
    BY <1>4, <1>t, DeletionAssumption DEF RemoveFinalizer, AskedInv, EntryInv, FinalizerInv, Gone
  <2>2. UNCHANGED <<There, Listed(manifests), deletionTimestamp>> /\ ~finalizer'
    BY <1>4 DEF RemoveFinalizer, Exists, Listed
  <2>3. Promise!Release
    BY <2>1, <2>2 DEF Promise!Release
  <2>4. QED
    BY <2>3 DEF Promise!Next
<1>5. ASSUME UserDeletes PROVE Goal
  <2>1. UNCHANGED <<There, Listed(manifests), finalizer>> /\ deletionTimestamp'
    BY <1>5 DEF UserDeletes, Exists, Listed
  <2>2. Promise!Ask
    BY <2>1, <1>5, <1>t DEF Promise!Ask, UserDeletes, TypeOK
  <2>3. QED
    BY <2>2 DEF Promise!Next
<1>6. ASSUME NEW o \in Objects, ObjectGone(o) PROVE Goal
  <2>1. UNCHANGED <<Listed(manifests), deletionTimestamp, finalizer>>
    BY <1>6 DEF ObjectGone, Listed
  <2>2. CASE o \in Owned
    <3>1. o \in There /\ There' = There \ {o}
      BY <1>6, <1>t, <2>2, DeletionAssumption DEF ObjectGone, TypeOK, Exists
    <3>2. Promise!Vanish(o)
      BY <2>1, <3>1 DEF Promise!Vanish
    <3>3. QED
      BY <3>2 DEF Promise!Next
  <2>3. CASE o \notin Owned
    <3>1. UNCHANGED There
      BY <1>6, <1>t, <2>3, DeletionAssumption DEF ObjectGone, TypeOK, Exists
    <3>2. QED
      BY <2>1, <3>1 DEF Promise!vars
  <2>4. QED
    BY <2>2, <2>3
<1>7. ASSUME NEW o \in Objects, DeadlinePasses(o) \/ ExternalDelete(o) PROVE Goal
  <2>1. \A p \in Objects : Exists(p)' = Exists(p)
    BY <1>7, <1>t DEF DeadlinePasses, ExternalDelete, TypeOK, Exists
  <2>2. UNCHANGED <<There, Listed(manifests), deletionTimestamp, finalizer>>
    BY <1>7, <2>1, DeletionAssumption DEF DeadlinePasses, ExternalDelete, Listed
  <2>3. QED
    BY <2>2 DEF Promise!vars
<1>8. QED
  BY <1>1, <1>2, <1>3, <1>4, <1>5, <1>6, <1>7
  DEF Next, Operator, Environment, ObjectStep, BeginFinalize, BeginPrune, BeginReinstall,
      DeleteRenderedObjects, DeleteObjects, EndWave, HandleResult,
      ApplyPauseAnnotation, ApplyPauseStatus, ClearPausedStatus, Crash,
      UserUnpauses, SkipObject, DropObject, VerifyObject, AwaitObject, TimeOut,
      ObjectError, serverVars, vars

\* The deletion handler, under its three callers, with failed calls and crashes anywhere,
\* keeps what Teardown promises: objects go and do not come back, an entry outlives its
\* object, and the finalizer is removed only after the user asked for the deletion and
\* neither an object nor an entry is left.
THEOREM TeardownImplemented == Spec => ImplementsTeardown
  BY EntriesInvariance, RefinesInit, RefinesStep, PTL
  DEF Spec, ImplementsTeardown, Promise!Spec
=============================================================================
