--------------------------- MODULE DeletionProofs ---------------------------
(***************************************************************************)
(* What Deletion's runs check on small instances, proved for every set of  *)
(* objects, every assignment of sync-waves and owners and every number of  *)
(* faults.                                                                 *)
(*                                                                         *)
(* NoOrphans is nearly inductive: a pass may only drop an entry when its   *)
(* object is gone or foreign, and neither can be undone.  What a completed *)
(* pass and the descending waves need is the shape of the pass in memory:  *)
(* the targets it is done with are clear, except those of the current wave *)
(* that it is still waiting for.                                           *)
(***************************************************************************)
EXTENDS Deletion, TLAPS

\* Nothing of the object is left to delete.
Gone(o) == ~Exists(o) \/ o \notin Owned

Clear(o) == o \in exclude \/ Gone(o)

Handled == targets \ (todo \cup pending)

\* The pass's copy of the list has the entries of the list itself, and the entries to
\* be removed are those of objects that are gone.
MemoryInv ==
  pc \in {"waves", "delete", "patch"} =>
    /\ \A o \in Objects : mem[o] = "none" <=> manifests[o] = "none"
    /\ \A o \in removed : Gone(o)

\* The objects still to handle in this wave share it, and lie above those of the waves to
\* come; the targets already handled are clear, or belong to the current wave.
WaveInv ==
  pc \in {"waves", "delete"} =>
    /\ ~completed
    /\ todo \subseteq targets
    /\ pending \subseteq targets
    /\ \A p, q \in todo : Wave[p] = Wave[q]
    /\ \A p \in todo, q \in pending : Wave[q] < Wave[p]
    /\ \A p \in Handled : Clear(p) \/ \A q \in todo : Wave[q] = Wave[p]
    /\ \A p \in Handled : Clear(p) \/ \A q \in pending : Wave[q] < Wave[p]
    /\ errs = {} /\ waveClear => \A p \in Handled : Clear(p)

\* The object whose Delete call is next has passed the checks.
CurInv ==
  pc = "delete" => cur \in todo /\ cur \in Owned /\ cur \notin exclude /\ mem[cur] # "none"

CompletedInv ==
  pc \in {"patch", "result"} /\ completed /\ errs = {} => \A o \in targets : Clear(o)

\* The finalizer's pass has every owned object that exists among its targets.
FinalizerInv ==
  /\ caller = "finalizer" /\ pc \in {"waves", "delete", "patch", "result"} =>
       /\ exclude = {}
       /\ \A o \in Objects : Gone(o) \/ o \in targets
  /\ pc = "removeFinalizer" => \A o \in Objects : Gone(o)
  /\ ~finalizer => \A o \in Objects : Gone(o)

IInv ==
  /\ TypeOK
  /\ NoOrphans
  /\ MemoryInv
  /\ WaveInv
  /\ CurInv
  /\ CompletedInv
  /\ FinalizerInv

-----------------------------------------------------------------------------
(***************************************************************************)
(* Type correctness                                                        *)
(***************************************************************************)

\* The fault counter stays within its bound.
LEMMA FaultType == TypeOK /\ Fault => faults' \in 0..MaxFaults
  BY DeletionAssumption DEF TypeOK, Fault

\* Every action keeps every variable in its type, for any constants the assumption
\* admits: no pass, patch or crash leaves a list without an entry for an object.
LEMMA TypeStep == TypeOK /\ [Next]_vars => TypeOK'
<1> SUFFICES ASSUME TypeOK, [Next]_vars PROVE TypeOK'
  OBVIOUS
<1> USE DeletionAssumption DEF TypeOK, ObjectState, ManifestStatus, Callers
<1>1. CASE BeginFinalize
  BY <1>1 DEF BeginFinalize, Reconciling, DeleteRenderedObjects, DeleteObjects, TopWave, Listed, serverVars
<1>2. CASE BeginPrune
  <2>1. PICK S \in PruneSets \ {{}} : DeleteObjects("prune", S, {})
    BY <1>2 DEF BeginPrune
  <2>2. S \in SUBSET Objects
    BY ONLY <2>1, DeletionAssumption
  <2>3. QED
    BY <2>1, <2>2 DEF DeleteObjects, TopWave, serverVars
<1>3. CASE BeginReinstall
  BY <1>3 DEF BeginReinstall, Reconciling, KeptByReinstall, DeleteRenderedObjects, DeleteObjects, TopWave, Listed, serverVars
<1>4. CASE EndWave
  BY <1>4 DEF EndWave, TopWave, serverVars
<1>5. CASE InitiateDeletion
  BY <1>5 DEF InitiateDeletion, MarkInProgress
<1>6. CASE PatchManifests
  <2>1. manifests' \in [Objects -> ManifestStatus]
    BY <1>6 DEF PatchManifests, FilterOutDeleted
  <2>2. errs' \in SUBSET {"timeout", "other"}
    BY <1>6 DEF PatchManifests
  <2>3. faults' \in 0..MaxFaults
    BY <1>6, FaultType DEF PatchManifests
  <2>4. QED
    BY <1>6, <2>1, <2>2, <2>3 DEF PatchManifests
<1>7. CASE HandleResult
  BY <1>7 DEF HandleResult, ForgetPass, serverVars
<1>8. CASE ApplyPauseAnnotation
  BY <1>8 DEF ApplyPauseAnnotation, passVars
<1>9. CASE ApplyPauseStatus
  BY <1>9 DEF ApplyPauseStatus, passVars
<1>10. CASE ClearPausedStatus
  BY <1>10 DEF ClearPausedStatus, passVars
<1>11. CASE RemoveFinalizer
  BY <1>11 DEF RemoveFinalizer, passVars
<1>12. CASE Crash
  BY <1>12, FaultType DEF Crash, ForgetPass, serverVars
<1>13. CASE UserDeletes
  BY <1>13 DEF UserDeletes, passVars
<1>14. CASE UserUnpauses
  BY <1>14 DEF UserUnpauses, passVars
<1>15. ASSUME NEW o \in Objects, SkipObject(o) PROVE TypeOK'
  BY <1>15 DEF SkipObject, serverVars
<1>16. ASSUME NEW o \in Objects, DropObject(o) PROVE TypeOK'
  BY <1>16 DEF DropObject, serverVars
<1>17. ASSUME NEW o \in Objects, VerifyObject(o) PROVE TypeOK'
  BY <1>17 DEF VerifyObject, serverVars
<1>18. ASSUME NEW o \in Objects, AwaitObject(o) PROVE TypeOK'
  BY <1>18 DEF AwaitObject, MarkInProgress, serverVars
<1>19. ASSUME NEW o \in Objects, TimeOut(o) PROVE TypeOK'
  BY <1>19 DEF TimeOut, serverVars
<1>20. ASSUME NEW o \in Objects, ObjectError(o) PROVE TypeOK'
  BY <1>20, FaultType DEF ObjectError, serverVars
<1>21. ASSUME NEW o \in Objects, ObjectGone(o) PROVE TypeOK'
  BY <1>21 DEF ObjectGone, passVars
<1>22. ASSUME NEW o \in Objects, DeadlinePasses(o) PROVE TypeOK'
  BY <1>22 DEF DeadlinePasses, passVars
<1>23. ASSUME NEW o \in Objects, ExternalDelete(o) PROVE TypeOK'
  BY <1>23 DEF ExternalDelete, passVars
<1>24. CASE UNCHANGED vars
  BY <1>24 DEF vars, serverVars, passVars
<1>25. QED
  BY <1>1, <1>2, <1>3, <1>4, <1>5, <1>6, <1>7, <1>8, <1>9, <1>10, <1>11, <1>12, <1>13, <1>14, <1>15, <1>16, <1>17, <1>18, <1>19, <1>20, <1>21, <1>22, <1>23, <1>24 DEF Next, Operator, ObjectStep, Environment

\* The type invariant holds in every behaviour of the specification.
THEOREM TypeCorrect == Spec => []TypeOK
<1>1. Init => TypeOK
  <2>1. 0 \in 0..MaxFaults
    BY DeletionAssumption
  <2>2. QED
    BY <2>1, DeletionAssumption
    DEF Init, TypeOK, NoPass, ObjectState, ManifestStatus, Callers
<1>2. QED
  BY <1>1, TypeStep, PTL DEF Spec

-----------------------------------------------------------------------------
(***************************************************************************)
(* The inductive invariant                                                 *)
(***************************************************************************)

\* An object that is gone stays gone: nobody creates objects during a teardown.
LEMMA GoneStays == TypeOK /\ [Next]_vars => \A o \in Objects : Gone(o) => Gone(o)'
<1> SUFFICES ASSUME TypeOK, [Next]_vars, NEW o \in Objects, obj[o] = "absent"
             PROVE  obj'[o] = "absent"
  BY DEF Gone, Exists
<1> USE DEF TypeOK
<1>1. CASE UNCHANGED obj
  BY <1>1
<1>2. CASE InitiateDeletion
  BY <1>2 DEF InitiateDeletion
<1>3. ASSUME NEW p \in Objects, ObjectGone(p) \/ DeadlinePasses(p) \/ ExternalDelete(p)
      PROVE  obj'[o] = "absent"
  BY <1>3 DEF ObjectGone, DeadlinePasses, ExternalDelete
<1>4. QED
  BY <1>1, <1>2, <1>3
  DEF Next, Operator, Environment, ObjectStep, BeginFinalize, BeginPrune, BeginReinstall,
      DeleteRenderedObjects, DeleteObjects, EndWave, PatchManifests, HandleResult,
      ApplyPauseAnnotation, ApplyPauseStatus, ClearPausedStatus, RemoveFinalizer, Crash,
      UserDeletes, UserUnpauses, SkipObject, DropObject, VerifyObject, AwaitObject, TimeOut,
      ObjectError, serverVars, vars

\* The highest wave of a set of objects is one wave, and lies above the others.
LEMMA TopWaveIsTop ==
  ASSUME NEW S \in SUBSET Objects
  PROVE  /\ TopWave(S) \subseteq S
         /\ \A p, q \in TopWave(S) : Wave[p] = Wave[q]
         /\ \A p \in TopWave(S), q \in S \ TopWave(S) : Wave[q] < Wave[p]
<1>0. \A p \in S : Wave[p] \in Int
  BY DeletionAssumption
<1>1. TopWave(S) \subseteq S
  BY DEF TopWave
<1>2. \A p, q \in TopWave(S) : Wave[p] = Wave[q]
  <2> TAKE p, q \in TopWave(S)
  <2>1. p \in S /\ q \in S /\ Wave[p] <= Wave[q] /\ Wave[q] <= Wave[p]
    BY DEF TopWave
  <2>2. QED
    BY <2>1, <1>0
<1>3. ASSUME NEW p \in TopWave(S), NEW q \in S \ TopWave(S) PROVE Wave[q] < Wave[p]
  <2>1. PICK r \in S : ~(Wave[r] <= Wave[q])
    BY DEF TopWave
  <2>2. p \in S /\ Wave[r] <= Wave[p]
    BY DEF TopWave
  <2>3. Wave[p] \in Int /\ Wave[q] \in Int /\ Wave[r] \in Int
    BY <2>2, <1>0
  <2>4. QED
    BY <2>1, <2>2, <2>3
<1>4. QED
  BY <1>1, <1>2, <1>3

\* A pass that starts on any set of objects has not handled any of them.
LEMMA StartOfPass ==
  ASSUME TypeOK, NoOrphans, FinalizerInv, pc = "idle",
         NEW who, NEW S \in SUBSET Objects, NEW ex, DeleteObjects(who, S, ex),
         who = "finalizer" => ex = {} /\ S = Listed(manifests)
  PROVE  (NoOrphans /\ MemoryInv /\ WaveInv /\ CurInv /\ CompletedInv /\ FinalizerInv)'
<1> USE DEF DeleteObjects, serverVars
<1>1. (NoOrphans /\ MemoryInv /\ CurInv /\ CompletedInv)'
  BY DEF NoOrphans, MemoryInv, CurInv, CompletedInv, Exists
<1>2. WaveInv'
  <2>1. Handled' = {}
    BY TopWaveIsTop DEF Handled
  <2>2. QED
    BY <2>1, TopWaveIsTop DEF WaveInv
<1>3. FinalizerInv'
  BY DEF FinalizerInv, NoOrphans, Gone, Exists, Listed
<1>4. QED
  BY <1>1, <1>2, <1>3

\* So has one that finds the list empty: then no owned object exists.
LEMMA StartOfRenderedPass ==
  ASSUME TypeOK, NoOrphans, FinalizerInv, pc = "idle",
         NEW who, NEW ex, DeleteRenderedObjects(who, ex), who = "finalizer" => ex = {}
  PROVE  (NoOrphans /\ MemoryInv /\ WaveInv /\ CurInv /\ CompletedInv /\ FinalizerInv)'
<1>1. Listed(manifests) \in SUBSET Objects
  BY DEF Listed
<1>2. CASE DeleteObjects(who, Listed(manifests), ex)
  BY <1>1, <1>2, StartOfPass
<1>3. CASE Listed(manifests) = {} /\ ~DeleteObjects(who, Listed(manifests), ex)
  BY <1>3 DEF DeleteRenderedObjects, NoOrphans, MemoryInv, WaveInv, CurInv, CompletedInv,
              FinalizerInv, Clear, Gone, Exists, Listed, serverVars
<1>4. QED
  BY <1>2, <1>3 DEF DeleteRenderedObjects

\* The rest of the invariant is kept by every action.
LEMMA InvStep == IInv /\ [Next]_vars => IInv'
<1> SUFFICES ASSUME IInv, [Next]_vars PROVE IInv'
  OBVIOUS
<1>t. TypeOK /\ TypeOK'
  BY TypeStep DEF IInv
<1>g. \A o \in Objects : Gone(o) => Gone(o)'
  BY <1>t, GoneStays
<1>p. NoOrphans /\ MemoryInv /\ WaveInv /\ CurInv /\ CompletedInv /\ FinalizerInv
  BY DEF IInv
<1>i. (NoOrphans /\ MemoryInv /\ WaveInv /\ CurInv /\ CompletedInv /\ FinalizerInv)' => IInv'
  BY <1>t DEF IInv
<1> DEFINE Goal == (NoOrphans /\ MemoryInv /\ WaveInv /\ CurInv /\ CompletedInv /\ FinalizerInv)'
<1>1. ASSUME BeginFinalize PROVE Goal
  BY <1>1, <1>t, <1>p, StartOfRenderedPass DEF BeginFinalize, Reconciling
<1>2. ASSUME BeginPrune PROVE Goal
  <2>1. PICK S \in PruneSets \ {{}} : DeleteObjects("prune", S, {})
    BY <1>2 DEF BeginPrune
  <2>2. S \in SUBSET Objects
    BY ONLY <2>1, DeletionAssumption
  <2>3. QED
    BY <1>2, <1>t, <1>p, <2>1, <2>2, StartOfPass DEF BeginPrune, Reconciling
<1>3. ASSUME BeginReinstall PROVE Goal
  BY <1>3, <1>t, <1>p, StartOfRenderedPass DEF BeginReinstall, Reconciling
<1>4. ASSUME EndWave PROVE Goal
  <2> USE <1>4 DEF EndWave, serverVars
  <2>1. (NoOrphans /\ MemoryInv /\ CurInv /\ FinalizerInv)'
    BY <1>t, <1>p DEF NoOrphans, MemoryInv, CurInv, FinalizerInv, Gone, Exists
  <2>2. CompletedInv'
    BY <1>t, <1>p DEF CompletedInv, WaveInv, Handled, Clear, Gone, Exists
  <2>3. CASE pc' # "waves"
    BY <1>p, <2>1, <2>2, <2>3 DEF WaveInv
  <2>4. CASE pc' = "waves"
    <3>1. /\ todo = {} /\ todo' = TopWave(pending) /\ pending' = pending \ TopWave(pending)
          /\ ~completed' /\ errs = {} /\ waveClear
          /\ UNCHANGED <<obj, exclude, targets>>
      BY <1>p, <2>4 DEF WaveInv
    <3>2. \A p \in Handled : Clear(p)
      BY <1>p, <3>1 DEF WaveInv
    <3>3. pending \in SUBSET Objects /\ pending \subseteq targets
      BY <1>t, <1>p DEF TypeOK, WaveInv
    <3>4. Handled' = Handled
      BY <3>1, <3>3, TopWaveIsTop DEF Handled
    <3>5. \A p \in Handled' : Clear(p)'
      BY <3>1, <3>2, <3>4 DEF Clear, Gone, Exists
    <3>6. WaveInv'
      BY <3>1, <3>3, <3>5, TopWaveIsTop DEF WaveInv
    <3>7. QED
      BY <2>1, <2>2, <3>6
  <2>5. QED
    BY <2>3, <2>4
<1>5. ASSUME InitiateDeletion PROVE Goal
  <2> USE <1>5 DEF InitiateDeletion, MarkInProgress
  <2>0. cur \in todo /\ todo \subseteq targets /\ todo' = todo \ {cur}
    BY <1>p DEF CurInv, WaveInv
  <2>1. NoOrphans'
    BY <1>t, <1>p, <2>0 DEF TypeOK, NoOrphans, MemoryInv, Exists
  <2>2. (MemoryInv /\ CurInv /\ CompletedInv)'
    BY <1>t, <1>g, <1>p DEF TypeOK, MemoryInv, CurInv, CompletedInv, WaveInv
  <2>3. FinalizerInv'
    BY <1>t, <1>g, <1>p DEF TypeOK, FinalizerInv
  <2>4. Handled' = Handled \cup {cur}
    <3>1. cur \notin pending
      BY <1>t, <1>p, <2>0, DeletionAssumption DEF TypeOK, WaveInv
    <3>2. QED
      BY <2>0, <3>1 DEF Handled
  <2>5. \A p \in Handled : Clear(p) => Clear(p)'
    BY <1>t, <1>g DEF TypeOK, Handled, Clear
  <2>6. WaveInv'
    BY <1>p, <2>0, <2>4, <2>5 DEF WaveInv
  <2>7. QED
    BY <2>1, <2>2, <2>3, <2>6
<1>6. ASSUME PatchManifests PROVE Goal
  BY <1>6, <1>t, <1>g, <1>p DEF PatchManifests, FilterOutDeleted,
     TypeOK, NoOrphans, MemoryInv, WaveInv, CurInv, CompletedInv, FinalizerInv, Handled, Clear, Gone, Exists
<1>7. ASSUME HandleResult PROVE Goal
  BY <1>7, <1>t, <1>g, <1>p DEF HandleResult, ForgetPass, serverVars,
     TypeOK, NoOrphans, MemoryInv, WaveInv, CurInv, CompletedInv, FinalizerInv, Handled, Clear, Gone, Exists
<1>8. ASSUME ApplyPauseAnnotation PROVE Goal
  BY <1>8, <1>t, <1>g, <1>p DEF ApplyPauseAnnotation, passVars,
     TypeOK, NoOrphans, MemoryInv, WaveInv, CurInv, CompletedInv, FinalizerInv, Handled, Clear, Gone, Exists
<1>9. ASSUME ApplyPauseStatus PROVE Goal
  BY <1>9, <1>t, <1>g, <1>p DEF ApplyPauseStatus, passVars,
     TypeOK, NoOrphans, MemoryInv, WaveInv, CurInv, CompletedInv, FinalizerInv, Handled, Clear, Gone, Exists
<1>10. ASSUME ClearPausedStatus PROVE Goal
  BY <1>10, <1>t, <1>g, <1>p DEF ClearPausedStatus, passVars,
     TypeOK, NoOrphans, MemoryInv, WaveInv, CurInv, CompletedInv, FinalizerInv, Handled, Clear, Gone, Exists
<1>11. ASSUME RemoveFinalizer PROVE Goal
  BY <1>11, <1>t, <1>g, <1>p DEF RemoveFinalizer, passVars,
     TypeOK, NoOrphans, MemoryInv, WaveInv, CurInv, CompletedInv, FinalizerInv, Handled, Clear, Gone, Exists
<1>12. ASSUME Crash PROVE Goal
  BY <1>12, <1>t, <1>g, <1>p DEF Crash, ForgetPass, serverVars,
     TypeOK, NoOrphans, MemoryInv, WaveInv, CurInv, CompletedInv, FinalizerInv, Handled, Clear, Gone, Exists
<1>13. ASSUME UserDeletes PROVE Goal
  BY <1>13, <1>t, <1>g, <1>p DEF UserDeletes, passVars,
     TypeOK, NoOrphans, MemoryInv, WaveInv, CurInv, CompletedInv, FinalizerInv, Handled, Clear, Gone, Exists
<1>14. ASSUME UserUnpauses PROVE Goal
  BY <1>14, <1>t, <1>g, <1>p DEF UserUnpauses, passVars,
     TypeOK, NoOrphans, MemoryInv, WaveInv, CurInv, CompletedInv, FinalizerInv, Handled, Clear, Gone, Exists
<1>15. ASSUME NEW o \in Objects, SkipObject(o) PROVE Goal
  BY <1>15, <1>t, <1>g, <1>p DEF SkipObject, Skipped, serverVars,
     TypeOK, NoOrphans, MemoryInv, WaveInv, CurInv, CompletedInv, FinalizerInv, Handled, Clear, Gone, Exists
<1>16. ASSUME NEW o \in Objects, DropObject(o) PROVE Goal
  BY <1>16, <1>t, <1>g, <1>p DEF DropObject, Skipped, serverVars,
     TypeOK, NoOrphans, MemoryInv, WaveInv, CurInv, CompletedInv, FinalizerInv, Handled, Clear, Gone, Exists
<1>17. ASSUME NEW o \in Objects, VerifyObject(o) PROVE Goal
  BY <1>17, <1>t, <1>g, <1>p DEF VerifyObject, Skipped, serverVars,
     TypeOK, NoOrphans, MemoryInv, WaveInv, CurInv, CompletedInv, FinalizerInv, Handled, Clear, Gone, Exists
<1>18. ASSUME NEW o \in Objects, AwaitObject(o) PROVE Goal
  BY <1>18, <1>t, <1>g, <1>p DEF AwaitObject, Skipped, MarkInProgress, serverVars,
     TypeOK, NoOrphans, MemoryInv, WaveInv, CurInv, CompletedInv, FinalizerInv, Handled, Clear, Gone, Exists
<1>19. ASSUME NEW o \in Objects, TimeOut(o) PROVE Goal
  BY <1>19, <1>t, <1>g, <1>p DEF TimeOut, Skipped, serverVars,
     TypeOK, NoOrphans, MemoryInv, WaveInv, CurInv, CompletedInv, FinalizerInv, Handled, Clear, Gone, Exists
<1>20. ASSUME NEW o \in Objects, ObjectError(o) PROVE Goal
  <2> USE <1>20 DEF ObjectError, serverVars
  <2>0. o \in todo /\ todo' = todo \ {o} /\ errs' # {} /\ UNCHANGED <<obj, exclude>>
    BY <1>p DEF CurInv
  <2>1. (NoOrphans /\ MemoryInv /\ CurInv /\ CompletedInv /\ FinalizerInv)'
    BY <1>t, <1>p, <2>0
    DEF TypeOK, NoOrphans, MemoryInv, WaveInv, CurInv, CompletedInv, FinalizerInv, Skipped,
        Clear, Gone, Exists
  <2>2. Handled' = Handled \cup {o}
    <3>1. o \notin pending /\ o \in targets
      BY <1>t, <1>p, <2>0, DeletionAssumption DEF TypeOK, WaveInv
    <3>2. QED
      BY <2>0, <3>1 DEF Handled
  <2>3. \A p \in Handled : Clear(p) => Clear(p)'
    BY <2>0 DEF Clear, Gone, Exists
  <2>4. WaveInv'
    BY <1>p, <2>0, <2>2, <2>3 DEF WaveInv
  <2>5. QED
    BY <2>1, <2>4
<1>21. ASSUME NEW o \in Objects, ObjectGone(o) PROVE Goal
  BY <1>21, <1>t, <1>g, <1>p DEF ObjectGone, passVars,
     TypeOK, NoOrphans, MemoryInv, WaveInv, CurInv, CompletedInv, FinalizerInv, Handled, Clear, Gone, Exists
<1>22. ASSUME NEW o \in Objects, DeadlinePasses(o) PROVE Goal
  BY <1>22, <1>t, <1>g, <1>p DEF DeadlinePasses, passVars,
     TypeOK, NoOrphans, MemoryInv, WaveInv, CurInv, CompletedInv, FinalizerInv, Handled, Clear, Gone, Exists
<1>23. ASSUME NEW o \in Objects, ExternalDelete(o) PROVE Goal
  BY <1>23, <1>t, <1>g, <1>p DEF ExternalDelete, passVars,
     TypeOK, NoOrphans, MemoryInv, WaveInv, CurInv, CompletedInv, FinalizerInv, Handled, Clear, Gone, Exists
<1>24. ASSUME UNCHANGED vars PROVE Goal
  BY <1>24, <1>t, <1>g, <1>p DEF vars, serverVars, passVars,
     TypeOK, NoOrphans, MemoryInv, WaveInv, CurInv, CompletedInv, FinalizerInv, Handled, Clear, Gone, Exists
<1>25. Goal
  BY <1>1, <1>2, <1>3, <1>4, <1>5, <1>6, <1>7, <1>8, <1>9, <1>10, <1>11, <1>12, <1>13, <1>14, <1>15, <1>16, <1>17, <1>18, <1>19, <1>20, <1>21, <1>22, <1>23, <1>24 DEF Next, Operator, ObjectStep, Environment
<1> QED
  BY <1>25, <1>i

-----------------------------------------------------------------------------
(***************************************************************************)
(* The theorems                                                            *)
(***************************************************************************)

\* A ClusterInstance that nobody has begun to delete satisfies the invariant: its
\* manifests were listed before they were applied.
LEMMA InvInit == Init => IInv
<1> SUFFICES ASSUME Init PROVE IInv
  OBVIOUS
<1>1. TypeOK
  <2>1. 0 \in 0..MaxFaults
    BY DeletionAssumption
  <2>2. QED
    BY <2>1, DeletionAssumption
    DEF Init, TypeOK, NoPass, ObjectState, ManifestStatus, Callers
<1>2. NoOrphans
  BY DEF Init, NoOrphans
<1>3. MemoryInv /\ WaveInv /\ CurInv /\ CompletedInv /\ FinalizerInv
  BY DEF Init, NoPass, MemoryInv, WaveInv, CurInv, CompletedInv, FinalizerInv
<1>4. QED
  BY <1>1, <1>2, <1>3 DEF IInv

\* The inductive invariant holds in every behaviour.
THEOREM Invariance == Spec => []IInv
  BY InvInit, InvStep, PTL DEF Spec

\* Status.ManifestsRendered never loses an owned object that exists, however many patches
\* fail and wherever the operator crashes.
THEOREM NeverOrphans == Spec => []NoOrphans
<1>1. IInv => NoOrphans
  BY DEF IInv
<1>2. QED
  BY <1>1, Invariance, PTL

\* handleFinalizer removes the finalizer only when every owned object is gone.
THEOREM FinalizerLast == Spec => []FinalizerGoesLast
<1>1. IInv => FinalizerGoesLast
  BY DEF IInv, FinalizerInv, FinalizerGoesLast, Gone
<1>2. QED
  BY <1>1, Invariance, PTL

\* DeleteObjects returns true only when what it was asked to delete is gone.
THEOREM CompletionSound == Spec => []CompletionMeansGone
<1>1. IInv => CompletionMeansGone
  BY DEF IInv, TypeOK, CompletedInv, CompletionMeansGone, Clear, Gone
<1>2. QED
  BY <1>1, Invariance, PTL

\* DeleteObjects starts deleting an object only when the higher waves are gone.
THEOREM DescendingWaves == Spec => WavesDescend
<1> DEFINE A == \A o \in Objects : InitiateDeletion /\ o = cur =>
                  \A p \in targets \ exclude :
                    Wave[p] > Wave[o] /\ p \in Owned => obj[p] = "absent"
<1>1. IInv /\ [Next]_vars => [A]_vars
  <2> SUFFICES ASSUME IInv, NEW o \in Objects, InitiateDeletion, o = cur,
                      NEW p \in targets \ exclude, Wave[p] > Wave[o], p \in Owned
               PROVE  obj[p] = "absent"
    OBVIOUS
  <2>1. pc = "delete" /\ cur \in todo
    BY DEF IInv, CurInv, InitiateDeletion
  <2>2. p \in Objects /\ Wave[p] \in Int /\ Wave[o] \in Int
    BY DeletionAssumption DEF IInv, TypeOK
  <2>3. p \in Handled
    <3>1. p \notin todo
      BY <2>1, <2>2 DEF IInv, WaveInv
    <3>2. p \notin pending
      BY <2>1, <2>2 DEF IInv, WaveInv
    <3>3. QED
      BY <3>1, <3>2 DEF Handled
  <2>4. Clear(p)
    BY <2>1, <2>2, <2>3 DEF IInv, WaveInv
  <2>5. QED
    BY <2>4 DEF Clear, Gone, Exists
<1>2. QED
  BY <1>1, Invariance, PTL DEF Spec, WavesDescend

\* The operator deletes neither the objects of another owner nor the excluded ones.
THEOREM ForeignUntouched == Spec => OthersUntouched
<1> DEFINE A == \A o \in Objects :
                  obj'[o] # obj[o] /\ (o \notin Owned \/ (pc # "idle" /\ o \in exclude)) =>
                    ObjectGone(o) \/ DeadlinePasses(o) \/ ExternalDelete(o)
<1>1. IInv /\ [Next]_vars => [A]_vars
  <2> SUFFICES ASSUME IInv, [Next]_vars, NEW o \in Objects, obj'[o] # obj[o],
                      o \notin Owned \/ (pc # "idle" /\ o \in exclude)
               PROVE  ObjectGone(o) \/ DeadlinePasses(o) \/ ExternalDelete(o)
    OBVIOUS
  <2>1. CASE UNCHANGED obj
    BY <2>1
  <2>2. CASE InitiateDeletion
    <3>1. cur \in Owned /\ cur \notin exclude
      BY <2>2 DEF IInv, CurInv, InitiateDeletion
    <3>2. o # cur
      BY <3>1
    <3>3. obj'[o] = obj[o]
      BY <2>2, <3>2 DEF IInv, TypeOK, InitiateDeletion
    <3>4. QED
      BY <3>3
  <2>3. ASSUME NEW p \in Objects, ObjectGone(p) \/ DeadlinePasses(p) \/ ExternalDelete(p)
        PROVE  ObjectGone(o) \/ DeadlinePasses(o) \/ ExternalDelete(o)
    <3>1. p = o
      BY <2>3 DEF IInv, TypeOK, ObjectGone, DeadlinePasses, ExternalDelete
    <3>2. QED
      BY <2>3, <3>1
  <2>4. QED
    BY <2>1, <2>2, <2>3
    DEF Next, Operator, Environment, ObjectStep, BeginFinalize, BeginPrune, BeginReinstall,
        DeleteRenderedObjects, DeleteObjects, EndWave, PatchManifests, HandleResult,
        ApplyPauseAnnotation, ApplyPauseStatus, ClearPausedStatus, RemoveFinalizer, Crash,
        UserDeletes, UserUnpauses, SkipObject, DropObject, VerifyObject, AwaitObject, TimeOut,
        ObjectError, serverVars, vars
<1>2. QED
  BY <1>1, Invariance, PTL DEF Spec, OthersUntouched
=============================================================================
