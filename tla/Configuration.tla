--------------------------- MODULE Configuration ---------------------------
(***************************************************************************)
(* The configuration of the operator: the ConfigMap an administrator       *)
(* edits, the ConfigurationStore that every reconcile reads, the           *)
(* ConfigurationMonitor that copies the one into the other, and the start  *)
(* of the operator, which fills the store.                                 *)
(*                                                                         *)
(* A value stands for what it parses to; "bad" does not parse.  Module     *)
(* Reimport composes this one with the reconciler that reads the store.    *)
(***************************************************************************)
EXTENDS Integers

CONSTANTS
  Datas,      \* what the administrator may write into the ConfigMap
  MaxWrites   \* bound on how often the administrator writes or deletes it

\* The supported keys, and what each may parse to: the zero value comes first.
Keys == {"allowReinstalls", "maxConcurrentReconciles"}
Values == [allowReinstalls |-> {"false", "true"},
           maxConcurrentReconciles |-> {"0", "1", "2"}]

NoData == [k \in {} |-> "bad"]

\* NewDefaultConfiguration
DefaultData == [allowReinstalls |-> "false", maxConcurrentReconciles |-> "1"]

\* The same, with reinstalls allowed.
ReinstallsAllowed == [DefaultData EXCEPT !.allowReinstalls = "true"]

\* &Configuration{}
ZeroConfiguration == [allowReinstalls |-> "false", maxConcurrentReconciles |-> "0"]

ASSUME ConfigurationAssumption ==
  /\ \A d \in Datas : \A k \in DOMAIN d : k \in Keys => d[k] \in Values[k] \cup {"bad"}
  /\ MaxWrites \in Nat

VARIABLES
  configMap,      \* does the ConfigMap exist?
  data,           \* its content
  store,          \* the ConfigurationStore
  up,             \* is the operator running?
  monitorQueued,  \* does the monitor have a request to handle?
  writes          \* how often the administrator has acted

configVars == <<configMap, data, store, up, monitorQueued, writes>>

ConfigTypeOK ==
  /\ configMap \in BOOLEAN
  /\ data \in Datas \cup {DefaultData, ReinstallsAllowed, NoData}
  /\ \A k \in Keys : store[k] \in Values[k]
  /\ up \in BOOLEAN
  /\ monitorQueued \in BOOLEAN
  /\ writes \in 0..MaxWrites

\* The operator runs with reinstalls allowed.
ConfigInit ==
  /\ configMap = TRUE
  /\ data = ReinstallsAllowed
  /\ store = data
  /\ up = TRUE
  /\ monitorQueued = FALSE
  /\ writes = 0

GetAllowReinstalls == store.allowReinstalls = "true"

GoodKeys(d) == {k \in DOMAIN d \cap Keys : d[k] # "bad"}
WellFormed(d) == GoodKeys(d) = DOMAIN d

\* The settings of the keys in S are replaced, the others stay as they are.
Overlay(settings, d, S) == [k \in Keys |-> IF k \in S THEN d[k] ELSE settings[k]]

-----------------------------------------------------------------------------
\* Fault: a value is stored before it is parsed.
UpdateConfiguration_Unparsed ==
  /\ store' = Overlay(store, data, DOMAIN data \cap Keys)
  /\ monitorQueued' = ~WellFormed(data)

\* UpdateConfiguration takes the keys in the order of a map's iteration and stops at the
\* first one it cannot use: any of the good keys may have been set by then.
UpdateConfiguration ==
  \/ /\ WellFormed(data)
     /\ store' = Overlay(store, data, DOMAIN data)
     /\ monitorQueued' = FALSE
  \/ /\ ~WellFormed(data)
     /\ \E S \in SUBSET GoodKeys(data) : store' = Overlay(store, data, S)
     /\ monitorQueued' = TRUE

\* Fault: a deleted ConfigMap is left alone.
MonitorReconcile_LeaveDeleted ==
  /\ up /\ monitorQueued
  /\ \/ configMap /\ UpdateConfiguration
     \/ ~configMap /\ monitorQueued' = FALSE /\ UNCHANGED store
  /\ UNCHANGED <<configMap, data, up, writes>>

\* Reconcile of the ConfigurationMonitor: a ConfigMap that is missing is created with the
\* defaults, and its creation is an event that brings the monitor back.
MonitorReconcile ==
  /\ up /\ monitorQueued
  /\ \/ /\ configMap
        /\ UpdateConfiguration
        /\ UNCHANGED <<configMap, data>>
     \/ /\ ~configMap
        /\ configMap' = TRUE
        /\ data' = DefaultData
        /\ monitorQueued' = TRUE
        /\ UNCHANGED store
  /\ UNCHANGED <<up, writes>>

\* The process ends; the store is gone with it.
Stop ==
  /\ up
  /\ up' = FALSE
  /\ store' = ZeroConfiguration
  /\ monitorQueued' = FALSE
  /\ UNCHANGED <<configMap, data, writes>>

\* main: createConfigurationStore needs a ConfigMap that is not empty and parses; it
\* creates one that is missing.  The monitor's first list finds it.
StartUp ==
  /\ ~up
  /\ \/ /\ configMap /\ DOMAIN data # {} /\ WellFormed(data)
        /\ store' = Overlay(ZeroConfiguration, data, DOMAIN data)
        /\ UNCHANGED <<configMap, data>>
     \/ /\ ~configMap
        /\ configMap' = TRUE
        /\ data' = DefaultData
        /\ store' = DefaultData
  /\ up' = TRUE
  /\ monitorQueued' = TRUE
  /\ UNCHANGED writes

AdminWrites(d) ==
  /\ writes < MaxWrites
  /\ configMap' = TRUE
  /\ data' = d
  /\ monitorQueued' = up
  /\ writes' = writes + 1
  /\ UNCHANGED <<store, up>>

AdminDeletes ==
  /\ writes < MaxWrites
  /\ configMap
  /\ configMap' = FALSE
  /\ data' = NoData
  /\ monitorQueued' = up
  /\ writes' = writes + 1
  /\ UNCHANGED <<store, up>>

-----------------------------------------------------------------------------
\* The store has the value of every key that the ConfigMap sets.
InSync == configMap /\ \A k \in DOMAIN data \cap Keys : store[k] = data[k]

\* When the administrator leaves a ConfigMap that parses and is not empty, or none, the
\* operator comes to run with exactly its settings: through deletions, partial updates
\* from a malformed ConfigMap in between, and restarts, which a malformed or an empty
\* one prevents.
ConfigurationFollows ==
  <>[](~configMap \/ (DOMAIN data # {} /\ WellFormed(data))) => <>[](up /\ InSync)
=============================================================================
