----------------------------- MODULE MCReimport -----------------------------
(***************************************************************************)
(* Instances of Reimport, and of the Configuration it extends, for TLC.    *)
(***************************************************************************)
EXTENDS Reimport

\* Reinstalls on and off, a value that does not parse, a key that is missing, a key that
\* is not supported, an empty ConfigMap.
MCDatas ==
  {[allowReinstalls |-> "true", maxConcurrentReconciles |-> "2"],
   [allowReinstalls |-> "false", maxConcurrentReconciles |-> "2"],
   [allowReinstalls |-> "bad", maxConcurrentReconciles |-> "2"],
   [maxConcurrentReconciles |-> "2"],
   [allowReinstalls |-> "true", unsupported |-> "1"],
   NoData}

MCNoDatas == {}
=============================================================================
