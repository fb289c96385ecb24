------------------------------ MODULE Teardown ------------------------------
(***************************************************************************)
(* What the teardown of a ClusterInstance promises, whatever passes, waits,*)
(* errors and restarts it takes: the objects go one by one and never come  *)
(* back, an entry leaves Status.ManifestsRendered only when its object is  *)
(* gone, and the ClusterInstance is released only after a user asked for   *)
(* its deletion and nothing is left, neither an object nor an entry.       *)
(* Module Deletion implements it.                                          *)
(***************************************************************************)
CONSTANT Objects

VARIABLES
  there,     \* the objects of the ClusterInstance that exist
  listed,    \* the objects with an entry in the list
  asked,     \* has a user deleted the ClusterInstance?
  released   \* has the operator removed its finalizer?

vars == <<there, listed, asked, released>>

Init ==
  /\ there \in SUBSET Objects
  /\ listed \in SUBSET Objects
  /\ there \subseteq listed
  /\ asked = FALSE
  /\ released = FALSE

Vanish(o) ==
  /\ o \in there
  /\ there' = there \ {o}
  /\ UNCHANGED <<listed, asked, released>>

Unlist(S) ==
  /\ S \subseteq listed \ there
  /\ listed' = listed \ S
  /\ UNCHANGED <<there, asked, released>>

Ask ==
  /\ asked' = TRUE
  /\ UNCHANGED <<there, listed, released>>

Release ==
  /\ asked
  /\ there = {} /\ listed = {}
  /\ released' = TRUE
  /\ UNCHANGED <<there, listed, asked>>

Next ==
  \/ \E o \in Objects : Vanish(o)
  \/ \E S \in SUBSET Objects : Unlist(S)
  \/ Ask
  \/ Release

Spec == Init /\ [][Next]_vars
=============================================================================
