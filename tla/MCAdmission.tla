---------------------------- MODULE MCAdmission ----------------------------
(***************************************************************************)
(* Instances of Admission for TLC.                                         *)
(***************************************************************************)
EXTENDS Admission, SequencesExt

Node(h, r, hw, l) == [host |-> h, role |-> r, hardware |-> hw, labels |-> l]

\* A host, and the same with other hardware; a second one in two roles; arbiters.
Host1 == Node("h1", "master", "a", "x")
Host1New == Node("h1", "master", "b", "x")
Worker2 == Node("h2", "worker", "c", "x")
Master2 == Node("h2", "master", "c", "x")
Arbiter(h) == Node(h, "arbiter", "e", "x")

\* With other labels, and without a host name.
MCNodes ==
  {Host1, Host1New, Node("h1", "master", "a", "y"), Worker2, Master2,
   Node("", "worker", "d", "x")}

\* Two masters and an arbiter, in another order, with other hardware, another arbiter.
MCArbiterLists ==
  {<<Host1, Master2, Arbiter("h3")>>, <<Arbiter("h3"), Host1, Master2>>,
   <<Host1New, Master2, Arbiter("h3")>>, <<Host1, Master2, Arbiter("h4")>>}

MCNodeLists == SeqOf(MCNodes, 2) \cup MCArbiterLists

\* A state after an unchecked request is not explored further: little is claimed of it.
NotUnchecked == ~unchecked
=============================================================================
