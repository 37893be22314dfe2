----------------------------- MODULE MCArtifacts -----------------------------
(***************************************************************************)
(* Three clients of one artifact, a package of two chunks and, in it, two  *)
(* executables: enough for a download that is overtaken by a second one    *)
(* while a third reads the file, and for a client that uses what a killed  *)
(* one has left.                                                           *)
(***************************************************************************)
EXTENDS Artifacts, TLC

ClientSymmetry == Permutations(Clients)
=============================================================================
