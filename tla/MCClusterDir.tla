---------------------------- MODULE MCClusterDir ----------------------------
(***************************************************************************)
(* ClusterDir with two components whose start order and lexicographic      *)
(* order differ, as those of etcd and datanode.0 do.                       *)
(***************************************************************************)
EXTENDS ClusterDir, TLC

CONSTANTS c1, c2, d1, d2

MCStartOrder == <<"etcd", "datanode.0">>
MCWalkOrder  == <<"datanode.0", "etcd">>

Interchangeable == Permutations({c1, c2}) \cup Permutations({d1, d2})
=============================================================================
