--------------------------- MODULE MCKubeCluster ---------------------------
(***************************************************************************)
(* KubeCluster for model checking: the chart has one replica of each       *)
(* component; one scaler wants two frontends, another three datanodes.     *)
(***************************************************************************)
EXTENDS KubeCluster

MCChartSpec == [k \in Comps |-> 1]

MCWants == [s \in Scalers |-> IF s = "s1" THEN [comp |-> "frontend", n |-> 2]
                                          ELSE [comp |-> "datanode", n |-> 3]]

=============================================================================
