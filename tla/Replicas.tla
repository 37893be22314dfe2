------------------------------ MODULE Replicas ------------------------------
(***************************************************************************)
(* What the commands on a Kubernetes cluster promise about its replicas: a *)
(* cluster begins with those of the chart, and as long as it is there they *)
(* change only by scales, each of one component, all at once and once.  A  *)
(* scale reports success only when it has taken effect; one that reports   *)
(* an error may have, too.                                                 *)
(***************************************************************************)
CONSTANTS
    Scalers,    \* the scales
    ChartSpec,  \* the replicas of each component in the chart
    Wants       \* the component each scale changes, and its replicas

VARIABLES
    exists,     \* the cluster is there
    spec,       \* its replicas, those of the chart when it is not
    took,       \* scales that have taken effect
    told        \* what each has reported: none yet, ok or error

vars == <<exists, spec, took, told>>

Init ==
    /\ exists = FALSE
    /\ spec = ChartSpec
    /\ took = {}
    /\ told = [s \in Scalers |-> "none"]

Create ==
    /\ ~exists
    /\ exists' = TRUE
    /\ UNCHANGED <<spec, took, told>>

Delete ==
    /\ exists
    /\ exists' = FALSE
    /\ spec' = ChartSpec
    /\ UNCHANGED <<took, told>>

\* A scale takes effect; the answer may get lost.
Scale(s) ==
    /\ exists
    /\ told[s] = "none" /\ s \notin took
    /\ spec' = [spec EXCEPT ![Wants[s].comp] = Wants[s].n]
    /\ took' = took \cup {s}
    /\ told' \in {told, [told EXCEPT ![s] = "error"]}
    /\ UNCHANGED exists

Succeed(s) ==
    /\ told[s] = "none" /\ s \in took
    /\ told' = [told EXCEPT ![s] = "ok"]
    /\ UNCHANGED <<exists, spec, took>>

Refuse(s) ==
    /\ told[s] = "none" /\ s \notin took
    /\ told' = [told EXCEPT ![s] = "error"]
    /\ UNCHANGED <<exists, spec, took>>

Next ==
    \/ Create \/ Delete
    \/ \E s \in Scalers : Scale(s) \/ Succeed(s) \/ Refuse(s)

Spec == Init /\ [][Next]_vars
=============================================================================
