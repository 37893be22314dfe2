---------------------------- MODULE MCSupervisor ----------------------------
(***************************************************************************)
(* Supervisor with one or two metasrvs and one of the other components,    *)
(* two tries of the etcd health check, and these outputs of etcdctl: a     *)
(* leader, a follower (both with the final newline etcdctl prints), and the*)
(* same without it, which a wrapper installed as etcdctl may print.        *)
(***************************************************************************)
EXTENDS Supervisor

MCOutputs == {<<"leader", "short">>, <<"follower", "short">>,
              <<"follower">>, <<"follower", "leader">>}

\* What etcdctl itself prints for its single default endpoint.
MCEtcdctlOutputs == {<<"leader", "short">>, <<"follower", "short">>}

(***************************************************************************)
(* For liveness: the steps of gtctl's lifetime, and gtctl is not killed.   *)
(* Every liveness property is about what happens up to gtctl's exit, so    *)
(* the children's later steps and the kill, which exits at once, add only  *)
(* states.                                                                 *)
(***************************************************************************)
LifeNext == Alive /\ Next /\ result' # "crashed"

(***************************************************************************)
(* At most one child ends by itself, whichever and however; the others end *)
(* when the cancelled context kills them.  This affords two replicas in a  *)
(* health sweep.                                                           *)
(***************************************************************************)
LiveNext ==
    /\ LifeNext
    /\ \A p \in Procs :
          proc[p] = "running" /\ proc'[p] # "running" =>
              \/ ctx /\ proc'[p] = "killed"
              \/ \A q \in Procs : proc[q] \in {"none", "running"}

LiveSpec == Init /\ [][LiveNext]_vars /\ Fairness
=============================================================================
