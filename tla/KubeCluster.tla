----------------------------- MODULE KubeCluster -----------------------------
(***************************************************************************)
(* One GreptimeDB cluster on Kubernetes, and the gtctl processes that      *)
(* create, scale and delete it.  They share nothing but the objects at the *)
(* API server: the operator's CRD and Deployment, the Service and the      *)
(* StatefulSet of etcd, and the GreptimeDBCluster resource (the cluster).  *)
(* Controllers make the objects ready, or not ready again.                 *)
(*                                                                         *)
(* The API server is external: server-side apply creates an object or      *)
(* merges into it, and is refused for a field that someone else has set to *)
(* another value (apply is not forced); an update is refused when the      *)
(* object has changed since it was read.  A call that returns an error may *)
(* have been carried out nevertheless: its answer was lost.                *)
(***************************************************************************)
EXTENDS Naturals, Sequences

CONSTANTS
    Creators, Scalers, Deleters,    \* gtctl processes, each runs one command
    Untimed,        \* creators with --timeout of zero or less
    Timed,          \* scalers with --timeout above zero
    Comps,          \* components that can be scaled
    ChartSpec,      \* their replicas in the chart
    Wants,          \* the component each scaler changes, and its replicas
    TearDown        \* deleters that tear down etcd, too

ASSUME KubeAssumption ==
    /\ Untimed \subseteq Creators
    /\ Timed \subseteq Scalers
    /\ ChartSpec \in [Comps -> Nat]
    /\ Wants \in [Scalers -> [comp : Comps, n : Nat]]
    /\ TearDown \subseteq Deleters
    /\ "none" \notin Scalers

Objects == {"crd", "deployment", "service", "statefulset"}

(***************************************************************************)
(* What a create does, chart by chart: apply the manifests one by one,     *)
(* wait for the chart's readiness.  Loading and rendering a chart changes  *)
(* nothing here; when it fails, nothing of the chart has been applied, as  *)
(* when its first manifest fails.                                          *)
(***************************************************************************)
OperatorChart == << <<"apply", "crd">>, <<"apply", "deployment">>, <<"wait", "deployment">> >>
EtcdChart     == << <<"apply", "service">>, <<"apply", "statefulset">>, <<"wait", "statefulset">> >>
ClusterChart  == << <<"apply", "cluster">>, <<"wait", "cluster">> >>

Plan == OperatorChart \o EtcdChart \o ClusterChart

VARIABLES
    objs,       \* the objects there are, without the cluster
    exists,     \* the cluster is there
    spec,       \* its replicas
    scaled,     \* who has set the replicas of a component: a scaler, or none
                \* but the chart
    ready,      \* objects with their readiness condition, the cluster included
    pos,        \* the step of the plan at which each creator is, 0 when not running
    outcome,    \* how each creator ended
    ctxDone,    \* its context is done while it runs: --timeout or a signal
    sat,        \* where each scaler is
    copy,       \* the replicas it has read, until it sends the update
    fresh,      \* the cluster has not changed since it read them
    sctxDone,   \* its context is done while it runs
    dat,        \* where each deleter is
    calm        \* the API server and the controllers have settled

clusterVars == <<exists, spec, scaled, fresh>>
creatorVars == <<pos, outcome, ctxDone>>
scalerVars  == <<sat, copy, sctxDone>>
vars == <<objs, clusterVars, ready, creatorVars, scalerVars, dat, calm>>

Op(c)  == Plan[pos[c]][1]
Arg(c) == Plan[pos[c]][2]
Busy(c) == pos[c] # 0

\* lost: an error like any other, but the update has been made.
ScalerEnds  == {"ok", "error", "lost"}
DeleterEnds == {"ok", "notFound", "error"}

Init ==
    /\ objs = {} /\ ready = {}
    /\ exists = FALSE /\ spec = ChartSpec /\ scaled = [k \in Comps |-> "none"]
    /\ pos = [c \in Creators |-> 0]
    /\ outcome = [c \in Creators |-> "none"]
    /\ ctxDone = [c \in Creators |-> FALSE]
    /\ sat = [s \in Scalers |-> "idle"]
    /\ copy = [s \in Scalers |-> ChartSpec]
    /\ fresh = [s \in Scalers |-> FALSE]
    /\ sctxDone = [s \in Scalers |-> FALSE]
    /\ dat = [d \in Deleters |-> "idle"]
    /\ calm = FALSE

\* A changed cluster outdates every copy of it.
Outdate == fresh' = [s \in Scalers |-> FALSE]

-----------------------------------------------------------------------------
(***************************************************************************)
(* Faulty variants of actions below, each a plausible slip in the code.    *)
(* No specification uses them; they show which property catches the slip.  *)
(***************************************************************************)

\* Apply goes on after an item that failed.
NextOnError(c) ==
    /\ pos' = [pos EXCEPT ![c] = @ + 1]
    /\ UNCHANGED <<outcome, ctxDone>>

\* Apply is forced.
NeverConflicts == FALSE

\* The update is sent without the resource version that was read.
UpdateAlways(s) == exists

\* The wait for the cluster is given no timer.
TimerOfOthers(c) == Plan[pos[c]][2] # "cluster"

\* The wait gives up at the first poll that finds an object not ready.
GivesUp(c) == ~calm \/ ctxDone[c] \/ Plan[pos[c]][2] \notin ready

\* The end of the plan is not noticed.
StepPastEnd(c) ==
    /\ pos' = [pos EXCEPT ![c] = @ + 1]
    /\ UNCHANGED <<outcome, ctxDone>>

-----------------------------------------------------------------------------
(* Creators *)

\* The next step of the plan, or the end of it.
Advance(c) ==
    /\ IF pos[c] = Len(Plan)
       THEN outcome' = [outcome EXCEPT ![c] = "ok"] /\ pos' = [pos EXCEPT ![c] = 0]
       ELSE pos' = [pos EXCEPT ![c] = @ + 1] /\ UNCHANGED outcome
    /\ UNCHANGED ctxDone

Fail(c) ==
    /\ outcome' = [outcome EXCEPT ![c] = "error"]
    /\ ctxDone' = [ctxDone EXCEPT ![c] = FALSE]
    /\ pos' = [pos EXCEPT ![c] = 0]

\* Calls fail now and then, until the API server settles, and after the end
\* of their context.
MayFail(c) == ~calm \/ ctxDone[c]

Begin(c) ==
    /\ pos[c] = 0 /\ outcome[c] = "none"
    /\ pos' = [pos EXCEPT ![c] = 1]
    /\ UNCHANGED <<objs, clusterVars, ready, outcome, ctxDone, scalerVars, dat, calm>>

\* An item that fails ends the create, whatever has been applied before it.
ItemFails(c) == Fail(c)

\* One manifest of the operator or of etcd.
ApplyObject(c) ==
    /\ Busy(c) /\ Op(c) = "apply" /\ Arg(c) # "cluster"
    /\ \/ /\ ~ctxDone[c]
          /\ objs' = objs \cup {Arg(c)}
          /\ Advance(c)
       \/ /\ MayFail(c)
          /\ objs' \in {objs, objs \cup {Arg(c)}}
          /\ ItemFails(c)
    /\ UNCHANGED <<clusterVars, ready, scalerVars, dat, calm>>

\* A scaler has set a replica count that the chart would change back.
Conflict == exists /\ \E k \in Comps : scaled[k] # "none" /\ spec[k] # ChartSpec[k]

\* The manifest of the cluster.
ApplyCluster(c) ==
    /\ Busy(c) /\ Op(c) = "apply" /\ Arg(c) = "cluster"
    /\ \/ /\ ~Conflict
          /\ exists' = TRUE
          /\ spec' = ChartSpec
          /\ scaled' = IF exists THEN scaled ELSE [k \in Comps |-> "none"]
          /\ IF exists /\ spec = ChartSpec THEN UNCHANGED fresh ELSE Outdate
          /\ \/ ~ctxDone[c] /\ Advance(c)
             \/ MayFail(c) /\ Fail(c)
       \/ /\ MayFail(c) \/ Conflict
          /\ Fail(c)
          /\ UNCHANGED clusterVars
    /\ UNCHANGED <<objs, ready, scalerVars, dat, calm>>

\* An error of the lookup ends the waits for the operator and for etcd; the
\* wait for the cluster takes it for "not ready".
PollError(c) == Arg(c) # "cluster" /\ (MayFail(c) \/ Arg(c) \notin objs)

\* One poll.
Poll(c) ==
    /\ Busy(c) /\ Op(c) = "wait"
    /\ \/ ~ctxDone[c] /\ Arg(c) \in ready /\ Advance(c)
       \/ PollError(c) /\ Fail(c)
    /\ UNCHANGED <<objs, clusterVars, ready, scalerVars, dat, calm>>

\* The timer of a wait is armed with the command's whole timeout when the wait
\* begins, so it never fires before the deadline of the context has passed.  A
\* timeout of zero or less arms none.
HasTimer(c) == c \notin Untimed

WaitTimeout(c) ==
    /\ Busy(c) /\ Op(c) = "wait"
    /\ HasTimer(c) /\ ctxDone[c]
    /\ Fail(c)
    /\ UNCHANGED <<objs, clusterVars, ready, scalerVars, dat, calm>>

\* The deadline (for a timeout above zero) or a signal ends the context.
EndCtx(c) ==
    /\ Busy(c) /\ ~ctxDone[c] /\ ~calm
    /\ ctxDone' = [ctxDone EXCEPT ![c] = TRUE]
    /\ UNCHANGED <<objs, clusterVars, ready, pos, outcome, scalerVars, dat, calm>>

-----------------------------------------------------------------------------
(* Scalers *)

ScaleStep(s, stage) == sat' = [sat EXCEPT ![s] = stage]

ScaleGet(s) ==
    /\ sat[s] = "idle" /\ ~calm
    /\ \/ /\ exists
          /\ copy' = [copy EXCEPT ![s] = spec]
          /\ fresh' = [fresh EXCEPT ![s] = TRUE]
          /\ ScaleStep(s, "update")
       \/ ScaleStep(s, "error") /\ UNCHANGED <<copy, fresh>>
    /\ UNCHANGED <<objs, exists, spec, scaled, ready, creatorVars, sctxDone, dat, calm>>

CanUpdate(s) == exists /\ fresh[s]

\* The copy with one component's replicas changed replaces the cluster.
ScaleUpdate(s) ==
    /\ sat[s] = "update"
    /\ \/ /\ CanUpdate(s)
          /\ LET k == Wants[s].comp
             IN  /\ spec' = [copy[s] EXCEPT ![k] = Wants[s].n]
                 /\ scaled' = [scaled EXCEPT ![k] = s]
          /\ fresh' = [t \in Scalers |-> fresh[t] /\ spec' = spec /\ t # s]
          /\ \/ ~sctxDone[s] /\ ScaleStep(s, "wait")
             \/ ScaleStep(s, "lost")
       \/ /\ ScaleStep(s, "error")
          /\ fresh' = [fresh EXCEPT ![s] = FALSE]
          /\ UNCHANGED <<spec, scaled>>
    /\ copy' = [copy EXCEPT ![s] = ChartSpec]
    /\ sctxDone' = [sctxDone EXCEPT ![s] = @ /\ sat'[s] = "wait"]
    /\ UNCHANGED <<objs, exists, ready, creatorVars, dat, calm>>

\* The wait has no timer, and takes every error for "not ready": also that of
\* its own context.
ScalePoll(s) ==
    /\ sat[s] = "wait"
    /\ ~sctxDone[s] /\ "cluster" \in ready
    /\ ScaleStep(s, "ok")
    /\ UNCHANGED <<objs, clusterVars, ready, creatorVars, copy, sctxDone, dat, calm>>

\* The deadline of --timeout.
ScaleDeadline(s) ==
    /\ s \in Timed /\ ~calm
    /\ sat[s] \in {"update", "wait"} /\ ~sctxDone[s]
    /\ sctxDone' = [sctxDone EXCEPT ![s] = TRUE]
    /\ UNCHANGED <<objs, clusterVars, ready, creatorVars, sat, copy, dat, calm>>

-----------------------------------------------------------------------------
(* Deleters *)

DelStep(d, stage) == dat' = [dat EXCEPT ![d] = stage]

\* Whatever the error of the lookup is, it is reported as "not found", without
\* one.
DelGet(d) ==
    /\ dat[d] = "idle" /\ ~calm
    /\ \/ exists /\ DelStep(d, "cluster")
       \/ DelStep(d, "notFound")
    /\ UNCHANGED <<objs, clusterVars, ready, creatorVars, scalerVars, calm>>

DelCluster(d) ==
    /\ dat[d] = "cluster"
    /\ \/ /\ exists
          /\ exists' = FALSE
          /\ ready' = ready \ {"cluster"}
          /\ Outdate
          /\ \/ DelStep(d, IF d \in TearDown THEN "service" ELSE "ok")
             \/ DelStep(d, "error")
       \/ DelStep(d, "error") /\ UNCHANGED <<exists, ready, fresh>>
    /\ UNCHANGED <<objs, spec, scaled, creatorVars, scalerVars, calm>>

\* An object of etcd that is not there is as good as deleted.
DelEtcd(d) ==
    /\ dat[d] \in {"service", "statefulset"}
    /\ \/ /\ objs' = objs \ {dat[d]}
          /\ ready' = ready \ {dat[d]}
          /\ \/ DelStep(d, IF dat[d] = "service" THEN "statefulset" ELSE "ok")
             \/ DelStep(d, "error")
       \/ DelStep(d, "error") /\ UNCHANGED <<objs, ready>>
    /\ UNCHANGED <<clusterVars, creatorVars, scalerVars, calm>>

-----------------------------------------------------------------------------
(* Controllers *)

\* A Deployment or StatefulSet gets ready by itself, the cluster by the
\* operator and with its etcd.
BecomeReady(o) ==
    /\ o \notin ready
    /\ \/ o \in {"deployment", "statefulset"} \cap objs
       \/ o = "cluster" /\ exists /\ {"deployment", "statefulset"} \subseteq ready
    /\ ready' = ready \cup {o}
    /\ IF o = "cluster" THEN Outdate ELSE UNCHANGED fresh
    /\ UNCHANGED <<objs, exists, spec, scaled, creatorVars, scalerVars, dat, calm>>

BecomeUnready(o) ==
    /\ ~calm
    /\ o \in ready
    /\ ready' = ready \ {o}
    /\ IF o = "cluster" THEN Outdate ELSE UNCHANGED fresh
    /\ UNCHANGED <<objs, exists, spec, scaled, creatorVars, scalerVars, dat, calm>>

\* No more failures, deadlines, deletes or scales: what begins from here on
\* meets the leftovers of what was before, and nothing else.
Settle ==
    /\ ~calm
    /\ \A d \in Deleters : dat[d] \in {"idle"} \cup DeleterEnds
    /\ \A s \in Scalers : sat[s] # "update"
    /\ calm' = TRUE
    /\ UNCHANGED <<objs, clusterVars, ready, creatorVars, scalerVars, dat>>

-----------------------------------------------------------------------------
Create(c) ==
    \/ Begin(c) \/ ApplyObject(c) \/ ApplyCluster(c)
    \/ Poll(c) \/ WaitTimeout(c)

Scale(s) == ScaleGet(s) \/ ScaleUpdate(s) \/ ScalePoll(s)

Delete(d) == DelGet(d) \/ DelCluster(d) \/ DelEtcd(d)

Waitable == {"deployment", "statefulset", "cluster"}

Next ==
    \/ \E c \in Creators : Create(c) \/ EndCtx(c)
    \/ \E s \in Scalers : Scale(s) \/ ScaleDeadline(s)
    \/ \E d \in Deleters : Delete(d)
    \/ \E o \in Waitable : BecomeReady(o) \/ BecomeUnready(o)
    \/ Settle

Spec == Init /\ [][Next]_vars

(***************************************************************************)
(* Fairness.  A command that was started goes on: its calls return and its *)
(* polls and timers fire.  Once the cluster has settled, controllers make  *)
(* ready what can be.  Nothing makes a command begin, or the rest settle.  *)
(***************************************************************************)
CreatorFairness ==
    /\ \A c \in Creators : WF_vars(ApplyObject(c) \/ ApplyCluster(c) \/ Poll(c) \/ WaitTimeout(c))
    /\ WF_vars(calm /\ \E o \in Waitable : BecomeReady(o))

ScalerFairness == \A s \in Scalers : WF_vars(ScaleUpdate(s) \/ ScalePoll(s))

CreateSpec == Spec /\ CreatorFairness
FairSpec == CreateSpec /\ ScalerFairness

-----------------------------------------------------------------------------
(* Properties *)

TypeOK ==
    /\ objs \subseteq Objects
    /\ exists \in BOOLEAN
    /\ spec \in [Comps -> Nat]
    /\ scaled \in [Comps -> {"none"} \cup Scalers]
    /\ ready \subseteq Waitable
    /\ pos \in [Creators -> 0 .. Len(Plan)]
    /\ outcome \in [Creators -> {"none", "ok", "error"}]
    /\ ctxDone \in [Creators -> BOOLEAN]
    /\ sat \in [Scalers -> {"idle", "update", "wait"} \cup ScalerEnds]
    /\ copy \in [Scalers -> [Comps -> Nat]]
    /\ fresh \in [Scalers -> BOOLEAN] /\ sctxDone \in [Scalers -> BOOLEAN]
    /\ dat \in [Deleters -> {"idle", "cluster", "service", "statefulset"} \cup DeleterEnds]
    /\ calm \in BOOLEAN

\* Whatever fails in between, a cluster never exists without the CRD and the
\* operator that serve it (Apply: the first error ends the create).
ClusterHasOperator == exists => {"crd", "deployment"} \subseteq objs

\* What the last scale of a component has set stays, whatever other scales and
\* creates do at the same time (UpdateCluster sends the version it has read,
\* Apply does not force).
ScaleKept ==
    exists => \A k \in Comps : scaled[k] # "none" => spec[k] = Wants[scaled[k]].n

\* What a scale has reported: a lost answer is an error like any other.
Told(s) == IF sat[s] = "ok" THEN "ok"
           ELSE IF sat[s] \in {"error", "lost"} THEN "error"
           ELSE "none"

Store == INSTANCE Replicas WITH
    spec <- IF exists THEN spec ELSE ChartSpec,
    took <- {s \in Scalers : sat[s] \in {"wait", "ok", "lost"}},
    told <- [s \in Scalers |-> Told(s)]

\* Every step of the commands and of the controllers is a step of Replicas or
\* none: creates leave the replicas of a cluster that exists alone, and a scale,
\* which reads the cluster and later writes all of it back, takes effect at
\* once, on its component only and at most once, and certainly when it reports
\* success (Scale, UpdateCluster, Apply).
ImplementsReplicas == Store!Spec

\* A create with a timeout ends once its context is done, also in the wait for
\* the cluster, which does not look at it.
DoneCreateEnds ==
    \A c \in Creators \ Untimed : ctxDone[c] ~> outcome[c] # "none"

\* Whatever failed, killed or concurrent commands have left behind, a create
\* that has all before it when things have settled succeeds, unless a scale has
\* changed what the chart says.
CreateHeals ==
    \A c \in Creators :
        (calm /\ pos[c] = 1 /\ ~ctxDone[c]) ~> (outcome[c] = "ok" \/ Conflict)

-----------------------------------------------------------------------------
(* What the code's comments and messages say, and the code does not do *)

\* cluster_scale.go, --timeout: "Timeout in seconds for the command to
\* complete".
ScaleTimeoutEnds ==
    \A s \in Scalers : sctxDone[s] ~> sat[s] \in ScalerEnds

=============================================================================
