-------------------------- MODULE KubeClusterProofs --------------------------
(***************************************************************************)
(* KubeCluster for any creators, scalers and deleters: proofs.             *)
(***************************************************************************)
EXTENDS KubeCluster, TLAPS

\* A creator that is past the operator's manifests has applied them, and no
\* command ever deletes these.
Installed ==
    \A c \in Creators :
        /\ pos[c] >= 2 => "crd" \in objs
        /\ pos[c] >= 3 => "deployment" \in objs

\* The copy of a cluster that has not changed is the cluster.
CopyIsCurrent == \A s \in Scalers : fresh[s] => copy[s] = spec

\* What no scale has set is as in the chart.
ChartKept == exists => \A k \in Comps : scaled[k] = "none" => spec[k] = ChartSpec[k]

Inv ==
    TypeOK /\ Installed /\ ClusterHasOperator /\ CopyIsCurrent /\ ScaleKept /\ ChartKept

\* The plan, step by step.
LEMMA PlanSteps ==
    /\ Len(Plan) = 8
    /\ Plan[1] = <<"apply", "crd">> /\ Plan[2] = <<"apply", "deployment">>
    /\ Plan[3] = <<"wait", "deployment">>
    /\ Plan[4] = <<"apply", "service">> /\ Plan[5] = <<"apply", "statefulset">>
    /\ Plan[6] = <<"wait", "statefulset">>
    /\ Plan[7] = <<"apply", "cluster">> /\ Plan[8] = <<"wait", "cluster">>
  BY DEF Plan, OperatorChart, EtcdChart, ClusterChart

\* The types, in parts that few actions disturb.
Counts == [Comps -> Nat]
Places == 0 .. Len(Plan)

ObjectTypes  == objs \subseteq Objects /\ exists \in BOOLEAN /\ ready \subseteq Waitable
CountTypes   == spec \in Counts /\ copy \in [Scalers -> Counts]
ScaledTypes  == scaled \in [Comps -> {"none"} \cup Scalers] /\ fresh \in [Scalers -> BOOLEAN]
CreatorTypes == /\ pos \in [Creators -> Places]
                /\ outcome \in [Creators -> {"none", "ok", "error"}]
                /\ ctxDone \in [Creators -> BOOLEAN]
ScalerTypes  == /\ sat \in [Scalers -> {"idle", "update", "wait"} \cup ScalerEnds]
                /\ sctxDone \in [Scalers -> BOOLEAN]
DeleterTypes == /\ dat \in [Deleters -> {"idle", "cluster", "service", "statefulset"} \cup DeleterEnds]
                /\ calm \in BOOLEAN

LEMMA TypeParts ==
    TypeOK <=> /\ ObjectTypes /\ CountTypes /\ ScaledTypes
               /\ CreatorTypes /\ ScalerTypes /\ DeleterTypes
  BY DEF TypeOK, ObjectTypes, CountTypes, ScaledTypes, CreatorTypes, ScalerTypes,
         DeleterTypes, Counts, Places

LEMMA InitInv == Init => Inv
<1> SUFFICES ASSUME Init PROVE Inv
  OBVIOUS
<1>1. ObjectTypes /\ ScaledTypes /\ ScalerTypes /\ DeleterTypes
  BY DEF Init, ObjectTypes, ScaledTypes, ScalerTypes, DeleterTypes
<1>2. CountTypes
  BY KubeAssumption DEF Init, CountTypes, Counts
<1>3. CreatorTypes
  BY PlanSteps DEF Init, CreatorTypes, Places
<1>4. Installed /\ ClusterHasOperator /\ CopyIsCurrent /\ ScaleKept /\ ChartKept
  BY DEF Init, Installed, ClusterHasOperator, CopyIsCurrent, ScaleKept, ChartKept
<1>5. QED
  BY <1>1, <1>2, <1>3, <1>4, TypeParts DEF Inv

-----------------------------------------------------------------------------
(* Types *)

LEMMA ObjectStep ==
    ASSUME ObjectTypes, CreatorTypes, [Next]_vars
    PROVE  ObjectTypes'
<1> USE DEF ObjectTypes, clusterVars, creatorVars, scalerVars
<1>1. ASSUME NEW c \in Creators, ApplyObject(c) PROVE ObjectTypes'
  <2>1. Op(c) = "apply" /\ Arg(c) # "cluster" /\ objs' \in {objs, objs \cup {Arg(c)}}
    BY <1>1 DEF ApplyObject
  <2>2. pos[c] \in 1 .. 8
    BY <1>1, PlanSteps DEF ApplyObject, Busy, CreatorTypes, Places
  <2>3. Arg(c) \in Objects
    BY <2>1, <2>2, PlanSteps DEF Op, Arg, Objects
  <2>4. QED
    BY <1>1, <2>1, <2>3 DEF ApplyObject
<1>2. ASSUME NEW c \in Creators, ApplyCluster(c) PROVE ObjectTypes'
  BY <1>2 DEF ApplyCluster
<1>3. ASSUME NEW d \in Deleters, Delete(d) PROVE ObjectTypes'
  BY <1>3 DEF Delete, DelGet, DelCluster, DelEtcd
<1>4. ASSUME NEW o \in Waitable, BecomeReady(o) \/ BecomeUnready(o) PROVE ObjectTypes'
  BY <1>4 DEF BecomeReady, BecomeUnready
<1>5. CASE UNCHANGED <<objs, exists, ready>>
  BY <1>5
<1>6. QED
  BY <1>1, <1>2, <1>3, <1>4, <1>5
  DEF Next, Create, Scale, Begin, Poll, WaitTimeout, EndCtx, ScaleGet, ScaleUpdate,
      ScalePoll, ScaleDeadline, Settle, vars

LEMMA CountStep ==
    ASSUME CountTypes, [Next]_vars
    PROVE  CountTypes'
<1> USE DEF CountTypes, clusterVars, creatorVars, scalerVars
<1>0. ChartSpec \in Counts
  BY KubeAssumption DEF Counts
<1>1. ASSUME NEW c \in Creators, ApplyCluster(c) PROVE CountTypes'
  BY <1>0, <1>1 DEF ApplyCluster
<1>2. ASSUME NEW s \in Scalers, ScaleGet(s) PROVE CountTypes'
  BY <1>2 DEF ScaleGet
<1>3. ASSUME NEW s \in Scalers, ScaleUpdate(s) PROVE CountTypes'
  <2>1. [copy[s] EXCEPT ![Wants[s].comp] = Wants[s].n] \in Counts
    BY KubeAssumption DEF Counts
  <2>2. QED
    BY <1>0, <1>3, <2>1 DEF ScaleUpdate
<1>4. CASE UNCHANGED <<spec, copy>>
  BY <1>4
<1>5. QED
  BY <1>1, <1>2, <1>3, <1>4
  DEF Next, Create, Scale, Begin, ApplyObject, Poll, WaitTimeout, EndCtx, ScalePoll,
      ScaleDeadline, Delete, DelGet, DelCluster, DelEtcd, BecomeReady, BecomeUnready,
      Settle, vars

LEMMA ScaledStep ==
    ASSUME ScaledTypes, [Next]_vars
    PROVE  ScaledTypes'
<1> USE DEF ScaledTypes, clusterVars, creatorVars, scalerVars, Outdate
<1>1. ASSUME NEW c \in Creators, ApplyCluster(c) PROVE ScaledTypes'
  BY <1>1 DEF ApplyCluster
<1>2. ASSUME NEW s \in Scalers, ScaleGet(s) \/ ScaleUpdate(s) PROVE ScaledTypes'
  BY <1>2 DEF ScaleGet, ScaleUpdate
<1>3. ASSUME NEW d \in Deleters, Delete(d) PROVE ScaledTypes'
  BY <1>3 DEF Delete, DelGet, DelCluster, DelEtcd
<1>4. ASSUME NEW o \in Waitable, BecomeReady(o) \/ BecomeUnready(o) PROVE ScaledTypes'
  BY <1>4 DEF BecomeReady, BecomeUnready
<1>5. CASE UNCHANGED <<scaled, fresh>>
  BY <1>5
<1>6. QED
  BY <1>1, <1>2, <1>3, <1>4, <1>5
  DEF Next, Create, Scale, Begin, ApplyObject, Poll, WaitTimeout, EndCtx, ScalePoll,
      ScaleDeadline, Settle, vars

LEMMA CreatorStep ==
    ASSUME CreatorTypes, [Next]_vars
    PROVE  CreatorTypes'
<1> USE DEF CreatorTypes, creatorVars, scalerVars, clusterVars
<1>0. /\ 0 \in Places /\ 1 \in Places
      /\ \A i \in Places : i # Len(Plan) => i + 1 \in Places
  BY PlanSteps DEF Places
<1>1. ASSUME NEW c \in Creators, Begin(c) PROVE CreatorTypes'
  BY <1>0, <1>1 DEF Begin
<1>2. ASSUME NEW c \in Creators, Advance(c) \/ Fail(c) PROVE CreatorTypes'
  BY <1>0, <1>2 DEF Advance, Fail
<1>3. ASSUME NEW c \in Creators, EndCtx(c) PROVE CreatorTypes'
  BY <1>3 DEF EndCtx
<1>4. CASE UNCHANGED creatorVars
  BY <1>4
<1>5. QED
  BY <1>1, <1>2, <1>3, <1>4
  DEF Next, Create, Scale, ApplyObject, ApplyCluster, ItemFails, Poll, WaitTimeout, ScaleGet,
      ScaleUpdate, ScalePoll, ScaleDeadline, Delete, DelGet, DelCluster, DelEtcd,
      BecomeReady, BecomeUnready, Settle, vars

LEMMA ScalerStep ==
    ASSUME ScalerTypes, [Next]_vars
    PROVE  ScalerTypes'
<1> USE DEF ScalerTypes, ScalerEnds, scalerVars, clusterVars, creatorVars
<1>1. ASSUME NEW s \in Scalers, ScaleGet(s) \/ ScalePoll(s) \/ ScaleDeadline(s)
      PROVE  ScalerTypes'
  BY <1>1 DEF ScaleGet, ScalePoll, ScaleDeadline, ScaleStep
<1>2. ASSUME NEW s \in Scalers, ScaleUpdate(s) PROVE ScalerTypes'
  BY <1>2 DEF ScaleUpdate, ScaleStep
<1>3. CASE UNCHANGED scalerVars
  BY <1>3
<1>4. QED
  BY <1>1, <1>2, <1>3
  DEF Next, Create, Scale, Begin, ApplyObject, ApplyCluster, Poll, WaitTimeout, EndCtx,
      Delete, DelGet, DelCluster, DelEtcd, BecomeReady, BecomeUnready, Settle, vars

LEMMA DeleterStep ==
    ASSUME DeleterTypes, [Next]_vars
    PROVE  DeleterTypes'
<1> USE DEF DeleterTypes, DeleterEnds, scalerVars, clusterVars, creatorVars
<1>1. ASSUME NEW d \in Deleters, Delete(d) PROVE DeleterTypes'
  BY <1>1 DEF Delete, DelGet, DelCluster, DelEtcd, DelStep
<1>2. CASE Settle
  BY <1>2 DEF Settle
<1>3. CASE UNCHANGED <<dat, calm>>
  BY <1>3
<1>4. QED
  BY <1>1, <1>2, <1>3
  DEF Next, Create, Scale, Begin, ApplyObject, ApplyCluster, Poll, WaitTimeout, EndCtx,
      ScaleGet, ScaleUpdate, ScalePoll, ScaleDeadline, BecomeReady, BecomeUnready, vars

LEMMA TypeStep ==
    ASSUME TypeOK, [Next]_vars
    PROVE  TypeOK'
<1>1. /\ ObjectTypes' /\ CountTypes' /\ ScaledTypes'
      /\ CreatorTypes' /\ ScalerTypes' /\ DeleterTypes'
  BY TypeParts, ObjectStep, CountStep, ScaledStep, CreatorStep, ScalerStep, DeleterStep
<1>2. QED
  BY <1>1
  DEF TypeOK, ObjectTypes, CountTypes, ScaledTypes, CreatorTypes, ScalerTypes,
      DeleterTypes, Counts, Places

-----------------------------------------------------------------------------
(* The operator *)

LEMMA OperatorStep ==
    ASSUME Inv, [Next]_vars
    PROVE  Installed' /\ ClusterHasOperator'
<1> DEFINE Goal == Installed' /\ ClusterHasOperator'
<1> USE PlanSteps
        DEF Inv, TypeOK, Installed, ClusterHasOperator, clusterVars, creatorVars,
            scalerVars, Objects
<1>1. ASSUME NEW c \in Creators, Begin(c) PROVE Goal
  BY <1>1 DEF Begin
<1>2. ASSUME NEW c \in Creators, ApplyObject(c) PROVE Goal
  <2>1. CASE ItemFails(c) /\ objs' \in {objs, objs \cup {Arg(c)}}
    BY <1>2, <2>1 DEF ApplyObject, ItemFails, Fail
  <2>2. CASE objs' = objs \cup {Arg(c)} /\ Advance(c)
    <3>1. pos[c] = 1 => Arg(c) = "crd"
      BY DEF Arg
    <3>2. pos[c] = 2 => Arg(c) = "deployment"
      BY DEF Arg
    <3>3. pos' = [pos EXCEPT ![c] = IF @ = Len(Plan) THEN 0 ELSE @ + 1]
      BY <2>2 DEF Advance
    <3>4. \A d \in Creators : d # c => pos'[d] = pos[d]
      BY <3>3
    <3>5. /\ pos[c] \in 0 .. 8
          /\ pos[c] # 8 => pos'[c] = pos[c] + 1
          /\ pos[c] = 8 => pos'[c] = 0
      BY <3>3
    <3>6. Installed'
      BY <2>2, <3>1, <3>2, <3>4, <3>5
    <3>7. ClusterHasOperator'
      BY <1>2, <2>2 DEF ApplyObject
    <3>8. QED
      BY <3>6, <3>7
  <2>3. QED
    BY <1>2, <2>1, <2>2 DEF ApplyObject
<1>3. ASSUME NEW c \in Creators, ApplyCluster(c) PROVE Goal
  BY <1>3 DEF ApplyCluster, Advance, Fail, Busy, Op, Arg
<1>4. ASSUME NEW c \in Creators, Poll(c) \/ WaitTimeout(c) PROVE Goal
  BY <1>4 DEF Poll, WaitTimeout, Advance, Fail, Busy, Op, Arg
<1>5. ASSUME NEW d \in Deleters, Delete(d) PROVE Goal
  BY <1>5 DEF Delete, DelGet, DelCluster, DelEtcd, DelStep
<1>6. CASE UNCHANGED <<objs, exists, pos>>
  BY <1>6
<1>7. QED
  BY <1>1, <1>2, <1>3, <1>4, <1>5, <1>6
  DEF Next, Create, Scale, EndCtx, ScaleGet, ScaleUpdate, ScalePoll, ScaleDeadline,
      BecomeReady, BecomeUnready, Settle, vars

-----------------------------------------------------------------------------
(* The replicas *)

LEMMA ReplicasStep ==
    ASSUME Inv, [Next]_vars
    PROVE  CopyIsCurrent' /\ ScaleKept' /\ ChartKept'
<1> DEFINE Goal == CopyIsCurrent' /\ ScaleKept' /\ ChartKept'
<1> USE KubeAssumption
        DEF Inv, TypeOK, CopyIsCurrent, ScaleKept, ChartKept, clusterVars, creatorVars, scalerVars,
            Outdate
<1>1. ASSUME NEW c \in Creators, ApplyCluster(c) PROVE Goal
  <2>1. CASE UNCHANGED clusterVars
    BY <1>1, <2>1 DEF ApplyCluster
  <2>2. CASE /\ ~Conflict /\ exists' = TRUE /\ spec' = ChartSpec
             /\ scaled' = IF exists THEN scaled ELSE [k \in Comps |-> "none"]
             /\ IF exists /\ spec = ChartSpec THEN UNCHANGED fresh ELSE Outdate
    <3>1. CopyIsCurrent'
      BY <1>1, <2>2 DEF ApplyCluster
    <3>2. ScaleKept'
      BY <2>2 DEF Conflict
    <3>3. ChartKept'
      BY <2>2 DEF Conflict
    <3>4. QED
      BY <3>1, <3>2, <3>3
  <2>3. QED
    BY <1>1, <2>1, <2>2 DEF ApplyCluster
<1>2. ASSUME NEW s \in Scalers, ScaleGet(s) PROVE Goal
  BY <1>2 DEF ScaleGet
<1>3. ASSUME NEW s \in Scalers, ScaleUpdate(s) PROVE Goal
  <2> DEFINE k == Wants[s].comp
  <2>1. CASE /\ CanUpdate(s)
             /\ spec' = [copy[s] EXCEPT ![k] = Wants[s].n]
             /\ scaled' = [scaled EXCEPT ![k] = s]
             /\ fresh' = [t \in Scalers |-> fresh[t] /\ spec' = spec /\ t # s]
    <3>1. copy[s] = spec /\ exists /\ UNCHANGED exists
      BY <1>3, <2>1 DEF CanUpdate, ScaleUpdate
    <3>2. copy' = [copy EXCEPT ![s] = ChartSpec]
      BY <1>3 DEF ScaleUpdate
    <3>3. CopyIsCurrent'
      BY <2>1, <3>2
    <3>4. ScaleKept'
      BY <2>1, <3>1
    <3>5. ChartKept'
      BY <2>1, <3>1
    <3>6. QED
      BY <3>3, <3>4, <3>5
  <2>2. CASE fresh' = [fresh EXCEPT ![s] = FALSE] /\ UNCHANGED <<spec, scaled>>
    BY <1>3, <2>2 DEF ScaleUpdate
  <2>3. QED
    BY <1>3, <2>1, <2>2 DEF ScaleUpdate
<1>4. ASSUME NEW d \in Deleters, Delete(d) PROVE Goal
  BY <1>4 DEF Delete, DelGet, DelCluster, DelEtcd, DelStep
<1>5. ASSUME NEW o \in Waitable, BecomeReady(o) \/ BecomeUnready(o) PROVE Goal
  BY <1>5 DEF BecomeReady, BecomeUnready
<1>6. CASE UNCHANGED <<exists, spec, scaled, fresh, copy>>
  BY <1>6
<1>7. QED
  BY <1>1, <1>2, <1>3, <1>4, <1>5, <1>6
  DEF Next, Create, Scale, Begin, ApplyObject, Poll, WaitTimeout, EndCtx, ScalePoll,
      ScaleDeadline, Settle, vars

-----------------------------------------------------------------------------
(* The theorems *)

\* The inductive invariant.
THEOREM Invariance == Spec => []Inv
<1>1. Init => Inv
  BY InitInv
<1>2. Inv /\ [Next]_vars => Inv'
  BY TypeStep, OperatorStep, ReplicasStep DEF Inv
<1>3. QED
  BY <1>1, <1>2, PTL DEF Spec

\* Every variable keeps its type.
THEOREM Typing == Spec => []TypeOK
<1>1. Inv => TypeOK
  BY DEF Inv
<1>2. QED
  BY <1>1, Invariance, PTL

\* A cluster has its CRD and its operator, whatever failed and whoever deletes.
THEOREM ClustersHaveOperators == Spec => []ClusterHasOperator
<1>1. Inv => ClusterHasOperator
  BY DEF Inv
<1>2. QED
  BY <1>1, Invariance, PTL

\* Concurrent scales and creates do not undo what a scale has set.
THEOREM ScalesAreKept == Spec => []ScaleKept
<1>1. Inv => ScaleKept
  BY DEF Inv
<1>2. QED
  BY <1>1, Invariance, PTL

-----------------------------------------------------------------------------
(* The refinement *)

\* What Replicas sees.
Shown == IF exists THEN spec ELSE ChartSpec
Took  == {s \in Scalers : sat[s] \in {"wait", "ok", "lost"}}
Tolds == [s \in Scalers |-> Told(s)]

LEMMA StoreStutters ==
    ASSUME UNCHANGED exists, exists => UNCHANGED spec, UNCHANGED sat
    PROVE  UNCHANGED Store!vars
<1>1. UNCHANGED Shown
  BY DEF Shown
<1>2. UNCHANGED Took /\ UNCHANGED Tolds
  BY DEF Took, Tolds, Told
<1>3. QED
  BY <1>1, <1>2 DEF Store!vars, Shown, Took, Tolds

\* A scaler's step, seen from the others.
LEMMA OthersTold ==
    ASSUME NEW s \in Scalers, NEW stage, sat' = [sat EXCEPT ![s] = stage],
           sat \in [Scalers -> {"idle", "update", "wait"} \cup ScalerEnds]
    PROVE  /\ \A r : Told(s)' = r => Tolds' = [Tolds EXCEPT ![s] = r]
           /\ Told(s)' = Told(s) => UNCHANGED Tolds
           /\ stage \in {"wait", "ok", "lost"} => Took' = Took \cup {s}
           /\ stage \notin {"wait", "ok", "lost"} /\ s \notin Took => UNCHANGED Took
<1>1. sat'[s] = stage /\ \A t \in Scalers : t # s => sat'[t] = sat[t]
  OBVIOUS
<1>2. \A t \in Scalers : t # s => Told(t)' = Told(t)
  BY <1>1 DEF Told
<1>3. ASSUME NEW r, Told(s)' = r PROVE Tolds' = [Tolds EXCEPT ![s] = r]
  BY <1>2, <1>3 DEF Tolds
<1>4. ASSUME Told(s)' = Told(s) PROVE UNCHANGED Tolds
  BY <1>2, <1>4 DEF Tolds
<1>5. /\ stage \in {"wait", "ok", "lost"} => Took' = Took \cup {s}
      /\ stage \notin {"wait", "ok", "lost"} /\ s \notin Took => UNCHANGED Took
  BY <1>1 DEF Took
<1>6. QED
  BY <1>3, <1>4, <1>5

\* A create of a cluster that exists changes none of its replicas.
LEMMA CreateLeavesReplicas ==
    ASSUME Inv, exists, ~Conflict
    PROVE  spec = ChartSpec
<1>1. \A k \in Comps : spec[k] = ChartSpec[k]
  BY DEF Inv, ChartKept, Conflict, ScaleKept
<1>2. spec \in [Comps -> Nat] /\ ChartSpec \in [Comps -> Nat]
  BY KubeAssumption DEF Inv, TypeOK
<1>3. QED
  BY <1>1, <1>2

LEMMA ScalerStores ==
    ASSUME Inv, NEW s \in Scalers, Scale(s)
    PROVE  Store!Next \/ UNCHANGED Store!vars
<1>0. sat \in [Scalers -> {"idle", "update", "wait"} \cup ScalerEnds]
  BY DEF Inv, TypeOK
<1>1. CASE ScaleGet(s)
  <2>1. UNCHANGED exists /\ UNCHANGED Shown
    BY <1>1 DEF ScaleGet, Shown
  <2>2. CASE sat' = [sat EXCEPT ![s] = "update"]
    <3>1. Told(s)' = Told(s) /\ s \notin Took
      BY <1>0, <1>1, <2>2 DEF ScaleGet, Told, Took
    <3>2. UNCHANGED Tolds
      BY <1>0, <2>2, <3>1, OthersTold
    <3>3. UNCHANGED Took
      <4>1. "update" \notin {"wait", "ok", "lost"}
        OBVIOUS
      <4>2. QED
        BY <1>0, <2>2, <3>1, <4>1, OthersTold
    <3>4. QED
      BY <2>1, <3>2, <3>3 DEF Store!vars, Shown, Took, Tolds
  <2>3. CASE sat' = [sat EXCEPT ![s] = "error"]
    <3>1. Told(s) = "none" /\ Told(s)' = "error" /\ s \notin Took
      BY <1>0, <1>1, <2>3 DEF ScaleGet, Told, Took
    <3>2. Tolds' = [Tolds EXCEPT ![s] = "error"] /\ UNCHANGED Took
      BY <1>0, <2>3, <3>1, OthersTold
    <3>3. Tolds[s] = "none"
      BY <3>1 DEF Tolds
    <3>4. Store!Refuse(s)
      BY <2>1, <3>1, <3>2, <3>3 DEF Store!Refuse, Shown, Took, Tolds
    <3>5. QED
      BY <3>4 DEF Store!Next
  <2>4. QED
    BY <1>1, <2>2, <2>3 DEF ScaleGet, ScaleStep
<1>2. CASE ScaleUpdate(s)
  <2>0. UNCHANGED exists /\ Told(s) = "none" /\ Tolds[s] = "none" /\ s \notin Took
    BY <1>0, <1>2 DEF ScaleUpdate, Told, Tolds, Took
  <2>1. ASSUME CanUpdate(s), spec' = [copy[s] EXCEPT ![Wants[s].comp] = Wants[s].n],
               NEW stage \in {"wait", "lost"}, ScaleStep(s, stage)
        PROVE  Store!Scale(s)
    <3>1. exists /\ copy[s] = spec
      BY <2>1 DEF CanUpdate, Inv, CopyIsCurrent
    <3>2. Shown' = [Shown EXCEPT ![Wants[s].comp] = Wants[s].n]
      BY <2>0, <2>1, <3>1 DEF Shown
    <3>3. Took' = Took \cup {s}
      BY <1>0, <2>1, OthersTold DEF ScaleStep
    <3>4. Told(s)' = IF stage = "wait" THEN "none" ELSE "error"
      BY <1>0, <2>1 DEF ScaleStep, Told
    <3>5. Tolds' \in {Tolds, [Tolds EXCEPT ![s] = "error"]}
      <4>1. CASE stage = "wait"
        BY <1>0, <2>0, <2>1, <3>4, <4>1, OthersTold DEF ScaleStep
      <4>2. CASE stage = "lost"
        BY <1>0, <2>1, <3>4, <4>2, OthersTold DEF ScaleStep
      <4>3. QED
        BY <4>1, <4>2
    <3>6. QED
      BY <2>0, <3>1, <3>2, <3>3, <3>5 DEF Store!Scale, Shown, Took, Tolds
  <2>2. ASSUME ScaleStep(s, "error"), UNCHANGED spec PROVE Store!Refuse(s)
    <3>1. Told(s)' = "error"
      BY <1>0, <2>2 DEF ScaleStep, Told
    <3>2. Tolds' = [Tolds EXCEPT ![s] = "error"] /\ UNCHANGED Took
      BY <1>0, <2>0, <2>2, <3>1, OthersTold DEF ScaleStep
    <3>3. UNCHANGED Shown
      BY <2>0, <2>2 DEF Shown
    <3>4. QED
      BY <2>0, <3>2, <3>3 DEF Store!Refuse, Shown, Took, Tolds
  <2>3. \/ /\ CanUpdate(s) /\ spec' = [copy[s] EXCEPT ![Wants[s].comp] = Wants[s].n]
           /\ \E stage \in {"wait", "lost"} : ScaleStep(s, stage)
        \/ ScaleStep(s, "error") /\ UNCHANGED spec
    BY <1>2 DEF ScaleUpdate
  <2>4. QED
    BY <2>1, <2>2, <2>3 DEF Store!Next
<1>3. CASE ScalePoll(s)
  <2>1. UNCHANGED exists /\ UNCHANGED Shown
    BY <1>3 DEF ScalePoll, Shown, clusterVars
  <2>2. /\ sat[s] = "wait" /\ sat' = [sat EXCEPT ![s] = "ok"]
        /\ Told(s) = "none" /\ s \in Took /\ Told(s)' = "ok"
    BY <1>0, <1>3 DEF ScalePoll, ScaleStep, Told, Took
  <2>3. Tolds' = [Tolds EXCEPT ![s] = "ok"] /\ UNCHANGED Took
    <3>1. Tolds' = [Tolds EXCEPT ![s] = "ok"] /\ Took' = Took \cup {s}
      BY <1>0, <2>2, OthersTold
    <3>2. QED
      BY <2>2, <3>1
  <2>4. Tolds[s] = "none"
    BY <2>2 DEF Tolds
  <2>5. Store!Succeed(s)
    BY <2>1, <2>2, <2>3, <2>4 DEF Store!Succeed, Shown, Took, Tolds
  <2>6. QED
    BY <2>5 DEF Store!Next
<1>4. QED
  BY <1>1, <1>2, <1>3 DEF Scale

LEMMA StoreStep ==
    ASSUME Inv, [Next]_vars
    PROVE  Store!Next \/ UNCHANGED Store!vars
<1> USE DEF clusterVars, creatorVars, scalerVars
<1>1. ASSUME NEW c \in Creators, ApplyCluster(c) PROVE Store!Next \/ UNCHANGED Store!vars
  <2>1. CASE UNCHANGED clusterVars
    BY <1>1, <2>1, StoreStutters DEF ApplyCluster
  <2>2. CASE ~Conflict /\ exists' = TRUE /\ spec' = ChartSpec
    <3>1. UNCHANGED sat
      BY <1>1 DEF ApplyCluster
    <3>2. CASE exists
      BY <2>2, <3>1, <3>2, CreateLeavesReplicas, StoreStutters DEF Inv, TypeOK
    <3>3. CASE ~exists
      <4>1. UNCHANGED Shown /\ UNCHANGED Took /\ UNCHANGED Tolds
        BY <2>2, <3>1, <3>3 DEF Shown, Took, Tolds, Told
      <4>2. Store!Create
        BY <2>2, <3>3, <4>1 DEF Store!Create, Shown, Took, Tolds
      <4>3. QED
        BY <4>2 DEF Store!Next
    <3>4. QED
      BY <3>2, <3>3
  <2>3. QED
    BY <1>1, <2>1, <2>2 DEF ApplyCluster
<1>2. ASSUME NEW s \in Scalers, Scale(s) PROVE Store!Next \/ UNCHANGED Store!vars
  BY <1>2, ScalerStores
<1>3. ASSUME NEW d \in Deleters, DelCluster(d) PROVE Store!Next \/ UNCHANGED Store!vars
  <2>1. UNCHANGED sat /\ UNCHANGED spec
    BY <1>3 DEF DelCluster
  <2>2. CASE UNCHANGED exists
    BY <2>1, <2>2, StoreStutters
  <2>3. CASE exists /\ exists' = FALSE
    <3>1. Shown' = ChartSpec /\ UNCHANGED Took /\ UNCHANGED Tolds
      BY <2>1, <2>3 DEF Shown, Took, Tolds, Told
    <3>2. Store!Delete
      BY <2>3, <3>1 DEF Store!Delete, Shown, Took, Tolds
    <3>3. QED
      BY <3>2 DEF Store!Next
  <2>4. QED
    BY <1>3, <2>2, <2>3 DEF DelCluster
<1>4. CASE UNCHANGED <<exists, spec, sat>>
  BY <1>4, StoreStutters
<1>5. QED
  BY <1>1, <1>2, <1>3, <1>4
  DEF Next, Create, Begin, ApplyObject, Poll, WaitTimeout, EndCtx, ScaleDeadline,
      Delete, DelGet, DelEtcd, BecomeReady, BecomeUnready, Settle, vars

\* As long as a cluster exists, its replicas change by scales only, each at
\* once and of one component, and a scale that reports success has taken effect.
THEOREM RefinesReplicas == Spec => ImplementsReplicas
<1>1. Init => Store!Init
  <2> SUFFICES ASSUME Init PROVE Store!Init
    OBVIOUS
  <2>1. Shown = ChartSpec /\ Took = {} /\ Tolds = [s \in Scalers |-> "none"]
    BY DEF Init, Shown, Took, Tolds, Told
  <2>2. QED
    BY <2>1 DEF Init, Store!Init, Shown, Took, Tolds
<1>2. Inv /\ [Next]_vars => [Store!Next]_(Store!vars)
  BY StoreStep
<1>3. QED
  BY <1>1, <1>2, Invariance, PTL DEF Spec, ImplementsReplicas, Store!Spec

=============================================================================
