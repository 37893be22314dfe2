-------------------------- MODULE SupervisorProofs --------------------------
(***************************************************************************)
(* Proofs about Supervisor, for any number of replicas, any number of      *)
(* etcd retries and any output of etcdctl.                                 *)
(***************************************************************************)
EXTENDS Supervisor, FiniteSetTheorems, TLAPS

-----------------------------------------------------------------------------
(* The components *)

LEMMA ProcsFacts ==
    /\ N \in Nat
    /\ Etcd \in Procs /\ LastMetaSrv \in Procs /\ LastDatanode \in Procs /\ N \in Procs
    /\ Etcd < N /\ LastMetaSrv < N /\ LastDatanode < N
    /\ IsFiniteSet(Procs)
<1>1. /\ N \in Nat
      /\ Etcd \in Procs /\ LastMetaSrv \in Procs /\ LastDatanode \in Procs /\ N \in Procs
      /\ Etcd < N /\ LastMetaSrv < N /\ LastDatanode < N
  BY ReplicasAssumption DEF N, Etcd, LastMetaSrv, LastDatanode, Procs
<1>2. IsFiniteSet(Procs)
  BY <1>1, FS_Interval DEF Procs
<1>3. QED
  BY <1>1, <1>2

\* The set that the WaitGroup counts is finite, so its cardinality behaves.
LEMMA RegisteredFinite ==
    /\ IsFiniteSet(Registered)
    /\ Cardinality(Registered) \in Nat
    /\ Cardinality(Registered) = 0 <=> Registered = {}
<1>1. Registered \subseteq Procs
  BY DEF Registered
<1>2. QED
  BY <1>1, ProcsFacts, FS_Subset, FS_CardinalityType, FS_EmptySet

-----------------------------------------------------------------------------
(* Types and the order in which components start *)

\* The types depend on the order (cur stays a component because the stages of
\* creation that advance it are not reached at the last component), and the
\* counter's type on what it counts.
Inv == TypeOK /\ StartOrder /\ WgCount /\ ReapedEnded

LEMMA InitInv == Init => Inv
<1> SUFFICES ASSUME Init PROVE Inv
  OBVIOUS
<1>1. TypeOK
  <2>1. retry \in 0 .. (EtcdRetries - 1)
    BY EtcdAssumption DEF Init
  <2>2. QED
    BY <2>1, ProcsFacts DEF Init, TypeOK, Stages, ProcStates, GorStates, Results
<1>2. StartOrder
  BY ProcsFacts DEF Init, StartOrder, Waiting, Alive, Etcd, Procs
<1>3. Registered = {}
  BY DEF Init, Registered
<1>4. WgCount
  BY <1>3, FS_EmptySet DEF Init, WgCount
<1>5. ReapedEnded
  BY DEF Init, ReapedEnded
<1>6. QED
  BY <1>1, <1>2, <1>4, <1>5 DEF Inv

\* Next as the list of its actions, for the case distinctions below.
LEMMA NextCases ==
    ASSUME Next
    PROVE  \/ ResolveArtifact \/ Prepare \/ Fork \/ Record \/ CheckEtcd
           \/ ProbeAnswered \/ ProbeUnanswered \/ ProbeCancelled
           \/ WgWait \/ WgWake \/ CtxWait
           \/ \E p \in Procs : GoAdd(p) \/ GoReap(p) \/ GoDone(p) \/ KillOnCancel(p) \/ ProcEnds(p)
           \/ Signal \/ Crash
BY DEF Next, Create, Wait, Supervise, Outside

LEMMA OrderStep ==
    ASSUME Inv, [Next]_vars
    PROVE  TypeOK' /\ StartOrder' /\ ReapedEnded'
<1> USE DEF Inv, TypeOK, Stages, ProcStates, GorStates, Results, StartOrder, Waiting, Alive, ReapedEnded
<1>1. CASE ResolveArtifact
  BY <1>1, ProcsFacts DEF ResolveArtifact, Fail, Exit, Procs
<1>2. CASE Prepare
  BY <1>2, ProcsFacts DEF Prepare, Fail, Exit, Procs
<1>3. CASE Fork
  BY <1>3, ProcsFacts DEF Fork, Fail, Exit, Procs
<1>4. CASE Record
  <2>1. CASE Fail
    BY <1>4, <2>1, ProcsFacts DEF Record, Fail, Exit, Procs
  <2>2. CASE gor' = [gor EXCEPT ![cur] = "spawned"] /\ AfterStart
             /\ UNCHANGED <<retry, swept, proc, wg, ctx, sig, result>>
    <3>1. cur < N \/ cur = N
      BY ProcsFacts DEF Procs
    <3>2. TypeOK'
      BY <1>4, <2>2, <3>1, ProcsFacts DEF Record, AfterStart, StartNext, Procs
    <3>3. /\ cur \in Procs /\ cur' \in Procs
          /\ cur' = cur \/ cur' = cur + 1
          /\ gor' \in [Procs -> GorStates] /\ gor'[cur] = "spawned" /\ proc' = proc
          /\ \A p \in Procs : p # cur => gor'[p] = gor[p]
      BY <1>4, <2>2, <3>2 DEF AfterStart, StartNext
    <3>4. ReapedEnded'
      BY <1>4, <3>3 DEF Record
    <3>5. StartOrder'
      <4>1. CASE cur' = cur
        BY <1>4, <2>2, <3>3, <4>1, ProcsFacts DEF Record, AfterStart, StartNext, Procs
      <4>2. CASE cur' = cur + 1
        BY <1>4, <2>2, <3>3, <4>2, ProcsFacts DEF Record, AfterStart, StartNext, Procs
      <4>3. QED
        BY <3>3, <4>1, <4>2
    <3>6. QED
      BY <3>2, <3>4, <3>5
  <2>3. QED
    BY <1>4, <2>1, <2>2 DEF Record
<1>5. CASE CheckEtcd
  <2>1. CASE Fail
    BY <1>5, <2>1, ProcsFacts DEF CheckEtcd, Fail, Exit, Procs
  <2>2. CASE EtcdHealthy
    <3>1. 0 \in 0 .. (EtcdRetries - 1)
      BY EtcdAssumption
    <3>2. QED
      BY <1>5, <2>2, <3>1, ProcsFacts DEF CheckEtcd, EtcdHealthy, Procs
  <2>3. CASE EtcdPanic
    BY <1>5, <2>3, ProcsFacts DEF CheckEtcd, EtcdPanic, Exit, Procs
  <2>4. CASE EtcdNotReady
    <3>1. CASE retry + 1 < EtcdRetries
      <4>1. retry' \in 0 .. (EtcdRetries - 1)
        BY <2>4, <3>1, EtcdAssumption DEF EtcdNotReady
      <4>2. QED
        BY <2>4, <3>1, <4>1 DEF EtcdNotReady
    <3>2. CASE ~(retry + 1 < EtcdRetries)
      BY <2>1, <2>4, <3>2 DEF EtcdNotReady
    <3>3. QED
      BY <3>1, <3>2
  <2>5. QED
    BY <1>5, <2>1, <2>2, <2>3, <2>4 DEF CheckEtcd
<1>6. CASE ProbeAnswered
  BY <1>6, ProcsFacts DEF ProbeAnswered, StartNext, Procs
<1>7. CASE ProbeUnanswered
  BY <1>7, ProcsFacts DEF ProbeUnanswered, Procs
<1>8. CASE ProbeCancelled
  BY <1>8, ProcsFacts DEF ProbeCancelled, Fail, Exit, Procs
<1>9. CASE WgWait
  BY <1>9, ProcsFacts DEF WgWait, Procs
<1>10. CASE WgWake
  BY <1>10, ProcsFacts DEF WgWake, Exit, Procs
<1>11. CASE CtxWait
  BY <1>11, ProcsFacts DEF CtxWait, Exit, Procs
<1>12. CASE Signal
  BY <1>12, ProcsFacts DEF Signal, Procs
<1>13. CASE Crash
  BY <1>13, ProcsFacts DEF Crash, Exit, Procs
<1>14. ASSUME NEW p \in Procs, GoAdd(p) PROVE TypeOK' /\ StartOrder' /\ ReapedEnded'
  BY <1>14, ProcsFacts DEF GoAdd, Procs
<1>15. ASSUME NEW p \in Procs, GoReap(p) PROVE TypeOK' /\ StartOrder' /\ ReapedEnded'
  BY <1>15, ProcsFacts DEF GoReap, Procs
<1>16. ASSUME NEW p \in Procs, GoDone(p) PROVE TypeOK' /\ StartOrder' /\ ReapedEnded'
  <2>1. wg > 0
    <3>1. p \in Registered
      BY <1>16 DEF GoDone, Registered
    <3>2. QED
      BY <3>1, RegisteredFinite DEF WgCount
  <2>2. QED
    BY <1>16, <2>1, ProcsFacts DEF GoDone, Procs
<1>17. ASSUME NEW p \in Procs, KillOnCancel(p) PROVE TypeOK' /\ StartOrder' /\ ReapedEnded'
  BY <1>17, ProcsFacts DEF KillOnCancel, Procs
<1>18. ASSUME NEW p \in Procs, ProcEnds(p) PROVE TypeOK' /\ StartOrder' /\ ReapedEnded'
  BY <1>18, ProcsFacts DEF ProcEnds, Procs
<1>19. CASE UNCHANGED vars
  BY <1>19 DEF vars
<1>20. QED
  BY NextCases, <1>1, <1>2, <1>3, <1>4, <1>5, <1>6, <1>7, <1>8, <1>9, <1>10, <1>11, <1>12, <1>13, <1>14, <1>15, <1>16, <1>17, <1>18, <1>19


-----------------------------------------------------------------------------
(* What the WaitGroup counts *)

\* Only three actions touch a supervisor that is, or becomes, registered.
LEMMA CountStep ==
    ASSUME Inv, [Next]_vars
    PROVE  WgCount'
<1> USE DEF Inv, TypeOK
<1>1. ASSUME NEW p \in Procs, GoAdd(p) PROVE WgCount'
  <2>1. p \notin Registered /\ Registered' = Registered \cup {p}
    BY <1>1 DEF GoAdd, Registered, GorStates
  <2>2. QED
    BY <1>1, <2>1, RegisteredFinite, FS_AddElement DEF GoAdd, WgCount
<1>2. ASSUME NEW p \in Procs, GoReap(p) PROVE WgCount'
  <2>1. Registered' = Registered
    BY <1>2 DEF GoReap, Registered, GorStates
  <2>2. QED
    BY <1>2, <2>1 DEF GoReap, WgCount
<1>3. ASSUME NEW p \in Procs, GoDone(p) PROVE WgCount'
  <2>1. p \in Registered /\ Registered' = Registered \ {p}
    BY <1>3 DEF GoDone, Registered, GorStates
  <2>2. QED
    BY <1>3, <2>1, RegisteredFinite, FS_RemoveElement DEF GoDone, WgCount
<1>4. CASE Record
  <2>1. Registered' = Registered /\ wg' = wg
    BY <1>4 DEF Record, Fail, Registered, StartOrder
  <2>2. QED
    BY <2>1 DEF WgCount
<1>5. ASSUME gor' = gor /\ wg' = wg PROVE WgCount'
  BY <1>5 DEF WgCount, Registered
<1>6. CASE ResolveArtifact \/ Prepare \/ Fork \/ ProbeAnswered \/ ProbeUnanswered \/ ProbeCancelled
  BY <1>5, <1>6 DEF ResolveArtifact, Prepare, Fork, ProbeAnswered, ProbeUnanswered,
                    ProbeCancelled, Fail
<1>7. CASE CheckEtcd
  BY <1>5, <1>7 DEF CheckEtcd, EtcdHealthy, EtcdPanic, EtcdNotReady, Fail
<1>8. CASE WgWait \/ WgWake \/ CtxWait
  BY <1>5, <1>8 DEF WgWait, WgWake, CtxWait
<1>9. CASE Signal \/ Crash \/ UNCHANGED vars
  BY <1>5, <1>9 DEF Signal, Crash, vars
<1>10. ASSUME NEW p \in Procs, KillOnCancel(p) \/ ProcEnds(p) PROVE WgCount'
  BY <1>5, <1>10 DEF KillOnCancel, ProcEnds
<1>11. QED
  BY NextCases, <1>1, <1>2, <1>3, <1>4, <1>6, <1>7, <1>8, <1>9, <1>10

\* The inductive invariant, and with it the types and the start order.
THEOREM Invariance == Spec => []Inv
<1>1. Init => Inv
  BY InitInv
<1>2. Inv /\ [Next]_vars => Inv'
  BY OrderStep, CountStep DEF Inv
<1>3. QED
  BY <1>1, <1>2, PTL DEF Spec

\* Every variable keeps its type.
THEOREM Typing == Spec => []TypeOK
<1>1. Inv => TypeOK
  BY DEF Inv
<1>2. QED
  BY <1>1, Invariance, PTL

\* Components start in order and each has its supervisor before the next one
\* is touched.
THEOREM StartsInOrder == Spec => []StartOrder
<1>1. Inv => StartOrder
  BY DEF Inv
<1>2. QED
  BY <1>1, Invariance, PTL

\* The WaitGroup's counter is the number of supervisors between Add and Done.
THEOREM CountsRegistered == Spec => []WgCount
<1>1. Inv => WgCount
  BY DEF Inv
<1>2. QED
  BY <1>1, Invariance, PTL

\* wg.Wait returns only when every child that still runs has a supervisor that
\* has not reached its wg.Add(1).
THEOREM WaitReturnsReaped == Spec => WaitReturns
<1>1. Inv /\ [Next]_vars =>
        [(pc # "ctxWait" /\ pc' = "ctxWait") =>
            \A p \in Procs : proc[p] = "running" => gor[p] = "spawned"]_vars
  <2> SUFFICES ASSUME Inv, [Next]_vars, pc # "ctxWait", pc' = "ctxWait",
                      NEW p \in Procs, proc[p] = "running"
               PROVE  gor[p] = "spawned"
    OBVIOUS
  <2>1. (WgWait \/ WgWake) /\ wg = 0
    <3> DEFINE Returns == (WgWait \/ WgWake) /\ wg = 0
    <3>1. CASE ResolveArtifact \/ Prepare \/ Fork \/ Record
      BY <3>1 DEF ResolveArtifact, Prepare, Fork, Record, AfterStart, StartNext, Fail, Exit
    <3>2. CASE CheckEtcd
      BY <3>2 DEF CheckEtcd, EtcdHealthy, EtcdPanic, EtcdNotReady, Fail, Exit
    <3>3. CASE ProbeAnswered \/ ProbeUnanswered \/ ProbeCancelled
      BY <3>3 DEF ProbeAnswered, ProbeUnanswered, ProbeCancelled, StartNext, Fail, Exit
    <3>4. CASE WgWait \/ WgWake
      BY <3>4 DEF WgWait, WgWake, Exit
    <3>5. CASE CtxWait \/ Signal \/ Crash \/ UNCHANGED vars
      BY <3>5 DEF CtxWait, Signal, Crash, Exit, vars
    <3>6. ASSUME NEW q \in Procs,
                 GoAdd(q) \/ GoReap(q) \/ GoDone(q) \/ KillOnCancel(q) \/ ProcEnds(q)
          PROVE  Returns
      BY <3>6 DEF GoAdd, GoReap, GoDone, KillOnCancel, ProcEnds
    <3>7. QED
      BY NextCases, <3>1, <3>2, <3>3, <3>4, <3>5, <3>6
  <2>2. Registered = {}
    BY <2>1, RegisteredFinite DEF Inv, WgCount
  <2>3. gor[p] \notin {"waiting", "leaving"}
    BY <2>2 DEF Registered
  <2>4. gor[p] # "done"
    BY DEF Inv, ReapedEnded
  <2>5. gor[p] # "none"
    <3>1. Waiting
      BY <2>1 DEF WgWait, WgWake, Waiting
    <3>2. /\ cur = N /\ gor[N] # "none"
          /\ p < N => gor[p] # "none"
      BY <3>1 DEF Inv, StartOrder
    <3>3. QED
      BY <3>2, ProcsFacts DEF Procs
  <2>6. QED
    BY <2>3, <2>4, <2>5 DEF Inv, TypeOK, GorStates
<1>2. QED
  BY <1>1, Invariance, PTL DEF Spec, WaitReturns

-----------------------------------------------------------------------------
(* What cancels the context *)

\* Failures that a supervisor has seen have cancelled the context; nothing but
\* a failure or a signal cancels it.
Causes == FailureCancels /\ StopHasCause

LEMMA CausesStep ==
    ASSUME Inv, Causes, [Next]_vars
    PROVE  Causes'
<1> USE DEF Inv, TypeOK, Causes, FailureCancels, StopHasCause
<1>1. ASSUME ctx' = ctx, sig' = sig, proc' = proc, gor' = gor PROVE Causes'
  BY <1>1
<1>2. CASE ResolveArtifact \/ Prepare \/ ProbeAnswered \/ ProbeUnanswered \/ ProbeCancelled
  BY <1>1, <1>2 DEF ResolveArtifact, Prepare, ProbeAnswered, ProbeUnanswered,
                    ProbeCancelled, Fail
<1>3. CASE CheckEtcd
  BY <1>1, <1>3 DEF CheckEtcd, EtcdHealthy, EtcdPanic, EtcdNotReady, Fail
<1>4. CASE WgWait \/ WgWake \/ CtxWait \/ Crash \/ UNCHANGED vars
  BY <1>1, <1>4 DEF WgWait, WgWake, CtxWait, Crash, vars
<1>5. CASE Fork
  BY <1>5 DEF Fork, Fail, StartOrder
<1>6. CASE Record
  BY <1>6 DEF Record, Fail
<1>7. CASE Signal
  BY <1>7 DEF Signal
<1>8. ASSUME NEW p \in Procs, GoAdd(p) PROVE Causes'
  BY <1>8 DEF GoAdd
<1>9. ASSUME NEW p \in Procs, GoReap(p) PROVE Causes'
  BY <1>9 DEF GoReap
<1>10. ASSUME NEW p \in Procs, GoDone(p) PROVE Causes'
  BY <1>10 DEF GoDone
<1>11. ASSUME NEW p \in Procs, KillOnCancel(p) PROVE Causes'
  BY <1>11 DEF KillOnCancel
<1>12. ASSUME NEW p \in Procs, ProcEnds(p) PROVE Causes'
  BY <1>12 DEF ProcEnds, ReapedEnded
<1>13. QED
  BY NextCases, <1>2, <1>3, <1>4, <1>5, <1>6, <1>7, <1>8, <1>9, <1>10, <1>11, <1>12

LEMMA CausesInvariant == Spec => []Causes
<1>1. Init => Causes
  BY DEF Init, Causes, FailureCancels, StopHasCause
<1>2. Inv /\ Causes /\ [Next]_vars => Causes'
  BY CausesStep
<1>3. QED
  BY <1>1, <1>2, Invariance, PTL DEF Spec

\* A failure that its supervisor has seen has cancelled the context.
THEOREM FailuresCancel == Spec => []FailureCancels
<1>1. Causes => FailureCancels
  BY DEF Causes
<1>2. QED
  BY <1>1, CausesInvariant, PTL

\* Nothing but a signal or a failed component stops a cluster.
THEOREM StopsForCause == Spec => []StopHasCause
<1>1. Causes => StopHasCause
  BY DEF Causes
<1>2. QED
  BY <1>1, CausesInvariant, PTL

-----------------------------------------------------------------------------
(* Lifecycle is implemented *)

Started == {p \in Procs : proc[p] # "none"}

\* What the start order says of the set of started components.
LEMMA StartedFacts ==
    ASSUME Inv
    PROVE  /\ cur \in Procs /\ cur \in Nat
           /\ proc[cur] = "none" => Started = 1 .. (cur - 1)
           /\ proc[cur] # "none" => Started = 1 .. cur
           /\ gor[cur] # "none" => proc[cur] # "none"
<1>1. cur \in Procs /\ N \in Nat /\ cur \in Nat
  BY ProcsFacts DEF Inv, TypeOK, Procs
<1>2. \A p \in Procs : /\ p > cur => proc[p] = "none"
                       /\ p < cur => proc[p] # "none"
                       /\ gor[p] # "none" => proc[p] # "none"
  BY DEF Inv, StartOrder
<1>3. \A p \in Procs : p \in Started <=> (p < cur \/ (p = cur /\ proc[cur] # "none"))
  BY <1>1, <1>2 DEF Started, Procs
<1>4. QED
  BY <1>1, <1>2, <1>3 DEF Started, Procs

\* The limit of what may be started, group by group.
LEMMA GateFacts ==
    ASSUME NEW c \in Procs
    PROVE  /\ GateOf(c) \in Gates /\ c <= GateOf(c)
           /\ c \notin Gates => c + 1 \in Procs /\ GateOf(c + 1) = GateOf(c)
           /\ c \in Gates => GateOf(c) = c
           /\ c \in Gates /\ c # N =>
                 /\ c + 1 \in Procs
                 /\ GateOf(c) < GateOf(c + 1)
                 /\ \A g \in Gates : GateOf(c) < g => GateOf(c + 1) <= g
BY ReplicasAssumption
   DEF GateOf, Gates, Group, Etcd, LastMetaSrv, LastDatanode, N, Procs

\* What no action changes is not seen in Lifecycle either.
LEMMA Unseen ==
    ASSUME Phase' = Phase, GateOf(cur)' = GateOf(cur), proc' = proc, ctx' = ctx,
           Outcome' = Outcome
    PROVE  UNCHANGED Abstract!vars
BY DEF Abstract!vars

LEMMA ExitAborts ==
    ASSUME Inv, Alive, pc' = "exited", result' # "ok",
           cur' = cur, proc' = proc, ctx' = ctx
    PROVE  Abstract!Abort
BY DEF Abstract!Abort, Phase, Outcome, Alive, Waiting

LEMMA FailAborts ==
    ASSUME Inv, Alive, Fail
    PROVE  Abstract!Abort
BY ExitAborts DEF Fail, Exit

LEMMA RefinesCreation ==
    ASSUME Inv, ResolveArtifact \/ Prepare \/ Fork \/ Record \/ CheckEtcd
                \/ ProbeAnswered \/ ProbeUnanswered \/ ProbeCancelled
    PROVE  [Abstract!Next]_(Abstract!vars)
<1> USE DEF Phase, Outcome, Alive, Waiting, Abstract!Next
<1>a. Alive
  BY DEF ResolveArtifact, Prepare, Fork, Record, CheckEtcd, ProbeAnswered,
         ProbeUnanswered, ProbeCancelled
<1>b. CASE Fail
  BY <1>a, <1>b, FailAborts
<1>1. CASE ResolveArtifact \/ Prepare
  BY <1>1, <1>b, Unseen DEF ResolveArtifact, Prepare
<1>2. CASE Fork /\ ~Fail
  <2>1. /\ Phase = "creating" /\ Phase' = "creating" /\ Outcome' = Outcome
        /\ cur' = cur /\ ctx' = ctx
        /\ proc[cur] = "none" /\ proc' = [proc EXCEPT ![cur] = "running"]
    BY <1>2 DEF Fork, Inv, StartOrder
  <2>2. cur \in Procs /\ cur \in Nat /\ cur \in 1 .. GateOf(cur)
    BY StartedFacts, GateFacts DEF Procs, GateOf, Gates, Group, Etcd
  <2>3. Started = 1 .. (cur - 1)
    BY <2>1, StartedFacts
  <2>4. /\ Started' = Started \cup {cur}
        /\ {p \in Procs : proc'[p] = "running"} = {p \in Procs : proc[p] = "running"} \cup {cur}
    BY <2>1, <2>2 DEF Inv, TypeOK, Started
  <2>5. Started' = 1 .. cur
    BY <2>2, <2>3, <2>4
  <2>6. Abstract!Start
    BY <2>1, <2>2, <2>3, <2>4, <2>5 DEF Abstract!Start, Started, GateOf
  <2>7. QED
    BY <2>6
<1>3. CASE Record /\ ~Fail
  <2>1. /\ pc = "record" /\ AfterStart /\ cur \in Procs /\ result = "none"
        /\ UNCHANGED <<proc, ctx, result>>
        /\ proc[cur] # "none" /\ Started = 1 .. cur
    BY <1>3, StartedFacts DEF Record, Inv, StartOrder
  <2>2. CASE cur = N /\ pc' = "wgWait" /\ UNCHANGED cur
    <3>1. Abstract!Serve
      BY <2>1, <2>2 DEF Abstract!Serve, Started
    <3>2. QED
      BY <3>1
  <2>3. CASE pc' \in {"etcdHealth", "probe"} /\ UNCHANGED cur
    BY <2>1, <2>3, Unseen
  <2>4. CASE cur \notin Gates /\ StartNext
    <3>1. GateOf(cur + 1) = GateOf(cur)
      BY <2>1, <2>4, GateFacts
    <3>2. GateOf(cur)' = GateOf(cur)
      BY <2>4, <3>1 DEF StartNext, GateOf
    <3>3. QED
      BY <2>1, <2>4, <3>2, Unseen DEF StartNext
  <2>5. QED
    BY <2>1, <2>2, <2>3, <2>4 DEF AfterStart, Gates
<1>4. ASSUME cur \in Gates, cur # N, pc \in {"etcdHealth", "probe"}, cur' = cur + 1,
             pc' \in {"artifact", "prepare"}, UNCHANGED <<proc, ctx, result>>
      PROVE  Abstract!Open
  <2>1. /\ cur \in Procs /\ gor[cur] # "none"
        /\ Started = 1 .. cur
    BY <1>4, StartedFacts DEF Inv, StartOrder
  <2>2. /\ GateOf(cur) = cur /\ cur + 1 \in Procs
        /\ GateOf(cur) < GateOf(cur + 1) /\ GateOf(cur + 1) \in Gates
        /\ \A g \in Gates : GateOf(cur) < g => GateOf(cur + 1) <= g
    <3>1. cur + 1 \in Procs
      BY <1>4, <2>1, GateFacts
    <3>2. QED
      BY <1>4, <2>1, <3>1, GateFacts
  <2>3. GateOf(cur)' = GateOf(cur + 1)
    BY <1>4 DEF GateOf
  <2>4. QED
    BY <1>4, <2>1, <2>2, <2>3 DEF Abstract!Open, Started
<1>5. CASE CheckEtcd /\ ~Fail
  <2>1. pc = "etcdHealth" /\ cur = Etcd /\ cur \in Gates /\ cur # N
    BY <1>5, ProcsFacts DEF CheckEtcd, Inv, StartOrder, Gates, Etcd
  <2>2. CASE EtcdHealthy
    BY <1>4, <2>1, <2>2 DEF EtcdHealthy
  <2>3. CASE EtcdPanic
    BY <1>a, <2>3, ExitAborts DEF EtcdPanic, Exit
  <2>4. CASE EtcdNotReady
    BY <1>5, <2>4, Unseen DEF EtcdNotReady
  <2>5. QED
    BY <1>5, <2>2, <2>3, <2>4 DEF CheckEtcd
<1>6. CASE ProbeAnswered
  <2>1. cur \in Gates /\ cur # N
    BY <1>6, ProcsFacts DEF ProbeAnswered, Inv, StartOrder, Gates
  <2>2. QED
    BY <1>4, <1>6, <2>1, Unseen DEF ProbeAnswered, StartNext
<1>7. CASE ProbeUnanswered
  BY <1>7, Unseen DEF ProbeUnanswered
<1>8. QED
  BY <1>b, <1>1, <1>2, <1>3, <1>5, <1>6, <1>7 DEF ProbeCancelled

LEMMA RefinesSupervision ==
    ASSUME Inv, NEW p \in Procs,
           GoAdd(p) \/ GoReap(p) \/ GoDone(p) \/ KillOnCancel(p) \/ ProcEnds(p)
    PROVE  [Abstract!Next]_(Abstract!vars)
<1> USE DEF Phase, Outcome, Alive, Waiting, Abstract!Next
<1>1. CASE GoAdd(p)
  BY <1>1, Unseen DEF GoAdd
<1>2. CASE GoReap(p)
  <2>1. /\ Phase' = Phase /\ Phase # "ended" /\ Outcome' = Outcome
        /\ cur' = cur /\ proc' = proc /\ ctx' \in {ctx, TRUE}
    BY <1>2 DEF GoReap, Inv, TypeOK
  <2>2. CASE ctx' = ctx
    BY <2>1, <2>2, Unseen
  <2>3. CASE ctx' = TRUE
    BY <2>1, <2>3 DEF Abstract!Cancel
  <2>4. QED
    BY <2>1, <2>2, <2>3
<1>3. CASE GoDone(p)
  BY <1>3, Unseen DEF GoDone
<1>4. CASE KillOnCancel(p) \/ ProcEnds(p)
  <2>1. PICK how \in {"exited", "failed", "killed"} : proc' = [proc EXCEPT ![p] = how]
    BY <1>4 DEF KillOnCancel, ProcEnds
  <2>2. /\ proc[p] = "running" /\ UNCHANGED <<pc, cur, ctx, result>>
    BY <1>4 DEF KillOnCancel, ProcEnds
  <2>3. /\ Started' = Started
        /\ {q \in Procs : proc'[q] = "running"} = {q \in Procs : proc[q] = "running"} \ {p}
    BY <2>1, <2>2 DEF Inv, TypeOK, Started
  <2>4. Abstract!Lose
    BY <2>2, <2>3 DEF Abstract!Lose, Started
  <2>5. QED
    BY <2>4
<1>5. QED
  BY <1>1, <1>2, <1>3, <1>4

\* Lifecycle is implemented: for any number of replicas, the components start
\* once, in order and gate by gate, serving begins with all of them started,
\* and gtctl succeeds only for a cluster that served and was told to stop.
THEOREM RefinesLifecycle == Spec => ImplementsLifecycle
<1>1. Init => Abstract!Init
  <2> SUFFICES ASSUME Init PROVE Abstract!Init
    OBVIOUS
  <2>1. Started = {} /\ {p \in Procs : proc[p] = "running"} = {}
    BY DEF Init, Started
  <2>2. GateOf(Etcd) = Etcd
    BY ProcsFacts, GateFacts DEF Gates
  <2>3. QED
    BY <2>1, <2>2 DEF Init, Abstract!Init, Started, Phase, Outcome, Alive, Waiting, Etcd
<1>2. Inv /\ [Next]_vars => [Abstract!Next]_(Abstract!vars)
  <2> SUFFICES ASSUME Inv, [Next]_vars PROVE [Abstract!Next]_(Abstract!vars)
    OBVIOUS
  <2> USE DEF Phase, Outcome, Alive, Waiting, Abstract!Next
  <2>1. CASE WgWait
    BY <2>1, Unseen DEF WgWait
  <2>2. CASE WgWake
    BY <2>2, Unseen, ExitAborts DEF WgWake, Exit
  <2>3. CASE CtxWait
    BY <2>3 DEF CtxWait, Exit, Abstract!Finish, Inv, TypeOK
  <2>4. CASE Signal
    BY <2>4 DEF Signal, Abstract!Cancel
  <2>5. CASE Crash
    BY <2>5, ExitAborts DEF Crash, Exit
  <2>6. CASE UNCHANGED vars
    BY <2>6, Unseen DEF vars
  <2>7. QED
    BY NextCases, RefinesCreation, RefinesSupervision, <2>1, <2>2, <2>3, <2>4, <2>5, <2>6
<1>3. QED
  BY <1>1, <1>2, Invariance, PTL DEF Spec, ImplementsLifecycle, Abstract!Spec

=============================================================================
