----------------------------- MODULE Supervisor -----------------------------
(***************************************************************************)
(* One run of "gtctl cluster create <name> --bare-metal".                  *)
(*                                                                         *)
(* The main goroutine starts the components one after the other (etcd,     *)
(* metasrv replicas, datanode replicas, frontend replicas), gates on etcd, *)
(* metasrv and datanode health, and then waits.  Every started component   *)
(* is a child process with a supervisor goroutine that waits for it, and   *)
(* with the watcher that os/exec attaches to a CommandContext, which kills *)
(* the child when the cluster context c.ctx is cancelled.  The context is  *)
(* cancelled by SIGINT/SIGTERM or by a supervisor that sees its child      *)
(* fail.  The command's own context (--timeout) reaches only downloads,    *)
(* where its end is one of the failures of ResolveArtifact.                *)
(*                                                                         *)
(* Goroutines, children, the signal and a kill of gtctl itself interleave  *)
(* freely.  Children outlive gtctl.                                        *)
(***************************************************************************)
EXTENDS Naturals, Sequences, FiniteSets

CONSTANTS
    MetaSrvs,       \* replicas of metasrv
    Datanodes,      \* replicas of datanode
    Frontends,      \* replicas of frontend
    EtcdRetries,    \* bound of the etcd health loop (10 in the code)
    EtcdctlOutputs  \* what "etcdctl endpoint status" may print: sequences of rows

(***************************************************************************)
(* A row of etcdctl's output, split at ",": with "true" in field 4, with   *)
(* something else in field 4, or with fewer than five fields (the empty    *)
(* string after the last newline is one).                                  *)
(***************************************************************************)
Rows == {"leader", "follower", "short"}

\* validate:"gt=0" on every Replicas field; strings.Split returns at least one row.
ASSUME ReplicasAssumption ==
    /\ MetaSrvs \in Nat \ {0}
    /\ Datanodes \in Nat \ {0}
    /\ Frontends \in Nat \ {0}

ASSUME EtcdAssumption ==
    /\ EtcdRetries \in Nat \ {0}
    /\ EtcdctlOutputs \subseteq (Seq(Rows) \ {<<>>})

\* Components, numbered in the order in which the code starts them.
Etcd         == 1
LastMetaSrv  == 1 + MetaSrvs
LastDatanode == LastMetaSrv + Datanodes
N            == LastDatanode + Frontends
Procs        == 1 .. N

\* The replicas that a health sweep visits after component "last" was started.
Group(last) == IF last = LastMetaSrv THEN (Etcd + 1) .. LastMetaSrv
                                     ELSE (LastMetaSrv + 1) .. LastDatanode

VARIABLES
    pc,         \* where the main goroutine is
    cur,        \* the component it is starting, or started last
    retry,      \* iterations of checkEtcdHealth done so far, while it runs
    swept,      \* replicas that have answered in the current IsRunning sweep
    proc,       \* the child process of each component
    gor,        \* the supervisor goroutine of each component
    wg,         \* the counter of the cluster's sync.WaitGroup
    ctx,        \* the cluster context c.ctx is cancelled
    sig,        \* SIGINT or SIGTERM was received
    result      \* how gtctl ended

vars == <<pc, cur, retry, swept, proc, gor, wg, ctx, sig, result>>

Stages == {"artifact", "prepare", "fork", "record", "etcdHealth", "probe",
           "wgWait", "wgSleep", "wgWake", "ctxWait", "exited"}

\* A child: not started, running, ended with status 0, ended by another status
\* or signal, ended by SIGKILL or SIGINT.
ProcStates == {"none", "running", "exited", "failed", "killed"}

\* A supervisor: no goroutine yet, created, in cmd.Wait, about to call
\* wg.Done, returned.
GorStates == {"none", "spawned", "waiting", "leaving", "done"}

Results == {"none", "ok", "error", "etcdPanic", "wgPanic", "crashed"}

\* Supervisors counted by the WaitGroup.
Registered == {p \in Procs : gor[p] \in {"waiting", "leaving"}}

Alive    == pc # "exited"
Creating == pc \in {"artifact", "prepare", "fork", "record", "etcdHealth", "probe"}
Waiting  == pc \in {"wgWait", "wgSleep", "wgWake", "ctxWait"}

Init ==
    /\ pc = "artifact"
    /\ cur = Etcd
    /\ retry = 0
    /\ swept = 0
    /\ proc = [p \in Procs |-> "none"]
    /\ gor = [p \in Procs |-> "none"]
    /\ wg = 0
    /\ ctx = FALSE
    /\ sig = FALSE
    /\ result = "none"

-----------------------------------------------------------------------------
(***************************************************************************)
(* Faulty variants of actions below, each a plausible slip in the code.    *)
(* No specification uses them; they show which property catches the slip.  *)
(***************************************************************************)

\* The goroutine forgets wg.Add(1).
GoAddUncounted(p) ==
    /\ pc # "exited" /\ gor[p] = "spawned"
    /\ gor' = [gor EXCEPT ![p] = "waiting"]
    /\ UNCHANGED <<pc, cur, retry, swept, proc, wg, ctx, sig, result>>

\* cmd.Wait's error is only logged.
GoReapSilently(p) ==
    /\ pc # "exited" /\ gor[p] = "waiting"
    /\ proc[p] \in {"exited", "failed", "killed"}
    /\ gor' = [gor EXCEPT ![p] = "leaving"]
    /\ UNCHANGED <<pc, cur, retry, swept, proc, wg, ctx, sig, result>>

\* stop is deferred: every end of a child stops the context.
GoReapAlwaysStops(p) ==
    /\ pc # "exited" /\ gor[p] = "waiting"
    /\ proc[p] \in {"exited", "failed", "killed"}
    /\ gor' = [gor EXCEPT ![p] = "leaving"]
    /\ ctx' = TRUE
    /\ UNCHANGED <<pc, cur, retry, swept, proc, wg, sig, result>>

\* Any Done releases the main goroutine: a condition variable in place of the
\* counter.
GoDoneReleases(p) ==
    /\ pc # "exited" /\ gor[p] = "leaving"
    /\ gor' = [gor EXCEPT ![p] = "done"]
    /\ wg' = wg - 1
    /\ \/ pc = "wgSleep" /\ pc' = "ctxWait"
       \/ pc # "wgSleep" /\ UNCHANGED pc
    /\ UNCHANGED <<cur, retry, swept, proc, ctx, sig, result>>

\* The child is started with exec.Command, which has no watcher.
NoWatcher(p) == FALSE

\* The health loop has no ctx.Done branch.
ProbeNeverCancelled == FALSE

\* The loop over the frontends runs once too often.
AfterStartPastEnd ==
    \/ cur = 1 /\ pc' = "etcdHealth" /\ UNCHANGED cur
    \/ cur \in {1 + MetaSrvs, 1 + MetaSrvs + Datanodes} /\ pc' = "probe" /\ UNCHANGED cur
    \/ cur > 1 + MetaSrvs + Datanodes /\ pc' = "prepare" /\ cur' = cur + 1

\* Creation takes the last datanode for the last component.
AfterStartSkipsFrontends ==
    \/ cur = 1 /\ pc' = "etcdHealth" /\ UNCHANGED cur
    \/ cur = 1 + MetaSrvs /\ pc' = "probe" /\ UNCHANGED cur
    \/ cur = 1 + MetaSrvs + Datanodes /\ pc' = "wgWait" /\ UNCHANGED cur
    \/ cur \notin {1, 1 + MetaSrvs, 1 + MetaSrvs + Datanodes}
          /\ cur' = cur + 1 /\ pc' = "prepare"

\* The pid file cannot be written, and the error is ignored.
RecordUnsupervised ==
    /\ pc = "record"
    /\ \/ cur = 1 /\ pc' = "etcdHealth" /\ UNCHANGED cur
       \/ cur \in {1 + MetaSrvs, 1 + MetaSrvs + Datanodes} /\ pc' = "probe" /\ UNCHANGED cur
       \/ cur = 1 + MetaSrvs + Datanodes + Frontends /\ pc' = "wgWait" /\ UNCHANGED cur
    /\ \E g \in {"none", "spawned"} : gor' = [gor EXCEPT ![cur] = g]
    /\ UNCHANGED <<retry, swept, proc, wg, ctx, sig, result>>

-----------------------------------------------------------------------------
(* The main goroutine: Create *)

Exit(how) == pc' = "exited" /\ result' = how

\* createEtcdCluster or createCluster returns an error.  Only the second one
\* goes through Wait(ctx, true), which logs the shutdown and does nothing else.
Fail ==
    /\ Exit("error")
    /\ UNCHANGED <<cur, retry, swept, proc, gor, wg, ctx, sig>>

\* The component after cur is started next.
StartNext == cur' = cur + 1 /\ pc' = "prepare"

\* Local artifact check, or source, paths and download of the artifact; the
\* download fails when the command's context ends.
ResolveArtifact ==
    /\ pc = "artifact"
    /\ \/ Fail
       \/ /\ pc' = "prepare"
          /\ UNCHANGED <<cur, retry, swept, proc, gor, wg, ctx, sig, result>>

\* The component's directories, its log file, and the check of the context at
\* the top of exec's Start.
Prepare ==
    /\ pc = "prepare"
    /\ \/ Fail
       \/ /\ ~ctx
          /\ pc' = "fork"
          /\ UNCHANGED <<cur, retry, swept, proc, gor, wg, ctx, sig, result>>

\* The fork itself.  The context may have been cancelled since the check.
Fork ==
    /\ pc = "fork"
    /\ \/ Fail
       \/ /\ proc' = [proc EXCEPT ![cur] = "running"]
          /\ pc' = "record"
          /\ UNCHANGED <<cur, retry, swept, gor, wg, ctx, sig, result>>

\* The stage that follows the start of component cur.
AfterStart ==
    \/ cur = Etcd /\ pc' = "etcdHealth" /\ UNCHANGED cur
    \/ cur \in {LastMetaSrv, LastDatanode} /\ pc' = "probe" /\ UNCHANGED cur
    \/ cur = N /\ pc' = "wgWait" /\ UNCHANGED cur
    \/ cur \notin {Etcd, LastMetaSrv, LastDatanode, N} /\ StartNext

\* The pid file, and "go func()".  The goroutine has not run yet: the counter
\* of the WaitGroup is raised by its own second statement.
Record ==
    /\ pc = "record"
    /\ \/ Fail
       \/ /\ gor' = [gor EXCEPT ![cur] = "spawned"]
          /\ AfterStart
          /\ UNCHANGED <<retry, swept, proc, wg, ctx, sig, result>>

(***************************************************************************)
(* checkEtcdHealth scans the rows in order.  The first row that is not a   *)
(* follower decides: a leader ends the scan, a short one is indexed out of *)
(* range.                                                                  *)
(***************************************************************************)
FirstDecidingRow(rows, kind) ==
    \E i \in DOMAIN rows :
        /\ rows[i] = kind
        /\ \A j \in 1 .. (i - 1) : rows[j] = "follower"

\* etcdctl is missing, or it reports a leader: the greptimedb artifact is next.
EtcdHealthy ==
    /\ pc' = "artifact"
    /\ cur' = cur + 1
    /\ retry' = 0
    /\ UNCHANGED <<swept, proc, gor, wg, ctx, sig, result>>

EtcdPanic ==
    /\ Exit("etcdPanic")
    /\ UNCHANGED <<cur, retry, swept, proc, gor, wg, ctx, sig>>

\* No row names a leader: sleep a second and try again, or give up.
EtcdNotReady ==
    IF retry + 1 < EtcdRetries
    THEN /\ retry' = retry + 1
         /\ UNCHANGED <<pc, cur, swept, proc, gor, wg, ctx, sig, result>>
    ELSE Fail

CheckEtcd ==
    /\ pc = "etcdHealth"
    /\ \/ EtcdHealthy                \* no etcdctl next to etcd
       \/ Fail                       \* stat error, or etcdctl failed
       \/ \E rows \in EtcdctlOutputs :
             \/ FirstDecidingRow(rows, "leader") /\ EtcdHealthy
             \/ FirstDecidingRow(rows, "short") /\ EtcdPanic
             \/ (\A i \in DOMAIN rows : rows[i] = "follower") /\ EtcdNotReady

\* One http.Get of an IsRunning sweep.  A sweep starts at a tick; the replica
\* that does not answer 200 ends it.
ProbeAnswered ==
    /\ pc = "probe"
    /\ IF swept + 1 < Cardinality(Group(cur))
       THEN swept' = swept + 1 /\ UNCHANGED <<pc, cur>>
       ELSE swept' = 0 /\ StartNext
    /\ UNCHANGED <<retry, proc, gor, wg, ctx, sig, result>>

ProbeUnanswered ==
    /\ pc = "probe"
    /\ swept' = 0
    /\ UNCHANGED <<pc, cur, retry, proc, gor, wg, ctx, sig, result>>

\* The other branch of the select, taken between two sweeps.
ProbeCancelled ==
    /\ pc = "probe"
    /\ swept = 0
    /\ ctx
    /\ Fail

-----------------------------------------------------------------------------
(* The main goroutine: Wait *)

\* wg.Wait finds the counter at zero, or the goroutine goes to sleep on it.
WgWait ==
    /\ pc = "wgWait"
    /\ pc' = IF wg = 0 THEN "ctxWait" ELSE "wgSleep"
    /\ UNCHANGED <<cur, retry, swept, proc, gor, wg, ctx, sig, result>>

\* Woken by the Done that reached zero.  wg.Wait panics when the counter has
\* been raised again in the meantime ("WaitGroup is reused before previous
\* Wait has returned").
WgWake ==
    /\ pc = "wgWake"
    /\ IF wg = 0 THEN pc' = "ctxWait" /\ UNCHANGED result ELSE Exit("wgPanic")
    /\ UNCHANGED <<cur, retry, swept, proc, gor, wg, ctx, sig>>

\* <-c.ctx.Done(), and gtctl returns 0.
CtxWait ==
    /\ pc = "ctxWait"
    /\ ctx
    /\ Exit("ok")
    /\ UNCHANGED <<cur, retry, swept, proc, gor, wg, ctx, sig>>

-----------------------------------------------------------------------------
(* The supervisor goroutine of component p *)

\* wg.Add(1), the first thing the goroutine does.
GoAdd(p) ==
    /\ Alive
    /\ gor[p] = "spawned"
    /\ gor' = [gor EXCEPT ![p] = "waiting"]
    /\ wg' = wg + 1
    /\ UNCHANGED <<pc, cur, retry, swept, proc, ctx, sig, result>>

\* cmd.Wait returns.  A failure of the child stops the whole context; status 0
\* and the signals SIGKILL and SIGINT do not.
GoReap(p) ==
    /\ Alive
    /\ gor[p] = "waiting"
    /\ proc[p] \in {"exited", "failed", "killed"}
    /\ gor' = [gor EXCEPT ![p] = "leaving"]
    /\ ctx' = (ctx \/ proc[p] = "failed")
    /\ UNCHANGED <<pc, cur, retry, swept, proc, wg, sig, result>>

\* The deferred wg.Done, which wakes a sleeping main goroutine at zero.
GoDone(p) ==
    /\ Alive
    /\ gor[p] = "leaving"
    /\ gor' = [gor EXCEPT ![p] = "done"]
    /\ wg' = wg - 1
    /\ pc' = IF pc = "wgSleep" /\ wg = 1 THEN "wgWake" ELSE pc
    /\ UNCHANGED <<cur, retry, swept, proc, ctx, sig, result>>

-----------------------------------------------------------------------------
(* Children, contexts and the outside world *)

\* The watcher of exec.CommandContext: a goroutine of gtctl, gone with it.
KillOnCancel(p) ==
    /\ Alive
    /\ ctx
    /\ proc[p] = "running"
    /\ proc' = [proc EXCEPT ![p] = "killed"]
    /\ UNCHANGED <<pc, cur, retry, swept, gor, wg, ctx, sig, result>>

\* A child ends on its own, before or after gtctl does.  How it ends matters
\* only while gtctl can look.
ProcEnds(p) ==
    /\ proc[p] = "running"
    /\ \E how \in (IF Alive THEN {"exited", "failed", "killed"} ELSE {"exited"}) :
          proc' = [proc EXCEPT ![p] = how]
    /\ UNCHANGED <<pc, cur, retry, swept, gor, wg, ctx, sig, result>>

\* SIGINT or SIGTERM, passed on by the signal.NotifyContext of the cluster
\* context.  A second signal is swallowed: the context stays registered for it.
Signal ==
    /\ Alive
    /\ ~sig
    /\ sig' = TRUE
    /\ ctx' = TRUE
    /\ UNCHANGED <<pc, cur, retry, swept, proc, gor, wg, result>>

\* gtctl is killed.
Crash ==
    /\ Alive
    /\ Exit("crashed")
    /\ UNCHANGED <<cur, retry, swept, proc, gor, wg, ctx, sig>>

-----------------------------------------------------------------------------
Create == ResolveArtifact \/ Prepare \/ Fork \/ Record \/ CheckEtcd
          \/ ProbeAnswered \/ ProbeUnanswered \/ ProbeCancelled
Wait   == WgWait \/ WgWake \/ CtxWait

Supervise(p) == GoAdd(p) \/ GoReap(p) \/ GoDone(p)

Outside == Signal \/ Crash \/ \E p \in Procs : ProcEnds(p)

Next ==
    \/ Create \/ Wait
    \/ \E p \in Procs : Supervise(p) \/ KillOnCancel(p)
    \/ Outside

Spec == Init /\ [][Next]_vars

(***************************************************************************)
(* Fairness.  Goroutines that can run do run (the Go scheduler), the       *)
(* watcher's SIGKILL arrives, etcdctl returns (it has a timeout of its     *)
(* own), and so do the download of an artifact, the lookup of the latest   *)
(* version before it, and the requests of a sweep in progress.  These last *)
(* three are assumptions about their servers: the download ends with the   *)
(* command's context, but the lookup uses context.Background() and has no  *)
(* timeout; http.Get has none either, but a child that is killed by the    *)
(* cancelled context closes its connections.                               *)
(* Nothing makes a sweep succeed: the components may never answer.  The    *)
(* health loop's select between its ticker and ctx.Done picks uniformly    *)
(* among the ready branches and the ticker is ready only every 500 ms, so  *)
(* a Done that stays ready is taken: strong fairness, because a sweep in   *)
(* progress disables it.  Nothing is assumed of the outside world.         *)
(***************************************************************************)
MainProgress ==
    \/ ResolveArtifact \/ Prepare \/ Fork \/ Record \/ CheckEtcd \/ Wait
    \/ swept > 0 /\ (ProbeAnswered \/ ProbeUnanswered)

Fairness ==
    /\ WF_vars(MainProgress)
    /\ SF_vars(ProbeCancelled)
    /\ WF_vars(\E p \in Procs : Supervise(p))
    /\ WF_vars(\E p \in Procs : KillOnCancel(p))

FairSpec == Spec /\ Fairness

-----------------------------------------------------------------------------
(* Properties *)

TypeOK ==
    /\ pc \in Stages
    /\ cur \in Procs
    /\ retry \in 0 .. (EtcdRetries - 1)
    /\ swept \in Nat
    /\ proc \in [Procs -> ProcStates]
    /\ gor \in [Procs -> GorStates]
    /\ wg \in Nat
    /\ ctx \in BOOLEAN /\ sig \in BOOLEAN
    /\ result \in Results

\* The WaitGroup counts exactly the supervisors that are between their Add and
\* their Done (run.go: the goroutine), whatever main does meanwhile.
WgCount == wg = Cardinality(Registered)

\* Components start strictly in order, each with its supervisor before the next
\* one is touched, and main leaves creation only when the last one has its own
\* (the Start loops and runBinary).
StartOrder ==
    /\ \A p \in Procs :
          /\ p > cur => proc[p] = "none"
          /\ p < cur => gor[p] # "none"
          /\ proc[p] = "none" => gor[p] = "none"
    /\ pc \in {"artifact", "prepare", "fork"} => proc[cur] = "none"
    /\ pc = "record" => proc[cur] # "none" /\ gor[cur] = "none"
    /\ (pc \in {"etcdHealth", "probe"} \/ result = "etcdPanic") => gor[cur] # "none"
    /\ pc = "etcdHealth" => cur = Etcd
    /\ pc = "probe" => cur \in {LastMetaSrv, LastDatanode}
    /\ (Waiting \/ result \in {"ok", "wgPanic"}) => cur = N /\ gor[cur] # "none"
    /\ Alive <=> result = "none"

\* A supervisor has returned from cmd.Wait only if its child has ended.
ReapedEnded ==
    \A p \in Procs : gor[p] \in {"leaving", "done"} => proc[p] \notin {"none", "running"}

\* A failure that a supervisor has seen has cancelled the context for everyone
\* (run.go: "If one component has failed, stop the whole context").
FailureCancels ==
    \A p \in Procs : proc[p] = "failed" /\ gor[p] \in {"leaving", "done"} => ctx

\* Only a signal or a component's failure stops a cluster: a component that
\* ends with status 0, or by SIGKILL or SIGINT, never does (run.go: the
\* ignored errors).
StopHasCause == ctx => sig \/ \E p \in Procs : proc[p] = "failed"

\* When wg.Wait returns, a child still runs only if its goroutine has not
\* executed wg.Add(1) yet (create.go: wait).
WaitReturns ==
    [][(pc # "ctxWait" /\ pc' = "ctxWait") =>
          \A p \in Procs : proc[p] = "running" => gor[p] = "spawned"]_vars

\* A cancelled context ends gtctl from every stage of creation and from Wait.
CancelEndsGtctl == ctx ~> ~Alive

\* A failure of a component that has its supervisor ends gtctl.
FailureEndsGtctl ==
    (Alive /\ \E p \in Procs : proc[p] = "failed" /\ gor[p] \in {"spawned", "waiting"})
        ~> ~Alive

\* Once main sleeps on the WaitGroup, a cancelled context ends every child
\* whose supervisor is registered (provided gtctl itself is not killed).
CancelStopsSupervised ==
    (pc = "wgSleep" /\ ctx)
        ~> \A p \in Procs : proc[p] = "running" => gor[p] = "spawned"

(***************************************************************************)
(* What a user sees of all this: the phases of module Lifecycle.  The      *)
(* components that may be started are those up to the health gate that     *)
(* creation has not passed yet.                                            *)
(***************************************************************************)
Gates == {Etcd, LastMetaSrv, LastDatanode, N}

GateOf(c) == CASE c = Etcd                  -> Etcd
               [] c \in Group(LastMetaSrv)  -> LastMetaSrv
               [] c \in Group(LastDatanode) -> LastDatanode
               [] OTHER                     -> N

Phase == CASE ~Alive  -> "ended"
           [] Waiting -> "serving"
           [] OTHER   -> "creating"

Outcome == CASE Alive         -> "none"
             [] result = "ok" -> "ok"
             [] OTHER         -> "failed"

Abstract == INSTANCE Lifecycle WITH
    phase     <- Phase,
    open      <- GateOf(cur),
    started   <- {p \in Procs : proc[p] # "none"},
    running   <- {p \in Procs : proc[p] = "running"},
    cancelled <- ctx,
    outcome   <- Outcome

\* Every step of the goroutines, children and signals is a step of Lifecycle
\* or none: components start once, in order and gate by gate, serving begins
\* with all of them started, nothing starts afterwards, and gtctl reports
\* success only for a cluster that served and was told to stop (create.go).
ImplementsLifecycle == Abstract!Spec

-----------------------------------------------------------------------------
(* What the code's comments and messages say, and the code does not do *)

\* create.go, Wait: "Wait for all the sub-processes to exit."
WaitsForAll == result = "ok" => \A p \in Procs : proc[p] # "running"

=============================================================================
