# A TLA+ model of gtctl

gtctl is the command-line tool of GreptimeDB: it creates, shows, scales,
connects to and deletes GreptimeDB clusters, on bare metal (child processes of
gtctl itself) or on Kubernetes (an operator's custom resources). This directory
holds TLA+ modules translated from its source, TLC configurations that check
them on small instances, and proofs checked by TLAPS. Paths below are relative to
`src/`.

| file | what it is |
|---|---|
| `Supervisor.tla` | one run of `gtctl cluster create --bare-metal` (and `playground`): main goroutine, supervisors, children, context |
| `Lifecycle.tla` | what such a run promises, in phases; `Supervisor` implements it |
| `ClusterDir.tla` | the cluster directory shared by several gtctl processes: create, delete, get |
| `Artifacts.tla` | one artifact in the cache and in `bin/`, shared by several gtctl processes |
| `KubeCluster.tla` | a cluster on Kubernetes: creates, scales and deletes at one API server |
| `Replicas.tla` | what these promise about the replicas; `KubeCluster` implements it |
| `Connector.tla` | `gtctl connect`: commands, their port-forwards, clients and goroutines |
| `Addresses.tla`, `ChartIndex.tla`, `Sources.tla`, `SetTexts.tla`, `HelmValues.tla` | pure algorithms, as operators |
| `Inputs.tla` | the pure algorithms over sets of inputs |
| `MC*.tla`, `MC*.cfg` | instances for TLC |
| `*Proofs.tla` | theorems about the module they are named after; those about `SetTexts` are in `HelmValuesProofs`, about `Addresses` and `Sources` in `InputsProofs` |
| `PROJECT.json` | components, runs, mutants, map to source lines, findings, hazards, theorems |

`tlc -config MCSupervisor.cfg MCSupervisor` runs a check, `tlapm
SupervisorProofs.tla` checks proofs.

## 1. Inventory

Each component with its state, its operations, what is hard about it and what
makes it correct.

### Bare-metal creation and supervision — `Supervisor`, `Lifecycle`
`pkg/cluster/baremetal/{cluster,create}.go`, `pkg/components/*.go`,
`cmd/gtctl/{cluster_create,playground}.go`.
*State*: the cluster context `c.ctx` (signals, derived from
`context.Background()`), the command's context (`--timeout`), one `sync.WaitGroup`,
per component the child process and its goroutine. *Operations*: `Create` (etcd
first, gated by `checkEtcdHealth`; then metasrv, datanode and frontend replicas,
the first two gated by HTTP health sweeps), `Wait`/`wait`, `runBinary`.
*Interaction*: supervisors call `stop` on the shared context; the watcher of
`exec.CommandContext` kills children on cancel; `Done` wakes main. *Hard*:
`wg.Add` inside the goroutine, failure of a step after the fork, cancel while a
sweep is in progress, two unrelated contexts, gtctl killed while children live.
*Correct when*: the WaitGroup counts what runs, components start in order and
are supervised, a failure or a signal ends everything, nothing else does.

### Cluster directory — `ClusterDir`
`pkg/metadata/manager.go`, `pkg/cluster/baremetal/{get,delete}.go`,
`cmd/gtctl/cluster_{get,delete}.go`.
*State*: `~/.gtctl/<name>` with the metadata file (whose `ForegroundPid` names the
creating gtctl), `pids/`, `logs/`, `data/`. *Operations*: create directories and
metadata, write pid files, look up, read, probe the process, remove, walk pids.
*Hard*: nothing locks the directory; the file is empty between create and write;
kills leave any prefix behind; two creates of one name; `RemoveAll` is not atomic.
*Correct when*: no live cluster's directory is removed, and get shows a serving
cluster as it is.

### Artifacts — `Artifacts`, `Sources`, `ChartIndex`
`pkg/artifacts/*.go`, the paths in `pkg/metadata/manager.go`,
`pkg/utils/file/file.go`, `pkg/helm/loader.go`.
*State*: the package file in `pkg/`, the executables in `bin/`. *Operations*:
latest version, URL, path, cache check, download, extraction, renames. *Hard*: the
cache is trusted by the existence of a file; downloads truncate each other's;
failures and kills half-way; the slice that is cut while it is scanned. *Correct
when*: what is reported as installed is complete, and a file name means one
artifact.

### Kubernetes operations and client — `KubeCluster`, `Replicas`
`pkg/cluster/kubernetes/*.go`, `pkg/kube/client.go`, `cmd/gtctl/cluster_{scale,
delete}.go`.
*State*: objects at the API server and their readiness. *Operations*: apply the
manifests of operator, etcd and cluster, each followed by a wait; scale; delete.
*Hard*: item-by-item apply that fails half-way, polls with or without a timer,
errors ignored by one wait and fatal to another, read-modify-write of the custom
resource, answers that get lost after the call took effect. *Correct when*: the cluster never exists without its operator, scales
are not lost, waits end, and a failed create can be repeated.

### Connectors — `Connector`
`pkg/connector/{mysql,postgres}.go`, `pkg/cluster/kubernetes/connect.go`,
`cmd/gtctl/cluster_connect.go`.
*State*: the `kubectl port-forward` and the client child, a goroutine, the
variable `cmd`. *Hard*: one variable for both children, read by a goroutine; a
retry loop without bound; a port that another forward already serves. *Correct
when*: a command ends as and when its client does, and so does the forward.

### Addresses and arguments — `Addresses`; Helm values — `SetTexts`, `HelmValues`
`pkg/components/*.go`; `pkg/helm/values.go`, `pkg/config/kubernetes.go`,
`pkg/utils/file/yaml.go` and what the creates append. Pure. *Correct when*:
replicas get distinct ports and are probed where they listen; later sources of a
value win and nothing else is lost.

### Not modelled
- **Configuration validation** (`pkg/config/validate.go`): tags evaluated by a library.
  What is used of it, positive replica counts and well-formed addresses, is in
  `ReplicasAssumption` and `ValidConfigs`.
- **Logger** (`pkg/logger`): formatting and levels. Its buffer pool and writer lock
  are three straight-line calls in the safe order; a property would restate it.
- **Plugins** (`pkg/plugins`, `cmd/gtctl/main.go`): a sequential search of PATH and
  one exec, without state.
- **Versions** (`pkg/utils/semver`, `pkg/version`): parsing is a library's, the rest
  constants. The one comparison that decides a name is in `Sources`.
- **Progress spinner** (`pkg/status`): terminal output.
- **Get and list on Kubernetes, the table of get on bare metal, dry run**: they read
  and print. The kubeconfig and the discovery of resources likewise.
- **Archive formats** (`pkg/utils/file`): paths, modes and links inside archives are
  left out; unpacking is one step that succeeds on a whole package only.
- **The operator, GreptimeDB, etcd, kubectl, the API server, Helm's parser and
  renderer**: external; only their answers appear.

## 2. Supervisor and Lifecycle

One behaviour is one run of gtctl. Every action is one atomic piece of one
goroutine or of the outside world, and all of them interleave.

| state | code |
|---|---|
| `pc`, `cur`, `retry`, `swept` | the main goroutine: where it is in `Create`/`Wait`, the component at hand, tries of `checkEtcdHealth`, answers in the current `IsRunning` sweep |
| `proc[p]`, `gor[p]` | the child of component `p`; the `go func()` of `runBinary` |
| `wg`, `ctx` | `c.wg`, `c.ctx` |
| `sig`, `result` | a signal arrived; how gtctl ended |

Components are numbered in start order: etcd, metasrvs, datanodes, frontends.
`ResolveArtifact`, `Prepare`, `Fork` and `Record` are the code up to, around and
after `cmd.Start`; each has the error return the code has there (`Fail`), and
`Record` that of the pid file, which leaves a running child without a goroutine.
`CheckEtcd` reads etcdctl's rows in order as the code does, with the
out-of-range index on a short row. `GoAdd`, `GoReap` and `GoDone` are the
goroutine; `WgWait`, `WgWake` and `CtxWait` are `wait`, with the panic that
`sync.WaitGroup` raises when it is reused before a waiter left. `Crash` is a kill
of gtctl: nothing in it runs afterwards, children do.

Abstractions. A health probe is answered or not, nondeterministically: something
else may listen on the port, so an answer does not imply a running child. The
pid file's creation and write are one step (no other action of this module reads
it). The log flush in the goroutine changes no state modelled. A signal reaches
the cluster context in one step; a second one is swallowed, since `stop` of
`signal.NotifyContext` has not been called. The command's context reaches
downloads only, where its end is one of the failures of `ResolveArtifact`. Which
error a failed step returns, and how a child ends after gtctl, is not
distinguished.

**Lifecycle** is the abstract specification: a cluster is creating, serving or
ended; components are started once, in order, behind one gate at a time (etcd,
the last metasrv, the last datanode, the last frontend); serving begins with all
of them; success needs serving and a cancelled context; components may be lost at
any time, and nothing starts after the end. The refinement mapping (`Abstract`)
computes phase, gate and outcome from `pc`, `cur` and `result`, and reads the
started and running components off `proc`.

**Fairness** (`Fairness`): goroutines that can run do run, by the Go scheduler;
kills sent by the watcher arrive; etcdctl ends, by its own timeout. Downloads end
with the command's context. The lookup of the latest version, which is part of
`ResolveArtifact`, uses `context.Background()` and clients without a timeout
(`artifacts/manager.go:371`): that it returns is an assumption about GitHub and
the bucket. Requests of a sweep *in progress* return, but no sweep need succeed:
components may never be healthy. That requests return is an assumption, too:
`http.Get` has no timeout, so it holds when the listener is a child, whose
connections close when the cancelled context kills it, and not for a foreign
listener that accepts and never answers. The health loop's `select` gets strong
fairness on its `ctx.Done` branch only: a sweep in progress disables it again and
again, and between sweeps `Done` is the branch that stays ready while the ticker
is ready every 500 ms. Nothing is assumed of signals, children or users.

### Runs

| run | instance | shows |
|---|---|---|
| `supervisor` | 1+1+1 replicas, 2 etcd tries, four outputs of etcdctl (1.1 M states) | `TypeOK`, `WgCount`, `StartOrder`, `FailureCancels`, `StopHasCause`, `WaitReturns`, and the refinement `ImplementsLifecycle` |
| `supervisor_live` | 2 metasrvs, 1+1; no kill of gtctl, and at most one child ends by itself (491 k states) | `CancelEndsGtctl`, `FailureEndsGtctl`, `CancelStopsSupervised`, also while a sweep over two replicas hides the context |
| `waits_for_all` | 1+1+1 | **violated**: main returns 0 while a child runs that had not reached `wg.Add(1)` |

Bounds. One replica of each kind gives four supervisors, which is enough for
every relation between two of them and main, and passes every stage and gate;
the counter reaches zero and is raised again within it. `EtcdRetries` is 2 (10 in
the code): one retry and the give-up both occur. etcdctl's outputs contain a
leader or a follower row, with the empty row after the final newline and (for a
wrapper installed under that name) without it. `LiveSpec` stops at gtctl's exit
and leaves out the kill, which ends gtctl at once and so satisfies each
consequent. It lets one child, whichever and at any time, end by itself, with or
without a failure, and the others by the cancelled context only: this affords the
two replicas that a sweep needs to hide the context between them. Two failures
in one life are in the `supervisor` run. `CHECK_DEADLOCK FALSE`: gtctl exits, and a
cluster without a signal waits forever; both are legal ends.

### Proofs (`SupervisorProofs`)

From `ReplicasAssumption` (positive replica counts) and `EtcdAssumption` (at least
one try; outputs are nonempty sequences of rows), for every number of replicas:
`Typing`, `StartsInOrder`, `CountsRegistered`, `WaitReturnsReaped`, `FailuresCancel`,
`StopsForCause` and `RefinesLifecycle`, each a property of the `supervisor` run.

`TypeOK` alone is not inductive: that `cur + 1` is a component and `wg - 1` a
natural depend on the order of starts and on what is counted. The inductive
invariant `Inv` is therefore `TypeOK`, `StartOrder`, `WgCount` and `ReapedEnded` (a
supervisor beyond `cmd.Wait` has a child that ended). `OrderStep` shows that each
action preserves types, order and `ReapedEnded`; `CountStep` that it preserves the
count, by adding or removing exactly one member of the finite set `Registered`.
`WaitReturnsReaped` looks at the two
steps into `ctxWait`: both see `wg = 0`, so `Registered` is empty, so a child still
running has a goroutine that is only spawned — the gap `waits_for_all` exploits is
the only one. `FailuresCancel` and `StopsForCause` come from `Causes`, inductive
relative to `Inv`. `RefinesLifecycle` maps each action, under `Inv`, to a step of
`Lifecycle` or to a stutter: a fork to `Start`, a passed gate to `Open`, the end
of creation to `Serve`.

## 3. ClusterDir

Any number of creators, deleters and getters act on one directory; each step is
one file-system or process call (or a run of them that no other process can
tell apart). A creator's identity stands for its pid and those of its children;
pids are not reused.

| state | code |
|---|---|
| `base`, `pidsDir`, `config`, `comp[k]` | the directory; `pids/`; the metadata file (absent, empty, naming a creator); the subdirectories of component `k` (absent, without pid file, with a pid) |
| `linked` | creators whose open metadata file is still in the directory: a write after a delete goes to an unlinked file |
| `at`, `next` | each creator's stage, next component |
| `dat`, `dread`, `dlist` | each deleter's stage, the pid it read, what `RemoveAll` still has to remove |
| `gat`, `shown` | each getter's stage and the pids it shows |
| `alone` | history, no part of the code: see below |

`EnsureDirs` … `WritePid` are `CreateClusterScopeDirs` and `runBinary`; the file is
empty between `CreateConfig` and `WriteConfig`. `End` is the
end of a gtctl, by a stop, a failed creation or a kill: the directory stays. No
step here asks whether a child still runs; children are in `Supervisor`. `DelProbe` is `isClusterRunning`, where pid 0 (an empty
file) counts as not running. `DelList`/`DelRemove`/`DelRmdir` are `os.RemoveAll`:
entries removed in any order among those listed, then the directory if it is
empty. `GetWalk` is `collectPidsForBareMetal`, which ends at the first component
directory without a pid file, in lexicographic order.

Abstractions. A component's directories under `pids/`, `logs/` and `data/` are one
value. The walk of `get`, `MkdirAll`, and the pid file's create and write are one
step each. `RemoveAll` lists the directory once, as Go's does with fewer than 1024
entries: what appears after the listing makes the final removal fail.

**Alone.** Nothing keeps gtctl processes away from each other, and a creator that
another one or an earlier delete crosses may lose everything: a second create of
the name takes the metadata file over, dies, and delete then removes the first,
serving cluster. What is claimed of all behaviours is `RemoverSawDeadOwner`. The
other properties are about a creator that is *alone*, which is read off the
behaviour and restricts no step: no other create ran when it began or began while
it lives, and no delete was on its way when it began or began before its metadata
was written. `Begin` and `DelBegin` keep the set up to date. Deletes and gets during
its life, whatever killed creates and deletes left before it, and gets that began
on an older state, are all met by such a creator.

| run | instance | shows |
|---|---|---|
| `cluster_dir` | 2 creators, 2 deleters (each symmetric), 1 getter (2.0 M states) | `TypeOK`, `RemoverSawDeadOwner`, `LiveClusterIntact`, `DeleteRefusesRunning`, `GetShowsServing` |

Bounds. Two components whose start order and lexicographic order differ, as
etcd's and datanode.0's do, give a first, a last and a hidden one. Two creators
are needed for a stale owner, for a takeover and for pid files left by a killed
create; two deleters for a killed delete followed by another. Three creators
repeat these pairs; getters do not act on anything.
`CHECK_DEADLOCK FALSE`: every process runs one command and ends. No liveness is
claimed here: every process may be killed and none waits for another.

### Proofs (`ClusterDirProofs`)

From `CompsAssumption` (a nonempty sequence of components, none named like the
other entries of the directory) and `CreatorsAssumption` (creators are none of the
special values), for any processes and components, all five properties: `Typing`,
`RemovesDeadOwners`, `LiveStaysIntact`, `DeletesRefuseRunning` and `GetsShowServing`.

The probe says only that the process read is not running now. That it *has ended*,
and will stay so while the directory is being removed, needs `Owners`: whatever the
metadata names, and whatever a deleter has read, has begun (`CreatorsAdvance`: no
step takes a creator back). The cluster of a creator that is alone is intact
(`Kept`) because nothing is being removed while it lives: it is the only one that
runs and finds its directories and its open file in place (`Undisturbed`), no
delete was on its way when it wrote its metadata, and one that comes later reads
that creator from the metadata and finds it alive (`KeepsOff`). What a killed delete
had listed does not matter, since it removes nothing more. When it serves, every
pid file is therefore its own (`ServingFiles`), so that a walk ends at none and
shows them all (`WalkShowsAll`).

## 4. Artifacts

A client is one `DownloadTo` and what follows: `installBinaries`, or the loading of
a chart. Any number of them share one artifact version, each with or without the
cache. The package is a set of chunks; every client writes the same bytes at the
same offsets, so the file is whole when it holds all chunks, whoever wrote them.

| state | code |
|---|---|
| `exists`, `chunks` | the file in `pkg/` and what it holds |
| `at`, `hit`, `written`, `staged` | each client's stage, whether it skipped the download, chunks written, executables in its temporary directory |
| `installed` | the executables in `bin/` |
| `owner`, `raced` | history: who emptied or replaced the file last; whom that overtook |

`Fetch` reads the whole body before `CreateFile` truncates the file; `WriteChunk` may
stop half-way and leaves what it wrote; `PullOCI` writes aside and renames. A
package with a hole cannot be unpacked or loaded. `Rename` moves one executable
and any of them can fail. `Kill` hits anywhere.

| run | instance | shows |
|---|---|---|
| `artifacts` | 3 clients (symmetric), 2 executables, 2 chunks (279 k states) | `TypeOK`, `PartialHasWriter`, `BadPackageHasCause`, `OkMeansInstalled` |

Three clients are needed for a download overtaken by a second while a third reads
the cache; two chunks for a hole that is not the whole file; two executables for
a partial installation. Liveness is not claimed: a client may fail at every step.

What the properties bound is real: with the cache on, the partial file of a
killed or failed write makes every later create fail until the user removes it;
`PartialHasWriter` says that only these two leave one, and `BadPackageHasCause`
that nobody else meets one, save by being overtaken.

**Proofs** (`ArtifactsProofs`), from `ArtifactAssumption` (at least one chunk), for
any clients and executables: all four properties. The inductive invariant adds
what a client at work knows of the file: unless it was overtaken, it holds what
the client has written, and the owner of a partial file is still writing or could
not finish; and `Moved`: what a client has unpacked is staged or installed, which
no other client's renames take back.

## 5. KubeCluster and Replicas

Creators, scalers and deleters share the objects at the API server: CRD and
Deployment of the operator, Service and StatefulSet of etcd, and the custom
resource. `Plan` is the sequence of a create: two manifests and a wait for the
operator, the same for etcd, then the resource and its wait.

| state | code |
|---|---|
| `objs`, `exists`, `spec`, `ready` | what is at the API server; the replicas; readiness conditions |
| `scaled`, `fresh` | the field's last manager; a read copy's resource version is the current one |
| `pos`, `outcome`, `ctxDone` | each creator's place in the plan, end, context |
| `sat`, `copy`, `sctxDone` | each scaler's stage, the object it read, context |
| `dat` | each deleter's stage |
| `calm` | the API server has settled |

Server-side apply is refused for a field that a scale has changed (`Conflict`: the
code does not force), an update for an object that changed since it was read.
`Poll` has the asymmetry of the three waits: an error of the lookup ends the
waits for the operator and for etcd and is taken for "not ready" by the wait for
the cluster, that of its own context included, so that only its timer ends it.
The timer of every wait is given the whole `--timeout` anew; a timeout of zero or
less arms none (`Untimed`). Scale never has one. `DelGet` reports every error of
the lookup as "not found", and `DelCluster` goes before etcd. The command line
passes no option to tear down etcd (`cluster_delete.go:67`); the library's `Delete`
has it, and so do the deleters in `TearDown`. A delete is immediate: finalizers and the
garbage collection of what a resource owns are left out, and so is a create that
meets objects which are still going away.

A call that changes something may fail in two ways: it has no effect, or it has
its effect and the answer is lost. A create or a delete then stops like at any
other error (its later steps are not taken); a scale ends as "lost", reporting an
error though its replicas are set.

**Replicas** is the abstract specification: a cluster that begins has the chart's
replicas; while it is there they change only by scales, each of one component, in
one step and at most once; a scale reports success only when it has taken
effect, and what reports an error may have. The mapping (`Store`) shows the
replicas of the resource (the chart's when there is none), counts a scale as
taken from its update on, and reads what it has reported off `sat`. The reads and
copies of a scale, all steps of a create but the one that makes the resource, and
the controllers are stutters of it.

**Fairness.** `CreatorFairness`: a create that was started goes on, its calls return
and its timers fire (calls use the context; polls are timed by the library); once
`calm`, controllers make ready what can be. `Settle`, after which nothing fails,
expires, deletes or scales, is never forced: `CreateHeals` is a statement about
what is left when it happens. `ScalerFairness` says the same of scales.

| run | instance | shows |
|---|---|---|
| `kube_cluster` | 2 creators (one untimed), 2 scalers of different components (one timed), a deleter with teardown (958 k states) | `TypeOK`, `ClusterHasOperator`, `ScaleKept`, and the refinement `ImplementsReplicas` |
| `kube_live` | the same with one scaler, fair creates (132 k states) | `DoneCreateEnds`, `CreateHeals` |
| `scale_timeout` | 1 creator, 1 timed scaler, fair | **violated**: a scale polls on after its `--timeout` |

Two creators are needed for a create that meets the leftovers of another, two
scalers for a lost update; each command's stages all occur with one deleter. What
a creator meets of scales is whether one has changed the chart's replicas, for
which one scaler is enough in `kube_live`. `CHECK_DEADLOCK FALSE`: commands end.

**Proofs** (`KubeClusterProofs`), from `KubeAssumption`, for any commands and
components: `Typing`, `ClustersHaveOperators`, `ScalesAreKept` and
`RefinesReplicas`. The first safety property needs `Installed` (a creator past the
operator's manifests has applied them, and nobody deletes these), the second
`CopyIsCurrent` (a copy that is fresh equals the resource, so that writing it back
changes one component only). The refinement needs both of these kinds of facts:
an update writes a whole copy back, and is a step of one component only because
of `CopyIsCurrent`; a create applies the whole chart, and is a stutter on an existing
cluster only because of `ChartKept` (a field that no scale manages has the chart's
value) and of `Conflict`, which refuses it for the other fields. `StoreStep` has a
case per action: `StoreStutters` and `OthersTold` for those that leave the replicas
and the reports alone, `CreateLeavesReplicas` for the apply of the resource,
`ScalerStores` for the stages of a scale.

## 6. Connector

Each command looks up the cluster, starts `kubectl port-forward`, tries the local
port until someone answers, assigns `cmd` to the client, runs it and kills what
`cmd` refers to. Its goroutine reads `cmd` when it is scheduled (`WaiterReads`): the
forward, the client, or one that is not started. A process's status can be had
once (`reaper`). A forward that finds its port taken exits, and the command then
talks through the other's (`via`). The error of closing the test connection ends the
command, but for `os.ErrProcessDone`, which is taken for success without any client
(`mysql.go:93`): no driver is known to return it, and it is a branch all the same. Only "not found" ends `Lookup` well; any other
error is a nil dereference. The postgres connector differs only in that closing
its test connection has no error, which is the first branch of `NewClient`.

**Fairness**: a command and its goroutine go on when they can, and a forward gets
to its port. The try loop has no delay, so it sees a port that stays served.
Nobody has to end a client, a forward or a command.

| run | instance | shows |
|---|---|---|
| `connector` | 2 commands on one port (47 k states) | `TypeOK`, `OnlyRaceLosesOk`, `ServedConnects`, `ClientEndEnds` |
| `port_forward_stops` | the same | **violated**: after a client's success the forward goes on serving |

Two commands on one port give every relation that commands have; on different
ports they have none.

**Proofs** (`ConnectorProofs`), for any commands and ports: `Typing` and
`RaceAloneLosesOks`. The invariant adds that a client starts only
out of "assigned" (`NotYetStarted`), that the goroutine has only the status of a
client that ended (`ReapedEnded`), and that a command that failed leaves no client
that could still succeed (`FailedWithout`).

## 7. Inputs: the pure algorithms

`Inputs` takes one input of a given set in one step; its invariants compare each
algorithm with what it must compute. `MCInputs` gives the sets for TLC (34 k
states); the theorems hold for any.

| module | translates | property | inputs in `MCInputs` |
|---|---|---|---|
| `Addresses` | `FormatAddrArg`, `BuildArgs`, `IsRunning`, metasrv's default bind address | `AddressesMeetWhenClose`, `ReplicasProbed` | base ports that can come close, 1–3 replicas, listeners absent or present, on localhost, any or another interface |
| `ChartIndex` | `chartIndexFile`, `latestChartVersion` | `IndexCleaned`, `IndexLatest` | up to 3 arbitrary entries and 4 with URLs; nil, bare and invalid ones included |
| `Sources` | `NewSource`, `resolveLatestVersion`, URLs, file names, cache paths | `LatestDownloads`, `CacheKeysSound` | versions 1 to 3 around the one that changed the names, published with gaps, both regions, known and latest versions |
| `SetTexts` | `SetValues.Parse`, what the creates append, `struct2Values` | `ValuesPrecedence` | up to 3 pieces of `--set`, with and without flags, each chart, both regions |
| `HelmValues` | `mergeMaps`, `ToHelmValues` | `ValuesMerged` | all pairs of maps of two keys and two levels, with the leaves of the one told from those of the other |

`ReplicasProbed` compares host and port: a metasrv or datanode on an interface other
than localhost is asked on localhost, where it does not listen, and the property
says that these are the only ones missed. A world of `Sources` says which versions
of each artifact are published, upstream and in the bucket, with any gaps.
`LatestDownloads` states its exception exactly: outside CN the latest etcd binary is
looked for under GreptimeDB's version, and is there only if etcd happens to have
published that one, too, which it has not (GreptimeDB counts 0.x, etcd 3.x).
`CacheKeysSound` tells packages by artifact and version; that both regions hold the
same bytes for one version is not known here. `ValuesPrecedence` has the premises that Helm parses
the text, and that the text of `--set` does not run into what is appended without a
comma (`Glued`). `IndexLatest` needs a list without nil and bare entries whose last entry is
valid: an invalid last entry stays, since nothing to its right overwrites it; the
sort dereferences nil entries, and the scan already dereferences the metadata of a
bare one, which lists no field of it (`manager.go:330`), and panics. The
ports of etcd are its own and left out of `Addresses`.

The recursion of the code is written as recursive functions over bounded numbers:
`Routed` over the pieces read, `Scan` over the entries looked at, `MapsTo` and
`MergeMaps` over the levels of the maps (a map of `Depth` levels holds leaves and maps
of one level less; the depth of a YAML file is finite, and `Depth` is any number),
`Along` over a path.

| run | instance | shows |
|---|---|---|
| `inputs` | the sets above (34 k states) | the eight properties |
| `set_counts` | the same | **violated** (`SettingsCount`): the last `--set` value of a chart is garbled by what is appended |

`SettingsCount` is the promise of the flag's help text, without the premise on
`Glued`. For etcd something is always appended, so that every `--set` text without a
trailing comma falls short of it, the help text's own `etcd.key2=val2` included.

### Proofs (`InputsProofs`, `ChartIndexProofs`, `HelmValuesProofs`)

Each invariant of `inputs` is a theorem `Spec => []...` of `InputsProofs`, for any sets
of inputs that `InputsAssumption` admits: configurations that pass validation
(`ValidConfigs`: positive replica counts, well-formed addresses, absent where the
field's tag lets them be), indexes of any length (`IndexEntries`, nil and bare
entries and unparsable versions included), maps of any finite depth over any keys and leaves,
texts of any number of pieces, worlds with any
published and latest versions. The value-level
theorems behind them:

- `PortsOfReplicas`: the replicas of a listener have an interval of ports, and two
  intervals meet exactly when each begins before the other ends (`IntervalsMeet`).
  `ProbesReachListeners` follows the `http` listener, host and port, through both
  computations (`HttpListener`).
- `LatestVersionsExist`, `CacheFilesAreOfOneArtifact`: `SourceForm` says what a source is
  and that its URL is the one its server has for that version; `URLsDiffer`, that
  no two packages have one URL.
- `CleaningKeepsValid`, `LatestVersionIsHighest`: the state of the scan before each entry
  (which part of the array is untouched, what the rest holds), by induction
  downwards over the entries.
- `LayersCountInOrder`: what the pieces give a chart ends each key as the pieces do,
  by induction over the pieces (`RoutedKeeps`); then what a concatenation ends a key
  as (`SecondCounts`, `FirstCounts`), for flags, config and suffix in this order.
- `MergeDecidesByPath`: one key further (`MergeStep`), by induction over the path,
  at each place of which the maps have one level less.

The provers cannot instantiate the library's induction theorems, which take an
operator as a parameter. The inductions here are over sets of numbers instead:
`LeastNumber` (every nonempty set of naturals has a least element, from
`NatLessThanWellFounded` and `WFMin`) and its consequence `Upwards`, whose parameter is
the *set* of numbers for which the claim holds. In the same way the lemmas
`...IsDefined`/`...AreDefined` show that a function with each recursive definition
exists, so that the definition, a `CHOOSE`, has the value that the equation gives
it.

## 8. What is only model-checked

The seven liveness properties, `CancelEndsGtctl`, `FailureEndsGtctl`,
`CancelStopsSupervised`, `DoneCreateEnds`, `CreateHeals`, `ServedConnects` and `ClientEndEnds`: they rest on
fairness, hence on `ENABLED`, which is out of the prover's reach. Every invariant and
every refinement that a passing run checks is a theorem for all values of the
constants. The four violation runs are counterexamples, for TLC only.

## 9. Faulty variants

The operators under "Faulty variants" are no part of any specification. Each is a
definition with one plausible slip (a forgotten `wg.Add`, an ignored error, a
skipped probe, a loop that runs once too often); put in place of the original it
makes the property that `PROJECT.json` pairs it with fail, which shows that the
property depends on that piece of the code.

## 10. Where code and text disagree

Shown by runs: the `WaitGroup` that does not wait for a goroutine not yet scheduled
(`waits_for_all`); the `--timeout` of scale (`scale_timeout`); the port-forward that is
not stopped (`port_forward_stops`); the `--set` text that runs into what create appends
(`set_counts`): without a trailing comma the last value for the operator or the
cluster is garbled with artifacts from CN, and the last one for etcd always, the
example of `cluster_create.go:95` included.

Met while modelling, and behaviours of the models, though no run is spent on
them: a failed creation announces a shutdown and stops nothing; `checkEtcdHealth`
panics on the first output without a leader, and its retries never happen;
`--timeout` does not bound the wait for health on bare metal; delete does not look
at components that outlived gtctl; a metasrv or datanode configured on another
interface is asked on localhost
instead; an index entry without metadata panics; the
latest etcd binary outside CN is one that does not exist; get hides the components that sort after a
directory without a pid file, and calls a directory without metadata
non-existent; a delete on Kubernetes reports every failed lookup as "not found",
and after a failed teardown never reaches etcd again; a lookup error other than
"not found" makes connect dereference nil.

Read in the code and outside the models: get looks metasrv's pid up under another
name than its directory has (`get.go:119`); etcd is created in `Namespace` while the
cluster is told to find it in `EtcdNamespace` (`cluster_create.go:172`); `--set` is
split at every comma, those inside a value included (`config/kubernetes.go:54`);
the port-forward always goes to namespace default (`mysql.go:51`).

## 11. Plan

Done: all of the modules above with their runs and proofs. What could follow:

1. `Artifacts` and `Supervisor` composed: the outcome of `ResolveArtifact` from the
   shared cache, for two creates at once.
2. An abstract installation (absent or whole) that `Artifacts` implements when
   the cache is off, with the refinement proved.
3. An abstract session (waiting, connected, ended) that `Connector` implements,
   with the refinement proved.
4. `KubeCluster` with a status generation, for what scale's success means of the
   replicas (`scale.go:44` reads a status from before the update).
