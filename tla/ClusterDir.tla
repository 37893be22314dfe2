----------------------------- MODULE ClusterDir -----------------------------
(***************************************************************************)
(* The directory ~/.gtctl/<cluster> of one bare-metal cluster, and the     *)
(* gtctl processes that use it: creators (gtctl cluster create), deleters  *)
(* (gtctl cluster delete) and getters (gtctl cluster get).  Nothing locks  *)
(* the directory; its metadata file names the foreground process, a        *)
(* creator, and delete asks the kernel whether that process is alive.      *)
(*                                                                         *)
(* A creator is one process: its identity stands for its pid and for the   *)
(* pids of its children, and pids are not reused.  The health gates, the   *)
(* downloads, the goroutines and the children of a creator are in          *)
(* Supervisor; here it takes the steps that touch the directory or decide  *)
(* who is alive, and no step asks whether a child still runs.              *)
(***************************************************************************)
EXTENDS Naturals, Sequences, FiniteSets

CONSTANTS
    Creators, Deleters, Getters,    \* gtctl processes, each runs one command
    StartOrder,                     \* the components, as they are started
    WalkOrder                       \* the components, in lexicographic order

Comps == {StartOrder[i] : i \in DOMAIN StartOrder}

ASSUME CompsAssumption ==
    /\ StartOrder \in Seq(Comps) \ {<<>>}
    /\ WalkOrder \in [DOMAIN StartOrder -> Comps]
    /\ Comps = {WalkOrder[i] : i \in DOMAIN StartOrder}
    /\ {"config", "pids"} \cap Comps = {}

ASSUME CreatorsAssumption == {"absent", "empty", "dir", "none"} \cap Creators = {}

VARIABLES
    base,       \* the cluster directory exists
    pidsDir,    \* its subdirectory pids exists
    config,     \* the metadata file: absent, empty, or naming a creator
    comp,       \* a component's subdirectories: absent, without pid file, or
                \* with the pid of a creator's child
    linked,     \* creators whose open metadata file has not been unlinked
    at,         \* where each creator is
    next,       \* the component each creator starts next
    dat,        \* where each deleter is
    dread,      \* the foreground process each deleter has read
    dlist,      \* what its RemoveAll has listed and not yet removed
    gat,        \* where each getter is
    shown,      \* the pid each getter shows for each component
    alone       \* history, no part of the code: the creator whose start no
                \* other command has met so far, if there is one

dirVars     == <<base, pidsDir, config, comp, linked>>
creatorVars == <<at, next>>
deleterVars == <<dat, dread, dlist>>
getterVars  == <<gat, shown>>
vars == <<dirVars, creatorVars, deleterVars, getterVars, alone>>

Running(c)  == at[c] \notin {"idle", "ended"}
Deleting(d) == dat[d] \in {"lookup", "read", "probe", "list", "remove"}
Preparing(c) == at[c] \in {"dirs", "createConfig", "writeConfig"}

Present ==
    (IF config # "absent" THEN {"config"} ELSE {})
    \cup (IF pidsDir THEN {"pids"} ELSE {})
    \cup {k \in Comps : comp[k] # "absent"}

Init ==
    /\ base = FALSE /\ pidsDir = FALSE /\ config = "absent" /\ linked = {}
    /\ comp = [k \in Comps |-> "absent"]
    /\ at = [c \in Creators |-> "idle"]
    /\ next = [c \in Creators |-> 1]
    /\ dat = [d \in Deleters |-> "idle"]
    /\ dread = [d \in Deleters |-> "none"]
    /\ dlist = [d \in Deleters |-> {}]
    /\ gat = [g \in Getters |-> "idle"]
    /\ shown = [g \in Getters |-> [k \in Comps |-> "none"]]
    /\ alone = {}

-----------------------------------------------------------------------------
(***************************************************************************)
(* Faulty variants of actions below, each a plausible slip in the code.    *)
(* No specification uses them; they show which property catches the slip.  *)
(***************************************************************************)

\* delete does not ask whether the foreground process is alive.
ProbeSkipped(d) ==
    /\ dat[d] = "probe"
    /\ dat' = [dat EXCEPT ![d] = "list"]
    /\ UNCHANGED <<dirVars, creatorVars, dread, dlist, getterVars>>

\* A pid file that exists already is kept as it is.
WritePidOnce(c) ==
    /\ at[c] = "pid"
    /\ comp[StartOrder[next[c]]] # "absent"
    /\ comp' = [comp EXCEPT ![StartOrder[next[c]]] = IF @ = "dir" THEN c ELSE @]
    /\ IF next[c] = Len(StartOrder)
       THEN at' = [at EXCEPT ![c] = "serving"] /\ UNCHANGED next
       ELSE /\ at' = [at EXCEPT ![c] = "ensure"]
            /\ next' = [next EXCEPT ![c] = @ + 1]
    /\ UNCHANGED <<base, pidsDir, config, linked, deleterVars, getterVars>>

\* The loop over the components runs once too often.
WritePidPastEnd(c) ==
    /\ at[c] = "pid"
    /\ comp' = [comp EXCEPT ![StartOrder[next[c]]] = c]
    /\ at' = [at EXCEPT ![c] = IF next[c] > Len(StartOrder) THEN "serving" ELSE "ensure"]
    /\ next' = [next EXCEPT ![c] = @ + 1]
    /\ UNCHANGED <<base, pidsDir, config, linked, deleterVars, getterVars>>

-----------------------------------------------------------------------------
(* Creators: NewCluster, CreateClusterScopeDirs, then one runBinary each *)

Goto(c, stage) == at' = [at EXCEPT ![c] = stage]

\* Whoever runs or deletes has a say in the directory that c begins to use, and
\* c in that of whoever runs.
Begin(c) ==
    /\ at[c] = "idle"
    /\ Goto(c, "dirs")
    /\ alone' = IF \/ \E b \in Creators : Running(b)
                   \/ \E d \in Deleters : Deleting(d)
                THEN {} ELSE {c}
    /\ UNCHANGED <<dirVars, next, deleterVars, getterVars>>

\* EnsureDir on the base directory and its three subdirectories.
EnsureDirs(c) ==
    /\ at[c] = "dirs"
    /\ base' = TRUE
    /\ pidsDir' = TRUE
    /\ Goto(c, "createConfig")
    /\ UNCHANGED <<config, comp, linked, next, deleterVars, getterVars>>

\* gtctl exits: its cluster is stopped, its creation fails or it is killed.  The
\* directory stays as it is.
End(c) ==
    /\ Running(c)
    /\ Goto(c, "ended")
    /\ UNCHANGED <<dirVars, next, deleterVars, getterVars>>

\* os.Create of the metadata file truncates the one of an earlier creator.
CreateConfig(c) ==
    /\ at[c] = "createConfig"
    /\ base
    /\ config' = "empty"
    /\ linked' = linked \cup {c}
    /\ Goto(c, "writeConfig")
    /\ UNCHANGED <<base, pidsDir, comp, next, deleterVars, getterVars>>

\* The write goes to the open file, which may have been unlinked.
WriteConfig(c) ==
    /\ at[c] = "writeConfig"
    /\ config' = IF c \in linked THEN c ELSE config
    /\ Goto(c, "ensure")
    /\ UNCHANGED <<base, pidsDir, comp, linked, next, deleterVars, getterVars>>

\* The component's subdirectories, with every missing parent (MkdirAll).  An
\* existing one is kept with the pid file it has.
EnsureComp(c) ==
    /\ at[c] = "ensure"
    /\ base' = TRUE
    /\ pidsDir' = TRUE
    /\ LET k == StartOrder[next[c]]
       IN  comp' = [comp EXCEPT ![k] = IF @ = "absent" THEN "dir" ELSE @]
    /\ Goto(c, "fork")
    /\ UNCHANGED <<config, linked, next, deleterVars, getterVars>>

\* The log file is created in the component's directory, and the child starts.
Fork(c) ==
    /\ at[c] = "fork"
    /\ comp[StartOrder[next[c]]] # "absent"
    /\ Goto(c, "pid")
    /\ UNCHANGED <<dirVars, next, deleterVars, getterVars>>

\* The pid file.
WritePid(c) ==
    /\ at[c] = "pid"
    /\ comp[StartOrder[next[c]]] # "absent"
    /\ comp' = [comp EXCEPT ![StartOrder[next[c]]] = c]
    /\ IF next[c] = Len(StartOrder)
       THEN Goto(c, "serving") /\ UNCHANGED next
       ELSE Goto(c, "ensure") /\ next' = [next EXCEPT ![c] = @ + 1]
    /\ UNCHANGED <<base, pidsDir, config, linked, deleterVars, getterVars>>

-----------------------------------------------------------------------------
(* Deleters: get, isClusterRunning, RemoveAll *)

Step(d, stage) == dat' = [dat EXCEPT ![d] = stage]

DelBegin(d) ==
    /\ dat[d] = "idle"
    /\ Step(d, "lookup")
    /\ alone' = {c \in alone : ~Preparing(c)}
    /\ UNCHANGED <<dirVars, creatorVars, dread, dlist, getterVars>>

\* os.Stat of the directory and of the metadata file.
DelLookup(d) ==
    /\ dat[d] = "lookup"
    /\ Step(d, IF base /\ config # "absent" THEN "read" ELSE "notExist")
    /\ UNCHANGED <<dirVars, creatorVars, dread, dlist, getterVars>>

\* An empty file unmarshals without error, to ForegroundPid 0.
DelRead(d) ==
    /\ dat[d] = "read"
    /\ Step(d, IF config = "absent" THEN "error" ELSE "probe")
    /\ dread' = [dread EXCEPT ![d] = IF config \in Creators THEN config ELSE "none"]
    /\ UNCHANGED <<dirVars, creatorVars, dlist, getterVars>>

\* Signal 0 to the foreground process; to pid 0 it is an error, which counts
\* as not running.
DelProbe(d) ==
    /\ dat[d] = "probe"
    /\ Step(d, IF dread[d] # "none" /\ Running(dread[d]) THEN "refused" ELSE "list")
    /\ UNCHANGED <<dirVars, creatorVars, dread, dlist, getterVars>>

\* RemoveAll lists the directory once, removes what it has listed, then the
\* directory itself.
DelList(d) ==
    /\ dat[d] = "list"
    /\ Step(d, "remove")
    /\ dlist' = [dlist EXCEPT ![d] = Present]
    /\ UNCHANGED <<dirVars, creatorVars, dread, getterVars>>

DelRemove(d) ==
    /\ dat[d] = "remove"
    /\ \E e \in dlist[d] :
          /\ e = "pids" => dlist[d] \cap Comps = {}
          /\ dlist' = [dlist EXCEPT ![d] = @ \ {e}]
          /\ config' = IF e = "config" THEN "absent" ELSE config
          /\ linked' = IF e = "config" THEN {} ELSE linked
          /\ pidsDir' = (pidsDir /\ (e = "pids" => \E k \in Comps : comp[k] # "absent"))
          /\ comp' = [k \in Comps |-> IF k = e THEN "absent" ELSE comp[k]]
    /\ UNCHANGED <<base, creatorVars, dat, dread, getterVars>>

\* The directory goes if it is empty; what appeared since the listing keeps it.
DelRmdir(d) ==
    /\ dat[d] = "remove"
    /\ dlist[d] = {}
    /\ base' = (base /\ Present # {})
    /\ Step(d, IF base' THEN "error" ELSE "ok")
    /\ UNCHANGED <<pidsDir, config, comp, linked, creatorVars, dread, dlist, getterVars>>

\* The deleter is killed.
DelDie(d) ==
    /\ Deleting(d)
    /\ Step(d, "error")
    /\ dlist' = [dlist EXCEPT ![d] = {}]
    /\ UNCHANGED <<dirVars, creatorVars, dread, getterVars>>

-----------------------------------------------------------------------------
(* Getters: get, collectClusterInfoFromBareMetal *)

GetBegin(g) ==
    /\ gat[g] = "idle"
    /\ gat' = [gat EXCEPT ![g] = "lookup"]
    /\ UNCHANGED <<dirVars, creatorVars, deleterVars, shown>>

GetLookup(g) ==
    /\ gat[g] = "lookup"
    /\ gat' = [gat EXCEPT ![g] = IF base /\ config # "absent" THEN "read" ELSE "notExist"]
    /\ UNCHANGED <<dirVars, creatorVars, deleterVars, shown>>

\* An empty file leaves Config nil, which is dereferenced.
GetRead(g) ==
    /\ gat[g] = "read"
    /\ gat' = [gat EXCEPT ![g] = CASE config = "absent" -> "error"
                                    [] config = "empty"  -> "panic"
                                    [] OTHER             -> "walk"]
    /\ UNCHANGED <<dirVars, creatorVars, deleterVars, shown>>

\* The walk ends at the first component directory without a pid file.
Reached(i) ==
    \A j \in DOMAIN WalkOrder : j < i => comp[WalkOrder[j]] # "dir"

\* WalkDir calls the function once with a nil entry if pids does not exist.
GetWalk(g) ==
    /\ gat[g] = "walk"
    /\ IF pidsDir
       THEN /\ gat' = [gat EXCEPT ![g] = "done"]
            /\ shown' = [shown EXCEPT ![g] =
                  [k \in Comps |->
                     IF comp[k] \in Creators
                        /\ \E i \in DOMAIN WalkOrder : WalkOrder[i] = k /\ Reached(i)
                     THEN comp[k] ELSE "none"]]
       ELSE /\ gat' = [gat EXCEPT ![g] = "panic"]
            /\ UNCHANGED shown
    /\ UNCHANGED <<dirVars, creatorVars, deleterVars>>

-----------------------------------------------------------------------------
Create(c) ==
    \/ Begin(c)
    \/ /\ \/ EnsureDirs(c) \/ CreateConfig(c) \/ WriteConfig(c)
          \/ EnsureComp(c) \/ Fork(c) \/ WritePid(c)
          \/ End(c)
       /\ UNCHANGED alone

Delete(d) ==
    \/ DelBegin(d)
    \/ /\ \/ DelLookup(d) \/ DelRead(d) \/ DelProbe(d)
          \/ DelList(d) \/ DelRemove(d) \/ DelRmdir(d) \/ DelDie(d)
       /\ UNCHANGED alone

Get(g) ==
    /\ GetBegin(g) \/ GetLookup(g) \/ GetRead(g) \/ GetWalk(g)
    /\ UNCHANGED alone

Next ==
    \/ \E c \in Creators : Create(c)
    \/ \E d \in Deleters : Delete(d)
    \/ \E g \in Getters : Get(g)

Spec == Init /\ [][Next]_vars

-----------------------------------------------------------------------------
(* Properties *)

TypeOK ==
    /\ base \in BOOLEAN /\ pidsDir \in BOOLEAN
    /\ config \in {"absent", "empty"} \cup Creators
    /\ comp \in [Comps -> {"absent", "dir"} \cup Creators]
    /\ linked \subseteq Creators
    /\ at \in [Creators -> {"idle", "dirs", "createConfig", "writeConfig", "ensure",
                            "fork", "pid", "serving", "ended"}]
    /\ next \in [Creators -> DOMAIN StartOrder]
    /\ dat \in [Deleters -> {"idle", "lookup", "read", "probe", "list", "remove",
                             "ok", "refused", "notExist", "error"}]
    /\ dread \in [Deleters -> {"none"} \cup Creators]
    /\ dlist \in [Deleters -> SUBSET ({"config", "pids"} \cup Comps)]
    /\ gat \in [Getters -> {"idle", "lookup", "read", "walk",
                            "done", "notExist", "error", "panic"}]
    /\ shown \in [Getters -> [Comps -> {"none"} \cup Creators]]
    /\ alone \subseteq Creators

\* A directory is removed with a foreground process that is dead for good, or
\* with metadata that names none, whatever was written to the file since it
\* was read (delete.go: Delete).
RemoverSawDeadOwner ==
    \A d \in Deleters :
        dat[d] \in {"list", "remove"} /\ dread[d] # "none" => at[dread[d]] = "ended"

(***************************************************************************)
(* The rest is about a creator that is alone: no other create ran or began *)
(* while it lives, and no delete was on its way when it began or began     *)
(* before it had written its metadata.  Nothing in the code keeps others   *)
(* away; a creator that is not alone may lose everything.                  *)
(***************************************************************************)

\* A live cluster whose creator is alone keeps its metadata and the pid of
\* every component it has started: deletes that begin later, and what killed
\* creates and deletes left before it, do not reach it (delete.go: Delete).
LiveClusterIntact ==
    \A c \in alone :
        Running(c) /\ ~Preparing(c) =>
            /\ config = c
            /\ \A i \in DOMAIN StartOrder :
                  i < next[c] \/ at[c] = "serving" => comp[StartOrder[i]] = c

\* A delete that goes on to remove does not meet a creator that is alone and
\* serving: "cluster is running, please stop it before deleting" (delete.go).
DeleteRefusesRunning ==
    [][\A d \in Deleters : dat[d] = "probe" /\ dat'[d] = "list" =>
          \A c \in alone : at[c] # "serving"]_vars

\* While a creator that is alone serves, every step of a get succeeds, and the
\* walk shows its pid for each component and nobody else's, whatever pid files
\* and half-removed directories it found when it began (get.go).
GetShowsServing ==
    [][\A g \in Getters, c \in alone :
          at[c] = "serving" /\ gat'[g] # gat[g] =>
             /\ gat'[g] \notin {"notExist", "error", "panic"}
             /\ gat'[g] = "done" => \A k \in Comps : shown'[g][k] = c]_vars

=============================================================================
