-------------------------- MODULE ClusterDirProofs --------------------------
(***************************************************************************)
(* Proofs about ClusterDir, for any sets of creators, deleters and getters *)
(* and any components.                                                     *)
(***************************************************************************)
EXTENDS ClusterDir, TLAPS

-----------------------------------------------------------------------------
(* The components *)

LEMMA StartOrderFacts ==
    /\ Len(StartOrder) \in Nat
    /\ DOMAIN StartOrder = 1 .. Len(StartOrder)
    /\ 1 \in DOMAIN StartOrder
    /\ \A i \in DOMAIN StartOrder : StartOrder[i] \in Comps
<1>1. StartOrder \in Seq(Comps) /\ StartOrder # <<>>
  BY CompsAssumption
<1>2. Len(StartOrder) \in Nat /\ DOMAIN StartOrder = 1 .. Len(StartOrder)
  BY <1>1
<1>3. Len(StartOrder) # 0
  BY <1>1
<1>4. QED
  BY <1>2, <1>3 DEF Comps

-----------------------------------------------------------------------------
(* Types *)

LEMMA InitTypes == Init => TypeOK
<1> SUFFICES ASSUME Init PROVE TypeOK
  OBVIOUS
<1>1. next \in [Creators -> DOMAIN StartOrder]
  BY StartOrderFacts DEF Init
<1>2. shown \in [Getters -> [Comps -> {"none"} \cup Creators]]
  BY DEF Init
<1>3. QED
  BY <1>1, <1>2 DEF Init, TypeOK

\* A creator's steps keep the types: the component it starts next exists, the
\* last one having sent it to "serving".
LEMMA CreateTypes ==
    ASSUME TypeOK, NEW c \in Creators, Create(c)
    PROVE  TypeOK'
<1>0. alone' \subseteq Creators
  BY DEF Create, Begin, TypeOK
<1> USE <1>0 DEF TypeOK, Goto, dirVars, creatorVars, deleterVars, getterVars
<1>1. CASE Begin(c)
  BY <1>1 DEF Begin
<1>2. CASE EnsureDirs(c)
  BY <1>2 DEF EnsureDirs
<1>3. CASE CreateConfig(c)
  BY <1>3 DEF CreateConfig
<1>4. CASE WriteConfig(c)
  BY <1>4 DEF WriteConfig
<1>5. CASE EnsureComp(c)
  BY <1>5, StartOrderFacts DEF EnsureComp
<1>6. CASE Fork(c)
  BY <1>6, StartOrderFacts DEF Fork
<1>7. CASE WritePid(c)
  <2>1. next[c] \in DOMAIN StartOrder /\ StartOrder[next[c]] \in Comps
    BY StartOrderFacts
  <2>2. comp' \in [Comps -> {"absent", "dir"} \cup Creators]
    BY <1>7, <2>1 DEF WritePid
  <2>3. next' \in [Creators -> DOMAIN StartOrder]
    <3>1. next[c] # Len(StartOrder) => next[c] + 1 \in DOMAIN StartOrder
      BY <2>1, StartOrderFacts
    <3>2. QED
      BY <1>7, <3>1 DEF WritePid
  <2>4. QED
    BY <1>7, <2>2, <2>3 DEF WritePid
<1>8. CASE End(c)
  BY <1>8 DEF End
<1>9. QED
  BY <1>1, <1>2, <1>3, <1>4, <1>5, <1>6, <1>7, <1>8 DEF Create

LEMMA DeleteTypes ==
    ASSUME TypeOK, NEW d \in Deleters, Delete(d)
    PROVE  TypeOK'
<1>0. alone' \subseteq Creators
  BY DEF Delete, DelBegin, TypeOK
<1> USE <1>0 DEF TypeOK, Step, dirVars, creatorVars, deleterVars, getterVars
<1>1. CASE DelBegin(d)
  BY <1>1 DEF DelBegin
<1>2. CASE DelLookup(d)
  BY <1>2 DEF DelLookup
<1>3. CASE DelRead(d)
  BY <1>3 DEF DelRead
<1>4. CASE DelProbe(d)
  BY <1>4 DEF DelProbe
<1>5. CASE DelList(d)
  BY <1>5 DEF DelList, Present
<1>6. CASE DelRemove(d)
  <2>1. PICK e \in dlist[d] : DelRemove(d)!2!(e)
    BY <1>6 DEF DelRemove
  <2>2. comp' \in [Comps -> {"absent", "dir"} \cup Creators]
    BY <2>1
  <2>3. dlist' \in [Deleters -> SUBSET ({"config", "pids"} \cup Comps)]
    BY <2>1
  <2>4. pidsDir' \in BOOLEAN /\ linked' \subseteq Creators
        /\ config' \in {"absent", "empty"} \cup Creators
    BY <2>1, Zenon
  <2>5. QED
    BY <1>6, <2>2, <2>3, <2>4 DEF DelRemove
<1>7. CASE DelRmdir(d)
  BY <1>7 DEF DelRmdir
<1>8. CASE DelDie(d)
  BY <1>8 DEF DelDie
<1>9. QED
  BY <1>1, <1>2, <1>3, <1>4, <1>5, <1>6, <1>7, <1>8 DEF Delete

LEMMA GetTypes ==
    ASSUME TypeOK, NEW g \in Getters, Get(g)
    PROVE  TypeOK'
<1>0. alone' \subseteq Creators
  BY DEF Get, TypeOK
<1> USE <1>0 DEF TypeOK, dirVars, creatorVars, deleterVars, getterVars
<1>1. CASE GetBegin(g)
  BY <1>1 DEF GetBegin
<1>2. CASE GetLookup(g)
  BY <1>2 DEF GetLookup
<1>3. CASE GetRead(g)
  BY <1>3 DEF GetRead
<1>4. CASE GetWalk(g)
  <2>1. shown' \in [Getters -> [Comps -> {"none"} \cup Creators]]
    <3>1. CASE pidsDir
      <4> DEFINE row == [k \in Comps |->
                          IF comp[k] \in Creators
                             /\ \E i \in DOMAIN WalkOrder : WalkOrder[i] = k /\ Reached(i)
                          THEN comp[k] ELSE "none"]
      <4>1. row \in [Comps -> {"none"} \cup Creators]
        OBVIOUS
      <4>2. shown' = [shown EXCEPT ![g] = row]
        BY <1>4, <3>1 DEF GetWalk
      <4> HIDE DEF row
      <4>3. QED
        BY <4>1, <4>2
    <3>2. CASE ~pidsDir
      BY <1>4, <3>2 DEF GetWalk
    <3>3. QED
      BY <3>1, <3>2
  <2>2. QED
    BY <1>4, <2>1 DEF GetWalk
<1>5. QED
  BY <1>1, <1>2, <1>3, <1>4 DEF Get

\* Every variable keeps its type (the state of the directory and its users).
THEOREM Typing == Spec => []TypeOK
<1>1. TypeOK /\ [Next]_vars => TypeOK'
  <2> SUFFICES ASSUME TypeOK, [Next]_vars PROVE TypeOK'
    OBVIOUS
  <2>1. CASE UNCHANGED vars
    BY <2>1 DEF TypeOK, vars, dirVars, creatorVars, deleterVars, getterVars
  <2>2. CASE Next
    BY <2>2, CreateTypes, DeleteTypes, GetTypes DEF Next
  <2>3. QED
    BY <2>1, <2>2
<1>2. QED
  BY InitTypes, <1>1, PTL DEF Spec

-----------------------------------------------------------------------------
(* Who is dead when a directory is removed *)

(***************************************************************************)
(* A creator that has not begun is not alive either.  The probe that finds *)
(* a process not running therefore shows that it has ended, and not that   *)
(* it is yet to begin, only because whatever the metadata file names, and  *)
(* whatever a deleter has read from it, has begun.                         *)
(***************************************************************************)
Owners ==
    /\ config \in Creators => at[config] # "idle"
    /\ \A d \in Deleters : dread[d] # "none" => at[dread[d]] # "idle"
    /\ RemoverSawDeadOwner

\* No step revives an ended creator or takes one back to "idle".
LEMMA CreatorsAdvance ==
    ASSUME TypeOK, Next, NEW c \in Creators
    PROVE  /\ at[c] # "idle" => at'[c] # "idle"
           /\ at[c] = "ended" => at'[c] = "ended"
<1>1. CASE UNCHANGED at
  BY <1>1
<1>2. CASE \E b \in Creators : Create(b)
  <2>1. PICK b \in Creators : Create(b)
    BY <1>2
  <2>2. UNCHANGED at \/ (\E stage \in {"dirs", "createConfig", "writeConfig", "ensure",
                                      "fork", "pid", "serving", "ended"} :
                            Goto(b, stage) /\ at[b] # "ended")
    BY <2>1 DEF Create, Begin, EnsureDirs, CreateConfig, WriteConfig, EnsureComp, Fork,
                WritePid, End, Running
  <2>3. QED
    BY <2>2 DEF TypeOK, Goto
<1>3. QED
  BY <1>1, <1>2 DEF Next, Delete, Get, DelBegin, DelLookup, DelRead, DelProbe, DelList,
                    DelRemove, DelRmdir, DelDie, GetBegin, GetLookup, GetRead, GetWalk,
                    creatorVars

LEMMA OwnersInit == Init => Owners
  BY CreatorsAssumption DEF Init, Owners, RemoverSawDeadOwner

LEMMA OwnersStep ==
    ASSUME TypeOK, Owners, [Next]_vars
    PROVE  Owners'
<1>1. CASE UNCHANGED vars
  BY <1>1 DEF Owners, RemoverSawDeadOwner, vars, dirVars, creatorVars, deleterVars
<1>2. CASE \E c \in Creators : Create(c)
  <2>1. PICK c \in Creators : Create(c)
    BY <1>2
  <2>2. Next
    BY <1>2 DEF Next
  <2>3. UNCHANGED <<dat, dread>>
    BY <2>1 DEF Create, Begin, EnsureDirs, CreateConfig, WriteConfig, EnsureComp, Fork,
                WritePid, End, deleterVars
  <2>4. CreateConfig(c) \/ WriteConfig(c) \/ UNCHANGED config
    BY <2>1 DEF Create, Begin, EnsureDirs, EnsureComp, Fork, WritePid, End,
                dirVars
  <2>5. config' \in Creators => at'[config'] # "idle"
    <3>1. CASE CreateConfig(c)
      BY <3>1, CreatorsAssumption DEF CreateConfig
    <3>2. CASE WriteConfig(c)
      <4>1. config' \in {c, config}
        BY <3>2 DEF WriteConfig
      <4>2. at'[c] # "idle"
        BY <3>2 DEF WriteConfig, Goto, TypeOK
      <4>3. QED
        BY <4>1, <4>2, <2>2, CreatorsAdvance DEF Owners
    <3>3. CASE UNCHANGED config
      BY <3>3, <2>2, CreatorsAdvance DEF Owners
    <3>4. QED
      BY <2>4, <3>1, <3>2, <3>3
  <2>6. \A d \in Deleters : dread[d] \in {"none"} \cup Creators
    BY DEF TypeOK
  <2>7. QED
    BY <2>2, <2>3, <2>5, <2>6, CreatorsAdvance DEF Owners, RemoverSawDeadOwner
<1>3. CASE \E d \in Deleters : Delete(d)
  <2>1. PICK d \in Deleters : Delete(d)
    BY <1>3
  <2>2. UNCHANGED at
    BY <2>1 DEF Delete, DelBegin, DelLookup, DelRead, DelProbe, DelList, DelRemove,
                DelRmdir, DelDie, creatorVars
  <2>3. config' = config \/ config' = "absent"
    BY <2>1 DEF Delete, DelBegin, DelLookup, DelRead, DelProbe, DelList, DelRemove,
                DelRmdir, DelDie, dirVars
  <2>4. config' \in Creators => at'[config'] # "idle"
    BY <2>2, <2>3, CreatorsAssumption DEF Owners
  <2>5. CASE DelRead(d)
    <3>1. dat'[d] \notin {"list", "remove"}
          /\ (dread'[d] # "none" => dread'[d] = config /\ config \in Creators)
          /\ \A e \in Deleters \ {d} : dat'[e] = dat[e] /\ dread'[e] = dread[e]
      BY <2>5 DEF DelRead, Step, TypeOK
    <3>2. QED
      BY <2>2, <2>4, <3>1 DEF Owners, RemoverSawDeadOwner
  <2>6. CASE DelProbe(d)
    <3>1. dat'[d] \in {"list", "remove"} /\ dread[d] # "none" => at[dread[d]] = "ended"
      BY <2>6 DEF DelProbe, Step, Running, Owners, TypeOK
    <3>2. dread' = dread /\ \A e \in Deleters \ {d} : dat'[e] = dat[e]
      BY <2>6 DEF DelProbe, Step, TypeOK
    <3>3. QED
      BY <2>2, <2>4, <3>1, <3>2 DEF Owners, RemoverSawDeadOwner
  <2>7. CASE ~DelRead(d) /\ ~DelProbe(d)
    <3>1. dread' = dread
          /\ (dat'[d] \in {"list", "remove"} => dat[d] \in {"list", "remove"})
          /\ \A e \in Deleters \ {d} : dat'[e] = dat[e]
      BY <2>1, <2>7 DEF Delete, DelBegin, DelLookup, DelList, DelRemove, DelRmdir, DelDie,
                        Step, TypeOK
    <3>2. QED
      BY <2>2, <2>4, <3>1 DEF Owners, RemoverSawDeadOwner
  <2>8. QED
    BY <2>5, <2>6, <2>7
<1>4. CASE \E g \in Getters : Get(g)
  <2>1. UNCHANGED <<at, config, dat, dread>>
    BY <1>4 DEF Get, GetBegin, GetLookup, GetRead, GetWalk, dirVars, creatorVars, deleterVars
  <2>2. QED
    BY <2>1 DEF Owners, RemoverSawDeadOwner
<1>5. QED
  BY <1>1, <1>2, <1>3, <1>4 DEF Next

\* A directory is removed with a foreground process that is dead for good, or
\* with metadata that names none, whatever happened to the file between the
\* read, the probe and the removal (delete.go: Delete).
THEOREM RemovesDeadOwners == Spec => []RemoverSawDeadOwner
<1>1. Owners => RemoverSawDeadOwner
  BY DEF Owners
<1>2. QED
  BY <1>1, Typing, OwnersInit, OwnersStep, PTL DEF Spec

-----------------------------------------------------------------------------
(* What a creator that is alone has *)

(***************************************************************************)
(* The cluster of a creator that is alone is intact because nothing is     *)
(* being removed while it lives: its creator is the only one that runs, no *)
(* delete was on its way when it wrote its metadata, and one that comes    *)
(* later reads the metadata and finds the creator alive.                   *)
(***************************************************************************)
KeepsOff(c, d) ==
    /\ dat[d] \notin {"list", "remove"}
    /\ dat[d] = "probe" => dread[d] = c
    /\ Preparing(c) => ~Deleting(d)

\* What else such a creator relies on at its next step.
Undisturbed(c) ==
    /\ \A b \in Creators : Running(b) => b = c
    /\ at[c] # "dirs" => base /\ pidsDir
    /\ at[c] = "writeConfig" => c \in linked

Kept ==
    /\ \A c \in Creators : at[c] = "idle" \/ Preparing(c) => next[c] = 1
    /\ \A c \in alone : Running(c) => Undisturbed(c)
    /\ \A c \in alone, d \in Deleters : Running(c) => KeepsOff(c, d)
    /\ LiveClusterIntact

LEMMA KeptInit == Init => Kept
  BY DEF Init, Kept, LiveClusterIntact, Preparing

\* A creator that begins is alone only if nobody runs and nothing is deleted.
LEMMA BeginKeeps ==
    ASSUME TypeOK, Kept, NEW b \in Creators, Begin(b)
    PROVE  Kept'
<1>1. /\ at' = [at EXCEPT ![b] = "dirs"]
      /\ at[b] = "idle"
      /\ UNCHANGED <<dirVars, next, dat, dread>>
  BY DEF Begin, Goto, deleterVars
<1>2. \A c \in alone' : /\ c = b
                        /\ \A a \in Creators : ~Running(a)
                        /\ \A d \in Deleters : ~Deleting(d)
  BY DEF Begin
<1>3. \A c \in Creators : at'[c] = IF c = b THEN "dirs" ELSE at[c]
  BY <1>1 DEF TypeOK
<1>4. (\A c \in Creators : at[c] = "idle" \/ Preparing(c) => next[c] = 1)'
  BY <1>1, <1>3 DEF Kept, Preparing
<1>5. (\A c \in alone : Running(c) => Undisturbed(c))'
  BY <1>2, <1>3 DEF Undisturbed, Running
<1>6. (\A c \in alone, d \in Deleters : Running(c) => KeepsOff(c, d))'
  BY <1>1, <1>2 DEF KeepsOff, Deleting
<1>7. LiveClusterIntact'
  BY <1>2, <1>3 DEF LiveClusterIntact, Preparing
<1>8. QED
  BY <1>4, <1>5, <1>6, <1>7 DEF Kept

\* Every other step of a creator is that of one which runs; beside a creator
\* that is alone there is no other.
LEMMA OnlyOneSteps ==
    ASSUME TypeOK, Kept, NEW b \in Creators, Create(b), ~Begin(b),
           NEW c \in alone', Running(c)'
    PROVE  c = b /\ c \in alone /\ Running(c)
<1>1. alone' = alone
  BY DEF Create
<1>2. at[b] \notin {"idle", "ended"}
  BY DEF Create, EnsureDirs, CreateConfig, WriteConfig, EnsureComp, Fork, WritePid, End,
         Running
<1>3. \A a \in Creators \ {b} : at'[a] = at[a]
  BY DEF Create, EnsureDirs, CreateConfig, WriteConfig, EnsureComp, Fork, WritePid, End,
         Goto, TypeOK
<1>4. c \in Creators /\ c \in alone
  BY <1>1 DEF TypeOK
<1>5. Running(c)
  BY <1>2, <1>3, <1>4 DEF Running
<1>6. QED
  BY <1>2, <1>4, <1>5 DEF Kept, Undisturbed, Running

LEMMA CreateUndisturbed ==
    ASSUME TypeOK, Kept, NEW b \in Creators, Create(b), ~Begin(b),
           b \in alone, Running(b), Running(b)'
    PROVE  Undisturbed(b)'
<1>1. Undisturbed(b)
  BY DEF Kept
<1>2. \A a \in Creators \ {b} : at'[a] = at[a]
  BY DEF Create, EnsureDirs, CreateConfig, WriteConfig, EnsureComp, Fork, WritePid, End,
         Goto, TypeOK
<1>3. \A a \in Creators : Running(a)' => a = b
  BY <1>1, <1>2 DEF Undisturbed, Running
<1>4. at'[b] # "dirs" => base' /\ pidsDir'
  <2>1. CASE EnsureDirs(b)
    BY <2>1 DEF EnsureDirs
  <2>2. CASE EnsureComp(b)
    BY <2>2 DEF EnsureComp
  <2>3. CASE ~EnsureDirs(b) /\ ~EnsureComp(b)
    <3>1. UNCHANGED <<base, pidsDir>>
      BY <2>3 DEF Create, CreateConfig, WriteConfig, Fork, WritePid, End, dirVars
    <3>2. at[b] # "dirs" \/ at'[b] = "ended"
      BY <2>3 DEF Create, CreateConfig, WriteConfig, Fork, WritePid, End, Goto, TypeOK
    <3>3. QED
      BY <1>1, <3>1, <3>2 DEF Undisturbed, Running
  <2>4. QED
    BY <2>1, <2>2, <2>3
<1>5. at'[b] = "writeConfig" => b \in linked'
  BY DEF Create, EnsureDirs, CreateConfig, WriteConfig, EnsureComp, Fork, WritePid, End,
         Goto, TypeOK
<1>6. QED
  BY <1>3, <1>4, <1>5 DEF Undisturbed

LEMMA CreateKeepsIntact ==
    ASSUME TypeOK, Kept, NEW c \in Creators, Create(c), ~Begin(c),
           c \in alone, at'[c] \in {"ensure", "fork", "pid", "serving"}
    PROVE  /\ config' = c
           /\ \A i \in DOMAIN StartOrder :
                 i < next'[c] \/ at'[c] = "serving" => comp'[StartOrder[i]] = c
<1>1. CASE WriteConfig(c)
  <2>1. c \in linked /\ next[c] = 1
    BY <1>1 DEF WriteConfig, Kept, Undisturbed, Running, Preparing
  <2>2. config' = c /\ next'[c] = 1 /\ at'[c] = "ensure"
    BY <1>1, <2>1 DEF WriteConfig, Goto, TypeOK
  <2>3. QED
    BY <2>2, StartOrderFacts
<1>2. CASE ~WriteConfig(c)
  <2>1. at[c] \in {"ensure", "fork", "pid", "serving"}
    BY <1>2 DEF Create, EnsureDirs, CreateConfig, EnsureComp, Fork, WritePid, End, Goto,
                TypeOK
  <2>2. /\ config = c
        /\ \A i \in DOMAIN StartOrder :
              i < next[c] \/ at[c] = "serving" => comp[StartOrder[i]] = c
    BY <2>1 DEF Kept, LiveClusterIntact, Running, Preparing
  <2>3. config' = c
    BY <1>2, <2>1, <2>2 DEF Create, EnsureDirs, CreateConfig, EnsureComp, Fork, WritePid,
                            End, dirVars
  <2>4. CASE EnsureComp(c)
    <3>1. \A k \in Comps : comp[k] = c => comp'[k] = c
      BY <2>4, CreatorsAssumption DEF EnsureComp, TypeOK
    <3>2. next' = next /\ at'[c] = "fork"
      BY <2>4 DEF EnsureComp, Goto, TypeOK
    <3>3. QED
      BY <2>2, <2>3, <3>1, <3>2, StartOrderFacts
  <2>5. CASE WritePid(c)
    <3>1. StartOrder[next[c]] \in Comps /\ next[c] \in Nat
      BY StartOrderFacts DEF TypeOK
    <3>2. comp'[StartOrder[next[c]]] = c
          /\ \A k \in Comps : comp[k] = c => comp'[k] = c
      BY <2>5, <3>1 DEF WritePid, TypeOK
    <3>3. \A i \in DOMAIN StartOrder : i < next[c] => comp'[StartOrder[i]] = c
      BY <2>2, <3>2, StartOrderFacts
    <3>4. \A i \in DOMAIN StartOrder :
             i < next'[c] \/ at'[c] = "serving" => i < next[c] \/ i = next[c]
      BY <2>5, <3>1, StartOrderFacts DEF WritePid, Goto, TypeOK
    <3>5. QED
      BY <2>3, <3>2, <3>3, <3>4
  <2>6. CASE ~EnsureComp(c) /\ ~WritePid(c)
    <3>1. UNCHANGED <<comp, next>> /\ (at'[c] = "serving" => at[c] = "serving")
      BY <1>2, <2>1, <2>6 DEF Create, EnsureDirs, CreateConfig, Fork, End, Goto, TypeOK,
                              dirVars
    <3>2. QED
      BY <2>2, <2>3, <3>1
  <2>7. QED
    BY <2>4, <2>5, <2>6
<1>3. QED
  BY <1>1, <1>2

\* The steps of a creator, from its first directory to its end.
LEMMA CreateKeeps ==
    ASSUME TypeOK, Kept, NEW b \in Creators, Create(b), ~Begin(b)
    PROVE  Kept'
<1>1. alone' = alone /\ UNCHANGED <<dat, dread>>
  BY DEF Create, EnsureDirs, CreateConfig, WriteConfig, EnsureComp, Fork, WritePid, End,
         deleterVars
<1>2. (\A c \in Creators : at[c] = "idle" \/ Preparing(c) => next[c] = 1)'
  <2> SUFFICES ASSUME NEW c \in Creators,
                      at'[c] \in {"idle", "dirs", "createConfig", "writeConfig"}
               PROVE  next'[c] = 1
    BY DEF Preparing
  <2>1. at[c] \in {"idle", "dirs", "createConfig", "writeConfig"} /\ next'[c] = next[c]
    BY DEF Create, EnsureDirs, CreateConfig, WriteConfig, EnsureComp, Fork, WritePid, End,
           Goto, TypeOK
  <2>2. QED
    BY <2>1 DEF Kept, Preparing
<1>3. (\A c \in alone : Running(c) => Undisturbed(c))'
  BY OnlyOneSteps, CreateUndisturbed
<1>4. (\A c \in alone, d \in Deleters : Running(c) => KeepsOff(c, d))'
  <2> SUFFICES ASSUME NEW c \in alone', NEW d \in Deleters, Running(c)'
               PROVE  KeepsOff(c, d)'
    OBVIOUS
  <2>1. c = b /\ c \in alone /\ Running(c)
    BY OnlyOneSteps
  <2>2. Preparing(c)' => Preparing(c)
    BY <2>1 DEF Create, EnsureDirs, CreateConfig, WriteConfig, EnsureComp, Fork, WritePid,
                End, Goto, TypeOK, Preparing
  <2>3. KeepsOff(c, d)
    BY <2>1 DEF Kept
  <2>4. QED
    BY <1>1, <2>2, <2>3 DEF KeepsOff, Deleting
<1>5. LiveClusterIntact'
  <2> SUFFICES ASSUME NEW c \in alone', Running(c)', ~Preparing(c)'
               PROVE  (/\ config = c
                       /\ \A i \in DOMAIN StartOrder :
                             i < next[c] \/ at[c] = "serving" => comp[StartOrder[i]] = c)'
    BY DEF LiveClusterIntact
  <2>1. c = b /\ c \in alone
    BY OnlyOneSteps
  <2>2. at'[c] \in {"ensure", "fork", "pid", "serving"}
    BY <2>1, CreateTypes DEF Running, Preparing, TypeOK
  <2>3. QED
    BY <2>1, <2>2, CreateKeepsIntact
<1>6. QED
  BY <1>2, <1>3, <1>4, <1>5 DEF Kept

\* A delete does not get past its probe while a cluster lives.
LEMMA DeleteKeepsOff ==
    ASSUME TypeOK, Kept, NEW e \in Deleters, Delete(e),
           NEW c \in alone', NEW d \in Deleters, Running(c)
    PROVE  c \in alone /\ KeepsOff(c, d)'
<1>1. c \in alone
  BY DEF Delete, DelBegin
<1>2. KeepsOff(c, d) /\ c \in Creators
  BY <1>1 DEF Kept, TypeOK
<1>3. UNCHANGED at
  BY DEF Delete, DelBegin, DelLookup, DelRead, DelProbe, DelList, DelRemove, DelRmdir,
         DelDie, creatorVars
<1>4. CASE d # e
  <2>1. dat'[d] = dat[d] /\ dread'[d] = dread[d]
    BY <1>4 DEF Delete, DelBegin, DelLookup, DelRead, DelProbe, DelList, DelRemove,
                DelRmdir, DelDie, Step, TypeOK
  <2>2. QED
    BY <1>1, <1>2, <1>3, <2>1 DEF KeepsOff, Preparing, Deleting
<1>5. CASE d = e /\ DelBegin(e)
  <2>1. ~Preparing(c) /\ dat'[d] = "lookup"
    BY <1>5 DEF DelBegin, Step, TypeOK
  <2>2. QED
    BY <1>1, <1>3, <2>1 DEF KeepsOff, Preparing
<1>6. CASE d = e /\ DelRead(e)
  <2>1. config = c /\ ~Preparing(c)
    BY <1>1, <1>2, <1>6 DEF Kept, LiveClusterIntact, KeepsOff, DelRead, Deleting
  <2>2. dat'[d] \in {"error", "probe"} /\ dread'[d] = c
    BY <1>2, <1>6, <2>1 DEF DelRead, Step, TypeOK
  <2>3. QED
    BY <1>1, <1>3, <2>1, <2>2 DEF KeepsOff, Preparing
<1>7. CASE d = e /\ DelProbe(e)
  <2>1. dread[d] = c /\ c # "none" /\ ~Preparing(c)
    BY <1>2, <1>7, CreatorsAssumption DEF DelProbe, KeepsOff, Deleting
  <2>2. dat'[d] = "refused"
    BY <1>7, <2>1 DEF DelProbe, Step, TypeOK
  <2>3. QED
    BY <1>1, <1>3, <2>1, <2>2 DEF KeepsOff, Preparing
<1>8. CASE d = e /\ ~DelBegin(e) /\ ~DelRead(e) /\ ~DelProbe(e)
  <2>1. /\ dat'[d] \in {"read", "notExist", "error"}
        /\ dat[d] \notin {"list", "remove"} => Deleting(d)
    BY <1>2, <1>8 DEF Delete, DelLookup, DelList, DelRemove, DelRmdir, DelDie, Step,
                      KeepsOff, Deleting, TypeOK
  <2>2. ~Preparing(c)
    BY <1>2, <2>1 DEF KeepsOff
  <2>3. QED
    BY <1>1, <1>3, <2>1, <2>2 DEF KeepsOff, Preparing
<1>9. QED
  BY <1>4, <1>5, <1>6, <1>7, <1>8

LEMMA DeleteKeeps ==
    ASSUME TypeOK, Kept, NEW e \in Deleters, Delete(e)
    PROVE  Kept'
<1>1. UNCHANGED <<at, next>>
  BY DEF Delete, DelBegin, DelLookup, DelRead, DelProbe, DelList, DelRemove, DelRmdir,
         DelDie, creatorVars
<1>2. \A c \in alone' : Running(c) => /\ c \in alone
                                      /\ dat[e] \notin {"list", "remove"}
  BY DeleteKeepsOff DEF Kept, KeepsOff
<1>3. (\A c \in alone' : ~Running(c)) \/ UNCHANGED dirVars
  BY <1>2 DEF Delete, DelBegin, DelLookup, DelRead, DelProbe, DelList, DelRemove, DelRmdir,
              DelDie
<1>4. (\A c \in Creators : at[c] = "idle" \/ Preparing(c) => next[c] = 1)'
  BY <1>1 DEF Kept, Preparing
<1>5. (\A c \in alone : Running(c) => Undisturbed(c))'
  BY <1>1, <1>2, <1>3 DEF Kept, Undisturbed, Running, dirVars
<1>6. (\A c \in alone, d \in Deleters : Running(c) => KeepsOff(c, d))'
  BY <1>1, DeleteKeepsOff DEF Running
<1>7. LiveClusterIntact'
  BY <1>1, <1>2, <1>3 DEF Kept, LiveClusterIntact, Running, Preparing, dirVars
<1>8. QED
  BY <1>4, <1>5, <1>6, <1>7 DEF Kept

LEMMA KeptStep ==
    ASSUME TypeOK, Kept, [Next]_vars
    PROVE  Kept'
<1>1. CASE \E b \in Creators : Create(b)
  BY <1>1, BeginKeeps, CreateKeeps
<1>2. CASE \E e \in Deleters : Delete(e)
  BY <1>2, DeleteKeeps
<1>3. CASE UNCHANGED <<dirVars, creatorVars, deleterVars, alone>>
  BY <1>3 DEF Kept, KeepsOff, Undisturbed, LiveClusterIntact, Running, Preparing, Deleting,
              dirVars, creatorVars, deleterVars
<1>4. QED
  BY <1>1, <1>2, <1>3 DEF Next, Get, GetBegin, GetLookup, GetRead, GetWalk, vars

\* A live cluster whose creator is alone keeps its metadata and its pids,
\* whatever killed creates and deletes left before it and whatever deletes
\* begin later (delete.go: Delete).
THEOREM LiveStaysIntact == Spec => []LiveClusterIntact
<1>1. Kept => LiveClusterIntact
  BY DEF Kept
<1>2. TypeOK /\ Kept /\ [Next]_vars => Kept'
  BY KeptStep
<1>3. QED
  BY <1>1, <1>2, Typing, KeptInit, PTL DEF Spec

\* A delete that goes on to remove finds no creator that is alone serving
\* (delete.go: isClusterRunning).
THEOREM DeletesRefuseRunning == Spec => DeleteRefusesRunning
<1>1. TypeOK /\ Kept /\ [Next]_vars =>
        [\A d \in Deleters : dat[d] = "probe" /\ dat'[d] = "list" =>
            \A c \in alone : at[c] # "serving"]_vars
  <2> SUFFICES ASSUME TypeOK, Kept, Next,
                      NEW d \in Deleters, dat[d] = "probe", dat'[d] = "list",
                      NEW c \in alone, at[c] = "serving"
               PROVE  FALSE
    BY Zenon
  <2>1. dread[d] = c /\ Running(c) /\ c \in Creators
    BY DEF Kept, KeepsOff, Running, TypeOK
  <2>2. dat # dat'
    OBVIOUS
  <2>3. PICK e \in Deleters : Delete(e)
    BY <2>2 DEF Next, Create, Begin, EnsureDirs, CreateConfig, WriteConfig, EnsureComp,
                Fork, WritePid, End, Get, GetBegin, GetLookup, GetRead, GetWalk, deleterVars
  <2>4. DelProbe(d)
    BY <2>3 DEF Delete, DelBegin, DelLookup, DelRead, DelProbe, DelList, DelRemove,
                DelRmdir, DelDie, Step, TypeOK
  <2>5. QED
    BY <2>1, <2>4, CreatorsAssumption DEF DelProbe, Step, TypeOK
<1>2. TypeOK /\ Kept /\ [Next]_vars => Kept'
  BY KeptStep
<1>3. QED
  BY <1>1, <1>2, Typing, KeptInit, PTL DEF Spec, DeleteRefusesRunning

-----------------------------------------------------------------------------
(* What get finds of it *)

\* While a creator that is alone serves, every component's pid file is its own.
LEMMA ServingFiles ==
    ASSUME TypeOK, Kept, NEW c \in alone, at[c] = "serving"
    PROVE  base /\ pidsDir /\ config = c /\ c \in Creators /\ \A k \in Comps : comp[k] = c
<1>1. Running(c) /\ ~Preparing(c) /\ c \in Creators
  BY DEF Running, Preparing, TypeOK
<1>2. base /\ pidsDir /\ config = c
  BY <1>1 DEF Kept, Undisturbed, LiveClusterIntact
<1>3. \A i \in DOMAIN StartOrder : comp[StartOrder[i]] = c
  BY <1>1 DEF Kept, LiveClusterIntact
<1>4. QED
  BY <1>1, <1>2, <1>3 DEF Comps

\* A walk over such files reaches every component.
LEMMA WalkShowsAll ==
    ASSUME TypeOK, NEW c \in Creators, \A k \in Comps : comp[k] = c, pidsDir,
           NEW g \in Getters, GetWalk(g), NEW k \in Comps
    PROVE  shown'[g][k] = c
<1>1. PICK i \in DOMAIN WalkOrder : WalkOrder[i] = k
  BY CompsAssumption
<1>2. \A j \in DOMAIN WalkOrder : WalkOrder[j] \in Comps
  BY CompsAssumption
<1>3. Reached(i)
  BY <1>2, CreatorsAssumption DEF Reached
<1> DEFINE row == [m \in Comps |->
                    IF comp[m] \in Creators
                       /\ \E j \in DOMAIN WalkOrder : WalkOrder[j] = m /\ Reached(j)
                    THEN comp[m] ELSE "none"]
<1>4. row[k] = c
  BY <1>1, <1>3
<1>5. shown' = [shown EXCEPT ![g] = row]
  BY DEF GetWalk
<1> HIDE DEF row
<1>6. QED
  BY <1>4, <1>5 DEF TypeOK

\* While a creator that is alone serves, get succeeds at every step and shows
\* its pids, for every component (get.go: collectClusterInfoFromBareMetal).
THEOREM GetsShowServing == Spec => GetShowsServing
<1>1. TypeOK /\ Kept /\ [Next]_vars =>
        [\A g \in Getters, c \in alone :
            at[c] = "serving" /\ gat'[g] # gat[g] =>
               /\ gat'[g] \notin {"notExist", "error", "panic"}
               /\ gat'[g] = "done" => \A k \in Comps : shown'[g][k] = c]_vars
  <2> SUFFICES ASSUME TypeOK, Kept, Next, NEW g \in Getters, NEW c \in alone,
                      at[c] = "serving", gat'[g] # gat[g]
               PROVE  /\ gat'[g] \notin {"notExist", "error", "panic"}
                      /\ gat'[g] = "done" => \A k \in Comps : shown'[g][k] = c
    BY Zenon
  <2>1. base /\ pidsDir /\ config = c /\ c \in Creators /\ \A k \in Comps : comp[k] = c
    BY ServingFiles
  <2>2. gat # gat'
    OBVIOUS
  <2>3. PICK h \in Getters : Get(h)
    BY <2>2 DEF Next, Create, Begin, EnsureDirs, CreateConfig, WriteConfig, EnsureComp,
                Fork, WritePid, End, Delete, DelBegin, DelLookup, DelRead, DelProbe,
                DelList, DelRemove, DelRmdir, DelDie, getterVars
  <2>4. h = g
    BY <2>3 DEF Get, GetBegin, GetLookup, GetRead, GetWalk, TypeOK
  <2>5. CASE GetWalk(g)
    <3>1. gat'[g] = "done"
      BY <2>1, <2>5 DEF GetWalk, TypeOK
    <3>2. \A k \in Comps : shown'[g][k] = c
      BY <2>1, <2>5, WalkShowsAll
    <3>3. QED
      BY <3>1, <3>2
  <2>6. CASE ~GetWalk(g)
    <3>1. c \notin {"absent", "empty"}
      BY <2>1, CreatorsAssumption
    <3>2. gat'[g] \in {"lookup", "read", "walk"}
      BY <2>1, <2>3, <2>4, <2>6, <3>1 DEF Get, GetBegin, GetLookup, GetRead, TypeOK
    <3>3. QED
      BY <3>2
  <2>7. QED
    BY <2>5, <2>6
<1>2. TypeOK /\ Kept /\ [Next]_vars => Kept'
  BY KeptStep
<1>3. QED
  BY <1>1, <1>2, Typing, KeptInit, PTL DEF Spec, GetShowsServing

=============================================================================
