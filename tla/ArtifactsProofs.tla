--------------------------- MODULE ArtifactsProofs ---------------------------
(***************************************************************************)
(* Proofs about Artifacts, for any clients, executables and chunks.        *)
(***************************************************************************)
EXTENDS Artifacts, TLAPS

-----------------------------------------------------------------------------
(* The inductive invariant *)

\* Before a client has created the file, it has written nothing.
Untouched ==
    \A c \in Clients :
        /\ at[c] \in {"idle", "fetch", "pull", "create"} => written[c] = 0 /\ ~hit[c]
        /\ at[c] = "write" => written[c] < Chunks /\ ~hit[c]

\* The file belongs to the client that emptied it last: what that one has
\* written since is in it, and a client that was not raced is that one.
Ownership ==
    /\ exists <=> owner # "none"
    /\ \A c \in Clients :
          /\ at[c] \in {"write", "open"} /\ ~hit[c] /\ ~raced[c] => owner = c
          /\ at[c] = "write" /\ owner = c => 1 .. written[c] \subseteq chunks

\* Every executable that a client has still to move is in its temporary
\* directory.
Moved ==
    \A c \in Clients :
        /\ at[c] = "install" => kind = "binary" /\ Exes \ staged[c] \subseteq installed
        /\ at[c] = "ok" /\ kind = "binary" => installed = Exes

Inv == TypeOK /\ Untouched /\ Ownership /\ Moved /\ PartialHasWriter /\ BadPackageHasCause

\* A file that its owner has just emptied is not whole.
LEMMA EmptyNotWhole == {} # Whole /\ 1 \in Whole
BY ArtifactAssumption DEF Whole

LEMMA InitInv == Init => Inv
<1> SUFFICES ASSUME Init PROVE Inv
  OBVIOUS
<1>1. 0 \in 0 .. Chunks
  BY ArtifactAssumption
<1>2. TypeOK
  BY <1>1 DEF Init, TypeOK, Ends
<1>3. QED
  BY <1>2 DEF Init, Inv, Untouched, Ownership, Moved, PartialHasWriter, BadPackageHasCause

-----------------------------------------------------------------------------
(* Steps of one client *)

LEMMA TypeStep ==
    ASSUME Inv, [Next]_vars
    PROVE  TypeOK'
<1> USE DEF TypeOK, Goto, Ends, fileVars
<1>1. ASSUME NEW c \in Clients, Stat(c) PROVE TypeOK'
  BY <1>1 DEF Inv, Stat
<1>2. ASSUME NEW c \in Clients, Fetch(c) PROVE TypeOK'
  BY <1>2 DEF Inv, Fetch
<1>3. ASSUME NEW c \in Clients, PullOCI(c) PROVE TypeOK'
  BY <1>3 DEF Inv, PullOCI, Seize
<1>4. ASSUME NEW c \in Clients, CreateFile(c) PROVE TypeOK'
  BY <1>4 DEF Inv, CreateFile, Seize
<1>5. ASSUME NEW c \in Clients, WriteChunk(c) PROVE TypeOK'
  <2>1. at[c] = "write" => written[c] + 1 \in Whole /\ written[c] + 1 \in 0 .. Chunks
    BY ArtifactAssumption DEF Inv, Untouched, Whole
  <2>2. QED
    BY <1>5, <2>1 DEF Inv, WriteChunk
<1>6. ASSUME NEW c \in Clients, LoadChart(c) \/ Unpack(c) PROVE TypeOK'
  BY <1>6 DEF Inv, LoadChart, Unpack, Unreadable
<1>7. ASSUME NEW c \in Clients, Rename(c) PROVE TypeOK'
  BY <1>7 DEF Inv, Rename
<1>8. ASSUME NEW c \in Clients, Kill(c) PROVE TypeOK'
  BY <1>8 DEF Inv, Kill
<1>9. CASE UNCHANGED vars
  BY <1>9 DEF Inv, vars
<1>10. QED
  BY <1>1, <1>2, <1>3, <1>4, <1>5, <1>6, <1>7, <1>8, <1>9 DEF Next, DownloadTo

LEMMA FileStep ==
    ASSUME Inv, [Next]_vars
    PROVE  Untouched' /\ Ownership' /\ PartialHasWriter' /\ BadPackageHasCause'
<1> DEFINE Goal == Untouched' /\ Ownership' /\ PartialHasWriter' /\ BadPackageHasCause'
<1> USE DEF Inv, TypeOK, Untouched, Ownership, PartialHasWriter, BadPackageHasCause,
            Goto, Ends, fileVars
<1>1. ASSUME NEW c \in Clients, Stat(c) PROVE Goal
  BY <1>1, ArtifactAssumption DEF Stat
<1>2. ASSUME NEW c \in Clients, Fetch(c) PROVE Goal
  BY <1>2, ArtifactAssumption DEF Fetch
<1>3. ASSUME NEW c \in Clients, PullOCI(c) PROVE Goal
  BY <1>3, ArtifactAssumption DEF PullOCI, Seize
<1>4. ASSUME NEW c \in Clients, CreateFile(c) PROVE Goal
  BY <1>4, ArtifactAssumption, EmptyNotWhole DEF CreateFile, Seize
<1>5. ASSUME NEW c \in Clients, WriteChunk(c) PROVE Goal
  <2>1. /\ at[c] = "write" /\ written[c] \in Nat /\ written[c] < Chunks /\ Chunks \in Nat
        /\ 1 .. (written[c] + 1) = (1 .. written[c]) \cup {written[c] + 1}
    BY <1>5, ArtifactAssumption DEF WriteChunk
  <2>2. CASE at' = [at EXCEPT ![c] = "writeFailed"] /\ UNCHANGED <<chunks, written>>
    BY <1>5, <2>1, <2>2, ArtifactAssumption DEF WriteChunk
  <2>3. CASE /\ chunks' = chunks \cup {written[c] + 1}
             /\ written' = [written EXCEPT ![c] = @ + 1]
             /\ at' = [at EXCEPT ![c] = IF written[c] + 1 = Chunks THEN "open" ELSE "write"]
    <3>1. UNCHANGED <<kind, opt, exists, owner, hit, staged, installed, raced>>
      BY <1>5 DEF WriteChunk
    <3>2. Untouched'
      BY <2>1, <2>3, <3>1
    <3>3. Ownership'
      BY <2>1, <2>3, <3>1, ArtifactAssumption
    <3>4. ASSUME owner = c, written[c] + 1 = Chunks PROVE chunks' = Whole
      <4>1. Whole = (1 .. written[c]) \cup {written[c] + 1}
        BY <2>1, <3>4 DEF Whole
      <4>2. 1 .. written[c] \subseteq chunks
        BY <2>1, <3>4
      <4>3. QED
        BY <2>1, <2>3, <4>1, <4>2
    <3>5. ASSUME chunks = Whole PROVE chunks' = Whole
      BY <2>1, <2>3, <3>5 DEF Whole
    <3>6. PartialHasWriter'
      BY <2>1, <2>3, <3>1, <3>4, <3>5, ArtifactAssumption
    <3>7. BadPackageHasCause'
      BY <2>1, <2>3, <3>1
    <3>8. QED
      BY <3>2, <3>3, <3>6, <3>7
  <2>4. QED
    BY <1>5, <2>2, <2>3 DEF WriteChunk
<1>6. ASSUME NEW c \in Clients, LoadChart(c) \/ Unpack(c) PROVE Goal
  BY <1>6, ArtifactAssumption DEF LoadChart, Unpack, Unreadable
<1>7. ASSUME NEW c \in Clients, Rename(c) PROVE Goal
  BY <1>7, ArtifactAssumption DEF Rename
<1>8. ASSUME NEW c \in Clients, Kill(c) PROVE Goal
  BY <1>8, ArtifactAssumption DEF Kill
<1>9. CASE UNCHANGED vars
  BY <1>9 DEF vars
<1>10. QED
  BY <1>1, <1>2, <1>3, <1>4, <1>5, <1>6, <1>7, <1>8, <1>9 DEF Next, DownloadTo

LEMMA MovedStep ==
    ASSUME Inv, [Next]_vars
    PROVE  Moved'
<1> USE DEF Inv, TypeOK, Moved, Goto, Ends
<1>1. ASSUME NEW c \in Clients, Stat(c) \/ Fetch(c) \/ WriteChunk(c) \/ Kill(c) PROVE Moved'
  BY <1>1 DEF Stat, Fetch, WriteChunk, Kill
<1>2. ASSUME NEW c \in Clients, PullOCI(c) \/ CreateFile(c) PROVE Moved'
  BY <1>2 DEF PullOCI, CreateFile
<1>3. ASSUME NEW c \in Clients, LoadChart(c) \/ Unpack(c) PROVE Moved'
  BY <1>3 DEF LoadChart, Unpack, Unreadable, Kinds
<1>4. ASSUME NEW c \in Clients, Rename(c) PROVE Moved'
  <2>1. CASE at' = [at EXCEPT ![c] = "failed"] /\ UNCHANGED <<staged, installed>>
    BY <1>4, <2>1 DEF Rename
  <2>2. ASSUME NEW e \in staged[c], staged' = [staged EXCEPT ![c] = @ \ {e}],
               installed' = installed \cup {e}, UNCHANGED at
        PROVE  Moved'
    BY <1>4, <2>2 DEF Rename
  <2>3. CASE staged[c] = {} /\ at' = [at EXCEPT ![c] = "ok"] /\ UNCHANGED <<staged, installed>>
    BY <1>4, <2>3 DEF Rename
  <2>4. QED
    BY <1>4, <2>1, <2>2, <2>3 DEF Rename
<1>5. CASE UNCHANGED vars
  BY <1>5 DEF vars
<1>6. QED
  BY <1>1, <1>2, <1>3, <1>4, <1>5 DEF Next, DownloadTo

-----------------------------------------------------------------------------
(* The theorems *)

\* The inductive invariant.
THEOREM Invariance == Spec => []Inv
<1>1. Init => Inv
  BY InitInv
<1>2. Inv /\ [Next]_vars => Inv'
  BY TypeStep, FileStep, MovedStep DEF Inv
<1>3. QED
  BY <1>1, <1>2, PTL DEF Spec

\* Every variable keeps its type.
THEOREM Typing == Spec => []TypeOK
<1>1. Inv => TypeOK
  BY DEF Inv
<1>2. QED
  BY <1>1, Invariance, PTL

\* A package that is not whole is being written by the client that emptied it
\* last, or was left so by a kill or a failed write of that client.
THEOREM PartialsHaveWriters == Spec => []PartialHasWriter
<1>1. Inv => PartialHasWriter
  BY DEF Inv
<1>2. QED
  BY <1>1, Invariance, PTL

\* A bad package is met only in the cache or by a client that was overtaken.
THEOREM BadPackagesHaveCauses == Spec => []BadPackageHasCause
<1>1. Inv => BadPackageHasCause
  BY DEF Inv
<1>2. QED
  BY <1>1, Invariance, PTL

\* A binary that DownloadTo reports is installed with all its executables.
THEOREM OkInstalls == Spec => []OkMeansInstalled
<1>1. Inv => OkMeansInstalled
  BY DEF Inv, Moved, OkMeansInstalled
<1>2. QED
  BY <1>1, Invariance, PTL

=============================================================================
