------------------------------ MODULE Artifacts ------------------------------
(***************************************************************************)
(* One artifact version under ~/.gtctl/artifacts, shared by every gtctl of *)
(* the user: the package file in pkg/ and, for a binary, the executables   *)
(* in bin/.  A client is one call of DownloadTo and what follows it: the   *)
(* installation of a binary, or the loading of a chart.  Nothing locks the *)
(* files.                                                                  *)
(*                                                                         *)
(* The package is written in chunks, each at its own offset, and every     *)
(* client writes the same bytes (a version is taken to have one content in *)
(* all regions): the file is the set of the chunks it holds, whole when it *)
(* has all of them.                                                        *)
(***************************************************************************)
EXTENDS Naturals

CONSTANTS
    Clients,
    Exes,       \* the executables in the package of a binary
    Chunks      \* the chunks of the package

ASSUME ArtifactAssumption == Chunks \in Nat \ {0} /\ "none" \notin Clients

Whole == 1 .. Chunks

\* Charts are always loaded with the cache; only charts come from a registry.
Kinds == {"binary", "chart"}
OptsOf(k) == IF k = "binary" THEN [cache : BOOLEAN, oci : {FALSE}]
                             ELSE [cache : {TRUE}, oci : BOOLEAN]

VARIABLES
    kind,       \* of the artifact
    opt,        \* the options and the source of each client
    exists,     \* the package file is there
    chunks,     \* what it holds
    at,         \* where each client is
    hit,        \* the client found the file and skipped the download
    written,    \* chunks it has written
    staged,     \* executables in its temporary directory
    installed,  \* executables in bin/
    owner,      \* history: who truncated or replaced the file last
    raced       \* history: another client did so between a client's own
                \* creation of the file and its reading it

fileVars == <<exists, chunks, owner>>
vars == <<kind, opt, fileVars, at, hit, written, staged, installed, raced>>

Ends == {"ok", "failed", "writeFailed", "badPackage", "killed"}

Init ==
    /\ kind \in Kinds
    /\ opt \in [Clients -> OptsOf(kind)]
    /\ exists = FALSE /\ chunks = {} /\ owner = "none"
    /\ at = [c \in Clients |-> "idle"]
    /\ hit = [c \in Clients |-> FALSE]
    /\ written = [c \in Clients |-> 0]
    /\ staged = [c \in Clients |-> {}]
    /\ installed = {}
    /\ raced = [c \in Clients |-> FALSE]

Goto(c, stage) == at' = [at EXCEPT ![c] = stage]

\* c has made the file its own.
Seize(c) ==
    /\ owner' = c
    /\ raced' = [d \in Clients |->
                    raced[d] \/ (d # c /\ ~hit[d] /\ at[d] \in {"write", "open"})]

-----------------------------------------------------------------------------
(***************************************************************************)
(* Faulty variants of actions below, each a plausible slip in the code.    *)
(* No specification uses them; they show which property catches the slip.  *)
(***************************************************************************)

\* The body is streamed into the file: it is created before the request.
FetchStreaming(c) ==
    /\ at[c] = "fetch"
    /\ exists' = TRUE /\ chunks' = {} /\ Seize(c)
    /\ \/ Goto(c, "failed") \/ Goto(c, IF opt[c].oci THEN "pull" ELSE "create")
    /\ UNCHANGED <<kind, opt, hit, written, staged, installed>>

\* The error of Write is not looked at.
WriteUnchecked(c) ==
    /\ at[c] = "write"
    /\ \/ /\ chunks' = chunks \cup {written[c] + 1}
          /\ written' = [written EXCEPT ![c] = @ + 1]
          /\ Goto(c, IF written[c] + 1 = Chunks THEN "open" ELSE "write")
       \/ Goto(c, "open") /\ UNCHANGED <<chunks, written>>
    /\ UNCHANGED <<kind, opt, exists, owner, hit, staged, installed, raced>>

\* An executable that cannot be moved is logged and left out.
RenameLenient(c) ==
    /\ at[c] = "install"
    /\ \E e \in staged[c] :
          /\ staged' = [staged EXCEPT ![c] = @ \ {e}]
          /\ installed' \in {installed, installed \cup {e}}
    /\ Goto(c, IF staged'[c] = {} THEN "ok" ELSE "install")
    /\ UNCHANGED <<kind, opt, fileVars, hit, written, raced>>

\* The last chunk is not recognised.
WritePastEnd(c) ==
    /\ at[c] = "write"
    /\ chunks' = chunks \cup {written[c] + 1}
    /\ written' = [written EXCEPT ![c] = @ + 1]
    /\ Goto(c, IF written[c] = Chunks THEN "open" ELSE "write")
    /\ UNCHANGED <<kind, opt, exists, owner, hit, staged, installed, raced>>

-----------------------------------------------------------------------------
(* DownloadTo *)

\* The source is resolved, and with the cache on a file that exists is taken
\* for the package.
Stat(c) ==
    /\ at[c] = "idle"
    /\ \/ Goto(c, "failed") /\ UNCHANGED hit
       \/ /\ opt[c].cache /\ exists
          /\ hit' = [hit EXCEPT ![c] = TRUE]
          /\ Goto(c, "open")
       \/ /\ ~(opt[c].cache /\ exists)
          /\ Goto(c, "fetch")
          /\ UNCHANGED hit
    /\ UNCHANGED <<kind, opt, fileVars, written, staged, installed, raced>>

\* The request, its status and the whole body: nothing is written yet.
Fetch(c) ==
    /\ at[c] = "fetch"
    /\ \/ Goto(c, "failed")
       \/ Goto(c, IF opt[c].oci THEN "pull" ELSE "create")
    /\ UNCHANGED <<kind, opt, fileVars, hit, written, staged, installed, raced>>

\* Helm's pull writes a temporary file and renames it.
PullOCI(c) ==
    /\ at[c] = "pull"
    /\ \/ Goto(c, "failed") /\ UNCHANGED <<fileVars, raced>>
       \/ /\ exists' = TRUE /\ chunks' = Whole /\ Seize(c)
          /\ Goto(c, "open")
    /\ UNCHANGED <<kind, opt, hit, written, staged, installed>>

\* os.Create: the file is emptied, whatever it holds.
CreateFile(c) ==
    /\ at[c] = "create"
    /\ \/ Goto(c, "failed") /\ UNCHANGED <<fileVars, raced>>
       \/ /\ exists' = TRUE /\ chunks' = {} /\ Seize(c)
          /\ Goto(c, "write")
    /\ UNCHANGED <<kind, opt, hit, written, staged, installed>>

\* file.Write: it may stop half-way, and what it wrote stays.
WriteChunk(c) ==
    /\ at[c] = "write"
    /\ \/ /\ chunks' = chunks \cup {written[c] + 1}
          /\ written' = [written EXCEPT ![c] = @ + 1]
          /\ Goto(c, IF written[c] + 1 = Chunks THEN "open" ELSE "write")
       \/ Goto(c, "writeFailed") /\ UNCHANGED <<chunks, written>>
    /\ UNCHANGED <<kind, opt, exists, owner, hit, staged, installed, raced>>

\* A package with a hole cannot be read; now and then it cannot be either for
\* want of a directory or a temporary file.
Unreadable(c) ==
    /\ \/ chunks # Whole /\ Goto(c, "badPackage")
       \/ Goto(c, "failed")
    /\ UNCHANGED staged

\* A chart is read into memory.
LoadChart(c) ==
    /\ at[c] = "open" /\ kind = "chart"
    /\ \/ Unreadable(c)
       \/ chunks = Whole /\ Goto(c, "ok") /\ UNCHANGED staged
    /\ UNCHANGED <<kind, opt, fileVars, hit, written, installed, raced>>

\* A binary is unpacked into a fresh temporary directory.
Unpack(c) ==
    /\ at[c] = "open" /\ kind = "binary"
    /\ \/ Unreadable(c)
       \/ /\ chunks = Whole
          /\ staged' = [staged EXCEPT ![c] = Exes]
          /\ Goto(c, "install")
    /\ UNCHANGED <<kind, opt, fileVars, hit, written, installed, raced>>

\* The executables are renamed into bin/ one by one; the first error ends it.
Rename(c) ==
    /\ at[c] = "install"
    /\ \/ Goto(c, "failed") /\ UNCHANGED <<staged, installed>>
       \/ \E e \in staged[c] :
             /\ staged' = [staged EXCEPT ![c] = @ \ {e}]
             /\ installed' = installed \cup {e}
             /\ UNCHANGED at
       \/ /\ staged[c] = {}
          /\ Goto(c, "ok")
          /\ UNCHANGED <<staged, installed>>
    /\ UNCHANGED <<kind, opt, fileVars, hit, written, raced>>

\* gtctl is killed.
Kill(c) ==
    /\ at[c] \notin {"idle"} \cup Ends
    /\ Goto(c, "killed")
    /\ UNCHANGED <<kind, opt, fileVars, hit, written, staged, installed, raced>>

DownloadTo(c) ==
    \/ Stat(c) \/ Fetch(c) \/ PullOCI(c) \/ CreateFile(c) \/ WriteChunk(c)
    \/ LoadChart(c) \/ Unpack(c) \/ Rename(c)

Next == \E c \in Clients : DownloadTo(c) \/ Kill(c)

Spec == Init /\ [][Next]_vars

-----------------------------------------------------------------------------
(* Properties *)

TypeOK ==
    /\ kind \in Kinds
    /\ opt \in [Clients -> OptsOf(kind)]
    /\ exists \in BOOLEAN
    /\ chunks \subseteq Whole
    /\ owner \in {"none"} \cup Clients
    /\ at \in [Clients -> {"idle", "fetch", "pull", "create", "write", "open", "install"} \cup Ends]
    /\ hit \in [Clients -> BOOLEAN] /\ raced \in [Clients -> BOOLEAN]
    /\ written \in [Clients -> 0 .. Chunks]
    /\ staged \in [Clients -> SUBSET Exes]
    /\ installed \subseteq Exes

\* A package that is not whole is being written by the client that emptied it
\* last, or that client was killed or could not write: a download that failed
\* in the network, or finished, never leaves one, whatever other clients write
\* meanwhile (downloadFromHTTP reads the body before it creates the file).
PartialHasWriter ==
    exists /\ chunks # Whole =>
        owner # "none" /\ at[owner] \in {"write", "writeFailed", "killed"}

\* A client finds a bad package only in the cache, or because another client
\* emptied the file under it (DownloadTo, EnableCache).
BadPackageHasCause ==
    \A c \in Clients : at[c] = "badPackage" => hit[c] \/ raced[c]

\* When DownloadTo returns the path of a binary, every executable of the
\* package is installed, whichever clients moved them (installBinaries).
OkMeansInstalled ==
    \A c \in Clients : at[c] = "ok" /\ kind = "binary" => installed = Exes

=============================================================================
