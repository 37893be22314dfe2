------------------------------ MODULE Sources ------------------------------
(***************************************************************************)
(* Where an artifact is downloaded from and where it is kept: NewSource    *)
(* and AllocateArtifactFilePath.                                           *)
(*                                                                         *)
(* Versions are positive numbers in their order, of which each artifact    *)
(* has published some; LatestVersionTag stands for the tag "latest" and    *)
(* the empty version.  A file name is the tuple of what it is put          *)
(* together from; a URL is a site with the path below it.  The operating   *)
(* system and the architecture are one machine's.                          *)
(***************************************************************************)
EXTENDS Naturals, Sequences

CONSTANTS
    BreakingChangeVersion,  \* the version of greptime whose file name has it
    Versions                \* the versions that may be asked for

ASSUME SourcesAssumption ==
    /\ BreakingChangeVersion \in Nat \ {0}
    /\ Versions \subseteq Nat \ {0}

LatestVersionTag == 0
NotFound         == 0

GreptimeCharts == {"greptimedb-operator", "greptimedb-cluster"}
ChartNames     == GreptimeCharts \cup {"etcd"}
BinaryNames    == {"greptime", "etcd"}

KnownArtifacts ==
    [typ : {"chart"}, name : ChartNames] \cup [typ : {"binary"}, name : BinaryNames]

EtcdBinary(a) == a.typ = "binary" /\ a.name = "etcd"

(***************************************************************************)
(* What the servers hold and say.  The versions of each artifact that are  *)
(* published upstream (GitHub, the registry) and in the bucket of CN, with *)
(* any gaps; and the latest version of a chart by the index, of GreptimeDB *)
(* by its releases, and of anything by the bucket: one that is there, or   *)
(* NotFound.                                                               *)
(***************************************************************************)
ValidWorlds ==
    {w \in [upstream : [KnownArtifacts -> SUBSET (Nat \ {0})],
            bucket   : [KnownArtifacts -> SUBSET (Nat \ {0})],
            index : [GreptimeCharts -> Nat], release : Nat, latest : [KnownArtifacts -> Nat]] :
        /\ \A n \in GreptimeCharts :
               w.index[n] \in w.upstream[[typ |-> "chart", name |-> n]] \cup {NotFound}
        /\ w.release \in w.upstream[[typ |-> "binary", name |-> "greptime"]] \cup {NotFound}
        /\ \A a \in KnownArtifacts : w.latest[a] \in w.bucket[a] \cup {NotFound}}

-----------------------------------------------------------------------------
(* Faulty variants of definitions below *)

\* The version is left out of the path: the file name has it.
PathByName(src, dir) == <<src.typ, src.name, dir>>

\* The boundary is left to the older naming.
NewerOnly(v) == v > BreakingChangeVersion

\* The index counts for all regions.
ResolveByIndex(w, typ, name, cn) ==
    IF typ = "binary" THEN w.release
    ELSE IF name \in GreptimeCharts THEN w.index[name] ELSE NotFound

-----------------------------------------------------------------------------
(* NewSource, in a world w *)

\* The latest version of a binary outside CN is that of GreptimeDB, whatever
\* the binary is.
ResolveLatestVersion(w, typ, name, cn) ==
    IF cn THEN w.latest[[typ |-> typ, name |-> name]]
    ELSE IF typ = "binary" THEN w.release
    ELSE IF name \in GreptimeCharts THEN w.index[name] ELSE NotFound

IsBreakingVersion(v) == v >= BreakingChangeVersion

ChartFileName(name, v) == <<name, v>>
EtcdFileName(v) == <<"etcd", v>>
GreptimeFileName(v) == IF IsBreakingVersion(v) THEN <<"greptime", v>> ELSE <<"greptime">>

EtcdBinaryDownloadURL(v, cn) ==
    << IF cn THEN "bucket/etcd" ELSE "github/etcd-io/etcd", v, EtcdFileName(v)>>

GreptimeBinaryDownloadURL(v, cn) ==
    << IF cn THEN "bucket/greptimedb" ELSE "github/GreptimeTeam/greptimedb",
       v, GreptimeFileName(v)>>

\* The release of a chart is named like its file; the registry is asked for the
\* version.
ChartURL(name, v, cn) ==
    IF cn THEN <<"bucket/charts", name, v, ChartFileName(name, v)>>
    ELSE IF name = "etcd" THEN <<"oci/bitnamicharts/etcd", v>>
    ELSE <<"github/GreptimeTeam/helm-charts", ChartFileName(name, v), ChartFileName(name, v)>>

NewSource(w, a, version, cn) ==
    LET v == IF version # LatestVersionTag THEN version
             ELSE ResolveLatestVersion(w, a.typ, a.name, cn)
        url == IF a.typ = "chart" THEN ChartURL(a.name, v, cn)
               ELSE IF a.name = "etcd" THEN EtcdBinaryDownloadURL(v, cn)
               ELSE GreptimeBinaryDownloadURL(v, cn)
        file == IF a.typ = "chart" THEN ChartFileName(a.name, v) ELSE url[Len(url)]
    IN  [typ |-> a.typ, name |-> a.name, version |-> v, url |-> url, file |-> file]

-----------------------------------------------------------------------------
\* The directory of a source: "pkg", and "bin" for the executables.
AllocateArtifactFilePath(src, dir) == <<src.typ, src.name, src.version, dir>>

CacheFile(src) == Append(AllocateArtifactFilePath(src, "pkg"), src.file)

-----------------------------------------------------------------------------
(***************************************************************************)
(* Where the servers have what they hold in the world w: each has a layout *)
(* of its own.                                                             *)
(***************************************************************************)
GreptimePackage(v) == IF v < BreakingChangeVersion THEN <<"greptime">> ELSE <<"greptime", v>>

BucketURL(a, v) ==
    IF a.typ = "chart" THEN <<"bucket/charts", a.name, v, <<a.name, v>>>>
    ELSE IF a.name = "etcd" THEN <<"bucket/etcd", v, <<"etcd", v>>>>
    ELSE <<"bucket/greptimedb", v, GreptimePackage(v)>>

UpstreamURL(a, v) ==
    IF a.typ = "chart" /\ a.name = "etcd" THEN <<"oci/bitnamicharts/etcd", v>>
    ELSE IF a.typ = "chart" THEN <<"github/GreptimeTeam/helm-charts", <<a.name, v>>, <<a.name, v>>>>
    ELSE IF a.name = "etcd" THEN <<"github/etcd-io/etcd", v, <<"etcd", v>>>>
    ELSE <<"github/GreptimeTeam/greptimedb", v, GreptimePackage(v)>>

Holdings(held) == UNION {{<<a, v>> : v \in held[a]} : a \in KnownArtifacts}

\* A package: its artifact and version, and where it is.
Package(what, url) == [what |-> what, url |-> url]

Published(w) ==
    {Package(x, BucketURL(x[1], x[2])) : x \in Holdings(w.bucket)}
        \cup {Package(x, UpstreamURL(x[1], x[2])) : x \in Holdings(w.upstream)}

-----------------------------------------------------------------------------
(* Properties of a world *)

\* A source of a latest version that is found leads to a package of it that is
\* there, in both regions, with one exception: the etcd binary outside CN, which
\* is looked for under the latest version of GreptimeDB, is there exactly if
\* etcd happens to have published that version too (resolveLatestVersion and the
\* URLs are computed from different places).
LatestIsPublished(w) ==
    \A a \in KnownArtifacts, cn \in BOOLEAN :
        LET src == NewSource(w, a, LatestVersionTag, cn)
        IN  src.version # NotFound =>
                ((\E p \in Published(w) : p.url = src.url /\ p.what = <<a, src.version>>)
                 <=> (EtcdBinary(a) /\ ~cn => w.release \in w.upstream[a]))

\* The sources that can be made.
SourcesIn(w) ==
    {NewSource(w, a, v, cn) :
        a \in KnownArtifacts, v \in Versions \cup {LatestVersionTag}, cn \in BOOLEAN}

\* Two packages that are kept in one file, whatever region they are from and
\* whether their version was given or looked up, are the same artifact
\* (DownloadTo trusts a file by its path).
CacheFilesAgree(w) ==
    \A s, t \in SourcesIn(w) :
        CacheFile(s) = CacheFile(t) =>
            \A p, q \in Published(w) : p.url = s.url /\ q.url = t.url => p.what = q.what
=============================================================================
