---------------------------- MODULE InputsProofs ----------------------------
(***************************************************************************)
(* The pure algorithms, for any set of inputs: proofs about addresses and  *)
(* sources, and with those about chart indexes and values, that the        *)
(* invariants of Inputs hold.                                              *)
(***************************************************************************)
EXTENDS Inputs, HelmValuesProofs

-----------------------------------------------------------------------------
(* Addresses *)

\* Of each component the replicas and the addresses.
LEMMA ConfigTypes ==
    ASSUME NEW cfg \in ValidConfigs, NEW c \in Components, NEW f \in DOMAIN cfg[c]
    PROVE  /\ cfg[c].replicas \in Nat \ {0}
           /\ f # "replicas" => cfg[c][f] \in MaybeAddr
<1>1. CASE c = "metasrv"
  BY <1>1 DEF ValidConfigs, MaybeAddr
<1>2. CASE c = "datanode"
  BY <1>2 DEF ValidConfigs, MaybeAddr
<1>3. CASE c = "frontend"
  BY <1>3 DEF ValidConfigs, MaybeAddr
<1> QED BY <1>1, <1>2, <1>3 DEF Components

\* A configured listener has a base port and a number of replicas.
LEMMA LineTypes ==
    ASSUME NEW cfg \in ValidConfigs, NEW l \in Lines(cfg)
    PROVE  /\ l = <<l[1], l[2]>>
           /\ BaseAddrOf(cfg, l[1], l[2]) \in Addr
           /\ Base(cfg, l) \in Nat
           /\ Replicas(cfg, l) \in Nat \ {0}
<1>1. PICK c \in Components,
           f \in {"http", "bind", "rpc", "grpc", "mysql", "postgres", "opentsdb"} :
              l = <<c, f>>
  BY DEF Lines
<1>2. f \in DOMAIN cfg[c] \ {"replicas"} /\ BaseAddrOf(cfg, c, f) # NoAddr
  BY <1>1 DEF Lines
<1>3. BaseAddrOf(cfg, c, f) \in Addr /\ cfg[c].replicas \in Nat \ {0}
  <2>1. cfg[c].replicas \in Nat \ {0} /\ cfg[c][f] \in MaybeAddr
    BY <1>2, ConfigTypes
  <2> QED BY <1>2, <2>1, BindAssumption DEF BaseAddrOf, MaybeAddr
<1> QED
  BY <1>1, <1>3 DEF Base, Replicas, Addr

\* The sockets are the listeners' replicas, and each has the listener's base
\* port plus its index.
LEMMA SocketPorts ==
    ASSUME NEW cfg \in ValidConfigs, NEW l \in Lines(cfg), NEW id \in 0 .. Replicas(cfg, l) - 1
    PROVE  SocketPort(cfg, <<l, id>>) = Base(cfg, l) + id
<1> DEFINE base == BaseAddrOf(cfg, l[1], l[2])
<1>1. base \in Addr /\ base # NoAddr
  <2>1. base \in Addr
    BY LineTypes
  <2>2. base # NoAddr
    BY DEF Lines
  <2> QED BY <2>1, <2>2
<1>2. FormatAddrArg(base, id) = [base EXCEPT !.port = @ + id]
  BY <1>1 DEF FormatAddrArg
<1> QED
  BY <1>1, <1>2 DEF SocketPort, Base, Addr

LEMMA SocketForm ==
    ASSUME NEW cfg, NEW s \in Sockets(cfg)
    PROVE  \E l \in Lines(cfg) : \E id \in 0 .. Replicas(cfg, l) - 1 : s = <<l, id>>
  BY DEF Sockets

\* Two intervals of ports meet exactly when each begins before the other ends.
LEMMA IntervalsMeet ==
    ASSUME NEW a \in Nat, NEW b \in Nat, NEW m \in Nat \ {0}, NEW n \in Nat \ {0},
           a - b < n, b - a < m
    PROVE  \E i \in 0 .. m - 1, j \in 0 .. n - 1 : a + i = b + j
<1>1. CASE a <= b
  <2>1. b - a \in 0 .. m - 1 /\ 0 \in 0 .. n - 1 /\ a + (b - a) = b + 0
    BY <1>1
  <2> QED BY <2>1
<1>2. CASE b < a
  <2>1. 0 \in 0 .. m - 1 /\ a - b \in 0 .. n - 1 /\ a + 0 = b + (a - b)
    BY <1>2
  <2> QED BY <2>1
<1> QED BY <1>1, <1>2

\* Of any configuration: replicas are given one port twice exactly when two of
\* its listeners are too close (PortsMeetWhenClose, FormatAddrArg).
THEOREM PortsOfReplicas ==
    ASSUME NEW cfg \in ValidConfigs
    PROVE  PortsMeetWhenClose(cfg)
<1>1. ASSUME PortsMeet(cfg) PROVE Close(cfg)
  <2>1. PICK s \in Sockets(cfg), t \in Sockets(cfg) :
            s # t /\ SocketPort(cfg, s) = SocketPort(cfg, t)
    BY <1>1 DEF PortsMeet
  <2>2. PICK l \in Lines(cfg) : \E id \in 0 .. Replicas(cfg, l) - 1 : s = <<l, id>>
    BY SocketForm
  <2>3. PICK i \in 0 .. Replicas(cfg, l) - 1 : s = <<l, i>>
    BY <2>2
  <2>4. PICK m \in Lines(cfg) : \E id \in 0 .. Replicas(cfg, m) - 1 : t = <<m, id>>
    BY SocketForm
  <2>5. PICK j \in 0 .. Replicas(cfg, m) - 1 : t = <<m, j>>
    BY <2>4
  <2>6. Base(cfg, l) + i = Base(cfg, m) + j
    BY <2>1, <2>3, <2>5, SocketPorts
  <2>7. /\ Base(cfg, l) \in Nat /\ Base(cfg, m) \in Nat
        /\ Replicas(cfg, l) \in Nat \ {0} /\ Replicas(cfg, m) \in Nat \ {0}
    BY LineTypes
  <2>8. l # m
    <3>1. SUFFICES ASSUME l = m PROVE FALSE
      OBVIOUS
    <3>2. i = j
      BY <2>6, <2>7, <3>1
    <3> QED BY <2>1, <2>3, <2>5, <3>1, <3>2
  <2>9. /\ Base(cfg, l) - Base(cfg, m) < Replicas(cfg, m)
        /\ Base(cfg, m) - Base(cfg, l) < Replicas(cfg, l)
    BY <2>6, <2>7
  <2> QED BY <2>8, <2>9 DEF Close
<1>2. ASSUME Close(cfg) PROVE PortsMeet(cfg)
  <2>1. PICK l \in Lines(cfg), m \in Lines(cfg) :
            /\ l # m
            /\ Base(cfg, l) - Base(cfg, m) < Replicas(cfg, m)
            /\ Base(cfg, m) - Base(cfg, l) < Replicas(cfg, l)
    BY <1>2 DEF Close
  <2>2. /\ Base(cfg, l) \in Nat /\ Base(cfg, m) \in Nat
        /\ Replicas(cfg, l) \in Nat \ {0} /\ Replicas(cfg, m) \in Nat \ {0}
    BY LineTypes
  <2>3. PICK i \in 0 .. Replicas(cfg, l) - 1, j \in 0 .. Replicas(cfg, m) - 1 :
            Base(cfg, l) + i = Base(cfg, m) + j
    BY <2>1, <2>2, IntervalsMeet
  <2>4. <<l, i>> \in Sockets(cfg) /\ <<m, j>> \in Sockets(cfg)
    BY DEF Sockets
  <2>5. SocketPort(cfg, <<l, i>>) = SocketPort(cfg, <<m, j>>)
    BY <2>3, SocketPorts
  <2> QED BY <2>1, <2>4, <2>5 DEF PortsMeet
<1> QED BY <1>1, <1>2 DEF PortsMeetWhenClose

LEMMA NoAddrIsNone == NoAddr \notin Addr
  BY DEF NoAddr, Addr

\* A replica with an http address has one http listener, at that address plus
\* its index, and one without has none.
LEMMA HttpListener ==
    ASSUME NEW cfg \in ValidConfigs, NEW c \in Components, NEW id \in Nat, NEW a
    PROVE  a \in BuildArgs(cfg, c, id) /\ a[1] = "--http-addr" <=>
               /\ a = <<"--http-addr", FormatAddrArg(cfg[c].http, id)>>
               /\ FormatAddrArg(cfg[c].http, id) # NoAddr
<1>1. BaseAddrOf(cfg, c, "http") = cfg[c].http
  BY DEF BaseAddrOf
<1>2. <<"--http-addr", "http">> \in Listeners[c]
  BY DEF Listeners, Components, MetaSrvListeners, DatanodeListeners, FrontendListeners
<1>3. \A l \in Listeners[c] : l[1] = "--http-addr" => l[2] = "http"
  BY DEF Listeners, Components, MetaSrvListeners, DatanodeListeners, FrontendListeners
<1>4. ASSUME a \in BuildArgs(cfg, c, id), a[1] = "--http-addr"
      PROVE  /\ a = <<"--http-addr", FormatAddrArg(cfg[c].http, id)>>
             /\ FormatAddrArg(cfg[c].http, id) # NoAddr
  <2>1. PICK l \in Listeners[c] : a = <<l[1], FormatAddrArg(BaseAddrOf(cfg, c, l[2]), id)>>
    BY <1>4 DEF BuildArgs
  <2>2. a[2] # NoAddr
    BY <1>4 DEF BuildArgs
  <2>3. l[1] = "--http-addr" /\ l[2] = "http"
    BY <1>3, <1>4, <2>1
  <2> QED BY <1>1, <2>1, <2>2, <2>3
<1>5. ASSUME a = <<"--http-addr", FormatAddrArg(cfg[c].http, id)>>,
             FormatAddrArg(cfg[c].http, id) # NoAddr
      PROVE  a \in BuildArgs(cfg, c, id) /\ a[1] = "--http-addr"
  <2>1. a \in {<<l[1], FormatAddrArg(BaseAddrOf(cfg, c, l[2]), id)>> : l \in Listeners[c]}
    BY <1>1, <1>2, <1>5
  <2> QED BY <1>5, <2>1 DEF BuildArgs
<1> QED BY <1>4, <1>5

\* Of any configuration: the health probe of a replica reaches the http
\* listener that its command line gives it, unless it has none or it is a
\* metasrv or datanode on another interface (BuildArgs, IsRunning).
THEOREM ProbesReachListeners ==
    ASSUME NEW cfg \in ValidConfigs
    PROVE  ProbesOwnListener(cfg)
<1> SUFFICES ASSUME NEW c \in Components, NEW id \in 0 .. cfg[c].replicas - 1
             PROVE  (\E a \in BuildArgs(cfg, c, id) :
                         a[1] = "--http-addr" /\ Reaches(Probe(cfg, c, id), a[2]))
                    <=> /\ cfg[c].http # NoAddr
                        /\ c = "frontend" \/ cfg[c].http.host \in {"any", "localhost"}
  BY DEF ProbesOwnListener
<1> DEFINE addr == FormatAddrArg(cfg[c].http, id)
           probe == Probe(cfg, c, id)
<1>1. cfg[c].http \in MaybeAddr /\ cfg[c].replicas \in Nat \ {0} /\ id \in Nat
  <2>1. "http" \in DOMAIN cfg[c]
    BY DEF ValidConfigs, Components
  <2>2. cfg[c].http \in MaybeAddr /\ cfg[c].replicas \in Nat \ {0}
    BY <2>1, ConfigTypes
  <2> QED BY <2>2
<1>2. CASE cfg[c].http = NoAddr
  <2>1. addr = NoAddr
    BY <1>2 DEF FormatAddrArg
  <2>2. \A a : ~(a \in BuildArgs(cfg, c, id) /\ a[1] = "--http-addr")
    BY <1>1, <2>1, HttpListener
  <2> QED BY <1>2, <2>2
<1>3. CASE cfg[c].http # NoAddr
  <2>1. cfg[c].http \in Addr
    BY <1>1, <1>3 DEF MaybeAddr
  <2>2. addr = [cfg[c].http EXCEPT !.port = @ + id]
    BY <1>3 DEF FormatAddrArg
  <2>3. addr \in Addr /\ addr.host = cfg[c].http.host
    BY <1>1, <2>1, <2>2 DEF Addr
  <2>4. probe = IF c = "frontend" THEN addr ELSE [addr EXCEPT !.host = "localhost"]
    BY DEF Probe, OnLocalhost
  <2> HIDE DEF addr, probe
  <2>5. probe.port = addr.port /\ probe.host = IF c = "frontend" THEN addr.host ELSE "localhost"
    BY <2>3, <2>4 DEF Addr
  <2>6. Reaches(probe, addr) <=> c = "frontend" \/ addr.host \in {"any", "localhost"}
    BY <2>5 DEF Reaches
  <2>7. \A a : a \in BuildArgs(cfg, c, id) /\ a[1] = "--http-addr" <=> a = <<"--http-addr", addr>>
    <3>1. addr # NoAddr
      BY <2>3, NoAddrIsNone
    <3> QED BY <1>1, <3>1, HttpListener DEF addr
  <2>8. (\E a \in BuildArgs(cfg, c, id) : a[1] = "--http-addr" /\ Reaches(probe, a[2]))
        <=> Reaches(probe, addr)
    <3>1. <<"--http-addr", addr>>[2] = addr
      OBVIOUS
    <3> QED BY <2>7, <3>1
  <2> QED BY <1>3, <2>3, <2>6, <2>8 DEF probe
<1> QED BY <1>2, <1>3

-----------------------------------------------------------------------------
(* Sources *)

LEMMA ArtifactForm ==
    ASSUME NEW a \in KnownArtifacts
    PROVE  /\ a = [typ |-> a.typ, name |-> a.name]
           /\ \/ a.typ = "chart" /\ a.name \in {"greptimedb-operator", "greptimedb-cluster", "etcd"}
              \/ a.typ = "binary" /\ a.name \in {"greptime", "etcd"}
  BY DEF KnownArtifacts, ChartNames, GreptimeCharts, BinaryNames

\* The latest version that is looked up is a number, and one that is published
\* where it is looked up, but for the etcd binary outside CN.
LEMMA ResolvedVersions ==
    ASSUME NEW w \in ValidWorlds, NEW a \in KnownArtifacts, NEW cn \in BOOLEAN
    PROVE  LET v == ResolveLatestVersion(w, a.typ, a.name, cn)
           IN  /\ v \in Nat
               /\ cn /\ v # NotFound => v \in w.bucket[a]
               /\ ~cn /\ v # NotFound /\ ~EtcdBinary(a) => v \in w.upstream[a]
               /\ ~cn /\ EtcdBinary(a) => v = w.release
<1>1. /\ w.latest \in [KnownArtifacts -> Nat] /\ w.index \in [GreptimeCharts -> Nat]
      /\ w.release \in Nat
  BY DEF ValidWorlds
<1>6. /\ w.latest[a] \in w.bucket[a] \cup {NotFound}
      /\ \A n \in GreptimeCharts :
             w.index[n] \in w.upstream[[typ |-> "chart", name |-> n]] \cup {NotFound}
      /\ w.release \in w.upstream[[typ |-> "binary", name |-> "greptime"]] \cup {NotFound}
  BY DEF ValidWorlds
<1>2. a = [typ |-> a.typ, name |-> a.name]
  BY ArtifactForm
<1>3. CASE cn
  BY <1>1, <1>2, <1>3, <1>6 DEF ResolveLatestVersion
<1>4. CASE ~cn /\ a.typ = "binary"
  BY <1>1, <1>2, <1>4, <1>6, ArtifactForm DEF ResolveLatestVersion, EtcdBinary
<1>5. CASE ~cn /\ a.typ = "chart"
  BY <1>1, <1>2, <1>5, <1>6 DEF ResolveLatestVersion, GreptimeCharts, NotFound, EtcdBinary
<1> QED BY <1>3, <1>4, <1>5, ArtifactForm

\* A source is of the artifact it was made for, in the version that was given
\* or looked up, and points where the server of its region has that.
LEMMA SourceForm ==
    ASSUME NEW w \in ValidWorlds, NEW a \in KnownArtifacts, NEW cn \in BOOLEAN,
           NEW version \in Versions \cup {LatestVersionTag}
    PROVE  LET src == NewSource(w, a, version, cn)
           IN  /\ src.typ = a.typ /\ src.name = a.name
               /\ src.version \in Nat
               /\ version = LatestVersionTag =>
                      src.version = ResolveLatestVersion(w, a.typ, a.name, cn)
               /\ src.url = IF cn THEN BucketURL(a, src.version) ELSE UpstreamURL(a, src.version)
<1> DEFINE v == IF version # LatestVersionTag THEN version
                ELSE ResolveLatestVersion(w, a.typ, a.name, cn)
           src == NewSource(w, a, version, cn)
<1>1. v \in Nat
  BY ResolvedVersions, SourcesAssumption DEF LatestVersionTag
<1>2. /\ src.typ = a.typ /\ src.name = a.name /\ src.version = v
      /\ src.url = IF a.typ = "chart" THEN ChartURL(a.name, v, cn)
                   ELSE IF a.name = "etcd" THEN EtcdBinaryDownloadURL(v, cn)
                   ELSE GreptimeBinaryDownloadURL(v, cn)
  BY DEF NewSource
<1>3. GreptimeFileName(v) = GreptimePackage(v)
  BY <1>1, SourcesAssumption DEF GreptimeFileName, GreptimePackage, IsBreakingVersion
<1> HIDE DEF v, src
<1>4. src.url = IF cn THEN BucketURL(a, v) ELSE UpstreamURL(a, v)
  <2>1. CASE a.typ = "chart"
    BY <1>2, <2>1 DEF ChartURL, ChartFileName, BucketURL, UpstreamURL
  <2>2. CASE a.typ = "binary" /\ a.name = "etcd"
    BY <1>2, <2>2 DEF EtcdBinaryDownloadURL, EtcdFileName, BucketURL, UpstreamURL
  <2>3. CASE a.typ = "binary" /\ a.name = "greptime"
    BY <1>2, <1>3, <2>3 DEF GreptimeBinaryDownloadURL, BucketURL, UpstreamURL
  <2> QED BY <2>1, <2>2, <2>3, ArtifactForm
<1> QED BY <1>1, <1>2, <1>4 DEF v, src

\* No two packages have one URL.
LEMMA URLsDiffer ==
    ASSUME NEW a \in KnownArtifacts, NEW b \in KnownArtifacts, NEW u, NEW v
    PROVE  /\ BucketURL(a, u) = BucketURL(b, v) => a = b /\ u = v
           /\ UpstreamURL(a, u) = UpstreamURL(b, v) => a = b /\ u = v
           /\ BucketURL(a, u) # UpstreamURL(b, v)
<1>1. /\ a = [typ |-> a.typ, name |-> a.name] /\ b = [typ |-> b.typ, name |-> b.name]
  BY ArtifactForm
<1>2. BucketURL(a, u) = BucketURL(b, v) => a = b /\ u = v
  BY <1>1, ArtifactForm DEF BucketURL
<1>3. UpstreamURL(a, u) = UpstreamURL(b, v) => a = b /\ u = v
  BY <1>1, ArtifactForm DEF UpstreamURL
<1>4. BucketURL(a, u) # UpstreamURL(b, v)
  BY ArtifactForm DEF BucketURL, UpstreamURL
<1> QED BY <1>2, <1>3, <1>4

\* What is published is a version of an artifact that the bucket has, at the
\* bucket's URL, or one that upstream has, at its.
LEMMA PublishedForm ==
    ASSUME NEW w \in ValidWorlds, NEW p \in Published(w)
    PROVE  \E a \in KnownArtifacts, v \in Nat :
               /\ p.what = <<a, v>>
               /\ \/ v \in w.bucket[a] /\ p.url = BucketURL(a, v)
                  \/ v \in w.upstream[a] /\ p.url = UpstreamURL(a, v)
<1>1. \A a \in KnownArtifacts :
          w.bucket[a] \in SUBSET (Nat \ {0}) /\ w.upstream[a] \in SUBSET (Nat \ {0})
  BY DEF ValidWorlds
<1>2. CASE \E x \in Holdings(w.bucket) : p = Package(x, BucketURL(x[1], x[2]))
  <2>1. PICK x \in Holdings(w.bucket) : p = Package(x, BucketURL(x[1], x[2]))
    BY <1>2
  <2>2. PICK a \in KnownArtifacts : \E v \in w.bucket[a] : x = <<a, v>>
    BY DEF Holdings
  <2>3. PICK v \in w.bucket[a] : x = <<a, v>>
    BY <2>2
  <2> QED BY <1>1, <2>1, <2>3 DEF Package
<1>3. CASE \E x \in Holdings(w.upstream) : p = Package(x, UpstreamURL(x[1], x[2]))
  <2>1. PICK x \in Holdings(w.upstream) : p = Package(x, UpstreamURL(x[1], x[2]))
    BY <1>3
  <2>2. PICK a \in KnownArtifacts : \E v \in w.upstream[a] : x = <<a, v>>
    BY DEF Holdings
  <2>3. PICK v \in w.upstream[a] : x = <<a, v>>
    BY <2>2
  <2> QED BY <1>1, <2>1, <2>3 DEF Package
<1> QED BY <1>2, <1>3 DEF Published

\* Each version that the bucket or upstream has is published.
LEMMA HeldIsPublished ==
    ASSUME NEW w, NEW a \in KnownArtifacts, NEW v
    PROVE  /\ v \in w.bucket[a] => Package(<<a, v>>, BucketURL(a, v)) \in Published(w)
           /\ v \in w.upstream[a] => Package(<<a, v>>, UpstreamURL(a, v)) \in Published(w)
<1>1. ASSUME NEW held, v \in held[a] PROVE <<a, v>> \in Holdings(held)
  BY <1>1 DEF Holdings
<1>2. <<a, v>>[1] = a /\ <<a, v>>[2] = v
  OBVIOUS
<1>3. ASSUME v \in w.bucket[a] PROVE Package(<<a, v>>, BucketURL(a, v)) \in Published(w)
  <2>1. <<a, v>> \in Holdings(w.bucket)
    BY <1>1, <1>3
  <2> QED BY <1>2, <2>1 DEF Published
<1>4. ASSUME v \in w.upstream[a] PROVE Package(<<a, v>>, UpstreamURL(a, v)) \in Published(w)
  <2>1. <<a, v>> \in Holdings(w.upstream)
    BY <1>1, <1>4
  <2> QED BY <1>2, <2>1 DEF Published
<1> QED BY <1>3, <1>4

\* In every world, the latest version of an artifact is one that its source
\* has; of the etcd binary outside CN, exactly if etcd has published the latest
\* version of GreptimeDB (resolveLatestVersion, NewSource).
THEOREM LatestVersionsExist ==
    ASSUME NEW w \in ValidWorlds
    PROVE  LatestIsPublished(w)
<1> SUFFICES ASSUME NEW a \in KnownArtifacts, NEW cn \in BOOLEAN,
                    NewSource(w, a, LatestVersionTag, cn).version # NotFound
             PROVE  LET src == NewSource(w, a, LatestVersionTag, cn)
                    IN  (\E p \in Published(w) :
                             p.url = src.url /\ p.what = <<a, src.version>>)
                        <=> (EtcdBinary(a) /\ ~cn => w.release \in w.upstream[a])
  BY DEF LatestIsPublished
<1> DEFINE src == NewSource(w, a, LatestVersionTag, cn)
           v == src.version
<1>1. /\ v \in Nat /\ v # NotFound /\ v = ResolveLatestVersion(w, a.typ, a.name, cn)
      /\ src.url = IF cn THEN BucketURL(a, v) ELSE UpstreamURL(a, v)
  BY SourceForm
<1>2. /\ cn => v \in w.bucket[a]
      /\ ~cn /\ ~EtcdBinary(a) => v \in w.upstream[a]
      /\ ~cn /\ EtcdBinary(a) => v = w.release
  BY <1>1, ResolvedVersions
<1> HIDE DEF v, src
<1>3. ASSUME EtcdBinary(a) /\ ~cn => w.release \in w.upstream[a]
      PROVE  \E p \in Published(w) : p.url = src.url /\ p.what = <<a, v>>
  <2> DEFINE p == Package(<<a, v>>, src.url)
  <2>1. p \in Published(w)
    BY <1>1, <1>2, <1>3, HeldIsPublished
  <2>2. p.url = src.url /\ p.what = <<a, v>>
    BY DEF Package
  <2> QED BY <2>1, <2>2
<1>4. ASSUME NEW p \in Published(w), p.url = src.url, p.what = <<a, v>>, EtcdBinary(a), ~cn
      PROVE  w.release \in w.upstream[a]
  <2>1. PICK b \in KnownArtifacts, u \in Nat :
            /\ p.what = <<b, u>>
            /\ \/ u \in w.bucket[b] /\ p.url = BucketURL(b, u)
               \/ u \in w.upstream[b] /\ p.url = UpstreamURL(b, u)
    BY PublishedForm
  <2>2. p.url = UpstreamURL(a, v)
    BY <1>1, <1>4
  <2>3. u \in w.upstream[b] /\ b = a /\ u = v
    BY <2>1, <2>2, URLsDiffer
  <2> QED BY <1>2, <1>4, <2>3
<1> QED BY <1>3, <1>4 DEF v, src

\* In every world, two packages that are kept in one file of the cache are the
\* same artifact (AllocateArtifactFilePath, DownloadTo).
THEOREM CacheFilesAreOfOneArtifact ==
    ASSUME NEW w \in ValidWorlds
    PROVE  CacheFilesAgree(w)
<1>1. ASSUME NEW s \in SourcesIn(w), NEW p \in Published(w), p.url = s.url
      PROVE  p.what = <<[typ |-> s.typ, name |-> s.name], s.version>>
  <2>1. PICK a \in KnownArtifacts, version \in Versions \cup {LatestVersionTag}, cn \in BOOLEAN :
            s = NewSource(w, a, version, cn)
    BY DEF SourcesIn
  <2>2. /\ s.typ = a.typ /\ s.name = a.name
        /\ s.url = IF cn THEN BucketURL(a, s.version) ELSE UpstreamURL(a, s.version)
    BY <2>1, SourceForm
  <2>3. PICK b \in KnownArtifacts, u \in Nat :
            /\ p.what = <<b, u>>
            /\ p.url = BucketURL(b, u) \/ p.url = UpstreamURL(b, u)
    BY PublishedForm
  <2>4. b = a /\ u = s.version
    BY <1>1, <2>2, <2>3, URLsDiffer
  <2>5. a = [typ |-> s.typ, name |-> s.name]
    BY <2>2, ArtifactForm
  <2> QED BY <2>3, <2>4, <2>5
<1>2. ASSUME NEW s \in SourcesIn(w), NEW t \in SourcesIn(w), CacheFile(s) = CacheFile(t)
      PROVE  s.typ = t.typ /\ s.name = t.name /\ s.version = t.version
  <2>1. <<s.typ, s.name, s.version, "pkg", s.file>> = <<t.typ, t.name, t.version, "pkg", t.file>>
    BY <1>2 DEF CacheFile, AllocateArtifactFilePath
  <2> QED BY <2>1
<1>3. ASSUME NEW s \in SourcesIn(w), NEW t \in SourcesIn(w), CacheFile(s) = CacheFile(t),
             NEW p \in Published(w), NEW q \in Published(w), p.url = s.url, q.url = t.url
      PROVE  p.what = q.what
  BY <1>1, <1>2, <1>3
<1> QED BY <1>3 DEF CacheFilesAgree

-----------------------------------------------------------------------------
(* The inputs taken *)

\* Every input is one of those there are.
TypeOK ==
    \/ input = [of |-> "nothing"]
    \/ \E cfg \in Configs : input = [of |-> "addresses", case |-> cfg]
    \/ \E s \in Indexes   : input = [of |-> "index", case |-> s]
    \/ \E m \in Merges    : input = [of |-> "merge", case |-> m]
    \/ \E t \in Settings  : input = [of |-> "set", case |-> t]
    \/ \E w \in Worlds    : input = [of |-> "world", case |-> w]

LEMMA InputsTyped == Spec => []TypeOK
<1>1. Init => TypeOK
  BY DEF Init, TypeOK
<1>2. TypeOK /\ [Next]_input => TypeOK'
  <2>1. ASSUME NEW of, NEW cases, Take(of, cases)
        PROVE  \E c \in cases : input' = [of |-> of, case |-> c]
    BY <2>1 DEF Take
  <2>2. ASSUME Next PROVE TypeOK'
    BY <2>1, <2>2 DEF Next, TypeOK
  <2>3. ASSUME TypeOK, UNCHANGED input PROVE TypeOK'
    BY <2>3 DEF TypeOK
  <2> QED BY <2>2, <2>3
<1> QED BY <1>1, <1>2, PTL DEF Spec

\* The invariants of the inputs, whatever the sets of configurations, indexes,
\* values, settings and worlds are.
LEMMA InputsRight ==
    TypeOK => /\ AddressesMeetWhenClose /\ ReplicasProbed
              /\ IndexCleaned /\ IndexLatest /\ ValuesMerged /\ ValuesPrecedence
              /\ LatestDownloads /\ CacheKeysSound
<1> SUFFICES ASSUME TypeOK
             PROVE  /\ AddressesMeetWhenClose /\ ReplicasProbed
                    /\ IndexCleaned /\ IndexLatest /\ ValuesMerged /\ ValuesPrecedence
                    /\ LatestDownloads /\ CacheKeysSound
  OBVIOUS
<1> USE DEF AddressesMeetWhenClose, ReplicasProbed, IndexCleaned, IndexLatest,
            ValuesMerged, ValuesPrecedence, LatestDownloads, CacheKeysSound
<1>1. CASE input = [of |-> "nothing"]
  BY <1>1
<1>2. CASE \E cfg \in Configs : input = [of |-> "addresses", case |-> cfg]
  <2>1. PICK cfg \in Configs : input = [of |-> "addresses", case |-> cfg]
    BY <1>2
  <2>2. cfg \in ValidConfigs
    BY InputsAssumption
  <2>3. PortsMeetWhenClose(cfg) /\ ProbesOwnListener(cfg)
    BY <2>2, PortsOfReplicas, ProbesReachListeners
  <2> QED BY <2>1, <2>3
<1>3. CASE \E s \in Indexes : input = [of |-> "index", case |-> s]
  <2>1. PICK s \in Indexes : input = [of |-> "index", case |-> s]
    BY <1>3
  <2>2. s \in Seq(IndexEntries)
    BY InputsAssumption
  <2>3. CleanKeepsValid(s) /\ LatestIsHighest(s)
    BY <2>2, CleaningKeepsValid, LatestVersionIsHighest
  <2> QED BY <2>1, <2>3
<1>4. CASE \E t \in Settings : input = [of |-> "set", case |-> t]
  <2>1. PICK t \in Settings : input = [of |-> "set", case |-> t]
    BY <1>4
  <2>2. /\ t.pieces \in Seq(SetPieces) /\ t.flags \in Seq(Assignments \ {Empty})
        /\ t.chart \in Charts /\ t.cn \in BOOLEAN
    BY InputsAssumption
  <2>3. SetWins(t.pieces, t.flags, t.chart, t.cn)
    BY <2>2, LayersCountInOrder
  <2> QED BY <2>1, <2>3
<1>5. CASE \E w \in Worlds : input = [of |-> "world", case |-> w]
  <2>1. PICK w \in Worlds : input = [of |-> "world", case |-> w]
    BY <1>5
  <2>2. w \in ValidWorlds
    BY InputsAssumption
  <2>3. LatestIsPublished(w) /\ CacheFilesAgree(w)
    BY <2>2, LatestVersionsExist, CacheFilesAreOfOneArtifact
  <2> QED BY <2>1, <2>3
<1>6. CASE \E m \in Merges : input = [of |-> "merge", case |-> m]
  <2>1. PICK m \in Merges : input = [of |-> "merge", case |-> m]
    BY <1>6
  <2>2. m.base \in MapsTo[Depth] /\ m.vals \in MapsTo[Depth]
    BY InputsAssumption
  <2>3. MergesByPath(m.base, m.vals)
    <3>1. \A p \in UNION {[1 .. n -> Keys] : n \in 1 .. Depth} : p \in Seq(Keys)
      <4>1. ASSUME NEW n \in 1 .. Depth, NEW p \in [1 .. n -> Keys] PROVE p \in Seq(Keys)
        BY HelmValuesAssumption
      <4> QED BY <4>1
    <3> QED BY <2>2, <3>1, MergeDecidesByPath DEF MergesByPath
  <2> QED BY <2>1, <2>3
<1> QED BY <1>1, <1>2, <1>3, <1>4, <1>5, <1>6 DEF TypeOK

\* Of every configuration: replicas share a port exactly when two base
\* addresses are too close (FormatAddrArg).
THEOREM PortsMeetExactlyWhenClose == Spec => []AddressesMeetWhenClose
  BY InputsTyped, InputsRight, PTL

\* Of every configuration: health probes reach the replica they ask for, those
\* of a metasrv or datanode on another interface apart (BuildArgs, IsRunning).
THEOREM EveryReplicaProbed == Spec => []ReplicasProbed
  BY InputsTyped, InputsRight, PTL

\* Of every index: cleaning keeps what is valid, and of the rest at most the
\* end of the list (chartIndexFile).
THEOREM EveryIndexCleaned == Spec => []IndexCleaned
  BY InputsTyped, InputsRight, PTL

\* Of every index: the latest version is the highest valid one
\* (latestChartVersion).
THEOREM EveryIndexLatest == Spec => []IndexLatest
  BY InputsTyped, InputsRight, PTL

\* Of all maps: a merge of values decides path by path (mergeMaps).
THEOREM EveryMergeByPath == Spec => []ValuesMerged
  BY InputsTyped, InputsRight, PTL

\* Of all flags and texts of --set: what gtctl appends counts before what
\* --set says for the chart, and that before the flags (Parse, the creates,
\* struct2Values).
THEOREM EverySettingLayered == Spec => []ValuesPrecedence
  BY InputsTyped, InputsRight, PTL

\* In every world: the latest version of an artifact can be downloaded; that of
\* the etcd binary outside CN exactly if etcd has published the latest version
\* of GreptimeDB (resolveLatestVersion, NewSource).
THEOREM EveryLatestDownloads == Spec => []LatestDownloads
  BY InputsTyped, InputsRight, PTL

\* In every world: a cached file is of one artifact (AllocateArtifactFilePath).
THEOREM EveryCacheKeySound == Spec => []CacheKeysSound
  BY InputsTyped, InputsRight, PTL

=============================================================================
