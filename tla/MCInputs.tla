------------------------------ MODULE MCInputs ------------------------------
(***************************************************************************)
(* Bounded inputs for the pure algorithms.                                 *)
(***************************************************************************)
EXTENDS Inputs

\* Base ports from a few that can come close.
MCBindAddr == [host |-> "localhost", port |-> 5]

AnyHost(p) == [host |-> "any", port |-> p]
Maybe(ports) == {NoAddr} \cup {AnyHost(p) : p \in ports}

MCConfigs ==
    [metasrv  : [replicas : 1 .. 2, http : {AnyHost(4), [host |-> "other", port |-> 6]},
                 bind : Maybe({3, 7})],
     datanode : [replicas : 1 .. 3, http : {AnyHost(1), [host |-> "localhost", port |-> 5]},
                 rpc : {AnyHost(p) : p \in {1, 2, 3}}],
     frontend : [replicas : 1 .. 2,
                 http : Maybe({9}) \cup {[host |-> "other", port |-> 8]}, grpc : Maybe({9, 10}),
                 mysql : {AnyHost(12)}, postgres : Maybe({13}), opentsdb : {NoAddr}]]

\* Up to four entries, of three versions.
Entries == {Nil, Bare(TRUE), Bare(FALSE)}
           \cup {Entry(v, u, r) : v \in 0 .. 2, u \in BOOLEAN, r \in BOOLEAN}

MCIndexes == UNION {[1 .. n -> Entries] : n \in 0 .. 3}
             \cup [1 .. 4 -> {e \in Entries : e.urls}]

\* Maps of two levels, the leaves of which tell the file from the text.
MapsWith(leaf) == {f \in MapsTo[2] : \A k \in DOMAIN f :
                      IF f[k].map THEN \A j \in DOMAIN f[k].at : f[k].at[j].val = leaf
                      ELSE f[k].val = leaf}

MCMerges == [base : MapsWith("file"), vals : MapsWith("text")]

\* Texts of up to three pieces.
MCValueKeys  == {"x", "auth.rbac.create", "image.registry"}
MCValueTexts == {"1", "2", "true", "mine", "flag"}

Pieces == [prefix : Charts \cup {""},
           set : {Empty, Set("x", "1"), Set("x", "2"), Set("auth.rbac.create", "true"),
                  Set("image.registry", "mine")}]

PieceTexts == UNION {[1 .. n -> Pieces] : n \in 0 .. 2}
              \cup {t \in [1 .. 3 -> Pieces] : \A k \in 1 .. 3 : t[k].prefix \in {"etcd", ""}}

MCSettings ==
    [pieces : PieceTexts, flags : {<<>>, <<Set("image.registry", "flag"), Set("x", "flag")>>},
     chart : Charts, cn : BOOLEAN]

\* Versions around the one whose naming changed, some of which are missing: of
\* etcd upstream none, those that GreptimeDB has not, or some that it has.
MCVersions == 1 .. 3

Of(greptime, etcd, charts) ==
    [a \in KnownArtifacts |-> IF a.typ = "chart" THEN charts
                              ELSE IF EtcdBinary(a) THEN etcd ELSE greptime]

MCWorlds ==
    {w \in [upstream : {Of(g, e, {1, 2}) : g \in {{1, 3}, {2, 3}}, e \in {{}, {3}, {1, 2}}},
            bucket   : {Of(g, e, {1}) : g \in {{2}, {1, 3}}, e \in {{}, {2}}},
            index    : [GreptimeCharts -> {NotFound, 2}],
            release  : 0 .. 3,
            latest   : {Of(g, e, c) : g \in 0 .. 3, e \in {NotFound, 2}, c \in {NotFound, 1}}] :
        w \in ValidWorlds}
=============================================================================
