------------------------------- MODULE Inputs -------------------------------
(***************************************************************************)
(* The pure algorithms over sets of inputs: a step takes one input, and    *)
(* the invariants say what the algorithm must do with it.                  *)
(***************************************************************************)
EXTENDS Addresses, ChartIndex, HelmValues, SetTexts, Sources

CONSTANTS
    Configs,    \* configurations of bare-metal clusters
    Indexes,    \* lists of a chart's entries in an index
    Merges,     \* values files and the values that go over them
    Settings,   \* what --set and the flags say, and of which chart
    Worlds      \* latest versions of what can be downloaded

ASSUME InputsAssumption ==
    /\ \A cfg \in Configs : cfg \in ValidConfigs
    /\ \A s \in Indexes : s \in Seq(IndexEntries)
    /\ \A m \in Merges : m.base \in MapsTo[Depth] /\ m.vals \in MapsTo[Depth]
    /\ \A t \in Settings :
           /\ t.pieces \in Seq(SetPieces) /\ t.flags \in Seq(Assignments \ {Empty})
           /\ t.chart \in Charts /\ t.cn \in BOOLEAN
    /\ \A w \in Worlds : w \in ValidWorlds

VARIABLE input

-----------------------------------------------------------------------------
Init == input = [of |-> "nothing"]

Take(of, cases) == \E c \in cases : input' = [of |-> of, case |-> c]

Next ==
    /\ input.of = "nothing"
    /\ \/ Take("addresses", Configs)
       \/ Take("index", Indexes)
       \/ Take("merge", Merges)
       \/ Take("set", Settings)
       \/ Take("world", Worlds)

Spec == Init /\ [][Next]_input

-----------------------------------------------------------------------------
(* The properties of each algorithm, of every input taken *)

\* Replicas share a port exactly when two base addresses are too close
\* (PortsMeetWhenClose of Addresses; FormatAddrArg).
AddressesMeetWhenClose == input.of = "addresses" => PortsMeetWhenClose(input.case)

\* Health probes reach the replica they ask for, those of a metasrv or datanode
\* on another interface apart (ProbesOwnListener of Addresses; BuildArgs and
\* IsRunning).
ReplicasProbed == input.of = "addresses" => ProbesOwnListener(input.case)

\* Cleaning an index keeps every valid entry, and of the invalid ones at most
\* those at its end (CleanKeepsValid of ChartIndex; chartIndexFile).
IndexCleaned == input.of = "index" => CleanKeepsValid(input.case)

\* The latest version is the highest valid one (LatestIsHighest of ChartIndex;
\* latestChartVersion).
IndexLatest == input.of = "index" => LatestIsHighest(input.case)

\* A merge of values decides path by path (MergesByPath of HelmValues;
\* mergeMaps, ToHelmValues).
ValuesMerged == input.of = "merge" => MergesByPath(input.case.base, input.case.vals)

\* Appended values, --set and flags count in this order (SetWins of SetTexts;
\* Parse, struct2Values and the creates).
ValuesPrecedence ==
    input.of = "set" =>
        SetWins(input.case.pieces, input.case.flags, input.case.chart, input.case.cn)

\* The latest version of an artifact is one its source has (LatestIsPublished
\* of Sources; resolveLatestVersion, NewSource).
LatestDownloads == input.of = "world" => LatestIsPublished(input.case)

\* A cached file is of one artifact (CacheFilesAgree of Sources;
\* AllocateArtifactFilePath, DownloadTo).
CacheKeysSound == input.of = "world" => CacheFilesAgree(input.case)

\* What --set says is what the chart gets (SetCounts of SetTexts, of which the
\* code falls short; cluster_create.go: the help text of --set).
SettingsCount ==
    input.of = "set" =>
        SetCounts(input.case.pieces, input.case.flags, input.case.chart, input.case.cn)
=============================================================================
