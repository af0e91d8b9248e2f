----------------------------- MODULE SourcePins -----------------------------
(***************************************************************************)
(* The updaters of the TheRock source build and the files they keep:       *)
(*   update-rocm-source.py       sources/rocm-source.json                  *)
(*   update-source-tree.py       flake.nix, sources/source-tree.nix        *)
(*   nix flake lock              flake.lock                                *)
(*   update-rocm-third-party.py  sources/rocm-third-party.json             *)
(* A hash is modelled by what it is the hash of.                           *)
(***************************************************************************)
EXTENDS Updater, SourceGraph

CONSTANTS
    Heads,            \* ref -> the revisions the release branch may be at
    EsmiTags,         \* ESMI tag -> the revisions it may be peeled to
    DefaultPolicy, DefaultSourceSeries,
    RootUrl, EsmiUrl  \* DEFAULT_URL, ESMI_IB_LIBRARY_URL

VARIABLES
    sourcePins,       \* target -> [ref, version, rev, policy]
    inputs,           \* the generated inputs of flake.nix: name -> [url, rev]
    tree,             \* [target, root, submodules : Seq([path, input])]
    lock,             \* what flake.lock locks: name -> [url, rev], or Torn
    thirdParty        \* [archives, esmi, spirv]

sourceVars == <<sourcePins, inputs, tree, lock, thirdParty>>

\* A fetch policy is a pair of sequences, a pin a record with one.
IsPolicy(p) == p.nested \in Seq(Range(p.nested)) /\ p.deep \in Seq(Range(p.deep))
IsSourcePin(pin) ==
    /\ DOMAIN pin = {"ref", "version", "rev", "policy"}
    /\ pin.rev \in DOMAIN Repository \cup {None} /\ IsPolicy(pin.policy)

\* Branches are at revisions, and a CMake file is a sequence of statements.
ASSUME SourcesAssumption ==
    /\ None \notin DOMAIN Repository /\ IsPolicy(DefaultPolicy)
    /\ \A ref \in DOMAIN Heads : Heads[ref] \subseteq DOMAIN Repository
    /\ \A rev \in DOMAIN Repository : LET files == Repository[rev].cmake IN
         /\ files \in Seq(Range(files))
         /\ \A file \in Range(files) :
              /\ file \in Seq(Range(file))
              /\ \A s \in Range(file) : s = [is |-> s.is, value |-> s.value] /\ s.is \in {"url", "hash"}

SpirvPath == <<"compiler", "spirv-llvm-translator">>
SystemsPath == <<"rocm-systems">>

-----------------------------------------------------------------------------
\* update-rocm-source.py --target T [--series S] [--rev R]
PinnedSourceSeries(target) ==
    IF target \in DOMAIN sourcePins THEN MajorMinor(sourcePins[target].version)
    ELSE DefaultSourceSeries
\* source_fetch_policy, with no policy on the command line.
SourceFetchPolicy(target) ==
    IF target \in DOMAIN sourcePins THEN sourcePins[target].policy ELSE DefaultPolicy

StartSource(args) ==
    \/ sourcePins = Torn /\ script = NoScript /\ Ends("unreadable")
    \/ /\ sourcePins # Torn
       /\ LET series == IF args.series # None THEN args.series ELSE PinnedSourceSeries(args.target)
          IN Launch([name |-> "update-rocm-source", at |-> "resolve", target |-> args.target,
                     pin |-> [ref |-> series, version |-> series, rev |-> args.rev,
                              policy |-> SourceFetchPolicy(args.target)]])

HeadsOf(ref) == IF ref \in DOMAIN Heads THEN Heads[ref] ELSE {}
\* git_rev: the branch head at this moment, if there is such a branch.
GitRev ==
    /\ script.pin.rev = None
    /\ \/ NetworkFails
       \/ HeadsOf(script.pin.ref) = {} /\ Ends("noVersion")
       \/ \E rev \in HeadsOf(script.pin.ref) : Proceeds([script EXCEPT !.pin.rev = rev])
    /\ UNCHANGED sourceVars
ResolveRev == Running("update-rocm-source", "resolve") /\ GitRev

WriteSourcePin ==
    /\ Running("update-rocm-source", "resolve") /\ script.pin.rev # None
    /\ Writes(sourcePins, Put(sourcePins, script.target, script.pin), Ends("ok"))
    /\ UNCHANGED <<inputs, tree, lock, thirdParty>>

-----------------------------------------------------------------------------
\* update-source-tree.py --target T
StartTree(args) ==
    \/ sourcePins = Torn /\ script = NoScript /\ Ends("unreadable")
    \/ sourcePins # Torn /\ args.target \notin DOMAIN sourcePins /\ script = NoScript /\ Ends("usage")
    \/ /\ sourcePins # Torn /\ args.target \in DOMAIN sourcePins
       /\ Launch([name |-> "update-source-tree", at |-> "resolve", target |-> args.target,
                  pin |-> sourcePins[args.target], graph |-> <<>>])

\* resolve_source: a pin may have been checked in without a revision.
ResolveSource == Running("update-source-tree", "resolve") /\ GitRev

\* update_sources_file: only a pin that had no revision is written.
UpdateSourcesFile ==
    /\ Running("update-source-tree", "resolve") /\ script.pin.rev # None
    /\ LET next == Proceeds([script EXCEPT !.at = "fetch"]) IN
       IF sourcePins[script.target] = script.pin THEN next /\ UNCHANGED sourcePins
       ELSE Writes(sourcePins, Put(sourcePins, script.target, script.pin), next)
    /\ UNCHANGED <<inputs, tree, lock, thirdParty>>

\* fetch_repo of every repository of the graph, and build_graph.
FetchGraph ==
    /\ Running("update-source-tree", "fetch")
    /\ LET graph == BuildGraph(script.pin.rev, script.pin.policy) IN
       \/ NetworkFails
       \/ graph = Unresolved /\ Ends("unresolved")
       \/ graph # Unresolved /\ Proceeds([script EXCEPT !.at = "inputs", !.graph = graph])
    /\ UNCHANGED sourceVars

InputName(path) == <<script.pin.version, script.target, path>>
\* input_lines, one input per entry; input_url keeps url and rev apart.
InputLines ==
    LET paths == {<<>>} \cup DOMAIN script.graph IN
    [name \in {InputName(p) : p \in paths} |->
        IF name[3] = <<>> THEN [url |-> RootUrl, rev |-> script.pin.rev]
        ELSE script.graph[name[3]]]

UpdateFlakeInputs ==
    /\ Running("update-source-tree", "inputs")
    /\ \/ inputs = Torn /\ Ends("unreadable") /\ UNCHANGED inputs
       \/ inputs # Torn /\ Writes(inputs, InputLines, Proceeds([script EXCEPT !.at = "tree"]))
    /\ UNCHANGED <<sourcePins, tree, lock, thirdParty>>

WriteTree ==
    /\ Running("update-source-tree", "tree")
    /\ \E order \in InTreeOrder(DOMAIN script.graph) :
       Writes(tree, [target |-> script.target, root |-> InputName(<<>>),
                     submodules |-> [i \in DOMAIN order |->
                         [path |-> order[i], input |-> InputName(order[i])]]], Ends("ok"))
    /\ UNCHANGED <<sourcePins, inputs, lock, thirdParty>>

-----------------------------------------------------------------------------
\* nix flake lock: locks what flake.nix declares.  It reads the lock there is,
\* and where that is not what it comes to, truncates the file and rewrites it.
LockFlake ==
    /\ Running("nix flake lock", "run")
    /\ \/ NetworkFails /\ UNCHANGED lock
       \/ Torn \in {inputs, lock} /\ Ends("unreadable") /\ UNCHANGED lock
       \/ Torn \notin {inputs, lock} /\ lock = inputs /\ Ends("ok") /\ UNCHANGED lock
       \/ Torn \notin {inputs, lock} /\ lock # inputs /\ Writes(lock, inputs, Ends("ok"))
    /\ UNCHANGED <<sourcePins, inputs, tree, thirdParty>>

TreeInputs == {tree.root} \cup {s.input : s \in Range(tree.submodules)}
\* therock-rocm-source: the tree staged from the locked inputs.
StagedSource ==
    Stage(lock[tree.root].rev, [i \in DOMAIN tree.submodules |->
        [path |-> tree.submodules[i].path, rev |-> lock[tree.submodules[i].input].rev]])

-----------------------------------------------------------------------------
\* scan_archives, over the statements of the CMake files in their order:
\* ["url", value] and ["hash", value], a value as `expand' leaves it.
ScanStatement(scan, statement) ==
    CASE statement.is = "url" -> [scan EXCEPT !.pending = statement.value]
      [] statement.is = "hash" /\ scan.pending # None /\ scan.pending.https ->
            [archives |-> Put(scan.archives, scan.pending.name,
                              [url |-> scan.pending, hash |-> statement.value]),
             pending |-> None]
      [] OTHER -> scan
ScanFile(archives, statements) ==
    FoldLeft(ScanStatement, [archives |-> archives, pending |-> None], statements).archives
ScanArchives(rev) == FoldLeft(ScanFile, <<>>, Repository[rev].cmake)

\* update-rocm-third-party.py --source STAGED
StartThirdParty(args) ==
    \/ thirdParty = Torn /\ script = NoScript /\ Ends("unreadable")
    \/ thirdParty # Torn /\ Launch([name |-> "update-rocm-third-party", at |-> "scan",
           staged |-> args.staged, spirv |-> None, esmi |-> None])

\* The SPIR-V tag, then parse_esmi_pin: a commit, or a tag to be peeled.
ScanPins ==
    /\ Running("update-rocm-third-party", "scan")
    /\ LET staged == script.staged
           spirv == IF SpirvPath \in DOMAIN staged THEN Repository[staged[SpirvPath]].spirv ELSE None
           esmi == IF SystemsPath \in DOMAIN staged THEN Repository[staged[SystemsPath]].esmi ELSE None
           Found(rev) == Proceeds([script EXCEPT !.at = "hash",
                             !.spirv = [url |-> spirv, rev |-> spirv],
                             !.esmi = [url |-> EsmiUrl, rev |-> rev]])
       IN \/ None \in {spirv, esmi} /\ Ends("unresolved")
          \/ /\ None \notin {spirv, esmi} /\ esmi \in DOMAIN EsmiTags
             /\ NetworkFails \/ \E rev \in EsmiTags[esmi] : Found(rev)
          \/ None \notin {spirv, esmi} /\ esmi \notin DOMAIN EsmiTags /\ Found(esmi)
    /\ UNCHANGED sourceVars

\* Fault: a hash reused for another revision of the same url.
SourceHashByUrl(source, previous) ==
    IF previous # None /\ previous.url = source.url THEN previous.hash ELSE source
\* source_hash: reused for the same url and revision, else prefetched.
SourceHash(source, previous) ==
    IF previous # None /\ previous.url = source.url /\ previous.rev = source.rev
    THEN previous.hash ELSE source
Hashed(source, previous) ==
    [url |-> source.url, rev |-> source.rev, hash |-> SourceHash(source, previous)]

WriteThirdParty ==
    /\ Running("update-rocm-third-party", "hash")
    /\ \/ NetworkFails /\ UNCHANGED thirdParty
       \/ Writes(thirdParty, [archives |-> ScanArchives(script.staged[<<>>]),
                              esmi |-> Hashed(script.esmi, thirdParty.esmi),
                              spirv |-> Hashed(script.spirv, thirdParty.spirv)], Ends("ok"))
    /\ UNCHANGED <<sourcePins, inputs, tree, lock>>

UpdateSources ==
    \/ ResolveRev \/ WriteSourcePin
    \/ ResolveSource \/ UpdateSourcesFile \/ FetchGraph \/ UpdateFlakeInputs \/ WriteTree
    \/ LockFlake \/ ScanPins \/ WriteThirdParty
=============================================================================
