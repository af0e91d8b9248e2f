---------------------------- MODULE UpdateStack -----------------------------
(***************************************************************************)
(* update-rocm-stack.py --kind K over all the updaters and their files,    *)
(* updaters run by hand between refreshes, and a kill at any time.  What a *)
(* refresh leaves behind is what the next one starts from.  Nobody runs    *)
(* two of these at once: each rewrites whole files.                        *)
(***************************************************************************)
EXTENDS TarballPins, WheelPins, SourcePins

CONSTANTS
    CheckedIn,        \* the pins there may be at first: [tarballs, wheels, sourcePins]
    ByHand,           \* the updaters called by hand: [name, args]
    FlakeTargets,     \* rocmTargets of pkgs/therock/targets.nix
    PythonTag,        \* pythonTag of pkgs/therock/python-config.nix
    MaxRuns           \* bound on refreshes and calls by hand

VARIABLES
    kind,             \* the kind of the running refresh, or None
    calls,            \* the children it has still to run: Seq([name, args])
    runs

Kinds == {"rocm", "python-wheels", "therock-source"}
Updaters == {"update-rocm", "update-python-wheels", "update-rocm-source", "update-source-tree",
             "update-rocm-third-party", "nix flake lock", "nix build"}
stackVars == <<kind, calls, runs>>
vars == <<script, exit, tarballs, wheels, sourcePins, inputs, tree, lock, thirdParty,
          kind, calls, runs>>

\* A version on the release server: three numbers, and perhaps a suffix.
RocmVersion == {v \in Version : Len(v.release) = 3}

\* What the server may list and a command line may say.
ASSUME ArgumentsAssumption ==
    /\ None \notin Reasons \cup Kinds \cup Version \cup Updaters /\ Torn # <<>>
    /\ \A file \in TarballFiles : file.version \in RocmVersion
    /\ \A call \in ByHand :
         /\ call.name = "update-rocm" => call.args.version \in RocmVersion \cup {None}
         /\ call.name = "update-python-wheels" => None \notin Range(call.args.named)
         /\ call.name = "update-rocm-source" => call.args.rev \in DOMAIN Repository \cup {None}
         /\ call.name = "update-rocm-third-party" => call.args.staged[<<>>] \in DOMAIN Repository
         /\ call.name # "nix build"

ASSUME BoundAssumption == MaxRuns \in Nat

\* What the checked-in files may hold: ROCm versions, and wheel pins with the
\* tag they were chosen for, whose wheels fit together.
ASSUME CheckedInAssumption ==
    \A pins \in CheckedIn :
        /\ pins.tarballs # Torn =>
             /\ IsFiniteSet(DOMAIN pins.tarballs)
             /\ \A t \in DOMAIN pins.tarballs : pins.tarballs[t] \in RocmVersion
        /\ pins.wheels # Torn =>
             /\ IsFiniteSet(DOMAIN pins.wheels)
             /\ \A pin \in Range(pins.wheels) :
                  /\ pin.tag # None
                  /\ \A d \in Range(pin.packages) :
                       d.rocm \in {None, pin.rocm} /\ d.python \in {"py3", "source", pin.tag}
                       /\ d.platform \in {"linux_x86_64", "any", "source"}
        /\ pins.sourcePins # Torn => \A pin \in Range(pins.sourcePins) : IsSourcePin(pin)

\* The files as they are checked in before the first run; of the source build
\* only the pin, nothing generated from it yet.
Init ==
    /\ script = NoScript /\ exit = "ok" /\ kind = None /\ calls = <<>> /\ runs = 0
    /\ \E pins \in CheckedIn :
         tarballs = pins.tarballs /\ wheels = pins.wheels /\ sourcePins = pins.sourcePins
    /\ inputs = <<>> /\ lock = <<>>
    /\ tree = [target |-> None, root |-> None, submodules |-> <<>>]
    /\ thirdParty = [archives |-> <<>>, esmi |-> None, spirv |-> None]

Idle == script = NoScript /\ kind = None
Call(name, args) == [name |-> name, args |-> args]

\* One child per target, in any order, each with its checked-in settings.
TarballCalls == {Call("update-rocm", [targets |-> <<t>>, series |-> FirstTwoParts(tarballs[t]),
                                      version |-> None]) : t \in DOMAIN tarballs}
WheelCalls == {Call("update-python-wheels", [target |-> t, tag |-> None, series |-> wheels[t].series,
                                             rocm |-> None, named |-> <<>>]) : t \in DOMAIN wheels}

\* Fault: the graph of the revision pinned before.
SourceCallsTreeFirst(target) == <<
    Call("update-source-tree", [target |-> target]),
    Call("update-rocm-source", [target |-> target, series |-> None, rev |-> None]),
    Call("nix flake lock", [target |-> target]),
    Call("nix build", [target |-> target]),
    Call("update-rocm-third-party", [staged |-> None])>>
\* Fault: the tree staged from what the previous lock holds.
SourceCallsLockLast(target) == <<
    Call("update-rocm-source", [target |-> target, series |-> None, rev |-> None]),
    Call("update-source-tree", [target |-> target]),
    Call("nix build", [target |-> target]),
    Call("update-rocm-third-party", [staged |-> None]),
    Call("nix flake lock", [target |-> target])>>
SourceCalls(target) == <<
    Call("update-rocm-source", [target |-> target, series |-> None, rev |-> None]),
    Call("update-source-tree", [target |-> target]),
    Call("nix flake lock", [target |-> target]),
    Call("nix build", [target |-> target]),
    Call("update-rocm-third-party", [staged |-> None])>>

Refuse == script' = NoScript /\ exit' = "usage" /\ UNCHANGED <<kind, calls>>
\* refresh(k): the file is read once; no target, or several of a source
\* graph, is a ValueError.
Refresh(k) ==
    LET file == CASE k = "rocm" -> tarballs [] k = "python-wheels" -> wheels
                  [] k = "therock-source" -> sourcePins
    IN /\ Idle /\ runs < MaxRuns /\ runs' = runs + 1
       /\ \/ file = Torn /\ exit' = "unreadable" /\ UNCHANGED <<script, kind, calls>>
          \/ file # Torn /\ DOMAIN file = {} /\ Refuse
          \/ file # Torn /\ k = "therock-source" /\ Cardinality(DOMAIN file) > 1 /\ Refuse
          \/ /\ file # Torn /\ DOMAIN file # {}
             /\ k = "therock-source" => Cardinality(DOMAIN file) = 1
             /\ kind' = k /\ exit' = "ok" /\ UNCHANGED script
             /\ calls' \in CASE k = "rocm" -> SetToSeqs(TarballCalls)
                             [] k = "python-wheels" -> SetToSeqs(WheelCalls)
                             [] k = "therock-source" -> {SourceCalls(t) : t \in DOMAIN file}
       /\ UNCHANGED <<tarballs, wheels, sourceVars>>

Start(call) ==
    \/ call.name = "update-rocm" /\ StartTarballs(call.args)
    \/ call.name = "update-python-wheels" /\ StartWheels(call.args)
    \/ call.name = "update-rocm-source" /\ StartSource(call.args)
    \/ call.name = "update-source-tree" /\ StartTree(call.args)
    \/ call.name = "update-rocm-third-party" /\ StartThirdParty(call.args)
    \/ /\ call.name \in {"nix flake lock", "nix build"}
       /\ Launch([name |-> call.name, at |-> "run", target |-> call.args.target])

\* run_script or subprocess.run of the next child, after a child that ended
\* well.  A wheel pin without a series is no argument: TypeError.
NextChild ==
    /\ kind # None /\ script = NoScript /\ exit = "ok" /\ calls # <<>>
    /\ IF Head(calls).name = "update-python-wheels" /\ Head(calls).args.series = None
       THEN Ends("usage") ELSE Start(Head(calls))
    /\ calls' = Tail(calls)
    /\ UNCHANGED <<kind, runs, tarballs, wheels, sourceVars>>

\* Fault: what was still to run is kept.
ReturnKeepingCalls ==
    /\ kind # None /\ script = NoScript
    /\ exit # "ok" \/ calls = <<>>
    /\ kind' = None /\ UNCHANGED calls
    /\ UNCHANGED <<script, exit, runs, tarballs, wheels, sourceVars>>
\* The refresh is over: all its children ran, or check=True raised.
Return ==
    /\ kind # None /\ script = NoScript
    /\ exit # "ok" \/ calls = <<>>
    /\ kind' = None /\ calls' = <<>>
    /\ UNCHANGED <<script, exit, runs, tarballs, wheels, sourceVars>>

CallByHand ==
    /\ Idle /\ runs < MaxRuns /\ runs' = runs + 1
    /\ \E call \in ByHand : Start(call)
    /\ UNCHANGED <<kind, calls, tarballs, wheels, sourceVars>>

Kill ==
    /\ ~Idle /\ exit # "killed" /\ Ends("killed")
    /\ UNCHANGED <<tarballs, wheels, sourceVars, stackVars>>

\* The overlay has an attribute for every tarball pin, whose target it looks
\* up, and asserts the Python of every wheel pin of a target of the flake.
Overlay ==
    /\ DOMAIN tarballs \subseteq FlakeTargets
    /\ \A t \in DOMAIN wheels \cap FlakeTargets : wheels[t].tag = PythonTag

\* nix build of the staged source, and the path it prints handed to the last
\* child.  The evaluation forces the names of the overlay's attributes, and
\* with them every pin file but the third-party one.  LeftoversDoNotBlock says
\* which of its errors a refresh can meet.
BuildStaged ==
    /\ Running("nix build", "run")
    /\ LET unreadable == Torn \in {inputs, lock, tree, sourcePins, tarballs, wheels}
           evaluates == script.target \in FlakeTargets /\ Overlay
           missing == tree.target # script.target \/ ~(TreeInputs \subseteq DOMAIN lock)
       IN \/ NetworkFails /\ UNCHANGED calls
          \/ unreadable /\ Ends("unreadable") /\ UNCHANGED calls
          \/ ~unreadable /\ ~evaluates /\ Ends("evaluation") /\ UNCHANGED calls
          \/ ~unreadable /\ evaluates /\ missing /\ Ends("missingInput") /\ UNCHANGED calls
          \/ /\ ~unreadable /\ evaluates /\ ~missing /\ Ends("ok")
             /\ calls' = <<[Head(calls) EXCEPT !.args.staged = StagedSource]>> \o Tail(calls)
    /\ UNCHANGED <<sourceVars, kind, runs>>

Step ==
    \/ UpdateTarballs /\ UNCHANGED <<wheels, sourceVars, stackVars>>
    \/ UpdateWheels /\ UNCHANGED <<tarballs, sourceVars, stackVars>>
    \/ UpdateSources /\ UNCHANGED <<tarballs, wheels, stackVars>>
    \/ BuildStaged /\ UNCHANGED <<tarballs, wheels>>

Next ==
    \/ \E k \in Kinds : Refresh(k)
    \/ NextChild \/ Return \/ CallByHand \/ Kill \/ Step

Spec == Init /\ [][Next]_vars
-----------------------------------------------------------------------------

Files == {tarballs, wheels, sourcePins, inputs, tree, lock, thirdParty}
Refreshed(k) == kind = k /\ script = NoScript /\ exit = "ok" /\ calls = <<>>

\* Type invariant: the names of the children, their ends, and pins of known form.
StackTypeOK ==
    /\ script # NoScript => script.name \in Updaters
    /\ exit \in Reasons \cup {None} /\ (exit = None <=> script # NoScript)
    /\ kind \in Kinds \cup {None} /\ runs \in 0..MaxRuns
    /\ kind = None => calls = <<>>
    /\ tarballs = Torn \/ \A t \in DOMAIN tarballs : tarballs[t] \in Version
    /\ sourcePins = Torn \/ \A t \in DOMAIN sourcePins :
          sourcePins[t].rev \in DOMAIN Repository \cup {None}

\* When update-rocm-stack.py has refreshed the source build, its five files
\* speak of one revision: flake.lock locks what flake.nix declares, the tree
\* names only locked inputs and its root is the pinned revision, and the
\* third-party pins are those of the tree that is staged from them.
DoneIsConsistent ==
    Refreshed("therock-source") =>
        /\ lock = inputs /\ TreeInputs \subseteq DOMAIN lock
        /\ lock[tree.root].rev = sourcePins[tree.target].rev
        /\ LET esmi == Repository[StagedSource[SystemsPath]].esmi IN
           /\ thirdParty.spirv.rev = Repository[StagedSource[SpirvPath]].spirv
           /\ \/ thirdParty.esmi.rev = esmi
              \/ esmi \in DOMAIN EsmiTags /\ thirdParty.esmi.rev \in EsmiTags[esmi]
           /\ thirdParty.archives = ScanArchives(StagedSource[<<>>])

\* build_graph pins every submodule, however deep and however selected, to
\* the commit that the tree of its enclosing repository records, and loses
\* none that is enabled.
GraphIsGitsOwn ==
    Running("update-source-tree", "inputs") =>
        /\ IsGitsOwn(script.pin.rev, script.graph)
        /\ ToSet(Repository[script.pin.rev].enabled) \subseteq DOMAIN script.graph

\* install_source clears its destination first: in the order source-tree.nix
\* lists them, no submodule wipes out another that a refresh has staged.
StagedIsWhole ==
    kind # None /\ Running("update-rocm-third-party", "scan") =>
        \A s \in ToSet(tree.submodules) :
            s.path \in DOMAIN script.staged /\ script.staged[s.path] = lock[s.input].rev

\* A hash in rocm-third-party.json is that of the source next to it (whatever
\* earlier file it was reused from), and an archive's the one stated for its URL.
HashIsOfItsSource ==
    thirdParty # Torn =>
        /\ \A s \in {thirdParty.esmi, thirdParty.spirv} \ {None} : s.hash = [url |-> s.url, rev |-> s.rev]
        /\ \A name \in DOMAIN thirdParty.archives :
             \E rev \in DOMAIN Repository : \E file \in ToSet(Repository[rev].cmake) :
               \E i \in DOMAIN file \ {1} :
                 /\ file[i - 1] = [is |-> "url", value |-> thirdParty.archives[name].url]
                 /\ file[i] = [is |-> "hash", value |-> thirdParty.archives[name].hash]

\* A refresh of the tarballs moves each target within its own release train:
\* 10.1 never becomes 10.10, nor the train of another target.
TargetsKeepTheirSeries ==
    [][kind # None /\ tarballs' # tarballs /\ tarballs' # Torn =>
         \A t \in DOMAIN tarballs : MajorMinor(tarballs'[t]) = MajorMinor(tarballs[t])]_vars

\* The newer of two versions of a train, read off as people do: the higher
\* third number, the final release, the later release candidate.
Newer(v, w) ==
    \/ v.release[3] > w.release[3]
    \/ /\ v.release[3] = w.release[3] /\ w.suffix # <<>>
       /\ v.suffix = <<>> \/ TupleLess(TokenLess, w.suffix, v.suffix)

\* What an index lists for a target on the train of a version.
Listed(index, t, old) ==
    {f.version : f \in {g \in index : g.slug = TargetSlug(t)
                                         /\ MajorMinor(g.version) = MajorMinor(old)}}

\* After a child of a tarball refresh that ended well its target is pinned, also
\* where that is what it was pinned to before, to a version the index listed
\* for its train, and to none older than another.
RefreshTakesNewest ==
    [][kind # None /\ Running("update-rocm", "pin") /\ exit' = "ok" =>
         \A t \in Range(script.targets) :
            /\ tarballs'[t] \in Listed(script.index, t, tarballs[t])
            /\ \A v \in Listed(script.index, t, tarballs[t]) : ~Newer(v, tarballs'[t])]_vars

\* choose_distribution never fails for a project that carries ROCm versions,
\* once choose_rocm_version has chosen one: two filters over one listing agree.
ChosenVersionIsInstallable ==
    Running("update-python-wheels", "pin") /\ script.chosen =>
        \A p \in Tagged(script.dists) :
            Candidates(script.dists, p, script.rocm, script.tag, script.named) # {}

\* The wheels of a pin go together: built for the pin's ROCm, or for none,
\* and installable on its Python and on this platform.
WheelsFitTogether ==
    wheels # Torn => \A pin \in Range(wheels) : \A d \in Range(pin.packages) :
        d.rocm \in {None, pin.rocm} /\ d.python \in {"py3", "source", pin.tag}
        /\ d.platform \in {"linux_x86_64", "any", "source"}

\* "Device wheels must match the Python frontend wheel exactly": they do when
\* the frontend's version is named and their own is not.
DeviceWheelsFollowTorch ==
    Running("update-python-wheels", "pin") =>
        \A p \in {q \in DOMAIN script.packages \ DOMAIN script.named :
                     q.device # None /\ q.of \in TorchFrames} :
            Frame(p.of) \in DOMAIN script.named \cap DOMAIN script.packages =>
                script.packages[p].public = script.packages[Frame(p.of)].public

\* A refresh starts from whatever earlier refreshes and calls by hand, killed
\* or failed at any point, left in the files.  Once begun it never misses an
\* input.  What it has not from the outside world it fails on only for a torn
\* file it reads, for a wheel pin without a series, and, if the staged source
\* is built, for a target the flake has not or a wheel pin of another Python.
LeftoversDoNotBlock ==
    kind # None /\ script = NoScript =>
        /\ exit # "missingInput"
        /\ exit = "unreadable" =>
             \/ kind = "rocm" /\ tarballs = Torn
             \/ kind = "python-wheels" /\ wheels = Torn
             \/ kind = "therock-source" /\ Torn \in Files
        /\ exit = "usage" =>
             kind = "python-wheels" /\ \E pin \in Range(wheels) : pin.series = None
        /\ exit = "evaluation" =>
             /\ kind = "therock-source"
             /\ \/ \E t \in DOMAIN tarballs \cup DOMAIN sourcePins : t \notin FlakeTargets
                \/ \E t \in DOMAIN wheels : wheels[t].tag # PythonTag
=============================================================================
