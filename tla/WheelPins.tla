----------------------------- MODULE WheelPins ------------------------------
(***************************************************************************)
(* update-python-wheels.py: one target's pin in sources/python-wheels.json.*)
(* A project is [of, device]: [of |-> "torch", device |-> "gfx1151"] is    *)
(* amd-torch-device-gfx1151, and device is None in a plain project.        *)
(* The index serves one page per project, each at its own time.            *)
(***************************************************************************)
EXTENDS Updater

CONSTANTS
    BasePackages,     \* BASE_PACKAGES, by `of'
    SdkProjects,      \* those called rocm or rocm-sdk..., by `of'
    TorchFamily,      \* TORCH_DEVICE_FAMILIES: target -> family or None
    WheelPages,       \* project -> the pages its index may answer with
    DefaultSeries

VARIABLE wheels       \* python-wheels.json: target -> pin, or Torn

Frame(of) == [of |-> of, device |-> None]
TorchFrames == {"torch", "torchvision"}

DefaultPackages(target) ==
    {Frame(of) : of \in BasePackages}
    \cup {[of |-> of, device |-> target] : of \in TorchFrames \cup {"rocm-sdk"}}
    \cup (IF TorchFamily[target] = None THEN {}
          ELSE {[of |-> "torch", device |-> TorchFamily[target]]})

\* parse_distribution of a link [project, ext, public, local, python, abi,
\* platform]: its distribution, or none.  `local' is the ROCm version in the
\* local part of the version; an SDK project's own version is one.
ParseDistribution(project, link) ==
    IF link.ext \notin {"whl", "tar.gz"} \/ link.project # project THEN {}
    ELSE LET wheel == link.ext = "whl" IN
         {[kind |-> IF wheel THEN "wheel" ELSE "sdist", public |-> link.public,
           rocm |-> IF link.local = None /\ project.of \in SdkProjects THEN link.public ELSE link.local,
           python |-> IF wheel THEN link.python ELSE "source",
           abi |-> IF wheel THEN link.abi ELSE "source",
           platform |-> IF wheel THEN link.platform ELSE "source"]}

\* list_distributions
Distributions(project, page) == UNION {ParseDistribution(project, link) : link \in page}

MatchesPython(dist, tag) ==
    dist.python \in {"py3", "source"} \/ (dist.python = tag /\ dist.abi = tag)
MatchesPlatform(dist) == dist.platform \in {"linux_x86_64", "any", "source"}
MatchesVersion(dist, version) == version = None \/ dist.public = version
Installable(dist, tag, version) ==
    MatchesPython(dist, tag) /\ MatchesPlatform(dist) /\ MatchesVersion(dist, version)

\* Fault: only what was named.
ConstraintNamed(project, named) == IF project \in DOMAIN named THEN named[project] ELSE None
\* main: the versions named on the command line (`named': project -> version),
\* with those of torch and torchvision for their device wheels.
Constraint(project, named) ==
    CASE project \in DOMAIN named -> named[project]
      [] project \notin DOMAIN named /\ project.device # None
         /\ project.of \in TorchFrames /\ Frame(project.of) \in DOMAIN named -> named[Frame(project.of)]
      [] OTHER -> None

\* What choose_rocm_version collects from the pages `dists'.
Tagged(dists) == {p \in DOMAIN dists : \E d \in dists[p] : d.rocm # None}
VersionsOf(dists, p, series, tag, named) ==
    {d.rocm : d \in {e \in dists[p] : /\ e.rocm # None /\ InRocmSeries(e.rocm, series)
                                      /\ Installable(e, tag, Constraint(p, named))}}
\* Fault: a version that some project has.
CommonVersionsSome(dists, series, tag, named) ==
    UNION {VersionsOf(dists, p, series, tag, named) : p \in Tagged(dists)}
CommonVersions(dists, series, tag, named) ==
    LET versions(p) == VersionsOf(dists, p, series, tag, named) IN
    {v \in UNION {versions(p) : p \in Tagged(dists)} : \A p \in Tagged(dists) : v \in versions(p)}

\* Fault: without the comparison of the ROCm version.
CandidatesAnyRocm(dists, p, rocm, tag, named) ==
    {d \in dists[p] : Installable(d, tag, Constraint(p, named))}
\* choose_distribution: the candidates, and those its sort may put last.
Candidates(dists, p, rocm, tag, named) ==
    {d \in dists[p] : d.rocm \in {None, rocm} /\ Installable(d, tag, Constraint(p, named))}
Preferred(candidates) ==
    LET kind == IF \E d \in candidates : d.kind = "wheel" THEN "wheel" ELSE "sdist"
        best == {d \in candidates : d.kind = kind}
    IN {d \in best : \A e \in best : ~KeyLess(d.public, e.public)}

-----------------------------------------------------------------------------
PinnedTag(target) == IF target \in DOMAIN wheels THEN wheels[target].tag ELSE None
PinnedWheelSeries ==
    LET pinned == {pin.rocm : pin \in {p \in Range(wheels) : HasMajorMinor(p.rocm)}}
    IN IF pinned = {} THEN {DefaultSeries} ELSE {MajorMinor(v) : v \in pinned}

\* --target T [--python-tag P] [--series S] [--rocm-version V]
\* [--package-version P=V]...; None where not given.
StartWheels(args) ==
    \/ wheels = Torn /\ script = NoScript /\ Ends("unreadable")
    \/ wheels # Torn /\ args.tag = None /\ PinnedTag(args.target) = None
       /\ script = NoScript /\ Ends("usage")
    \/ /\ wheels # Torn
       /\ LET tag == IF args.tag # None THEN args.tag ELSE PinnedTag(args.target)
          IN /\ tag # None
             /\ \E series \in IF args.series # None \/ args.rocm # None
                              THEN {args.series} ELSE PinnedWheelSeries :
                  Launch([name |-> "update-python-wheels", at |-> "pages", target |-> args.target,
                          series |-> series, tag |-> tag, rocm |-> args.rocm, chosen |-> FALSE,
                          named |-> args.named, dists |-> <<>>, packages |-> <<>>])

\* fetch_index of the next project.
FetchPage ==
    /\ Running("update-python-wheels", "pages")
    /\ LET left == DefaultPackages(script.target) \ DOMAIN script.dists
           project == CHOOSE p \in left : TRUE
       IN /\ left # {}
          /\ \/ NetworkFails
             \/ \E page \in WheelPages[project] :
                  Proceeds([script EXCEPT !.dists = Put(@, project, Distributions(project, page))])
    /\ UNCHANGED wheels

\* choose_rocm_version
ChooseRocmVersion ==
    /\ Running("update-python-wheels", "pages")
    /\ DOMAIN script.dists = DefaultPackages(script.target)
    /\ LET common == CommonVersions(script.dists, script.series, script.tag, script.named)
       IN \/ script.rocm # None /\ Proceeds([script EXCEPT !.at = "pin"])
          \/ script.rocm = None /\ common = {} /\ Ends("noVersion")
          \/ /\ script.rocm = None
             /\ \E v \in Latest(common) :
                  Proceeds([script EXCEPT !.at = "pin", !.rocm = v, !.chosen = TRUE])
    /\ UNCHANGED wheels

\* choose_distribution and prefetch of the next project.
PinWheel ==
    /\ Running("update-python-wheels", "pin")
    /\ LET left == DOMAIN script.dists \ DOMAIN script.packages
           project == CHOOSE p \in left : TRUE
           candidates == Candidates(script.dists, project, script.rocm, script.tag, script.named)
       IN /\ left # {}
          /\ \/ candidates = {} /\ Ends("noDistribution")
             \/ candidates # {} /\ NetworkFails
             \/ \E dist \in Preferred(candidates) :
                  Proceeds([script EXCEPT !.packages = Put(@, project, dist)])
    /\ UNCHANGED wheels

WriteWheels ==
    /\ Running("update-python-wheels", "pin")
    /\ DOMAIN script.packages = DOMAIN script.dists
    /\ LET pin == [series |-> script.series, rocm |-> script.rocm,
                   tag |-> script.tag, packages |-> script.packages]
       IN Writes(wheels, Put(wheels, script.target, pin), Ends("ok"))

UpdateWheels == FetchPage \/ ChooseRocmVersion \/ PinWheel \/ WriteWheels
=============================================================================
