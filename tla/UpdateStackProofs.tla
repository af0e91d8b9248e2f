-------------------------- MODULE UpdateStackProofs --------------------------
(***************************************************************************)
(* However the updaters, refreshes, kills and leftovers follow each other, *)
(* and whatever the servers answer and the command lines name.  First the  *)
(* wheel pins: a version that was chosen can be installed and the wheels   *)
(* of a pin fit together.  Then all the pins, what a refresh starts from,  *)
(* what each of its children finds, and what it leaves when all have run.  *)
(***************************************************************************)
EXTENDS UpdateStack, SourceProofs

WheelUpdater == "update-python-wheels"
WheelFields ==
    {"name", "at", "target", "series", "tag", "rocm", "chosen", "named", "dists", "packages"}

\* What update-python-wheels has established by the time it picks the wheels.
Picking ==
    /\ DOMAIN script.packages \subseteq DOMAIN script.dists
    /\ \A p \in DOMAIN script.packages :
         script.packages[p] \in
             Candidates(script.dists, p, script.rocm, script.tag, script.named)
    /\ script.chosen =>
         script.rocm \in CommonVersions(script.dists, script.series, script.tag, script.named)

\* A running update-python-wheels has read a whole file.
WheelScriptInv ==
    script # NoScript /\ script.name = WheelUpdater =>
        /\ DOMAIN script = WheelFields /\ wheels # Torn
        /\ script.at = "pages" => DOMAIN script.packages = {} /\ script.chosen = FALSE
        /\ script.at = "pin" => Picking

IInv ==
    /\ script # NoScript => "name" \in DOMAIN script
    /\ WheelScriptInv
    /\ WheelsFitTogether

\* An updater other than update-python-wheels runs, or none.
Elsewhere == script # NoScript => "name" \in DOMAIN script /\ script.name # WheelUpdater
-----------------------------------------------------------------------------
(* Facts about the selection. *)

\* A version all tagged projects have is one that each can install.
LEMMA CommonIsInstallable ==
    ASSUME NEW dists, NEW series, NEW tag, NEW named,
           NEW v \in CommonVersions(dists, series, tag, named), NEW p \in Tagged(dists)
    PROVE  Candidates(dists, p, v, tag, named) # {}
<1>1. v \in VersionsOf(dists, p, series, tag, named)  BY DEF CommonVersions
<1>2. PICK d \in dists[p] : d.rocm = v /\ Installable(d, tag, Constraint(p, named))
  BY <1>1 DEF VersionsOf
<1> QED  BY <1>2 DEF Candidates

\* A candidate belongs to its pin.
LEMMA CandidateFits ==
    ASSUME NEW dists, NEW p, NEW rocm, NEW tag, NEW named,
           NEW d \in Candidates(dists, p, rocm, tag, named)
    PROVE  d.rocm \in {None, rocm} /\ d.python \in {"py3", "source", tag}
           /\ d.platform \in {"linux_x86_64", "any", "source"}
BY DEF Candidates, Installable, MatchesPython, MatchesPlatform

\* The preferred distributions and the latest versions are among the given.
LEMMA PreferredAmong == \A candidates : Preferred(candidates) \subseteq candidates
BY DEF Preferred

\* What the key sorts last is one of those compared.
LEMMA LatestAmong == \A S : Latest(S) \subseteq S
BY DEF Latest
-----------------------------------------------------------------------------
(* The invariant. *)

LEMMA InitInv == Init => IInv
BY CheckedInAssumption DEF Init, IInv, WheelScriptInv, WheelsFitTogether

\* A step that leaves the wheel pins alone and another updater, or none,
\* running has nothing to preserve.
LEMMA ElsewhereInv ==
    ASSUME IInv, Elsewhere', UNCHANGED wheels
    PROVE  IInv'
BY DEF IInv, Elsewhere, WheelScriptInv, WheelsFitTogether

LEMMA EndsElsewhere == \A reason : Ends(reason) => Elsewhere'
BY DEF Ends, Elsewhere

\* A launched update-python-wheels has picked nothing.
LEMMA StartWheelsInv ==
    ASSUME IInv, NEW args, StartWheels(args), UNCHANGED wheels
    PROVE  IInv'
<1>1. CASE \E reason : Ends(reason)  BY <1>1, EndsElsewhere, ElsewhereInv
<1>2. CASE /\ wheels # Torn
           /\ \E series, tag : Launch([name |-> "update-python-wheels", at |-> "pages",
                target |-> args.target, series |-> series, tag |-> tag, rocm |-> args.rocm,
                chosen |-> FALSE, named |-> args.named, dists |-> <<>>, packages |-> <<>>])
  <2>1. PICK series, tag : script' =
               [name |-> "update-python-wheels", at |-> "pages", target |-> args.target,
                series |-> series, tag |-> tag, rocm |-> args.rocm, chosen |-> FALSE,
                named |-> args.named, dists |-> <<>>, packages |-> <<>>]
    BY <1>2 DEF Launch
  <2>2. DOMAIN script' = WheelFields  BY <2>1 DEF WheelFields
  <2>3. DOMAIN script'.packages = {} /\ script'.chosen = FALSE /\ script'.at = "pages"
    BY <2>1
  <2>4. WheelScriptInv'  BY <1>2, <2>2, <2>3 DEF WheelScriptInv
  <2> QED  BY <2>2, <2>4 DEF IInv, WheelsFitTogether, WheelFields
<1> QED  BY <1>1, <1>2 DEF StartWheels

\* Only a launch of update-python-wheels starts anything in the invariant.
LEMMA StartInv ==
    ASSUME IInv, NEW call, Start(call), UNCHANGED wheels
    PROVE  IInv'
<1>1. CASE StartWheels(call.args)  BY <1>1, StartWheelsInv
<1>2. CASE StartTarballs(call.args)
  BY <1>2, ElsewhereInv, EndsElsewhere DEF StartTarballs, Launch, Elsewhere, WheelUpdater
<1>3. CASE StartSource(call.args)
  BY <1>3, ElsewhereInv, EndsElsewhere DEF StartSource, Launch, Elsewhere, WheelUpdater
<1>4. CASE StartTree(call.args)
  BY <1>4, ElsewhereInv, EndsElsewhere DEF StartTree, Launch, Elsewhere, WheelUpdater
<1>5. CASE StartThirdParty(call.args)
  BY <1>5, ElsewhereInv, EndsElsewhere DEF StartThirdParty, Launch, Elsewhere, WheelUpdater
<1>6. CASE /\ call.name \in {"nix flake lock", "nix build"}
           /\ Launch([name |-> call.name, at |-> "run", target |-> call.args.target])
  BY <1>6, ElsewhereInv DEF Launch, Elsewhere, WheelUpdater
<1> QED  BY <1>1, <1>2, <1>3, <1>4, <1>5, <1>6 DEF Start

\* NetworkFails and every other end.
LEMMA NetworkFailsElsewhere == NetworkFails => Elsewhere'
BY EndsElsewhere DEF NetworkFails

LEMMA FetchPageInv ==
    ASSUME IInv, FetchPage
    PROVE  IInv'
<1>1. CASE NetworkFails  BY <1>1, NetworkFailsElsewhere, ElsewhereInv DEF FetchPage
<1>2. ASSUME NEW dists, Proceeds([script EXCEPT !.dists = dists]) PROVE IInv'
  <2>1. script # NoScript /\ script.name = WheelUpdater /\ script.at = "pages" /\ wheels' = wheels
    BY DEF FetchPage, Running, WheelUpdater
  <2>2. script' = [script EXCEPT !.dists = dists]  BY <1>2 DEF Proceeds
  <2>3. /\ DOMAIN script = WheelFields /\ wheels # Torn
        /\ DOMAIN script.packages = {} /\ script.chosen = FALSE
    BY <2>1 DEF IInv, WheelScriptInv
  <2>4. /\ DOMAIN script' = WheelFields /\ script'.packages = script.packages
        /\ script'.at = script.at /\ script'.chosen = script.chosen
    BY <2>2, <2>3 DEF WheelFields
  <2> QED  BY <2>1, <2>3, <2>4 DEF IInv, WheelScriptInv, WheelsFitTogether, WheelFields
<1> QED  BY <1>1, <1>2 DEF FetchPage

\* The version that is chosen is common to all the tagged projects.
LEMMA ChooseRocmVersionInv ==
    ASSUME IInv, ChooseRocmVersion
    PROVE  IInv'
<1> DEFINE common == CommonVersions(script.dists, script.series, script.tag, script.named)
<1>1. script # NoScript /\ script.name = WheelUpdater /\ script.at = "pages" /\ wheels' = wheels
  BY DEF ChooseRocmVersion, Running, WheelUpdater
<1>2. /\ DOMAIN script = WheelFields /\ wheels # Torn
      /\ DOMAIN script.packages = {} /\ script.chosen = FALSE
  BY <1>1 DEF IInv, WheelScriptInv
<1>3. CASE Proceeds([script EXCEPT !.at = "pin"])
  <2>1. script' = [script EXCEPT !.at = "pin"]  BY <1>3 DEF Proceeds
  <2>2. /\ DOMAIN script' = WheelFields /\ script'.packages = script.packages
        /\ script'.at = "pin" /\ script'.chosen = FALSE
    BY <1>2, <2>1 DEF WheelFields
  <2>3. Picking'  BY <1>2, <2>2 DEF Picking
  <2> QED  BY <1>1, <1>2, <2>2, <2>3 DEF IInv, WheelScriptInv, WheelsFitTogether, WheelFields
<1>4. CASE Ends("noVersion")  BY <1>1, <1>4, EndsElsewhere, ElsewhereInv
<1>5. ASSUME NEW v \in Latest(common),
             Proceeds([script EXCEPT !.at = "pin", !.rocm = v, !.chosen = TRUE])
      PROVE  IInv'
  <2>1. script' = [script EXCEPT !.at = "pin", !.rocm = v, !.chosen = TRUE]
    BY <1>5 DEF Proceeds
  <2>2. /\ DOMAIN script' = WheelFields /\ script'.packages = script.packages
        /\ script'.at = "pin" /\ script'.rocm = v /\ script'.dists = script.dists
        /\ script'.series = script.series /\ script'.tag = script.tag
        /\ script'.named = script.named
    BY <1>2, <2>1 DEF WheelFields
  <2>3. v \in common  BY LatestAmong
  <2>4. Picking'  BY <1>2, <2>2, <2>3 DEF Picking
  <2> QED  BY <1>1, <1>2, <2>2, <2>4 DEF IInv, WheelScriptInv, WheelsFitTogether, WheelFields
<1> QED  BY <1>3, <1>4, <1>5 DEF ChooseRocmVersion

\* A wheel that is picked is a candidate.
LEMMA PinWheelInv ==
    ASSUME IInv, PinWheel
    PROVE  IInv'
<1> DEFINE left == DOMAIN script.dists \ DOMAIN script.packages
           project == CHOOSE p \in left : TRUE
           candidates ==
             Candidates(script.dists, project, script.rocm, script.tag, script.named)
<1>1. script # NoScript /\ script.name = WheelUpdater /\ script.at = "pin" /\ wheels' = wheels
  BY DEF PinWheel, Running, WheelUpdater
<1>2. DOMAIN script = WheelFields /\ wheels # Torn /\ Picking
  BY <1>1 DEF IInv, WheelScriptInv
<1>3. project \in DOMAIN script.dists  BY DEF PinWheel
<1>4. CASE \E reason : Ends(reason)  BY <1>1, <1>4, EndsElsewhere, ElsewhereInv
<1>5. ASSUME NEW dist \in Preferred(candidates),
             Proceeds([script EXCEPT !.packages = Put(@, project, dist)])
      PROVE  IInv'
  <2>1. script' = [script EXCEPT !.packages = Put(script.packages, project, dist)]
    BY <1>5 DEF Proceeds
  <2>2. /\ DOMAIN script' = WheelFields /\ script'.at = "pin" /\ script'.chosen = script.chosen
        /\ script'.packages = Put(script.packages, project, dist)
        /\ script'.dists = script.dists /\ script'.rocm = script.rocm
        /\ script'.series = script.series /\ script'.tag = script.tag
        /\ script'.named = script.named
    BY <1>1, <1>2, <2>1 DEF WheelFields
  <2>3. dist \in candidates  BY PreferredAmong
  <2>4. /\ DOMAIN script'.packages = {project} \cup DOMAIN script.packages
        /\ script'.packages[project] = dist
        /\ \A p \in DOMAIN script.packages : p # project => script'.packages[p] = script.packages[p]
    <3> HIDE DEF project
    <3> QED  BY <2>2 DEF Put
  <2>5. Picking'
    <3>1. DOMAIN script'.packages \subseteq DOMAIN script'.dists
      BY <1>2, <1>3, <2>2, <2>4 DEF Picking
    <3>2. \A p \in DOMAIN script'.packages : script'.packages[p] \in
            Candidates(script'.dists, p, script'.rocm, script'.tag, script'.named)
      BY <1>2, <2>2, <2>3, <2>4 DEF Picking
    <3> QED  BY <1>2, <2>2, <3>1, <3>2 DEF Picking
  <2> QED  BY <1>1, <1>2, <2>2, <2>5 DEF IInv, WheelScriptInv, WheelsFitTogether, WheelFields
<1> QED  BY <1>1, <1>4, <1>5 DEF PinWheel, NetworkFails

\* What is written fits together, since each wheel was a candidate.
LEMMA WriteWheelsInv ==
    ASSUME IInv, WriteWheels
    PROVE  IInv'
<1> DEFINE new == [series |-> script.series, rocm |-> script.rocm,
                   tag |-> script.tag, packages |-> script.packages]
<1>1. script # NoScript /\ script.name = WheelUpdater /\ script.at = "pin"
  BY DEF WriteWheels, Running, WheelUpdater
<1>2. wheels # Torn /\ Picking  BY <1>1 DEF IInv, WheelScriptInv
<1>3. Elsewhere' /\ (wheels' = Torn \/ wheels' = Put(wheels, script.target, new))
  BY EndsElsewhere DEF WriteWheels, Writes
<1>4. \A d \in Range(new.packages) :
         d.rocm \in {None, new.rocm} /\ d.python \in {"py3", "source", new.tag}
         /\ d.platform \in {"linux_x86_64", "any", "source"}
  <2> SUFFICES ASSUME NEW p \in DOMAIN script.packages
               PROVE  /\ script.packages[p].rocm \in {None, script.rocm}
                      /\ script.packages[p].python \in {"py3", "source", script.tag}
                      /\ script.packages[p].platform \in {"linux_x86_64", "any", "source"}
    BY DEF Range
  <2>1. script.packages[p] \in Candidates(script.dists, p, script.rocm, script.tag, script.named)
    BY <1>2 DEF Picking
  <2> QED  BY <2>1, CandidateFits
<1>5. ASSUME wheels' # Torn PROVE Range(wheels') \subseteq {new} \cup Range(wheels)
  <2> HIDE DEF new
  <2> QED  BY <1>3, <1>5 DEF Put, Range
<1>6. WheelsFitTogether'
  <2> SUFFICES ASSUME wheels' # Torn, NEW pin \in Range(wheels'), NEW d \in Range(pin.packages)
               PROVE  d.rocm \in {None, pin.rocm} /\ d.python \in {"py3", "source", pin.tag}
                      /\ d.platform \in {"linux_x86_64", "any", "source"}
    BY DEF WheelsFitTogether
  <2>1. CASE pin = new  BY <1>4, <2>1
  <2>2. CASE pin \in Range(wheels)  BY <1>2, <2>2 DEF IInv, WheelsFitTogether
  <2> QED  BY <1>5, <2>1, <2>2
<1> QED  BY <1>3, <1>6 DEF IInv, Elsewhere, WheelScriptInv

LEMMA UpdateWheelsInv ==
    ASSUME IInv, UpdateWheels
    PROVE  IInv'
BY FetchPageInv, ChooseRocmVersionInv, PinWheelInv, WriteWheelsInv DEF UpdateWheels

\* The other updaters keep their name until they end.
LEMMA ProceedsElsewhere ==
    ASSUME Elsewhere, script # NoScript, NEW d, d # "name", NEW v,
           Proceeds([script EXCEPT ![d] = v])
    PROVE  Elsewhere'
<1>1. script' = [script EXCEPT ![d] = v] /\ "name" \in DOMAIN script  BY DEF Proceeds, Elsewhere
<1>2. DOMAIN script' = DOMAIN script /\ script'["name"] = script["name"]  BY <1>1, Zenon
<1> QED  BY <1>1, <1>2 DEF Elsewhere

LEMMA RunningElsewhere ==
    ASSUME IInv, NEW name, NEW at, Running(name, at), name # WheelUpdater
    PROVE  Elsewhere
BY DEF IInv, Running, Elsewhere

LEMMA UpdateTarballsInv ==
    ASSUME IInv, UpdateTarballs, UNCHANGED wheels
    PROVE  IInv'
<1>1. Elsewhere /\ script # NoScript
  BY RunningElsewhere
  DEF UpdateTarballs, FetchTarballIndex, PinTarball, WriteTarballs, Running, WheelUpdater
<1>2. CASE FetchTarballIndex
  <2>1. CASE \E reason : Ends(reason)  BY <2>1, EndsElsewhere, ElsewhereInv
  <2>2. ASSUME NEW index, NEW sources,
               Proceeds([script EXCEPT !.at = "pin", !.index = index, !.sources = sources])
        PROVE  Elsewhere'
    BY <1>1, <2>2 DEF Proceeds, Elsewhere
  <2> QED  BY <1>2, <2>1, <2>2, ElsewhereInv DEF FetchTarballIndex, NetworkFails
<1>3. CASE PinTarball
  <2>1. CASE \E reason : Ends(reason)  BY <2>1, EndsElsewhere, ElsewhereInv
  <2>2. ASSUME NEW left, NEW sources,
               Proceeds([script EXCEPT !.left = left, !.sources = sources])
        PROVE  Elsewhere'
    BY <1>1, <2>2 DEF Proceeds, Elsewhere
  <2> QED  BY <1>3, <2>1, <2>2, ElsewhereInv DEF PinTarball, NetworkFails
<1>4. CASE WriteTarballs  BY <1>4, EndsElsewhere, ElsewhereInv DEF WriteTarballs, Writes
<1> QED  BY <1>2, <1>3, <1>4 DEF UpdateTarballs

LEMMA UpdateSourcesInv ==
    ASSUME IInv, UpdateSources, UNCHANGED wheels
    PROVE  IInv'
<1>1. Elsewhere /\ script # NoScript
  BY RunningElsewhere
  DEF UpdateSources, ResolveRev, ResolveSource, GitRev, WriteSourcePin, UpdateSourcesFile,
      FetchGraph, UpdateFlakeInputs, WriteTree, LockFlake, ScanPins, WriteThirdParty, Running,
      WheelUpdater
<1>2. ASSUME \E reason : Ends(reason) PROVE Elsewhere'  BY <1>2, EndsElsewhere
<1>3. CASE ResolveRev \/ ResolveSource
  <2>1. ASSUME NEW rev, Proceeds([script EXCEPT !.pin.rev = rev]) PROVE Elsewhere'
    BY <1>1, <2>1 DEF Proceeds, Elsewhere
  <2> QED  BY <1>2, <1>3, <2>1, ElsewhereInv DEF ResolveRev, ResolveSource, GitRev, NetworkFails
<1>4. CASE WriteSourcePin  BY <1>2, <1>4, ElsewhereInv DEF WriteSourcePin, Writes
<1>5. CASE UpdateSourcesFile
  <2>1. Proceeds([script EXCEPT !.at = "fetch"]) => Elsewhere'
    BY <1>1, ProceedsElsewhere
  <2> QED  BY <1>2, <1>5, <2>1, ElsewhereInv DEF UpdateSourcesFile, Writes
<1>6. CASE FetchGraph
  <2>1. ASSUME NEW graph, Proceeds([script EXCEPT !.at = "inputs", !.graph = graph])
        PROVE  Elsewhere'
    BY <1>1, <2>1 DEF Proceeds, Elsewhere
  <2> QED  BY <1>2, <1>6, <2>1, ElsewhereInv DEF FetchGraph, NetworkFails
<1>7. CASE UpdateFlakeInputs
  <2>1. Proceeds([script EXCEPT !.at = "tree"]) => Elsewhere'
    BY <1>1, ProceedsElsewhere
  <2> QED  BY <1>2, <1>7, <2>1, ElsewhereInv DEF UpdateFlakeInputs, Writes
<1>8. CASE WriteTree  BY <1>2, <1>8, ElsewhereInv DEF WriteTree, Writes
<1>9. CASE LockFlake  BY <1>2, <1>9, ElsewhereInv DEF LockFlake, Writes, NetworkFails
<1>10. CASE ScanPins
  <2>1. ASSUME NEW spirv, NEW esmi,
               Proceeds([script EXCEPT !.at = "hash", !.spirv = spirv, !.esmi = esmi])
        PROVE  Elsewhere'
    BY <1>1, <2>1 DEF Proceeds, Elsewhere
  <2> QED  BY <1>2, <1>10, <2>1, ElsewhereInv DEF ScanPins, NetworkFails
<1>11. CASE WriteThirdParty
  BY <1>2, <1>11, ElsewhereInv DEF WriteThirdParty, Writes, NetworkFails
<1> QED
  BY <1>3, <1>4, <1>5, <1>6, <1>7, <1>8, <1>9, <1>10, <1>11 DEF UpdateSources

LEMMA BuildStagedInv ==
    ASSUME IInv, BuildStaged, UNCHANGED wheels
    PROVE  IInv'
BY EndsElsewhere, ElsewhereInv DEF BuildStaged, NetworkFails

LEMMA StutterInv ==
    ASSUME IInv, UNCHANGED <<script, wheels>>
    PROVE  IInv'
BY DEF IInv, WheelScriptInv, WheelsFitTogether, Picking

LEMMA RefreshInv ==
    ASSUME IInv, NEW k, Refresh(k)
    PROVE  IInv'
<1>1. wheels' = wheels  BY DEF Refresh
<1>2. script' = NoScript \/ script' = script  BY DEF Refresh, Refuse
<1>3. CASE script' = NoScript  BY <1>1, <1>3, ElsewhereInv DEF Elsewhere
<1> QED  BY <1>1, <1>2, <1>3, StutterInv

LEMMA NextChildInv ==
    ASSUME IInv, NextChild
    PROVE  IInv'
<1>1. wheels' = wheels  BY DEF NextChild
<1>2. Ends("usage") \/ Start(Head(calls))  BY DEF NextChild
<1> QED  BY <1>1, <1>2, EndsElsewhere, ElsewhereInv, StartInv

LEMMA NextInv == IInv /\ [Next]_vars => IInv'
<1> SUFFICES ASSUME IInv, [Next]_vars PROVE IInv'  OBVIOUS
<1>1. CASE UNCHANGED vars  BY <1>1, StutterInv DEF vars
<1>2. CASE \E k \in Kinds : Refresh(k)
  BY <1>2, RefreshInv
<1>3. CASE NextChild  BY <1>3, NextChildInv
<1>4. CASE Return  BY <1>4, StutterInv DEF Return
<1>5. CASE CallByHand  BY <1>5, StartInv DEF CallByHand
<1>6. CASE Kill  BY <1>6, EndsElsewhere, ElsewhereInv DEF Kill
<1>7. CASE Step
  BY <1>7, UpdateTarballsInv, UpdateWheelsInv, UpdateSourcesInv, BuildStagedInv DEF Step
<1> QED  BY <1>1, <1>2, <1>3, <1>4, <1>5, <1>6, <1>7 DEF Next
-----------------------------------------------------------------------------
(* Theorems. *)

\* The invariant holds of every execution.
THEOREM WheelInvariance == Spec => []IInv
<1>1. Init => IInv  BY InitInv
<1> QED  BY <1>1, NextInv, PTL DEF Spec

\* choose_distribution succeeds for every project with ROCm versions once
\* choose_rocm_version has chosen one.
THEOREM ChosenIsInstallable == Spec => []ChosenVersionIsInstallable
<1>1. ASSUME IInv PROVE ChosenVersionIsInstallable
  <2> SUFFICES ASSUME Running("update-python-wheels", "pin"), script.chosen,
                      NEW p \in Tagged(script.dists)
               PROVE  Candidates(script.dists, p, script.rocm, script.tag, script.named) # {}
    BY DEF ChosenVersionIsInstallable
  <2>1. script.rocm \in CommonVersions(script.dists, script.series, script.tag, script.named)
    BY <1>1 DEF IInv, WheelScriptInv, WheelUpdater, Running, Picking
  <2> QED  BY <2>1, CommonIsInstallable
<1> QED  BY <1>1, WheelInvariance, PTL

\* The wheels of every pin fit together at all times.
THEOREM PinnedWheelsFit == Spec => []WheelsFitTogether
<1>1. IInv => WheelsFitTogether  BY DEF IInv
<1> QED  BY <1>1, WheelInvariance, PTL
-----------------------------------------------------------------------------
(***************************************************************************)
(* A refresh of update-rocm-stack.py, child by child: what it starts from, *)
(* what each child finds and leaves, and what holds when all have run.     *)
(***************************************************************************)

TarballFields == {"name", "at", "targets", "left", "series", "version", "index", "sources"}
PinFields == {"name", "at", "target", "pin"}
TreeFields == {"name", "at", "target", "pin", "graph"}
ThirdPartyFields == {"name", "at", "staged", "spirv", "esmi"}

\* No child has failed.
Alive == exit \in {"ok", None}
-----------------------------------------------------------------------------
(* What a running script has, and what the pins are. *)

RunningInv == script # NoScript => exit = None /\ "name" \in DOMAIN script

TarballsKnown ==
    /\ tarballs # Torn =>
         /\ IsFiniteSet(DOMAIN tarballs)
         /\ \A t \in DOMAIN tarballs : tarballs[t] \in RocmVersion
    /\ script # NoScript /\ script.name = "update-rocm" =>
         /\ DOMAIN script = TarballFields
         /\ script.version \in RocmVersion \cup {None}
         /\ script.index \subseteq TarballFiles
         /\ script.at = "pin" =>
              /\ IsFiniteSet(DOMAIN script.sources)
              /\ \A t \in DOMAIN script.sources : script.sources[t] \in RocmVersion

WheelsKnown ==
    /\ wheels # Torn =>
         /\ IsFiniteSet(DOMAIN wheels)
         /\ \A t \in DOMAIN wheels : wheels[t].tag # None
    /\ script # NoScript /\ script.name = WheelUpdater =>
         script.tag # None /\ None \notin Range(script.named)

\* The graph that update-source-tree.py works with is build_graph's.
GraphKnown ==
    LET root == script.pin.rev IN
    script.graph \in GraphsWith(root, Range(Repository[root].enabled)) \ {Unresolved}

PinsWhole == \A t \in DOMAIN sourcePins : IsSourcePin(sourcePins[t])
SourcesKnown ==
    /\ sourcePins # Torn => PinsWhole
    /\ script # NoScript /\ script.name = "update-rocm-source" =>
         DOMAIN script = PinFields /\ PinsWhole /\ IsSourcePin(script.pin)
    /\ script # NoScript /\ script.name = "update-source-tree" =>
         /\ DOMAIN script = TreeFields /\ PinsWhole /\ IsSourcePin(script.pin)
         /\ script.at # "resolve" => script.pin.rev # None
         /\ script.at \in {"inputs", "tree"} => GraphKnown

\* Something with a url and a revision, to be hashed.
IsSource(source) == source = [url |-> source.url, rev |-> source.rev]
HashesKnown ==
    /\ HashIsOfItsSource
    /\ script # NoScript /\ script.name = "update-rocm-third-party" =>
         /\ DOMAIN script = ThirdPartyFields /\ thirdParty # Torn
         /\ script.staged[<<>>] \in DOMAIN Repository
         /\ script.at = "hash" => IsSource(script.esmi) /\ IsSource(script.spirv)

-----------------------------------------------------------------------------
(* What a refresh has done so far, while no child of it has failed.  The   *)
(* queues are those of the files as they are now: a child writes nothing   *)
(* that a later one is called with.                                        *)

\* update-rocm --target t, on its way.
TarballChild(t) ==
    /\ script.name = "update-rocm" /\ script.version = None /\ script.targets = <<t>>
    /\ script.series = FirstTwoParts(tarballs[t])
    /\ \A i \in DOMAIN calls : calls[i].args.targets # <<t>>
    /\ script.at \in {"index", "pin"}
    /\ script.at = "index" => script.left = <<t>>
    /\ script.at = "pin" =>
         \/ script.left = <<t>> /\ script.sources = tarballs
         \/ script.left = <<>> /\ \E v \in FindVersion(script.index, t, script.series) :
                                     script.sources = Put(tarballs, t, v)

RocmRefresh ==
    kind = "rocm" /\ Alive =>
        /\ \A t \in DOMAIN tarballs : tarballs[t] \in RocmVersion
        /\ calls \in Seq(TarballCalls) /\ IsInjective(calls)
        /\ exit = None => \E t \in DOMAIN tarballs : TarballChild(t)

WheelRefresh ==
    kind = "python-wheels" /\ Alive =>
        /\ \A t \in DOMAIN wheels : wheels[t].tag # None
        /\ calls \in Seq(WheelCalls) /\ IsInjective(calls)
        /\ exit = None => /\ script.name = WheelUpdater
                          /\ \A i \in DOMAIN calls : calls[i].args.target # script.target

\* The source build's calls still to run, after each of them.
AfterPin(t) == <<
    Call("update-source-tree", [target |-> t]),
    Call("nix flake lock", [target |-> t]),
    Call("nix build", [target |-> t]),
    Call("update-rocm-third-party", [staged |-> None])>>
AfterTree(t) == <<
    Call("nix flake lock", [target |-> t]),
    Call("nix build", [target |-> t]),
    Call("update-rocm-third-party", [staged |-> None])>>
AfterLock(t) == <<
    Call("nix build", [target |-> t]),
    Call("update-rocm-third-party", [staged |-> None])>>
AfterBuild(staged) == <<Call("update-rocm-third-party", [staged |-> staged])>>

TreeChild(t) ==
    /\ DOMAIN script = TreeFields
    /\ script.name = "update-source-tree" /\ script.target = t
    /\ script.at \in {"resolve", "fetch", "inputs", "tree"}
    /\ script.at # "resolve" => sourcePins[t] = script.pin
    /\ script.at = "tree" => inputs = InputLines

\* source-tree.nix and flake.nix are those of the pin, and agree.
TreeWritten(t) ==
    /\ tree.target = t /\ TreeInputs \subseteq DOMAIN inputs /\ Ordered(tree.submodules)
    /\ inputs[tree.root].rev = sourcePins[t].rev /\ sourcePins[t].rev \in DOMAIN Repository

OwnSpirv(rev) == rev = Repository[StagedSource[SpirvPath]].spirv
OwnEsmi(rev) ==
    LET esmi == Repository[StagedSource[SystemsPath]].esmi IN
    rev = esmi \/ (esmi \in DOMAIN EsmiTags /\ rev \in EsmiTags[esmi])
ThirdPartyChild ==
    /\ DOMAIN script = ThirdPartyFields /\ script.name = "update-rocm-third-party"
    /\ script.at \in {"scan", "hash"} /\ script.staged = StagedSource
    /\ script.at = "hash" => OwnSpirv(script.spirv.rev) /\ OwnEsmi(script.esmi.rev)
ThirdPartyWritten ==
    /\ OwnSpirv(thirdParty.spirv.rev) /\ OwnEsmi(thirdParty.esmi.rev)
    /\ thirdParty.archives = ScanArchives(StagedSource[<<>>])

SourceStage(t) ==
    \/ calls = SourceCalls(t) /\ exit = "ok"
    \/ /\ calls = AfterPin(t)
       /\ exit = None => DOMAIN script = PinFields /\ script.name = "update-rocm-source"
                         /\ script.target = t
    \/ calls = AfterTree(t) /\ exit = None /\ TreeChild(t)
    \/ calls = AfterTree(t) /\ exit = "ok" /\ TreeWritten(t)
    \/ /\ calls = AfterLock(t) /\ TreeWritten(t)
       /\ IF exit = None THEN script.name = "nix flake lock" ELSE lock = inputs
    \/ /\ calls = AfterBuild(None) /\ TreeWritten(t) /\ lock = inputs
       /\ exit = None /\ script.name = "nix build" /\ script.target = t
    \/ calls = AfterBuild(StagedSource) /\ TreeWritten(t) /\ lock = inputs /\ exit = "ok"
    \/ /\ calls = <<>> /\ TreeWritten(t) /\ lock = inputs
       /\ IF exit = None THEN ThirdPartyChild ELSE ThirdPartyWritten

SourceRefresh ==
    kind = "therock-source" /\ Alive => \E t \in DOMAIN sourcePins : SourceStage(t)

StackInv ==
    /\ RunningInv /\ TarballsKnown /\ WheelsKnown /\ SourcesKnown /\ HashesKnown
    /\ kind \in Kinds \cup {None}
    /\ RocmRefresh /\ WheelRefresh /\ SourceRefresh
    /\ LeftoversDoNotBlock
-----------------------------------------------------------------------------
(* The steps. *)

\* A launch takes the place of no script.
LEMMA StartForms ==
    ASSUME NEW call, Start(call)
    PROVE  script = NoScript /\ (script' = NoScript \/ (exit' = None /\ "name" \in DOMAIN script'))
<1>1. CASE StartWheels(call.args)
  BY <1>1 DEF StartWheels, Launch, Ends
<1>2. CASE StartTarballs(call.args)
  BY <1>2 DEF StartTarballs, Launch, Ends
<1>3. CASE StartSource(call.args)
  BY <1>3 DEF StartSource, Launch, Ends
<1>4. CASE StartTree(call.args)
  BY <1>4 DEF StartTree, Launch, Ends
<1>5. CASE StartThirdParty(call.args)
  BY <1>5 DEF StartThirdParty, Launch, Ends
<1>6. CASE Launch([name |-> call.name, at |-> "run", target |-> call.args.target])
  BY <1>6 DEF Launch
<1> QED  BY <1>1, <1>2, <1>3, <1>4, <1>5, <1>6 DEF Start

\* A script ends for one of the reasons, or goes on and is the same script.
Continues ==
    \/ script' = NoScript /\ exit' \in Reasons
    \/ exit' = exit /\ DOMAIN script' = DOMAIN script /\ script'.name = script.name

\* Every end is for one of the reasons.
LEMMA EndsContinues == \A reason \in Reasons : Ends(reason) => Continues
BY DEF Ends, Continues

\* The steps of update-rocm are those of a running update-rocm; so below.
LEMMA TarballsContinue ==
    ASSUME RunningInv, UpdateTarballs
    PROVE  Continues /\ script # NoScript /\ script.name = "update-rocm"
<1>1. script # NoScript /\ script.name = "update-rocm" /\ "name" \in DOMAIN script
  BY DEF UpdateTarballs, FetchTarballIndex, PinTarball, WriteTarballs, Running, RunningInv
<1>2. CASE FetchTarballIndex
  BY <1>1, <1>2, EndsContinues DEF Reasons, FetchTarballIndex, NetworkFails, Proceeds, Continues
<1>3. CASE PinTarball
  <2>1. ASSUME NEW ts, NEW ss, Proceeds([script EXCEPT !.left = ts, !.sources = ss])
        PROVE  Continues
    BY <1>1, <2>1 DEF Proceeds, Continues
  <2> QED  BY <1>1, <1>3, <2>1, EndsContinues DEF Reasons, PinTarball, NetworkFails
<1>4. CASE WriteTarballs  BY <1>1, <1>4, EndsContinues DEF Reasons, WriteTarballs, Writes
<1> QED  BY <1>1, <1>2, <1>3, <1>4 DEF UpdateTarballs

LEMMA WheelsContinue ==
    ASSUME RunningInv, UpdateWheels
    PROVE  Continues /\ script # NoScript /\ script.name = WheelUpdater
<1>1. script # NoScript /\ script.name = WheelUpdater /\ "name" \in DOMAIN script
  BY DEF UpdateWheels, FetchPage, ChooseRocmVersion, PinWheel, WriteWheels, Running, RunningInv,
         WheelUpdater
<1>2. CASE FetchPage
  <2>1. ASSUME NEW ds, Proceeds([script EXCEPT !.dists = ds]) PROVE Continues
    BY <1>1, <2>1 DEF Proceeds, Continues
  <2> QED  BY <1>1, <1>2, <2>1, EndsContinues DEF Reasons, FetchPage, NetworkFails
<1>3. CASE ChooseRocmVersion
  <2>1. ASSUME NEW v, Proceeds([script EXCEPT !.at = "pin", !.rocm = v, !.chosen = TRUE])
        PROVE  Continues
    BY <1>1, <2>1 DEF Proceeds, Continues
  <2>2. ASSUME Proceeds([script EXCEPT !.at = "pin"]) PROVE Continues
    BY <1>1, <2>2 DEF Proceeds, Continues
  <2> QED  BY <1>1, <1>3, <2>1, <2>2, EndsContinues DEF Reasons, ChooseRocmVersion
<1>4. CASE PinWheel
  <2>1. ASSUME NEW ps, Proceeds([script EXCEPT !.packages = ps]) PROVE Continues
    BY <1>1, <2>1 DEF Proceeds, Continues
  <2> QED  BY <1>1, <1>4, <2>1, EndsContinues DEF Reasons, PinWheel, NetworkFails
<1>5. CASE WriteWheels  BY <1>1, <1>5, EndsContinues DEF Reasons, WriteWheels, Writes
<1> QED  BY <1>1, <1>2, <1>3, <1>4, <1>5 DEF UpdateWheels

SourceScripts == {"update-rocm-source", "update-source-tree", "update-rocm-third-party",
                  "nix flake lock"}

LEMMA SourcesContinue ==
    ASSUME RunningInv, UpdateSources
    PROVE  Continues /\ script # NoScript /\ script.name \in SourceScripts
<1>1. /\ script # NoScript /\ "name" \in DOMAIN script
      /\ script.name \in SourceScripts
  BY DEF UpdateSources, ResolveRev, WriteSourcePin, ResolveSource, UpdateSourcesFile, FetchGraph,
         UpdateFlakeInputs, WriteTree, LockFlake, ScanPins, WriteThirdParty, Running, RunningInv,
         SourceScripts
<1>2. CASE ResolveRev \/ ResolveSource
  <2>1. ASSUME NEW rev, Proceeds([script EXCEPT !.pin.rev = rev]) PROVE Continues
    BY <1>1, <2>1 DEF Proceeds, Continues
  <2> QED
    BY <1>1, <1>2, <2>1, EndsContinues DEF Reasons, ResolveRev, ResolveSource, GitRev, NetworkFails
<1>3. CASE WriteSourcePin  BY <1>1, <1>3, EndsContinues DEF Reasons, WriteSourcePin, Writes
<1>4. \A at : Proceeds([script EXCEPT !.at = at]) => Continues
  BY <1>1 DEF Proceeds, Continues
<1>5. CASE UpdateSourcesFile
  BY <1>1, <1>4, <1>5, EndsContinues DEF Reasons, UpdateSourcesFile, Writes
<1>6. CASE FetchGraph
  <2>1. ASSUME NEW g, Proceeds([script EXCEPT !.at = "inputs", !.graph = g]) PROVE Continues
    BY <1>1, <2>1 DEF Proceeds, Continues
  <2> QED  BY <1>1, <1>6, <2>1, EndsContinues DEF Reasons, FetchGraph, NetworkFails
<1>7. CASE UpdateFlakeInputs
  BY <1>1, <1>4, <1>7, EndsContinues DEF Reasons, UpdateFlakeInputs, Writes
<1>8. CASE WriteTree  BY <1>1, <1>8, EndsContinues DEF Reasons, WriteTree, Writes
<1>9. CASE LockFlake
  BY <1>1, <1>9, EndsContinues DEF Reasons, LockFlake, Writes, NetworkFails
<1>10. CASE ScanPins
  <2>1. ASSUME NEW s, NEW e, Proceeds([script EXCEPT !.at = "hash", !.spirv = s, !.esmi = e])
        PROVE  Continues
    BY <1>1, <2>1 DEF Proceeds, Continues
  <2> QED  BY <1>1, <1>10, <2>1, EndsContinues DEF Reasons, ScanPins, NetworkFails
<1>11. CASE WriteThirdParty
  BY <1>1, <1>11, EndsContinues DEF Reasons, WriteThirdParty, Writes, NetworkFails
<1> QED
  BY <1>1, <1>2, <1>3, <1>5, <1>6, <1>7, <1>8, <1>9, <1>10, <1>11 DEF UpdateSources

LEMMA BuildEnds ==
    ASSUME BuildStaged
    PROVE  Continues /\ script # NoScript /\ script.name = "nix build"
BY EndsContinues DEF Reasons, BuildStaged, NetworkFails, Running

\* A running script has no end yet.
LEMMA RunningStep ==
    ASSUME RunningInv, [Next]_vars
    PROVE  RunningInv'
<1>1. ASSUME Continues, script # NoScript PROVE RunningInv'
  BY <1>1 DEF Continues, RunningInv
<1>2. ASSUME script' = NoScript PROVE RunningInv'
  BY <1>2 DEF RunningInv
<1>3. ASSUME NEW call, Start(call) PROVE RunningInv'
  BY <1>3, StartForms DEF RunningInv
<1>4. CASE Step
  BY <1>1, <1>4, TarballsContinue, WheelsContinue, SourcesContinue, BuildEnds DEF Step
<1>5. CASE UNCHANGED vars  BY <1>5 DEF RunningInv, vars
<1>6. CASE \E k \in Kinds : Refresh(k)
  BY <1>2, <1>6 DEF Refresh, Refuse, Idle
<1>7. CASE NextChild  BY <1>2, <1>3, <1>7 DEF NextChild, Ends
<1>8. CASE Return  BY <1>2, <1>8 DEF Return
<1>9. CASE CallByHand  BY <1>3, <1>9 DEF CallByHand
<1>10. CASE Kill  BY <1>2, <1>10 DEF Kill, Ends
<1> QED  BY <1>4, <1>5, <1>6, <1>7, <1>8, <1>9, <1>10 DEF Next
-----------------------------------------------------------------------------
(* The pins stay known. *)

\* An entry more leaves a file finite.
LEMMA PutFinite ==
    ASSUME NEW s, IsFiniteSet(DOMAIN s), NEW k, NEW v
    PROVE  IsFiniteSet(DOMAIN Put(s, k, v))
<1>1. DOMAIN Put(s, k, v) = DOMAIN s \cup {k}  BY DEF Put
<1> QED  BY <1>1, FS_AddElement

\* An entry is the new one or an old one.
LEMMA PutValues ==
    ASSUME NEW s, NEW k, NEW v, NEW i \in DOMAIN Put(s, k, v)
    PROVE  IF i = k THEN Put(s, k, v)[i] = v
           ELSE i \in DOMAIN s /\ Put(s, k, v)[i] = s[i]
BY DEF Put

\* What find_version returns is a version the server listed.
LEMMA FoundKnown ==
    ASSUME NEW index \in SUBSET TarballFiles, NEW target, NEW series,
           NEW v \in FindVersion(index, target, series)
    PROVE  v \in RocmVersion
<1>1. v \in {f.version : f \in {g \in index : /\ g.slug = TargetSlug(target)
                                             /\ series # None => InSeries(g.version, series)}}
  BY LatestAmong, Zenon DEF FindVersion
<1>2. PICK f \in index : v = f.version  BY <1>1
<1>3. \A file \in TarballFiles : file.version \in RocmVersion  BY ArgumentsAssumption, Zenon
<1> QED  BY <1>2, <1>3

\* A step that is no step of update-rocm.
OffTarballs ==
    UNCHANGED tarballs /\ (script' = NoScript \/ script'.name # "update-rocm" \/ UNCHANGED script)

\* Such a step disturbs nothing known of the tarballs; so below.
LEMMA OffTarballsStep ==
    ASSUME TarballsKnown, OffTarballs
    PROVE  TarballsKnown'
BY DEF TarballsKnown, OffTarballs

\* A launched update-rocm has read nothing.
LEMMA StartTarballsStep ==
    ASSUME TarballsKnown, NEW args, args.version \in RocmVersion \cup {None}, StartTarballs(args),
           UNCHANGED tarballs
    PROVE  TarballsKnown'
<1>1. CASE script' = NoScript  BY <1>1, OffTarballsStep DEF OffTarballs
<1>2. ASSUME NEW series,
             Launch([name |-> "update-rocm", at |-> "index", targets |-> args.targets,
                     left |-> args.targets, series |-> series, version |-> args.version,
                     index |-> {}, sources |-> None])
      PROVE  TarballsKnown'
  BY <1>2 DEF Launch, TarballsKnown, TarballFields
<1> QED  BY <1>1, <1>2 DEF StartTarballs, Ends

\* What update-rocm reads and pins are versions.
LEMMA UpdateTarballsStep ==
    ASSUME TarballsKnown, UpdateTarballs
    PROVE  TarballsKnown'
<1>1. script # NoScript /\ script.name = "update-rocm"
  BY DEF UpdateTarballs, FetchTarballIndex, PinTarball, WriteTarballs, Running
<1>2. /\ DOMAIN script = TarballFields /\ script.version \in RocmVersion \cup {None}
      /\ script.index \subseteq TarballFiles
  BY <1>1 DEF TarballsKnown
<1>3. ASSUME script' = NoScript, UNCHANGED tarballs PROVE TarballsKnown'
  BY <1>3, OffTarballsStep DEF OffTarballs
<1>4. CASE FetchTarballIndex
  <2>1. ASSUME tarballs # Torn, NEW index \in SUBSET TarballFiles,
               Proceeds([script EXCEPT !.at = "pin", !.index = index, !.sources = tarballs])
        PROVE  TarballsKnown'
    <3>1. script' = [script EXCEPT !.at = "pin", !.index = index, !.sources = tarballs]
      BY <2>1 DEF Proceeds
    <3>2. /\ DOMAIN script' = TarballFields /\ script'.version = script.version
          /\ script'.index = index /\ script'.sources = tarballs
      BY <1>2, <3>1 DEF TarballFields
    <3>3. tarballs' = tarballs  BY <1>4 DEF FetchTarballIndex
    <3> QED  BY <1>2, <2>1, <3>2, <3>3 DEF TarballsKnown
  <2>2. (IF script.version = None THEN SUBSET TarballFiles ELSE {{}}) \subseteq SUBSET TarballFiles
    OBVIOUS
  <2> QED  BY <1>3, <1>4, <2>1, <2>2 DEF FetchTarballIndex, NetworkFails, Ends
<1>5. CASE PinTarball
  <2> DEFINE target == Head(script.left)
             found == IF script.version # None THEN {script.version}
                      ELSE FindVersion(script.index, target, script.series)
  <2>1. \A v \in found : v \in RocmVersion  BY <1>2, FoundKnown
  <2>2. ASSUME NEW v \in RocmVersion, NEW t, NEW ts,
               Proceeds([script EXCEPT !.left = ts, !.sources = Put(script.sources, t, v)])
        PROVE  TarballsKnown'
    <3>1. script' = [script EXCEPT !.left = ts, !.sources = Put(script.sources, t, v)]
      BY <2>2 DEF Proceeds
    <3>2. /\ DOMAIN script' = TarballFields /\ script'.version = script.version
          /\ script'.index = script.index /\ script'.sources = Put(script.sources, t, v)
      BY <1>2, <3>1 DEF TarballFields
    <3>3. tarballs' = tarballs /\ script.at = "pin"  BY <1>5 DEF PinTarball, Running
    <3>4. /\ IsFiniteSet(DOMAIN script.sources)
          /\ \A u \in DOMAIN script.sources : script.sources[u] \in RocmVersion
      BY <1>1, <3>3 DEF TarballsKnown
    <3>5. /\ IsFiniteSet(DOMAIN script'.sources)
          /\ \A u \in DOMAIN script'.sources : script'.sources[u] \in RocmVersion
      BY <3>2, <3>4, PutFinite, PutValues
    <3> QED  BY <1>2, <3>2, <3>3, <3>5 DEF TarballsKnown
  <2> HIDE DEF found
  <2> QED  BY <1>3, <1>5, <2>1, <2>2 DEF PinTarball, NetworkFails, Ends, found
<1>6. CASE WriteTarballs
  <2>1. /\ IsFiniteSet(DOMAIN script.sources)
        /\ \A u \in DOMAIN script.sources : script.sources[u] \in RocmVersion
    BY <1>1, <1>6 DEF TarballsKnown, WriteTarballs, Running
  <2> QED  BY <1>6, <2>1 DEF WriteTarballs, Writes, Ends, TarballsKnown
<1> QED  BY <1>4, <1>5, <1>6 DEF UpdateTarballs

\* A step that is no step of update-python-wheels.
OffWheels ==
    UNCHANGED wheels /\ (script' = NoScript \/ script'.name # WheelUpdater \/ UNCHANGED script)

LEMMA OffWheelsStep ==
    ASSUME WheelsKnown, OffWheels
    PROVE  WheelsKnown'
BY DEF WheelsKnown, OffWheels

LEMMA StartWheelsStep ==
    ASSUME WheelsKnown, NEW args, None \notin Range(args.named), StartWheels(args), UNCHANGED wheels
    PROVE  WheelsKnown'
<1>1. CASE script' = NoScript  BY <1>1, OffWheelsStep DEF OffWheels
<1>2. ASSUME NEW series, NEW tag, tag # None,
             Launch([name |-> "update-python-wheels", at |-> "pages", target |-> args.target,
                     series |-> series, tag |-> tag, rocm |-> args.rocm, chosen |-> FALSE,
                     named |-> args.named, dists |-> <<>>, packages |-> <<>>])
      PROVE  WheelsKnown'
  BY <1>2 DEF Launch, WheelsKnown
<1> QED  BY <1>1, <1>2 DEF StartWheels, Ends

\* A pin that is written has a tag.
LEMMA UpdateWheelsStep ==
    ASSUME IInv, WheelsKnown, UpdateWheels
    PROVE  WheelsKnown'
<1>1. script # NoScript /\ script.name = WheelUpdater
  BY DEF UpdateWheels, FetchPage, ChooseRocmVersion, PinWheel, WriteWheels, Running, WheelUpdater
<1>2. /\ DOMAIN script = WheelFields /\ wheels # Torn
      /\ script.tag # None /\ None \notin Range(script.named)
  BY <1>1 DEF WheelsKnown, IInv, WheelScriptInv
<1>3. ASSUME script' = NoScript, UNCHANGED wheels PROVE WheelsKnown'
  BY <1>3, OffWheelsStep DEF OffWheels
<1>4. ASSUME script'.tag = script.tag, script'.named = script.named, UNCHANGED wheels
      PROVE  WheelsKnown'
  BY <1>2, <1>4 DEF WheelsKnown
<1>5. CASE FetchPage
  <2>1. ASSUME NEW ds, Proceeds([script EXCEPT !.dists = ds])
        PROVE  script'.tag = script.tag /\ script'.named = script.named
    BY <1>2, <2>1 DEF Proceeds, WheelFields
  <2> QED  BY <1>3, <1>4, <1>5, <2>1 DEF FetchPage, NetworkFails, Ends
<1>6. CASE ChooseRocmVersion
  <2>1. ASSUME NEW v, Proceeds([script EXCEPT !.at = "pin", !.rocm = v, !.chosen = TRUE])
        PROVE  script'.tag = script.tag /\ script'.named = script.named
    BY <1>2, <2>1 DEF Proceeds, WheelFields
  <2>2. ASSUME Proceeds([script EXCEPT !.at = "pin"])
        PROVE  script'.tag = script.tag /\ script'.named = script.named
    BY <1>2, <2>2 DEF Proceeds, WheelFields
  <2> QED  BY <1>3, <1>4, <1>6, <2>1, <2>2 DEF ChooseRocmVersion, Ends
<1>7. CASE PinWheel
  <2>1. ASSUME NEW ps, Proceeds([script EXCEPT !.packages = ps])
        PROVE  script'.tag = script.tag /\ script'.named = script.named
    BY <1>2, <2>1 DEF Proceeds, WheelFields
  <2> QED  BY <1>3, <1>4, <1>7, <2>1 DEF PinWheel, NetworkFails, Ends
<1>8. CASE WriteWheels
  <2> DEFINE pin == [series |-> script.series, rocm |-> script.rocm,
                     tag |-> script.tag, packages |-> script.packages]
             new == Put(wheels, script.target, pin)
  <2>1. IsFiniteSet(DOMAIN wheels) /\ \A t \in DOMAIN wheels : wheels[t].tag # None
    BY <1>2 DEF WheelsKnown
  <2>2. IsFiniteSet(DOMAIN new)  BY <2>1, PutFinite
  <2>3. \A t \in DOMAIN new : new[t].tag # None
    <3>1. pin.tag # None  BY <1>2
    <3> HIDE DEF pin
    <3> QED  BY <2>1, <3>1, PutValues
  <2> HIDE DEF new
  <2>4. script' = NoScript /\ (wheels' = new \/ wheels' = Torn)
    BY <1>8 DEF WriteWheels, Writes, Ends, new
  <2> QED  BY <2>2, <2>3, <2>4 DEF WheelsKnown
<1> QED  BY <1>5, <1>6, <1>7, <1>8 DEF UpdateWheels
-----------------------------------------------------------------------------
(* The pins of the source build, and its hashes, stay known. *)

SourceUpdaters == {"update-rocm-source", "update-source-tree", "update-rocm-third-party"}

\* A step that is no step of one of them.
OffSources ==
    /\ UNCHANGED <<sourcePins, thirdParty>>
    /\ script' = NoScript \/ script'.name \notin SourceUpdaters \/ UNCHANGED script

LEMMA OffSourcesStep ==
    ASSUME SourcesKnown, HashesKnown, OffSources
    PROVE  SourcesKnown' /\ HashesKnown'
<1>1. HashIsOfItsSource'  BY DEF HashesKnown, HashIsOfItsSource, OffSources
<1> QED  BY <1>1 DEF SourcesKnown, PinsWhole, GraphKnown, HashesKnown, OffSources, SourceUpdaters

\* A step that changes neither file and leaves no script of the pins.
LEMMA HashesStay ==
    ASSUME HashesKnown, UNCHANGED thirdParty,
           script' = NoScript \/ script'.name # "update-rocm-third-party"
    PROVE  HashesKnown'
BY DEF HashesKnown, HashIsOfItsSource

\* Pins that are not written stay whole.
LEMMA PinsStay ==
    ASSUME SourcesKnown, UNCHANGED sourcePins,
           script' = NoScript \/ script'.name \notin {"update-rocm-source", "update-source-tree"}
    PROVE  SourcesKnown'
BY DEF SourcesKnown, PinsWhole

\* The pin of a launched update-rocm-source is whole.
LEMMA StartSourceStep ==
    ASSUME SourcesKnown, HashesKnown, NEW args, args.rev \in DOMAIN Repository \cup {None},
           StartSource(args), UNCHANGED <<sourcePins, thirdParty>>
    PROVE  SourcesKnown' /\ HashesKnown'
<1>1. CASE script' = NoScript  BY <1>1, OffSourcesStep DEF OffSources
<1>2. ASSUME NEW ref, sourcePins # Torn,
             Launch([name |-> "update-rocm-source", at |-> "resolve", target |-> args.target,
                     pin |-> [ref |-> ref, version |-> ref, rev |-> args.rev,
                              policy |-> SourceFetchPolicy(args.target)]])
      PROVE  SourcesKnown' /\ HashesKnown'
  <2>1. IsPolicy(SourceFetchPolicy(args.target))
    BY <1>2, SourcesAssumption DEF SourceFetchPolicy, SourcesKnown, PinsWhole, IsSourcePin
  <2> DEFINE pin == [ref |-> ref, version |-> ref, rev |-> args.rev,
                     policy |-> SourceFetchPolicy(args.target)]
  <2>2. IsSourcePin(pin)  BY <2>1 DEF IsSourcePin
  <2> HIDE DEF pin
  <2>3. script' = [name |-> "update-rocm-source", at |-> "resolve", target |-> args.target,
                   pin |-> pin]
    BY <1>2 DEF Launch, pin
  <2>4. DOMAIN script' = PinFields /\ script'.name = "update-rocm-source" /\ script'.pin = pin
    BY <2>3 DEF PinFields
  <2>5. SourcesKnown'  BY <1>2, <2>2, <2>4 DEF SourcesKnown, PinsWhole
  <2>6. HashesKnown'  BY <2>4, HashesStay
  <2> QED  BY <2>5, <2>6
<1> QED  BY <1>1, <1>2 DEF StartSource, Ends

\* The pin of a launched update-source-tree is one of the file.
LEMMA StartTreeStep ==
    ASSUME SourcesKnown, HashesKnown, NEW args, StartTree(args),
           UNCHANGED <<sourcePins, thirdParty>>
    PROVE  SourcesKnown' /\ HashesKnown'
<1>1. CASE script' = NoScript  BY <1>1, OffSourcesStep DEF OffSources
<1>2. ASSUME sourcePins # Torn, args.target \in DOMAIN sourcePins,
             Launch([name |-> "update-source-tree", at |-> "resolve", target |-> args.target,
                     pin |-> sourcePins[args.target], graph |-> <<>>])
      PROVE  SourcesKnown' /\ HashesKnown'
  <2>1. IsSourcePin(sourcePins[args.target])  BY <1>2 DEF SourcesKnown, PinsWhole
  <2>2. /\ DOMAIN script' = TreeFields /\ script'.name = "update-source-tree"
        /\ script'.pin = sourcePins[args.target] /\ script'.at = "resolve"
    BY <1>2 DEF Launch, TreeFields
  <2>3. SourcesKnown'  BY <1>2, <2>1, <2>2 DEF SourcesKnown, PinsWhole
  <2>4. HashesKnown'  BY <2>2, HashesStay
  <2> QED  BY <2>3, <2>4
<1> QED  BY <1>1, <1>2 DEF StartTree, Ends

\* A launched update-rocm-third-party has nothing to hash yet.
LEMMA StartThirdPartyStep ==
    ASSUME SourcesKnown, HashesKnown, NEW args, args.staged[<<>>] \in DOMAIN Repository,
           StartThirdParty(args), UNCHANGED <<sourcePins, thirdParty>>
    PROVE  SourcesKnown' /\ HashesKnown'
<1>1. CASE script' = NoScript  BY <1>1, OffSourcesStep DEF OffSources
<1>2. ASSUME thirdParty # Torn,
             Launch([name |-> "update-rocm-third-party", at |-> "scan",
                     staged |-> args.staged, spirv |-> None, esmi |-> None])
      PROVE  SourcesKnown' /\ HashesKnown'
  <2>1. /\ DOMAIN script' = ThirdPartyFields /\ script'.name = "update-rocm-third-party"
        /\ script'.staged = args.staged /\ script'.at = "scan"
    BY <1>2 DEF Launch, ThirdPartyFields
  <2>2. HashIsOfItsSource'  BY DEF HashesKnown, HashIsOfItsSource
  <2>3. HashesKnown'  BY <1>2, <2>1, <2>2 DEF HashesKnown
  <2>4. SourcesKnown'  BY <2>1, PinsStay
  <2> QED  BY <2>3, <2>4
<1> QED  BY <1>1, <1>2 DEF StartThirdParty, Ends

\* git_rev: a pin gets a revision of its branch.
LEMMA RevisionKnown ==
    ASSUME NEW pin, IsSourcePin(pin), NEW ref, NEW rev \in HeadsOf(ref)
    PROVE  IsSourcePin([pin EXCEPT !.rev = rev])
<1>1. rev \in DOMAIN Repository  BY SourcesAssumption DEF HeadsOf
<1> QED  BY <1>1 DEF IsSourcePin

\* A resolved revision is the head of a branch.
LEMMA ResolveStep ==
    ASSUME RunningInv, SourcesKnown, HashesKnown, ResolveRev \/ ResolveSource
    PROVE  SourcesKnown' /\ HashesKnown'
<1>1. /\ script # NoScript /\ script.name \in {"update-rocm-source", "update-source-tree"}
      /\ script.at = "resolve" /\ GitRev
  BY DEF ResolveRev, ResolveSource, Running
<1>2. /\ UNCHANGED <<sourcePins, thirdParty>> /\ PinsWhole /\ IsSourcePin(script.pin)
      /\ DOMAIN script = IF script.name = "update-rocm-source" THEN PinFields ELSE TreeFields
  BY <1>1 DEF SourcesKnown, GitRev, sourceVars
<1>3. CASE script' = NoScript  BY <1>2, <1>3, OffSourcesStep DEF OffSources
<1>4. ASSUME NEW rev \in HeadsOf(script.pin.ref), Proceeds([script EXCEPT !.pin.rev = rev])
      PROVE  SourcesKnown' /\ HashesKnown'
  <2>1. /\ DOMAIN script' = DOMAIN script /\ script'.name = script.name /\ script'.at = script.at
        /\ script'.pin = [script.pin EXCEPT !.rev = rev]
    BY <1>1, <1>2, <1>4 DEF Proceeds, PinFields, TreeFields
  <2>2. IsSourcePin(script'.pin)  BY <1>2, <2>1, RevisionKnown
  <2>3. SourcesKnown'  BY <1>1, <1>2, <2>1, <2>2 DEF SourcesKnown, PinsWhole
  <2>4. HashesKnown'  BY <1>1, <1>2, <2>1, HashesStay
  <2> QED  BY <2>3, <2>4
<1> QED  BY <1>1, <1>3, <1>4 DEF GitRev, NetworkFails, Ends

\* A pin that is written is known.
LEMMA PutKnown ==
    ASSUME NEW pins, \A t \in DOMAIN pins : IsSourcePin(pins[t]), NEW target, NEW pin,
           IsSourcePin(pin)
    PROVE  \A t \in DOMAIN Put(pins, target, pin) : IsSourcePin(Put(pins, target, pin)[t])
BY PutValues

LEMMA WriteSourceStep ==
    ASSUME SourcesKnown, HashesKnown, WriteSourcePin
    PROVE  SourcesKnown' /\ HashesKnown'
<1>1. script # NoScript /\ script.name = "update-rocm-source" /\ UNCHANGED thirdParty
  BY DEF WriteSourcePin, Running
<1>2. IsSourcePin(script.pin) /\ \A t \in DOMAIN sourcePins : IsSourcePin(sourcePins[t])
  BY <1>1 DEF SourcesKnown, PinsWhole
<1>3. /\ script' = NoScript
      /\ sourcePins' = Torn \/ sourcePins' = Put(sourcePins, script.target, script.pin)
  BY DEF WriteSourcePin, Writes, Ends
<1>4. SourcesKnown'  BY <1>2, <1>3, PutKnown DEF SourcesKnown, PinsWhole
<1>5. HashesKnown'  BY <1>1, <1>3, HashesStay
<1> QED  BY <1>4, <1>5

LEMMA UpdateFileStep ==
    ASSUME SourcesKnown, HashesKnown, UpdateSourcesFile
    PROVE  SourcesKnown' /\ HashesKnown'
<1>1. /\ script # NoScript /\ script.name = "update-source-tree" /\ UNCHANGED thirdParty
      /\ script.pin.rev # None
  BY DEF UpdateSourcesFile, Running
<1>2. /\ IsSourcePin(script.pin) /\ DOMAIN script = TreeFields
      /\ \A t \in DOMAIN sourcePins : IsSourcePin(sourcePins[t])
  BY <1>1 DEF SourcesKnown, PinsWhole
<1>3. CASE script' = NoScript /\ sourcePins' = Torn
  <2>1. SourcesKnown'  BY <1>3 DEF SourcesKnown
  <2> QED  BY <1>1, <1>3, <2>1, HashesStay
<1>4. ASSUME Proceeds([script EXCEPT !.at = "fetch"]),
             sourcePins' \in {sourcePins, Put(sourcePins, script.target, script.pin)}
      PROVE  SourcesKnown' /\ HashesKnown'
  <2>1. /\ DOMAIN script' = TreeFields /\ script'.name = "update-source-tree"
        /\ script'.at = "fetch" /\ script'.pin = script.pin
    BY <1>1, <1>2, <1>4 DEF Proceeds, TreeFields
  <2>2. \A t \in DOMAIN sourcePins' : IsSourcePin(sourcePins'[t])  BY <1>2, <1>4, PutKnown
  <2>3. SourcesKnown'  BY <1>1, <1>2, <1>4, <2>1, <2>2 DEF SourcesKnown, PinsWhole
  <2>4. HashesKnown'  BY <1>1, <2>1, HashesStay
  <2> QED  BY <2>3, <2>4
<1> QED  BY <1>3, <1>4 DEF UpdateSourcesFile, Writes, Ends

\* The graph that is kept is build_graph's.
LEMMA FetchGraphStep ==
    ASSUME SourcesKnown, HashesKnown, FetchGraph
    PROVE  SourcesKnown' /\ HashesKnown'
<1>1. /\ script # NoScript /\ script.name = "update-source-tree" /\ script.at = "fetch"
      /\ UNCHANGED <<sourcePins, thirdParty>>
  BY DEF FetchGraph, Running, sourceVars
<1>2. /\ PinsWhole /\ IsSourcePin(script.pin) /\ DOMAIN script = TreeFields
      /\ script.pin.rev # None
  BY <1>1 DEF SourcesKnown
<1>3. CASE script' = NoScript  BY <1>1, <1>3, OffSourcesStep DEF OffSources
<1> DEFINE graph == BuildGraph(script.pin.rev, script.pin.policy)
<1>4. ASSUME graph # Unresolved, Proceeds([script EXCEPT !.at = "inputs", !.graph = graph])
      PROVE  SourcesKnown' /\ HashesKnown'
  <2>1. graph \in GraphsWith(script.pin.rev, Range(Repository[script.pin.rev].enabled))
    <3>1. script.pin.rev \in DOMAIN Repository /\ IsPolicy(script.pin.policy)
      BY <1>2 DEF IsSourcePin
    <3> QED  BY <3>1, BuiltGraph
  <2> HIDE DEF graph
  <2>2. /\ DOMAIN script' = TreeFields /\ script'.name = "update-source-tree"
        /\ script'.at = "inputs" /\ script'.pin = script.pin /\ script'.graph = graph
    BY <1>1, <1>2, <1>4 DEF Proceeds, TreeFields
  <2>3. GraphKnown'  BY <1>4, <2>1, <2>2 DEF GraphKnown
  <2>4. SourcesKnown'  BY <1>1, <1>2, <2>2, <2>3 DEF SourcesKnown, PinsWhole
  <2>5. HashesKnown'  BY <1>1, <2>2, HashesStay
  <2> QED  BY <2>4, <2>5
<1> QED  BY <1>3, <1>4 DEF FetchGraph, NetworkFails, Ends

LEMMA InputsStep ==
    ASSUME SourcesKnown, HashesKnown, UpdateFlakeInputs
    PROVE  SourcesKnown' /\ HashesKnown'
<1>1. /\ script # NoScript /\ script.name = "update-source-tree" /\ script.at = "inputs"
      /\ UNCHANGED <<sourcePins, thirdParty>>
  BY DEF UpdateFlakeInputs, Running
<1>2. CASE script' = NoScript  BY <1>1, <1>2, OffSourcesStep DEF OffSources
<1>3. ASSUME Proceeds([script EXCEPT !.at = "tree"]) PROVE SourcesKnown' /\ HashesKnown'
  <2>1. /\ PinsWhole /\ IsSourcePin(script.pin) /\ DOMAIN script = TreeFields
        /\ script.pin.rev # None /\ GraphKnown
    BY <1>1 DEF SourcesKnown
  <2>2. /\ DOMAIN script' = TreeFields /\ script'.name = "update-source-tree"
        /\ script'.at = "tree" /\ script'.pin = script.pin /\ script'.graph = script.graph
    BY <1>1, <1>3, <2>1 DEF Proceeds, TreeFields
  <2>3. GraphKnown'  BY <2>1, <2>2 DEF GraphKnown
  <2>4. SourcesKnown'  BY <1>1, <2>1, <2>2, <2>3 DEF SourcesKnown, PinsWhole
  <2>5. HashesKnown'  BY <1>1, <2>2, HashesStay
  <2> QED  BY <2>4, <2>5
<1> QED  BY <1>2, <1>3 DEF UpdateFlakeInputs, Writes, Ends

LEMMA ScanPinsStep ==
    ASSUME SourcesKnown, HashesKnown, ScanPins
    PROVE  SourcesKnown' /\ HashesKnown'
<1>1. /\ script # NoScript /\ script.name = "update-rocm-third-party"
      /\ UNCHANGED <<sourcePins, thirdParty>>
  <2>1. Running("update-rocm-third-party", "scan") /\ UNCHANGED sourceVars
    BY Zenon DEF ScanPins
  <2> QED  BY <2>1 DEF Running, sourceVars
<1>2. CASE script' = NoScript  BY <1>1, <1>2, OffSourcesStep DEF OffSources
<1>3. ASSUME NEW spirv, NEW rev,
             Proceeds([script EXCEPT !.at = "hash", !.spirv = [url |-> spirv, rev |-> spirv],
                                     !.esmi = [url |-> EsmiUrl, rev |-> rev]])
      PROVE  SourcesKnown' /\ HashesKnown'
  <2>1. /\ DOMAIN script = ThirdPartyFields /\ thirdParty # Torn
        /\ script.staged[<<>>] \in DOMAIN Repository
    BY <1>1 DEF HashesKnown
  <2>2. /\ DOMAIN script' = ThirdPartyFields /\ script'.name = "update-rocm-third-party"
        /\ script'.staged = script.staged
        /\ script'.spirv = [url |-> spirv, rev |-> spirv]
        /\ script'.esmi = [url |-> EsmiUrl, rev |-> rev]
    BY <1>1, <1>3, <2>1 DEF Proceeds, ThirdPartyFields
  <2>3. IsSource(script'.spirv) /\ IsSource(script'.esmi)  BY <2>2 DEF IsSource
  <2>4. HashIsOfItsSource'  BY <1>1 DEF HashesKnown, HashIsOfItsSource
  <2>5. HashesKnown'  BY <1>1, <2>1, <2>2, <2>3, <2>4 DEF HashesKnown, IsSource
  <2>6. SourcesKnown'  BY <1>1, <2>2, PinsStay
  <2> QED  BY <2>5, <2>6
<1> QED  BY <1>2, <1>3 DEF ScanPins, NetworkFails, Ends

\* source_hash: a reused hash is of the same source.
LEMMA HashedOwn ==
    ASSUME NEW source, IsSource(source), NEW previous,
           previous # None => previous.hash = [url |-> previous.url, rev |-> previous.rev]
    PROVE  LET s == Hashed(source, previous) IN s.hash = [url |-> s.url, rev |-> s.rev]
BY DEF Hashed, SourceHash, IsSource

\* A name that scan_archives found has a url and a hash that stand together in a file.
LEMMA StatedIsNextToUrl ==
    ASSUME NEW archives \in StatedArchives, NEW name \in DOMAIN archives
    PROVE  \E rev \in DOMAIN Repository : \E file \in ToSet(Repository[rev].cmake) :
             \E i \in DOMAIN file \ {1} :
               /\ file[i - 1] = [is |-> "url", value |-> archives[name].url]
               /\ file[i] = [is |-> "hash", value |-> archives[name].hash]
<1>1. Stated(archives[name])  BY DEF StatedArchives, Partial
<1>2. PICK file \in CMakeFiles : \E i \in DOMAIN file \ {1} :
               /\ file[i - 1] = [is |-> "url", value |-> archives[name].url]
               /\ file[i] = [is |-> "hash", value |-> archives[name].hash]
  BY <1>1 DEF Stated
<1>3. PICK rev \in DOMAIN Repository : file \in ToSet(Repository[rev].cmake)
  BY DEF CMakeFiles, Range, ToSet
<1> QED  BY <1>2, <1>3

\* A reused hash is that of the same url and revision.
LEMMA WriteThirdPartyStep ==
    ASSUME SourcesKnown, HashesKnown, WriteThirdParty
    PROVE  SourcesKnown' /\ HashesKnown'
<1>1. /\ script # NoScript /\ script.name = "update-rocm-third-party" /\ script.at = "hash"
      /\ UNCHANGED sourcePins
  BY DEF WriteThirdParty, Running
<1>2. script' = NoScript  BY DEF WriteThirdParty, NetworkFails, Writes, Ends
<1>3. SourcesKnown'  BY <1>1, <1>2, PinsStay
<1>4. CASE thirdParty' \in {thirdParty, Torn}
  <2>1. HashIsOfItsSource'  BY <1>4 DEF HashesKnown, HashIsOfItsSource
  <2> QED  BY <1>2, <1>3, <2>1 DEF HashesKnown
<1>5. CASE thirdParty' = [archives |-> ScanArchives(script.staged[<<>>]),
                          esmi |-> Hashed(script.esmi, thirdParty.esmi),
                          spirv |-> Hashed(script.spirv, thirdParty.spirv)]
  <2>1. /\ HashIsOfItsSource /\ thirdParty # Torn /\ script.staged[<<>>] \in DOMAIN Repository
        /\ IsSource(script.esmi) /\ IsSource(script.spirv)
    BY <1>1 DEF HashesKnown
  <2>2. \A s \in {thirdParty.esmi, thirdParty.spirv} :
            s # None => s.hash = [url |-> s.url, rev |-> s.rev]
    BY <2>1 DEF HashIsOfItsSource
  <2> DEFINE esmi == Hashed(script.esmi, thirdParty.esmi)
             spirv == Hashed(script.spirv, thirdParty.spirv)
             archives == ScanArchives(script.staged[<<>>])
  <2>3. esmi.hash = [url |-> esmi.url, rev |-> esmi.rev]
    BY <2>1, <2>2, HashedOwn
  <2>4. spirv.hash = [url |-> spirv.url, rev |-> spirv.rev]
    BY <2>1, <2>2, HashedOwn
  <2>5. archives \in StatedArchives  BY <2>1, ArchivesAreStated
  <2>6. thirdParty' = [archives |-> archives, esmi |-> esmi, spirv |-> spirv]  BY <1>5
  <2> HIDE DEF esmi, spirv, archives
  <2>7. thirdParty'.archives = archives /\ thirdParty'.esmi = esmi /\ thirdParty'.spirv = spirv
    BY <2>6
  <2>8. HashIsOfItsSource'
    BY <2>3, <2>4, <2>5, <2>7, StatedIsNextToUrl DEF HashIsOfItsSource
  <2> QED  BY <1>2, <1>3, <2>8 DEF HashesKnown
<1> QED  BY <1>4, <1>5 DEF WriteThirdParty, Writes

LEMMA UpdateSourcesStep ==
    ASSUME RunningInv, SourcesKnown, HashesKnown, UpdateSources
    PROVE  SourcesKnown' /\ HashesKnown'
<1>1. CASE WriteTree \/ LockFlake
  <2>1. script' = NoScript /\ UNCHANGED <<sourcePins, thirdParty>>
    BY <1>1 DEF WriteTree, LockFlake, Writes, NetworkFails, Ends
  <2> QED  BY <2>1, OffSourcesStep DEF OffSources
<1> QED
  BY <1>1, ResolveStep, WriteSourceStep, UpdateFileStep, FetchGraphStep, InputsStep, ScanPinsStep,
     WriteThirdPartyStep
  DEF UpdateSources
-----------------------------------------------------------------------------
(* The queues. *)

\* An order of a set of calls is a queue of them, each once.
LEMMA OrderIsQueue ==
    ASSUME NEW S, IsFiniteSet(S), NEW s \in SetToSeqs(S)
    PROVE  s \in Seq(S) /\ IsInjective(s)
<1>1. Cardinality(S) \in Nat  BY FS_CardinalityType
<1>2. /\ s \in [1..Cardinality(S) -> S]
      /\ \A i, j \in 1..Cardinality(S) : i # j => s[i] # s[j]
  BY DEF SetToSeqs
<1> QED  BY <1>1, <1>2 DEF IsInjective

\* What is left of such a queue is one, without its head.
LEMMA RestOfQueue ==
    ASSUME NEW S, NEW s \in Seq(S), s # <<>>, IsInjective(s)
    PROVE  /\ Head(s) \in S /\ Tail(s) \in Seq(S) /\ IsInjective(Tail(s))
           /\ \A i \in DOMAIN Tail(s) : Tail(s)[i] \in S /\ Tail(s)[i] # Head(s)
<1>1. Len(s) \in Nat \ {0} /\ DOMAIN s = 1..Len(s) /\ \A i \in 1..Len(s) : s[i] \in S
  OBVIOUS
<1>2. /\ Head(s) = s[1] /\ Tail(s) \in Seq(S) /\ DOMAIN Tail(s) = 1..(Len(s) - 1)
      /\ \A i \in 1..(Len(s) - 1) : Tail(s)[i] = s[i + 1]
  BY <1>1
<1>3. \A i \in DOMAIN Tail(s) : i \in DOMAIN s /\ i + 1 \in DOMAIN s /\ Tail(s)[i] = s[i + 1]
  BY <1>1, <1>2
<1>4. \A i \in DOMAIN Tail(s) : Tail(s)[i] \in S /\ Tail(s)[i] # Head(s)
  BY <1>1, <1>2, <1>3 DEF IsInjective
<1>5. IsInjective(Tail(s))  BY <1>1, <1>2, <1>3 DEF IsInjective
<1> QED  BY <1>1, <1>2, <1>4, <1>5

\* One call for each of finitely many targets.
LEMMA ImageFinite ==
    ASSUME NEW S, IsFiniteSet(S), NEW f
    PROVE  IsFiniteSet({f[s] : s \in S})
<1>1. [s \in S |-> f[s]] \in Surjection(S, {f[s] : s \in S})  BY DEF Surjection
<1> QED  BY <1>1, FS_Surjection

-----------------------------------------------------------------------------
(* A refresh of the tarballs. *)

\* A refresh of the tarballs calls update-rocm once per target.
LEMMA TarballQueue ==
    ASSUME tarballs # Torn, TarballsKnown, NEW s \in SetToSeqs(TarballCalls)
    PROVE  s \in Seq(TarballCalls) /\ IsInjective(s)
<1> DEFINE f == [t \in DOMAIN tarballs |->
                    Call("update-rocm", [targets |-> <<t>>, series |-> FirstTwoParts(tarballs[t]),
                                         version |-> None])]
<1>1. IsFiniteSet(DOMAIN tarballs)  BY DEF TarballsKnown
<1>2. TarballCalls = {f[t] : t \in DOMAIN tarballs}  BY DEF TarballCalls
<1>3. IsFiniteSet(TarballCalls)
  <2> HIDE DEF f
  <2> QED  BY <1>1, <1>2, ImageFinite
<1> QED  BY <1>3, OrderIsQueue

\* A series is given to each child.
LEMMA SeriesGiven ==
    ASSUME NEW v \in RocmVersion
    PROVE  FirstTwoParts(v) # None
<1>1. v \in Version /\ Len(v.release) = 3  BY DEF RocmVersion
<1>2. v.release \in Seq(Nat)  BY <1>1 DEF Version
<1>3. SubSeq(v.release, 1, 2) \in Seq(Nat)  BY <1>1, <1>2
<1>4. <<>> \in Seq({0, 1} \X Nat)  OBVIOUS
<1>5. FirstTwoParts(v) \in Version  BY <1>1, <1>3, <1>4 DEF FirstTwoParts, Final, Version
<1> QED  BY <1>5, ArgumentsAssumption

\* Only a running script takes a step.
LEMMA ScriptEnds ==
    ASSUME RunningInv, Step
    PROVE  exit = None /\ script # NoScript
BY TarballsContinue, WheelsContinue, SourcesContinue, BuildEnds DEF Step, RunningInv

\* A child that fails ends the refresh.
LEMMA FailedIsNotAlive ==
    ASSUME NEW reason \in Reasons, reason # "ok", Ends(reason)
    PROVE  ~Alive'
BY ArgumentsAssumption DEF Ends, Alive

\* update-rocm is started for the next target.
LEMMA RocmStart ==
    ASSUME TarballsKnown, RocmRefresh, kind = "rocm", NextChild
    PROVE  RocmRefresh' /\ exit' = None
<1>1. /\ exit = "ok" /\ calls # <<>> /\ script = NoScript
      /\ calls' = Tail(calls) /\ tarballs' = tarballs
  BY DEF NextChild
<1>2. /\ calls \in Seq(TarballCalls) /\ IsInjective(calls)
      /\ \A t \in DOMAIN tarballs : tarballs[t] \in RocmVersion
  BY <1>1 DEF RocmRefresh, Alive
<1>3. /\ Head(calls) \in TarballCalls /\ calls' \in Seq(TarballCalls) /\ IsInjective(calls')
      /\ \A i \in DOMAIN calls' : calls'[i] \in TarballCalls /\ calls'[i] # Head(calls)
  BY <1>1, <1>2, RestOfQueue
<1>4. PICK t \in DOMAIN tarballs : Head(calls) =
         Call("update-rocm", [targets |-> <<t>>, series |-> FirstTwoParts(tarballs[t]),
                              version |-> None])
  BY <1>3 DEF TarballCalls
<1>5. \A i \in DOMAIN calls' : calls'[i].args.targets # <<t>>
  <2> SUFFICES ASSUME NEW i \in DOMAIN calls', calls'[i].args.targets = <<t>> PROVE FALSE
    OBVIOUS
  <2>1. PICK u \in DOMAIN tarballs : calls'[i] =
           Call("update-rocm", [targets |-> <<u>>, series |-> FirstTwoParts(tarballs[u]),
                                version |-> None])
    BY <1>3 DEF TarballCalls
  <2>2. u = t  BY <2>1 DEF Call
  <2> QED  BY <1>3, <1>4, <2>1, <2>2
<1>6. Start(Head(calls)) /\ Head(calls).name = "update-rocm"
  BY <1>4 DEF NextChild, Call
<1>7. StartTarballs(Head(calls).args)  BY <1>6 DEF Start
<1>8. FirstTwoParts(tarballs[t]) # None  BY <1>2, SeriesGiven
<1>9. Launch([name |-> "update-rocm", at |-> "index", targets |-> <<t>>, left |-> <<t>>,
              series |-> FirstTwoParts(tarballs[t]), version |-> None,
              index |-> {}, sources |-> None])
  <2> DEFINE args == Head(calls).args
  <2>1. args.targets = <<t>> /\ args.series = FirstTwoParts(tarballs[t]) /\ args.version = None
    BY <1>4 DEF Call
  <2> HIDE DEF args
  <2>2. StartTarballs(args)  BY <1>7 DEF args
  <2> QED  BY <1>8, <2>1, <2>2 DEF StartTarballs
<1>10. TarballChild(t)'  BY <1>1, <1>5, <1>9 DEF Launch, TarballChild
<1>11. TarballCalls' = TarballCalls  BY <1>1 DEF TarballCalls
<1> QED  BY <1>1, <1>2, <1>3, <1>9, <1>10, <1>11 DEF RocmRefresh, Launch

\* A step of update-rocm in a refresh.
LEMMA RocmStep ==
    ASSUME RunningInv, TarballsKnown, RocmRefresh, kind = "rocm", Step
    PROVE  RocmRefresh'
<1>1. exit = None /\ script # NoScript  BY ScriptEnds
<1>2. /\ \A t \in DOMAIN tarballs : tarballs[t] \in RocmVersion
      /\ calls \in Seq(TarballCalls) /\ IsInjective(calls)
  BY <1>1 DEF RocmRefresh, Alive
<1>3. PICK t \in DOMAIN tarballs : TarballChild(t)  BY <1>1 DEF RocmRefresh, Alive
<1>4. UpdateTarballs /\ UNCHANGED stackVars
  BY <1>3, WheelsContinue, SourcesContinue, BuildEnds
  DEF Step, TarballChild, WheelUpdater, SourceScripts
<1>5. calls' = calls /\ kind' = kind  BY <1>4 DEF stackVars
<1>6. DOMAIN script = TarballFields  BY <1>1, <1>3 DEF TarballsKnown, TarballChild
<1>7. ASSUME UNCHANGED <<tarballs, exit>>, TarballChild(t)' PROVE RocmRefresh'
  <2>1. TarballCalls' = TarballCalls  BY <1>7 DEF TarballCalls
  <2> QED  BY <1>2, <1>5, <1>7, <2>1 DEF RocmRefresh
<1>8. ASSUME ~Alive' PROVE RocmRefresh'  BY <1>8 DEF RocmRefresh
<1>9. CASE FetchTarballIndex
  <2>1. ASSUME NEW index,
               Proceeds([script EXCEPT !.at = "pin", !.index = index, !.sources = tarballs]),
               script.at = "index", UNCHANGED tarballs
        PROVE  RocmRefresh'
    <3>1. script' = [script EXCEPT !.at = "pin", !.index = index, !.sources = tarballs]
          /\ exit' = exit
      BY <2>1 DEF Proceeds
    <3>2. /\ script'.name = script.name /\ script'.version = script.version
          /\ script'.series = script.series /\ script'.targets = script.targets
          /\ script'.left = script.left /\ script'.at = "pin" /\ script'.sources = tarballs
      BY <1>6, <3>1 DEF TarballFields
    <3>3. TarballChild(t)'  BY <1>3, <1>5, <2>1, <3>2 DEF TarballChild
    <3> QED  BY <1>7, <2>1, <3>1, <3>3
  <2> QED
    BY <1>8, <1>9, <2>1, FailedIsNotAlive
    DEF FetchTarballIndex, NetworkFails, Running, Reasons
<1>10. CASE PinTarball
  <2>1. script.left = <<t>> /\ script.sources = tarballs
        /\ script.version = None /\ script.series = FirstTwoParts(tarballs[t])
    BY <1>3, <1>10 DEF PinTarball, Running, TarballChild
  <2>3. Head(<<t>>) = t /\ Tail(<<t>>) = <<>>  OBVIOUS
  <2>4. tarballs' = tarballs  BY <1>10 DEF PinTarball
  <2>2. ASSUME NEW v \in FindVersion(script.index, t, script.series),
               Proceeds([script EXCEPT !.left = <<>>, !.sources = Put(tarballs, t, v)])
        PROVE  RocmRefresh'
    <3>1. script' = [script EXCEPT !.left = <<>>, !.sources = Put(tarballs, t, v)]
          /\ exit' = exit
      BY <2>2 DEF Proceeds
    <3>2. /\ script'.name = script.name /\ script'.version = script.version
          /\ script'.series = script.series /\ script'.targets = script.targets
          /\ script'.left = <<>>
          /\ script'.at = script.at /\ script'.sources = Put(tarballs, t, v)
          /\ script'.index = script.index
      BY <1>6, <3>1 DEF TarballFields
    <3>3. script.at = "pin"  BY <1>10 DEF PinTarball, Running
    <3>4. TarballChild(t)'  BY <1>3, <1>5, <2>2, <2>4, <3>2, <3>3 DEF TarballChild
    <3> QED  BY <1>7, <2>4, <3>1, <3>4
  <2> QED
    BY <1>8, <1>10, <2>1, <2>2, <2>3, FailedIsNotAlive DEF PinTarball, NetworkFails, Reasons
<1>11. CASE WriteTarballs
  <2>1. PICK v \in FindVersion(script.index, t, script.series) :
           script.sources = Put(tarballs, t, v)
    BY <1>3, <1>11 DEF WriteTarballs, Running, TarballChild
  <2>2. v \in RocmVersion
    BY <1>1, <1>3, FoundKnown DEF TarballsKnown, TarballChild
  <2>3. CASE tarballs' = Put(tarballs, t, v) /\ Ends("ok")
    <3>1. DOMAIN tarballs' = {t} \cup DOMAIN tarballs /\ tarballs'[t] = v
          /\ \A u \in DOMAIN tarballs : u # t => tarballs'[u] = tarballs[u]
      BY <2>3 DEF Put
    <3>2. \A i \in DOMAIN calls : calls[i] \in TarballCalls'
      <4> SUFFICES ASSUME NEW i \in DOMAIN calls PROVE calls[i] \in TarballCalls'
        OBVIOUS
      <4>1. calls[i] \in TarballCalls  BY <1>2
      <4>2. PICK u \in DOMAIN tarballs : calls[i] =
               Call("update-rocm", [targets |-> <<u>>, series |-> FirstTwoParts(tarballs[u]),
                                    version |-> None])
        BY <4>1 DEF TarballCalls
      <4>3. u # t  BY <1>3, <4>2 DEF TarballChild, Call
      <4> QED  BY <3>1, <4>2, <4>3 DEF TarballCalls
    <3>3. calls \in Seq(TarballCalls')  BY <1>2, <3>2
    <3>4. \A u \in DOMAIN tarballs' : tarballs'[u] \in RocmVersion  BY <1>2, <2>2, <3>1
    <3>5. exit' # None  BY <2>3, ArgumentsAssumption DEF Ends, Reasons
    <3> QED  BY <1>2, <1>5, <3>3, <3>4, <3>5 DEF RocmRefresh
  <2> QED
    BY <1>8, <1>11, <2>1, <2>3, FailedIsNotAlive DEF WriteTarballs, Writes, Reasons
<1> QED  BY <1>4, <1>9, <1>10, <1>11 DEF UpdateTarballs
-----------------------------------------------------------------------------
(* A refresh of the wheels. *)

\* A refresh of the wheels calls update-python-wheels once per target.
LEMMA WheelQueue ==
    ASSUME wheels # Torn, WheelsKnown, NEW s \in SetToSeqs(WheelCalls)
    PROVE  s \in Seq(WheelCalls) /\ IsInjective(s)
<1> DEFINE f == [t \in DOMAIN wheels |->
                    Call("update-python-wheels",
                         [target |-> t, tag |-> None, series |-> wheels[t].series,
                          rocm |-> None, named |-> <<>>])]
<1>1. IsFiniteSet(DOMAIN wheels)  BY DEF WheelsKnown
<1>2. WheelCalls = {f[t] : t \in DOMAIN wheels}  BY DEF WheelCalls
<1>3. IsFiniteSet(WheelCalls)
  <2> HIDE DEF f
  <2> QED  BY <1>1, <1>2, ImageFinite
<1> QED  BY <1>3, OrderIsQueue

\* Whatever a child is refused for was in the files.
LEMMA WheelStart ==
    ASSUME WheelsKnown, WheelRefresh, kind = "python-wheels", NextChild
    PROVE  /\ WheelRefresh'
           /\ \/ exit' = None
              \/ exit' = "unreadable" /\ wheels' = Torn
              \/ exit' = "usage" /\ \E pin \in Range(wheels') : pin.series = None
<1>1. /\ exit = "ok" /\ calls # <<>> /\ script = NoScript /\ calls' = Tail(calls)
      /\ wheels' = wheels /\ kind' = kind
  BY DEF NextChild
<1>2. /\ calls \in Seq(WheelCalls) /\ IsInjective(calls)
      /\ \A t \in DOMAIN wheels : wheels[t].tag # None
  BY <1>1 DEF WheelRefresh, Alive
<1>3. /\ Head(calls) \in WheelCalls /\ calls' \in Seq(WheelCalls) /\ IsInjective(calls')
      /\ \A i \in DOMAIN calls' : calls'[i] \in WheelCalls /\ calls'[i] # Head(calls)
  BY <1>1, <1>2, RestOfQueue
<1>4. PICK t \in DOMAIN wheels : Head(calls) =
         Call("update-python-wheels",
              [target |-> t, tag |-> None, series |-> wheels[t].series,
               rocm |-> None, named |-> <<>>])
  BY <1>3 DEF WheelCalls
<1>5. \A i \in DOMAIN calls' : calls'[i].args.target # t
  <2> SUFFICES ASSUME NEW i \in DOMAIN calls', calls'[i].args.target = t PROVE FALSE
    OBVIOUS
  <2>1. PICK u \in DOMAIN wheels : calls'[i] =
           Call("update-python-wheels",
                [target |-> u, tag |-> None, series |-> wheels[u].series,
                 rocm |-> None, named |-> <<>>])
    BY <1>3 DEF WheelCalls
  <2>2. u = t  BY <2>1 DEF Call
  <2> QED  BY <1>3, <1>4, <2>1, <2>2
<1> DEFINE args == Head(calls).args
<1>6. /\ Head(calls).name = "update-python-wheels"
      /\ args.target = t /\ args.tag = None /\ args.series = wheels[t].series
  BY <1>4 DEF Call
<1>7. (Ends("usage") /\ args.series = None) \/ Start(Head(calls))
  BY <1>6 DEF NextChild
<1>8. ASSUME Ends("usage"), args.series = None
      PROVE  /\ ~Alive' /\ exit' = "usage"
             /\ \E pin \in Range(wheels') : pin.series = None
  <2>1. ~Alive' /\ exit' = "usage"  BY <1>8, FailedIsNotAlive DEF Reasons, Ends
  <2>2. wheels'[t] \in Range(wheels') /\ wheels'[t].series = None  BY <1>1, <1>6, <1>8 DEF Range
  <2> QED  BY <2>1, <2>2
<1>9. ASSUME Start(Head(calls))
      PROVE  \/ ~Alive' /\ exit' = "unreadable" /\ wheels' = Torn
             \/ exit' = None /\ script'.name = WheelUpdater /\ script'.target = t
  <2>1. StartWheels(args)  BY <1>6, <1>9 DEF Start
  <2> HIDE DEF args
  <2>2. CASE wheels = Torn /\ Ends("unreadable")
    BY <1>1, <2>2, FailedIsNotAlive DEF Reasons, Ends
  <2>3. CASE PinnedTag(args.target) = None
    BY <1>2, <1>6, <2>3 DEF PinnedTag
  <2>4. ASSUME NEW series, NEW tag,
               Launch([name |-> "update-python-wheels", at |-> "pages", target |-> args.target,
                       series |-> series, tag |-> tag, rocm |-> args.rocm, chosen |-> FALSE,
                       named |-> args.named, dists |-> <<>>, packages |-> <<>>])
        PROVE  exit' = None /\ script'.name = WheelUpdater /\ script'.target = t
    BY <1>6, <2>4 DEF Launch, WheelUpdater
  <2> QED  BY <2>1, <2>2, <2>3, <2>4 DEF StartWheels
<1>10. WheelCalls' = WheelCalls  BY <1>1 DEF WheelCalls
<1>11. ASSUME exit' = None, script'.name = WheelUpdater, script'.target = t PROVE WheelRefresh'
  BY <1>1, <1>2, <1>3, <1>5, <1>10, <1>11 DEF WheelRefresh
<1>12. ASSUME ~Alive' PROVE WheelRefresh'  BY <1>12 DEF WheelRefresh
<1> QED  BY <1>7, <1>8, <1>9, <1>11, <1>12

\* update-python-wheels stays with its target.
LEMMA WheelsKeepTarget ==
    ASSUME IInv, UpdateWheels
    PROVE  /\ script # NoScript /\ script.name = WheelUpdater /\ wheels # Torn
           /\ \/ \E reason \in Reasons \ {"ok"} : Ends(reason)
              \/ WriteWheels /\ Ends("ok")
              \/ /\ UNCHANGED <<wheels, exit>>
                 /\ script'.name = script.name /\ script'.target = script.target
<1>1. script # NoScript /\ script.name = WheelUpdater
  BY DEF UpdateWheels, FetchPage, ChooseRocmVersion, PinWheel, WriteWheels, Running, WheelUpdater
<1>2. DOMAIN script = WheelFields /\ wheels # Torn  BY <1>1 DEF IInv, WheelScriptInv
<1>3. CASE FetchPage
  <2>1. ASSUME NEW ds, Proceeds([script EXCEPT !.dists = ds])
        PROVE  script'.name = script.name /\ script'.target = script.target /\ exit' = exit
    BY <1>2, <2>1 DEF Proceeds, WheelFields
  <2> QED  BY <1>1, <1>2, <1>3, <2>1 DEF FetchPage, NetworkFails, Reasons
<1>4. CASE ChooseRocmVersion
  <2>1. ASSUME NEW v, Proceeds([script EXCEPT !.at = "pin", !.rocm = v, !.chosen = TRUE])
        PROVE  script'.name = script.name /\ script'.target = script.target /\ exit' = exit
    BY <1>2, <2>1 DEF Proceeds, WheelFields
  <2>2. ASSUME Proceeds([script EXCEPT !.at = "pin"])
        PROVE  script'.name = script.name /\ script'.target = script.target /\ exit' = exit
    BY <1>2, <2>2 DEF Proceeds, WheelFields
  <2> QED  BY <1>1, <1>2, <1>4, <2>1, <2>2 DEF ChooseRocmVersion, Reasons
<1>5. CASE PinWheel
  <2>1. ASSUME NEW ps, Proceeds([script EXCEPT !.packages = ps])
        PROVE  script'.name = script.name /\ script'.target = script.target /\ exit' = exit
    BY <1>2, <2>1 DEF Proceeds, WheelFields
  <2> QED  BY <1>1, <1>2, <1>5, <2>1 DEF PinWheel, NetworkFails, Reasons
<1>6. CASE WriteWheels  BY <1>1, <1>2, <1>6 DEF WriteWheels, Writes, Reasons
<1> QED  BY <1>3, <1>4, <1>5, <1>6 DEF UpdateWheels

\* A step of update-python-wheels in a refresh.
LEMMA WheelStep ==
    ASSUME IInv, RunningInv, WheelsKnown, WheelRefresh, kind = "python-wheels", Step
    PROVE  WheelRefresh'
<1>1. exit = None /\ script # NoScript  BY ScriptEnds
<1>2. /\ \A t \in DOMAIN wheels : wheels[t].tag # None
      /\ calls \in Seq(WheelCalls) /\ IsInjective(calls)
      /\ script.name = WheelUpdater
      /\ \A i \in DOMAIN calls : calls[i].args.target # script.target
  BY <1>1 DEF WheelRefresh, Alive
<1>3. UpdateWheels /\ UNCHANGED stackVars
  BY <1>2, TarballsContinue, SourcesContinue, BuildEnds DEF Step, WheelUpdater, SourceScripts
<1>4. calls' = calls /\ kind' = kind  BY <1>3 DEF stackVars
<1>5. CASE /\ UNCHANGED <<wheels, exit>>
           /\ script'.name = script.name /\ script'.target = script.target
  <2>1. WheelCalls' = WheelCalls  BY <1>5 DEF WheelCalls
  <2> QED  BY <1>2, <1>4, <1>5, <2>1 DEF WheelRefresh
<1>6. CASE ~Alive'  BY <1>6 DEF WheelRefresh
<1>7. CASE WriteWheels /\ Ends("ok")
  <2> DEFINE pin == [series |-> script.series, rocm |-> script.rocm,
                     tag |-> script.tag, packages |-> script.packages]
  <2>1. CASE wheels' = Put(wheels, script.target, pin)
    <3>1. /\ DOMAIN wheels' = {script.target} \cup DOMAIN wheels /\ wheels'[script.target] = pin
          /\ \A u \in DOMAIN wheels : u # script.target => wheels'[u] = wheels[u]
      <4> HIDE DEF pin
      <4> QED  BY <2>1 DEF Put
    <3>2. pin.tag # None  BY <1>1, <1>2 DEF WheelsKnown
    <3>3. \A u \in DOMAIN wheels' : wheels'[u].tag # None
      <4> HIDE DEF pin
      <4> QED  BY <1>2, <3>1, <3>2
    <3>4. \A i \in DOMAIN calls : calls[i] \in WheelCalls'
      <4> SUFFICES ASSUME NEW i \in DOMAIN calls PROVE calls[i] \in WheelCalls'
        OBVIOUS
      <4>1. calls[i] \in WheelCalls  BY <1>2
      <4>2. PICK u \in DOMAIN wheels : calls[i] =
               Call("update-python-wheels",
                    [target |-> u, tag |-> None, series |-> wheels[u].series,
                     rocm |-> None, named |-> <<>>])
        BY <4>1 DEF WheelCalls
      <4>3. u # script.target  BY <1>2, <4>2 DEF Call
      <4> HIDE DEF pin
      <4> QED  BY <3>1, <4>2, <4>3 DEF WheelCalls
    <3>5. calls \in Seq(WheelCalls')  BY <1>2, <3>4
    <3>6. exit' # None  BY <1>7, ArgumentsAssumption DEF Ends, Reasons
    <3> HIDE DEF pin
    <3> QED  BY <1>2, <1>4, <3>3, <3>5, <3>6 DEF WheelRefresh
  <2>2. CASE wheels' = Torn /\ Ends("killed")
    BY <1>6, <2>2, FailedIsNotAlive DEF Reasons
  <2> QED  BY <1>7, <2>1, <2>2 DEF WriteWheels, Writes
<1>8. ASSUME NEW reason \in Reasons \ {"ok"}, Ends(reason) PROVE ~Alive'
  BY <1>8, FailedIsNotAlive
<1> QED  BY <1>3, <1>5, <1>6, <1>7, <1>8, WheelsKeepTarget
-----------------------------------------------------------------------------
(* A refresh of the source build: the start of each child. *)

\* The calls of the source build, one after the other.
LEMMA TailOf5 == \A a, b, c, d, e : Tail(<<a, b, c, d, e>>) = <<b, c, d, e>>
OBVIOUS
LEMMA TailOf4 == \A a, b, c, d : Tail(<<a, b, c, d>>) = <<b, c, d>>
OBVIOUS
LEMMA TailOf3 == \A a, b, c : Tail(<<a, b, c>>) = <<b, c>>
OBVIOUS

\* The heads and the rests of the source build's queue.
LEMMA SourceQueue ==
    ASSUME NEW t, NEW staged
    PROVE  /\ SourceCalls(t) # <<>> /\ Tail(SourceCalls(t)) = AfterPin(t)
           /\ Head(SourceCalls(t)) =
                Call("update-rocm-source", [target |-> t, series |-> None, rev |-> None])
           /\ AfterPin(t) # <<>> /\ Tail(AfterPin(t)) = AfterTree(t)
           /\ Head(AfterPin(t)) = Call("update-source-tree", [target |-> t])
           /\ AfterTree(t) # <<>> /\ Tail(AfterTree(t)) = AfterLock(t)
           /\ Head(AfterTree(t)) = Call("nix flake lock", [target |-> t])
           /\ AfterLock(t) # <<>> /\ Tail(AfterLock(t)) = AfterBuild(None)
           /\ Head(AfterLock(t)) = Call("nix build", [target |-> t])
           /\ AfterBuild(staged) # <<>> /\ Tail(AfterBuild(staged)) = <<>>
           /\ Head(AfterBuild(staged)) = Call("update-rocm-third-party", [staged |-> staged])
<1>1. Tail(SourceCalls(t)) = AfterPin(t)
  <2> DEFINE a == Call("update-rocm-source", [target |-> t, series |-> None, rev |-> None])
             b == Call("update-source-tree", [target |-> t])
             c == Call("nix flake lock", [target |-> t])
             d == Call("nix build", [target |-> t])
             e == Call("update-rocm-third-party", [staged |-> None])
  <2>1. SourceCalls(t) = <<a, b, c, d, e>> /\ AfterPin(t) = <<b, c, d, e>>
    BY DEF SourceCalls, AfterPin
  <2> HIDE DEF a, b, c, d, e
  <2> QED  BY <2>1, TailOf5
<1>2. Tail(AfterPin(t)) = AfterTree(t)  BY TailOf4, Zenon DEF AfterPin, AfterTree
<1>3. Tail(AfterTree(t)) = AfterLock(t)  BY TailOf3, Zenon DEF AfterTree, AfterLock
<1>4. Tail(AfterLock(t)) = AfterBuild(None)  BY DEF AfterLock, AfterBuild
<1>5. Tail(AfterBuild(staged)) = <<>>  BY DEF AfterBuild
<1>6. /\ SourceCalls(t) # <<>>
      /\ Head(SourceCalls(t)) =
           Call("update-rocm-source", [target |-> t, series |-> None, rev |-> None])
  BY DEF SourceCalls
<1>7. /\ AfterPin(t) # <<>>
      /\ Head(AfterPin(t)) = Call("update-source-tree", [target |-> t])
  BY DEF AfterPin
<1>8. AfterTree(t) # <<>> /\ Head(AfterTree(t)) = Call("nix flake lock", [target |-> t])
  BY DEF AfterTree
<1>9. AfterLock(t) # <<>> /\ Head(AfterLock(t)) = Call("nix build", [target |-> t])
  BY DEF AfterLock
<1>10. /\ AfterBuild(staged) # <<>>
       /\ Head(AfterBuild(staged)) = Call("update-rocm-third-party", [staged |-> staged])
  BY DEF AfterBuild
<1> QED  BY <1>1, <1>2, <1>3, <1>4, <1>5, <1>6, <1>7, <1>8, <1>9, <1>10

\* The next child of the source build is started.
LEMMA SourceStart ==
    ASSUME SourceRefresh, kind = "therock-source", NextChild
    PROVE  /\ SourceRefresh'
           /\ exit' = None \/ (exit' = "unreadable" /\ Torn \in Files')
<1>1. /\ exit = "ok" /\ exit # None /\ calls # <<>> /\ script = NoScript /\ calls' = Tail(calls)
      /\ UNCHANGED <<tarballs, wheels, sourcePins, inputs, tree, lock, thirdParty, kind>>
  BY ArgumentsAssumption DEF NextChild, sourceVars, Reasons
<1>2. PICK t \in DOMAIN sourcePins : SourceStage(t)  BY <1>1 DEF SourceRefresh, Alive
<1>3. ASSUME exit' = None, SourceStage(t)'
      PROVE  /\ SourceRefresh'
             /\ exit' = None \/ (exit' = "unreadable" /\ Torn \in Files')
  BY <1>1, <1>3 DEF SourceRefresh
<1>4. ASSUME Ends("unreadable"), Torn \in {sourcePins, thirdParty}
      PROVE  /\ SourceRefresh'
             /\ exit' = None \/ (exit' = "unreadable" /\ Torn \in Files')
  <2>1. ~Alive'  BY <1>4, FailedIsNotAlive DEF Reasons
  <2> QED  BY <1>1, <1>4, <2>1 DEF SourceRefresh, Ends, Files
<1>5. ASSUME Head(calls).name # "update-python-wheels" PROVE Start(Head(calls))
  BY <1>5 DEF NextChild
<1>6. TreeWritten(t)' <=> TreeWritten(t)
  BY <1>1 DEF TreeWritten, TreeInputs
<1>7. StagedSource' = StagedSource  BY <1>1 DEF StagedSource
<1>8. CASE calls = SourceCalls(t)
  <2> DEFINE call == Call("update-rocm-source", [target |-> t, series |-> None, rev |-> None])
  <2>1. Head(calls) = call /\ calls' = AfterPin(t)
    BY <1>1, <1>8, SourceQueue
  <2>2. call.name = "update-rocm-source" /\ call.args.target = t  BY DEF Call
  <2> HIDE DEF call
  <2>3. StartSource(call.args)  BY <1>5, <2>1, <2>2 DEF Start
  <2>4. ASSUME NEW pin, Launch([name |-> "update-rocm-source", at |-> "resolve",
                                target |-> call.args.target, pin |-> pin])
        PROVE  exit' = None /\ SourceStage(t)'
    BY <2>1, <2>2, <2>4 DEF Launch, SourceStage, PinFields, AfterPin
  <2> QED  BY <1>3, <1>4, <2>3, <2>4 DEF StartSource
<1>9. CASE calls = AfterPin(t)
  <2> DEFINE call == Call("update-source-tree", [target |-> t])
  <2>1. Head(calls) = call /\ calls' = AfterTree(t)
    BY <1>1, <1>9, SourceQueue
  <2>2. call.name = "update-source-tree" /\ call.args.target = t  BY DEF Call
  <2> HIDE DEF call
  <2>3. StartTree(call.args)  BY <1>5, <2>1, <2>2 DEF Start
  <2>4. ASSUME NEW pin, Launch([name |-> "update-source-tree", at |-> "resolve",
                                target |-> call.args.target, pin |-> pin, graph |-> <<>>])
        PROVE  exit' = None /\ SourceStage(t)'
    BY <2>1, <2>2, <2>4 DEF Launch, SourceStage, TreeChild, TreeFields, AfterTree
  <2> QED  BY <1>2, <1>3, <1>4, <2>2, <2>3, <2>4 DEF StartTree
<1>10. CASE calls = AfterTree(t) /\ TreeWritten(t)
  <2> DEFINE call == Call("nix flake lock", [target |-> t])
  <2>1. Head(calls) = call /\ calls' = AfterLock(t)
    BY <1>1, <1>10, SourceQueue
  <2>2. call.name = "nix flake lock" /\ call.args.target = t  BY DEF Call
  <2> HIDE DEF call
  <2>3. Launch([name |-> call.name, at |-> "run", target |-> call.args.target])
    BY <1>5, <2>1, <2>2 DEF Start
  <2>4. exit' = None /\ script'.name = "nix flake lock"  BY <2>2, <2>3 DEF Launch
  <2>5. TreeWritten(t)'  BY <1>6, <1>10
  <2>6. SourceStage(t)'  BY <2>1, <2>4, <2>5 DEF SourceStage, AfterLock
  <2> QED  BY <1>3, <2>4, <2>6
<1>11. CASE calls = AfterLock(t) /\ TreeWritten(t) /\ lock = inputs
  <2> DEFINE call == Call("nix build", [target |-> t])
  <2>1. Head(calls) = call /\ calls' = AfterBuild(None)
    BY <1>1, <1>11, SourceQueue
  <2>2. call.name = "nix build" /\ call.args.target = t  BY DEF Call
  <2> HIDE DEF call
  <2>3. Launch([name |-> call.name, at |-> "run", target |-> call.args.target])
    BY <1>5, <2>1, <2>2 DEF Start
  <2>4. exit' = None /\ script'.name = "nix build" /\ script'.target = t
    BY <2>2, <2>3 DEF Launch
  <2>5. TreeWritten(t)' /\ lock' = inputs'  BY <1>1, <1>6, <1>11
  <2>6. SourceStage(t)'  BY <2>1, <2>4, <2>5 DEF SourceStage, AfterBuild
  <2> QED  BY <1>3, <2>4, <2>6
<1>12. CASE calls = AfterBuild(StagedSource) /\ TreeWritten(t) /\ lock = inputs
  <2> DEFINE call == Call("update-rocm-third-party", [staged |-> StagedSource])
  <2>1. Head(calls) = call /\ calls' = <<>>
    BY <1>1, <1>12, SourceQueue
  <2>2. call.name = "update-rocm-third-party" /\ call.args.staged = StagedSource  BY DEF Call
  <2> HIDE DEF call
  <2>3. StartThirdParty(call.args)  BY <1>5, <2>1, <2>2 DEF Start
  <2>4. ASSUME Launch([name |-> "update-rocm-third-party", at |-> "scan",
                       staged |-> call.args.staged, spirv |-> None, esmi |-> None])
        PROVE  exit' = None /\ SourceStage(t)'
    <3>1. ThirdPartyChild'
      BY <1>7, <2>2, <2>4 DEF Launch, ThirdPartyChild, ThirdPartyFields
    <3>2. exit' = None  BY <2>4 DEF Launch
    <3>3. TreeWritten(t)' /\ lock' = inputs'  BY <1>1, <1>6, <1>12
    <3> QED  BY <2>1, <3>1, <3>2, <3>3 DEF SourceStage
  <2> QED  BY <1>3, <1>4, <2>3, <2>4 DEF StartThirdParty
<1> QED
  BY <1>1, <1>2, <1>8, <1>9, <1>10, <1>11, <1>12 DEF SourceStage
-----------------------------------------------------------------------------
(* A refresh of the source build: the steps of each child. *)

\* Nothing is said of a refresh of which a child failed.
LEMMA DeadRefresh == ~Alive' => SourceRefresh'
BY DEF SourceRefresh

LEMMA OkIsNotNone == "ok" # None /\ "ok" \in Reasons
BY ArgumentsAssumption DEF Reasons

\* update-rocm-source
LEMMA PinStep ==
    ASSUME NEW t \in DOMAIN sourcePins, calls = AfterPin(t), exit = None,
           DOMAIN script = PinFields, script.name = "update-rocm-source", script.target = t,
           UpdateSources, UNCHANGED <<kind, calls>>
    PROVE  SourceRefresh'
<1>1. ResolveRev \/ WriteSourcePin
  BY DEF UpdateSources, ResolveSource, UpdateSourcesFile, FetchGraph, UpdateFlakeInputs,
         WriteTree, LockFlake, ScanPins, WriteThirdParty, Running
<1>2. CASE ResolveRev
  <2>1. ASSUME NEW rev, Proceeds([script EXCEPT !.pin.rev = rev]), UNCHANGED sourcePins
        PROVE  SourceRefresh'
    <3>1. /\ exit' = None /\ DOMAIN script' = PinFields /\ script'.name = "update-rocm-source"
          /\ script'.target = t
      BY <2>1 DEF Proceeds, PinFields
    <3>2. SourceStage(t)'  BY <3>1 DEF SourceStage
    <3> QED  BY <2>1, <3>2 DEF SourceRefresh
  <2> QED
    BY <1>2, <2>1, DeadRefresh, FailedIsNotAlive
    DEF ResolveRev, GitRev, NetworkFails, sourceVars, Reasons
<1>3. CASE WriteSourcePin
  <2>1. ASSUME sourcePins' = Put(sourcePins, t, script.pin), Ends("ok") PROVE SourceRefresh'
    <3>1. t \in DOMAIN sourcePins'  BY <2>1 DEF Put
    <3>2. exit' # None /\ calls' = AfterPin(t)  BY <2>1, OkIsNotNone DEF Ends
    <3>3. SourceStage(t)'  BY <3>2 DEF SourceStage
    <3> QED  BY <3>1, <3>3 DEF SourceRefresh
  <2> QED
    BY <1>3, <2>1, DeadRefresh, FailedIsNotAlive DEF WriteSourcePin, Writes, Reasons
<1> QED  BY <1>1, <1>2, <1>3

\* update-source-tree
LEMMA TreeStep ==
    ASSUME NEW t \in DOMAIN sourcePins, calls = AfterTree(t), exit = None, TreeChild(t),
           script # NoScript, SourcesKnown, UpdateSources, UNCHANGED <<kind, calls>>
    PROVE  SourceRefresh'
<1>1. ResolveSource \/ UpdateSourcesFile \/ FetchGraph \/ UpdateFlakeInputs \/ WriteTree
  BY DEF UpdateSources, ResolveRev, WriteSourcePin, LockFlake, ScanPins, WriteThirdParty,
         Running, TreeChild
<1>2. ASSUME exit' = None, TreeChild(t)', t \in DOMAIN sourcePins' PROVE SourceRefresh'
  <2>1. SourceStage(t)'  BY <1>2 DEF SourceStage
  <2> QED  BY <1>2, <2>1 DEF SourceRefresh
<1>3. CASE ResolveSource
  <2>1. ASSUME NEW rev, Proceeds([script EXCEPT !.pin.rev = rev]), UNCHANGED sourcePins
        PROVE  SourceRefresh'
    <3>1. /\ exit' = None /\ DOMAIN script' = TreeFields /\ script'.name = script.name
          /\ script'.target = script.target /\ script'.at = script.at
      BY <2>1 DEF Proceeds, TreeFields, TreeChild
    <3>2. script.at = "resolve"  BY <1>3 DEF ResolveSource, Running
    <3> QED  BY <1>2, <2>1, <3>1, <3>2 DEF TreeChild
  <2> QED
    BY <1>3, <2>1, DeadRefresh, FailedIsNotAlive
    DEF ResolveSource, GitRev, NetworkFails, sourceVars, Reasons
<1>4. CASE UpdateSourcesFile
  <2>1. ASSUME Proceeds([script EXCEPT !.at = "fetch"]),
               t \in DOMAIN sourcePins', sourcePins'[t] = script.pin
        PROVE  SourceRefresh'
    <3>1. /\ exit' = None /\ DOMAIN script' = TreeFields /\ script'.name = script.name
          /\ script'.target = script.target /\ script'.at = "fetch" /\ script'.pin = script.pin
      BY <2>1 DEF Proceeds, TreeFields, TreeChild
    <3> QED  BY <1>2, <2>1, <3>1 DEF TreeChild
  <2>2. Put(sourcePins, t, script.pin)[t] = script.pin
        /\ t \in DOMAIN Put(sourcePins, t, script.pin)
    BY DEF Put
  <2>3. script.target = t  BY DEF TreeChild
  <2> QED
    BY <1>4, <2>1, <2>2, <2>3, DeadRefresh, FailedIsNotAlive
    DEF UpdateSourcesFile, Writes, Reasons
<1>5. CASE FetchGraph
  <2>1. ASSUME NEW graph, Proceeds([script EXCEPT !.at = "inputs", !.graph = graph]),
               script.at = "fetch", UNCHANGED sourcePins
        PROVE  SourceRefresh'
    <3>1. /\ exit' = None /\ DOMAIN script' = TreeFields /\ script'.name = script.name
          /\ script'.target = script.target /\ script'.at = "inputs" /\ script'.pin = script.pin
      BY <2>1 DEF Proceeds, TreeFields, TreeChild
    <3> QED  BY <1>2, <2>1, <3>1 DEF TreeChild
  <2> QED
    BY <1>5, <2>1, DeadRefresh, FailedIsNotAlive
    DEF FetchGraph, Running, NetworkFails, sourceVars, Reasons
<1>6. CASE UpdateFlakeInputs
  <2>1. ASSUME Proceeds([script EXCEPT !.at = "tree"]), inputs' = InputLines,
               script.at = "inputs", UNCHANGED sourcePins
        PROVE  SourceRefresh'
    <3>1. /\ exit' = None /\ DOMAIN script' = TreeFields /\ script'.name = script.name
          /\ script'.target = script.target /\ script'.at = "tree" /\ script'.pin = script.pin
          /\ script'.graph = script.graph
      BY <2>1 DEF Proceeds, TreeFields, TreeChild
    <3>2. InputLines' = InputLines  BY <3>1 DEF InputLines, InputName
    <3> QED  BY <1>2, <2>1, <3>1, <3>2 DEF TreeChild
  <2> QED
    BY <1>6, <2>1, DeadRefresh, FailedIsNotAlive DEF UpdateFlakeInputs, Running, Writes, Reasons
<1>7. CASE WriteTree
  <2>1. script.at = "tree" /\ UNCHANGED <<sourcePins, inputs>>
    BY <1>7 DEF WriteTree, Running
  <2>2. inputs = InputLines /\ sourcePins[t] = script.pin /\ script.target = t
    BY <2>1 DEF TreeChild
  <2>3. script.name = "update-source-tree"  BY DEF TreeChild
  <2>4. /\ script.pin.rev \in DOMAIN Repository
        /\ DOMAIN script.graph \subseteq Path /\ IsFiniteSet(DOMAIN script.graph)
    BY <2>1, <2>3 DEF SourcesKnown, IsSourcePin, GraphKnown, GraphsWith, Partial
  <2>5. ASSUME NEW order \in InTreeOrder(DOMAIN script.graph), Ends("ok"),
               tree' = [target |-> script.target, root |-> InputName(<<>>),
                        submodules |-> [i \in DOMAIN order |->
                            [path |-> order[i], input |-> InputName(order[i])]]]
        PROVE  SourceRefresh'
    <3>1. \A i \in DOMAIN order : order[i] \in DOMAIN script.graph
      BY DEF InTreeOrder, SetToSeqs
    <3>2. tree'.target = t /\ tree'.root = InputName(<<>>)  BY <2>2, <2>5
    <3>3. \A s \in Range(tree'.submodules) : \E p \in DOMAIN script.graph : s.input = InputName(p)
      BY <2>5, <3>1 DEF Range
    <3>4. \A p \in {<<>>} \cup DOMAIN script.graph : InputName(p) \in DOMAIN InputLines
      BY DEF InputLines
    <3>5. TreeInputs' \subseteq DOMAIN inputs  BY <2>2, <3>2, <3>3, <3>4 DEF TreeInputs
    <3>6. InputName(<<>>)[3] = <<>>  BY DEF InputName
    <3>7. InputLines[InputName(<<>>)] = [url |-> RootUrl, rev |-> script.pin.rev]
      <4>1. InputName(<<>>) \in {InputName(p) : p \in {<<>>} \cup DOMAIN script.graph}
        OBVIOUS
      <4> QED  BY <3>6, <4>1 DEF InputLines
    <3>8. inputs[tree'.root].rev = sourcePins[t].rev  BY <2>2, <3>2, <3>7
    <3>9. Ordered(tree'.submodules)
      <4> DEFINE submodules == tree'.submodules
      <4>1. DOMAIN submodules = DOMAIN order
            /\ \A i \in DOMAIN order : submodules[i].path = order[i]
        BY <2>5
      <4> HIDE DEF submodules
      <4>2. Ordered(submodules)  BY <2>4, <4>1, TreeOrder
      <4> QED  BY <4>2 DEF submodules
    <3>10. TreeWritten(t)'  BY <2>1, <2>2, <2>4, <3>2, <3>5, <3>8, <3>9 DEF TreeWritten
    <3>11. SourceStage(t)'  BY <2>5, <3>10 DEF SourceStage, Ends
    <3> QED  BY <2>1, <3>11 DEF SourceRefresh
  <2> QED
    BY <1>7, <2>5, DeadRefresh, FailedIsNotAlive DEF WriteTree, Writes, Reasons
<1> QED  BY <1>1, <1>3, <1>4, <1>5, <1>6, <1>7
\* nix flake lock
LEMMA LockStep ==
    ASSUME NEW t \in DOMAIN sourcePins, calls = AfterLock(t), exit = None, TreeWritten(t),
           script.name = "nix flake lock", UpdateSources, UNCHANGED <<kind, calls>>
    PROVE  SourceRefresh'
<1>1. LockFlake
  BY DEF UpdateSources, ResolveRev, WriteSourcePin, ResolveSource, UpdateSourcesFile, FetchGraph,
         UpdateFlakeInputs, WriteTree, ScanPins, WriteThirdParty, Running
<1>2. UNCHANGED <<sourcePins, inputs, tree>>  BY <1>1 DEF LockFlake
<1>3. TreeWritten(t)'  BY <1>2 DEF TreeWritten, TreeInputs
<1>4. ASSUME lock' = inputs, Ends("ok") PROVE SourceRefresh'
  <2>1. exit' # None  BY <1>4, OkIsNotNone DEF Ends
  <2>2. SourceStage(t)'  BY <1>2, <1>3, <1>4, <2>1 DEF SourceStage
  <2> QED  BY <1>2, <2>2 DEF SourceRefresh
<1> QED
  BY <1>1, <1>4, DeadRefresh, FailedIsNotAlive DEF LockFlake, NetworkFails, Writes, Reasons

\* nix build of the staged source: flake.lock has all that the tree names.
LEMMA BuildStep ==
    ASSUME NEW t \in DOMAIN sourcePins, calls = AfterBuild(None), exit = None, TreeWritten(t),
           lock = inputs, script.target = t, BuildStaged, UNCHANGED kind
    PROVE  SourceRefresh' /\ exit' # "missingInput"
<1>1. UNCHANGED <<sourcePins, inputs, tree, lock>>  BY DEF BuildStaged, sourceVars
<1>2. TreeWritten(t)'  BY <1>1 DEF TreeWritten, TreeInputs
<1>3. StagedSource' = StagedSource  BY <1>1 DEF StagedSource
<1>4. tree.target = script.target /\ TreeInputs \subseteq DOMAIN lock  BY DEF TreeWritten
<1>5. ASSUME calls' = <<[Head(calls) EXCEPT !.args.staged = StagedSource]>> \o Tail(calls),
             Ends("ok")
      PROVE  SourceRefresh'
  <2>1. /\ Head(calls) = Call("update-rocm-third-party", [staged |-> None])
        /\ Tail(calls) = <<>>
    BY SourceQueue
  <2>2. [Head(calls) EXCEPT !.args.staged = StagedSource] =
           Call("update-rocm-third-party", [staged |-> StagedSource])
    BY <2>1 DEF Call
  <2>3. \A x : <<x>> \o <<>> = <<x>>  OBVIOUS
  <2>4. calls' = AfterBuild(StagedSource)  BY <1>5, <2>1, <2>2, <2>3 DEF AfterBuild
  <2>5. SourceStage(t)'  BY <1>1, <1>2, <1>3, <1>5, <2>4 DEF SourceStage, Ends
  <2> QED  BY <1>1, <2>5 DEF SourceRefresh
<1> QED
  BY <1>4, <1>5, DeadRefresh, FailedIsNotAlive DEF BuildStaged, NetworkFails, Reasons, Ends

\* update-rocm-third-party
LEMMA ThirdPartyStep ==
    ASSUME NEW t \in DOMAIN sourcePins, calls = <<>>, exit = None, TreeWritten(t),
           lock = inputs, ThirdPartyChild, UpdateSources, UNCHANGED <<kind, calls>>
    PROVE  SourceRefresh'
<1>1. ScanPins \/ WriteThirdParty
  BY DEF UpdateSources, ResolveRev, WriteSourcePin, ResolveSource, UpdateSourcesFile, FetchGraph,
         UpdateFlakeInputs, WriteTree, LockFlake, Running, ThirdPartyChild
<1>2. UNCHANGED <<sourcePins, inputs, tree, lock>>
  BY <1>1 DEF ScanPins, WriteThirdParty, sourceVars
<1>3. TreeWritten(t)' /\ lock' = inputs'  BY <1>2 DEF TreeWritten, TreeInputs
<1>4. StagedSource' = StagedSource  BY <1>2 DEF StagedSource
<1>5. CASE ScanPins
  <2>1. ASSUME NEW spirv, NEW rev, OwnSpirv(spirv), OwnEsmi(rev),
               Proceeds([script EXCEPT !.at = "hash", !.spirv = [url |-> spirv, rev |-> spirv],
                                       !.esmi = [url |-> EsmiUrl, rev |-> rev]])
        PROVE  SourceRefresh'
    <3>1. /\ exit' = None /\ DOMAIN script' = ThirdPartyFields
          /\ script'.name = script.name /\ script'.at = "hash" /\ script'.staged = script.staged
          /\ script'.spirv.rev = spirv /\ script'.esmi.rev = rev
      BY <2>1 DEF Proceeds, ThirdPartyFields, ThirdPartyChild
    <3>2. ThirdPartyChild'  BY <1>4, <2>1, <3>1 DEF ThirdPartyChild, OwnSpirv, OwnEsmi
    <3>3. SourceStage(t)'  BY <1>3, <3>1, <3>2 DEF SourceStage
    <3> QED  BY <1>2, <3>3 DEF SourceRefresh
  <2> DEFINE spirv == IF SpirvPath \in DOMAIN script.staged
                      THEN Repository[script.staged[SpirvPath]].spirv ELSE None
             esmi == IF SystemsPath \in DOMAIN script.staged
                     THEN Repository[script.staged[SystemsPath]].esmi ELSE None
             Found(rev) == Proceeds([script EXCEPT !.at = "hash",
                               !.spirv = [url |-> spirv, rev |-> spirv],
                               !.esmi = [url |-> EsmiUrl, rev |-> rev]])
  <2>2. script.staged = StagedSource  BY DEF ThirdPartyChild
  <2>3. ASSUME None \notin {spirv, esmi} PROVE OwnSpirv(spirv) /\ OwnEsmi(esmi)
                /\ \A rev : esmi \in DOMAIN EsmiTags /\ rev \in EsmiTags[esmi] => OwnEsmi(rev)
    BY <2>2, <2>3 DEF OwnSpirv, OwnEsmi
  <2>4. ASSUME NEW rev, OwnSpirv(spirv), OwnEsmi(rev), Found(rev) PROVE SourceRefresh'
    <3> DEFINE s == spirv
    <3>1. OwnSpirv(s) /\ Proceeds([script EXCEPT !.at = "hash", !.spirv = [url |-> s, rev |-> s],
                                       !.esmi = [url |-> EsmiUrl, rev |-> rev]])
      BY <2>4
    <3> HIDE DEF s, spirv, esmi
    <3> QED  BY <2>1, <2>4, <3>1
  <2>5. \/ \E reason \in Reasons \ {"ok"} : Ends(reason)
        \/ None \notin {spirv, esmi} /\ Found(esmi)
        \/ /\ None \notin {spirv, esmi} /\ esmi \in DOMAIN EsmiTags
           /\ \E rev \in EsmiTags[esmi] : Found(rev)
    BY <1>5 DEF ScanPins, NetworkFails, Reasons
  <2> HIDE DEF spirv, esmi, Found
  <2> QED  BY <2>3, <2>4, <2>5, DeadRefresh, FailedIsNotAlive
<1>6. CASE WriteThirdParty
  <2>1. script.at = "hash"  BY <1>6 DEF WriteThirdParty, Running
  <2>2. /\ script.staged = StagedSource
        /\ OwnSpirv(script.spirv.rev) /\ OwnEsmi(script.esmi.rev)
    BY <2>1 DEF ThirdPartyChild
  <2>3. ASSUME thirdParty' = [archives |-> ScanArchives(script.staged[<<>>]),
                              esmi |-> Hashed(script.esmi, thirdParty.esmi),
                              spirv |-> Hashed(script.spirv, thirdParty.spirv)], Ends("ok")
        PROVE  SourceRefresh'
    <3>1. /\ thirdParty'.archives = ScanArchives(StagedSource[<<>>])
          /\ thirdParty'.esmi.rev = script.esmi.rev /\ thirdParty'.spirv.rev = script.spirv.rev
      BY <2>2, <2>3 DEF Hashed
    <3>2. ThirdPartyWritten'
      BY <1>4, <2>2, <3>1 DEF ThirdPartyWritten, OwnSpirv, OwnEsmi
    <3>3. exit' # None  BY <2>3, OkIsNotNone DEF Ends
    <3>4. SourceStage(t)'  BY <1>3, <3>2, <3>3 DEF SourceStage
    <3> QED  BY <1>2, <3>4 DEF SourceRefresh
  <2> QED
    BY <1>6, <2>3, DeadRefresh, FailedIsNotAlive
    DEF WriteThirdParty, Writes, NetworkFails, Reasons
<1> QED  BY <1>1, <1>5, <1>6

\* A step of any of its children.
LEMMA SourceStep ==
    ASSUME RunningInv, SourcesKnown, SourceRefresh, kind = "therock-source", Step
    PROVE  /\ SourceRefresh'
           /\ BuildStaged => exit' # "missingInput" /\ script.target \in DOMAIN sourcePins
<1>1. exit = None /\ script # NoScript /\ exit # "ok"  BY ScriptEnds, OkIsNotNone
<1>2. PICK t \in DOMAIN sourcePins : SourceStage(t)  BY <1>1 DEF SourceRefresh, Alive
<1>3. \/ UpdateSources /\ script.name \in SourceScripts /\ UNCHANGED stackVars
      \/ BuildStaged /\ script.name = "nix build"
      \/ script.name \in {"update-rocm", WheelUpdater} /\ UNCHANGED stackVars
  BY TarballsContinue, WheelsContinue, SourcesContinue, BuildEnds DEF Step
<1>4. UNCHANGED stackVars => UNCHANGED <<kind, calls>>  BY DEF stackVars
<1>5. CASE /\ calls = AfterPin(t)
           /\ DOMAIN script = PinFields /\ script.name = "update-rocm-source"
           /\ script.target = t
  BY <1>1, <1>3, <1>4, <1>5, PinStep, BuildEnds DEF WheelUpdater
<1>6. CASE calls = AfterTree(t) /\ TreeChild(t)
  <2>1. script.name = "update-source-tree"  BY <1>6 DEF TreeChild
  <2> QED  BY <1>1, <1>3, <1>4, <1>6, <2>1, TreeStep, BuildEnds DEF WheelUpdater
<1>7. CASE calls = AfterLock(t) /\ TreeWritten(t) /\ script.name = "nix flake lock"
  BY <1>1, <1>3, <1>4, <1>7, LockStep, BuildEnds DEF WheelUpdater
<1>8. CASE /\ calls = AfterBuild(None) /\ TreeWritten(t) /\ lock = inputs
           /\ script.name = "nix build" /\ script.target = t
  <2>1. BuildStaged /\ UNCHANGED kind
    BY <1>3, <1>8 DEF SourceScripts, WheelUpdater, BuildStaged
  <2> QED  BY <1>1, <1>8, <2>1, BuildStep
<1>9. CASE calls = <<>> /\ TreeWritten(t) /\ lock = inputs /\ ThirdPartyChild
  <2>1. script.name = "update-rocm-third-party"  BY <1>9 DEF ThirdPartyChild
  <2> QED  BY <1>1, <1>3, <1>4, <1>9, <2>1, ThirdPartyStep, BuildEnds DEF WheelUpdater
<1> QED  BY <1>1, <1>2, <1>5, <1>6, <1>7, <1>8, <1>9 DEF SourceStage
-----------------------------------------------------------------------------
(* The whole invariant. *)

\* What a call must say for the files to stay known.
Legal(call) ==
    /\ call.name = "update-rocm" => call.args.version \in RocmVersion \cup {None}
    /\ call.name = "update-python-wheels" => None \notin Range(call.args.named)
    /\ call.name = "update-rocm-source" => call.args.rev \in DOMAIN Repository \cup {None}
    /\ call.name = "update-rocm-third-party" => call.args.staged[<<>>] \in DOMAIN Repository

LEMMA NameOfCall == \A name, args : Call(name, args).name = name
BY DEF Call

FilesKnown == TarballsKnown /\ WheelsKnown /\ SourcesKnown /\ HashesKnown

\* With no script running only the files count.
LEMMA NoScriptKnown ==
    ASSUME FilesKnown, script' = NoScript, UNCHANGED <<tarballs, wheels, sourcePins, thirdParty>>
    PROVE  FilesKnown'
BY OffTarballsStep, OffWheelsStep, OffSourcesStep DEF FilesKnown, OffTarballs, OffWheels, OffSources

\* A script that is started as it may be called starts with what is known.
LEMMA StartKnown ==
    ASSUME FilesKnown, NEW call, Legal(call), Start(call),
           UNCHANGED <<tarballs, wheels, sourcePins, thirdParty>>
    PROVE  FilesKnown'
<1>1. TarballsKnown /\ WheelsKnown /\ SourcesKnown /\ HashesKnown  BY DEF FilesKnown
<1>2. CASE call.name = "update-rocm" /\ StartTarballs(call.args)
  <2>1. TarballsKnown'  BY <1>1, <1>2, StartTarballsStep DEF Legal
  <2>2. script' = NoScript \/ script'.name = "update-rocm"
    BY <1>2 DEF StartTarballs, Launch, Ends
  <2> QED
    BY <1>1, <2>1, <2>2, OffWheelsStep, OffSourcesStep
    DEF FilesKnown, OffWheels, OffSources, SourceUpdaters, WheelUpdater
<1>3. CASE call.name = "update-python-wheels" /\ StartWheels(call.args)
  <2>1. WheelsKnown'  BY <1>1, <1>3, StartWheelsStep DEF Legal
  <2>2. script' = NoScript \/ script'.name = WheelUpdater
    BY <1>3 DEF StartWheels, Launch, Ends, WheelUpdater
  <2> QED
    BY <1>1, <2>1, <2>2, OffTarballsStep, OffSourcesStep
    DEF FilesKnown, OffTarballs, OffSources, SourceUpdaters, WheelUpdater
<1>4. ASSUME script' = NoScript \/ script'.name \in SourceUpdaters, SourcesKnown', HashesKnown'
      PROVE  FilesKnown'
  BY <1>1, <1>4, OffTarballsStep, OffWheelsStep
  DEF FilesKnown, OffTarballs, OffWheels, SourceUpdaters, WheelUpdater
<1>5. CASE call.name = "update-rocm-source" /\ StartSource(call.args)
  <2>1. SourcesKnown' /\ HashesKnown'  BY <1>1, <1>5, StartSourceStep DEF Legal
  <2> QED  BY <1>4, <1>5, <2>1 DEF StartSource, Launch, Ends, SourceUpdaters
<1>6. CASE call.name = "update-source-tree" /\ StartTree(call.args)
  <2>1. SourcesKnown' /\ HashesKnown'  BY <1>1, <1>6, StartTreeStep
  <2> QED  BY <1>4, <1>6, <2>1 DEF StartTree, Launch, Ends, SourceUpdaters
<1>7. CASE call.name = "update-rocm-third-party" /\ StartThirdParty(call.args)
  <2>1. SourcesKnown' /\ HashesKnown'  BY <1>1, <1>7, StartThirdPartyStep DEF Legal
  <2> QED  BY <1>4, <1>7, <2>1 DEF StartThirdParty, Launch, Ends, SourceUpdaters
<1>8. CASE /\ call.name \in {"nix flake lock", "nix build"}
           /\ Launch([name |-> call.name, at |-> "run", target |-> call.args.target])
  BY <1>1, <1>8, OffTarballsStep, OffWheelsStep, OffSourcesStep
  DEF Launch, FilesKnown, OffTarballs, OffWheels, OffSources, SourceUpdaters, WheelUpdater
<1> QED  BY <1>2, <1>3, <1>5, <1>6, <1>7, <1>8 DEF Start

\* The tree that is staged has the root that the tree file names, and all its submodules.
LEMMA StagedTree ==
    ASSUME Ordered(tree.submodules)
    PROVE  /\ StagedSource[<<>>] = lock[tree.root].rev
           /\ \A i \in DOMAIN tree.submodules :
                /\ tree.submodules[i].path \in DOMAIN StagedSource
                /\ StagedSource[tree.submodules[i].path] = lock[tree.submodules[i].input].rev
<1> DEFINE submodules == tree.submodules
           root == lock[tree.root].rev
           entries == [i \in DOMAIN submodules |->
                         [path |-> submodules[i].path, rev |-> lock[submodules[i].input].rev]]
<1>1. /\ DOMAIN entries = DOMAIN submodules
      /\ \A i \in DOMAIN submodules : entries[i].path = submodules[i].path
                                      /\ entries[i].rev = lock[submodules[i].input].rev
  OBVIOUS
<1>2. StagedSource = Stage(root, entries)  BY DEF StagedSource
<1>3. Ordered(submodules)  OBVIOUS
<1> HIDE DEF entries, submodules, root
<1>4. Ordered(entries)  BY <1>1, <1>3, OrderOfPaths
<1>5. /\ Stage(root, entries)[<<>>] = root
      /\ \A i \in DOMAIN entries : /\ entries[i].path \in DOMAIN Stage(root, entries)
                                   /\ Stage(root, entries)[entries[i].path] = entries[i].rev
  BY <1>4, StagingKeepsAll
<1> QED  BY <1>1, <1>2, <1>5 DEF submodules, root

\* What the children of a refresh are called with.
LEMMA HeadKnown ==
    ASSUME StackInv, NextChild
    PROVE  Legal(Head(calls))
<1>1. exit = "ok" /\ Alive /\ calls # <<>> /\ kind \in Kinds /\ exit # None
  BY OkIsNotNone DEF NextChild, Alive, StackInv
<1>2. CASE kind = "rocm"
  <2>1. Head(calls) \in TarballCalls  BY <1>1, <1>2, RestOfQueue DEF StackInv, RocmRefresh
  <2>2. PICK t \in DOMAIN tarballs : Head(calls) =
           Call("update-rocm", [targets |-> <<t>>, series |-> FirstTwoParts(tarballs[t]),
                                version |-> None])
    BY <2>1 DEF TarballCalls
  <2> QED  BY <2>2 DEF Call, Legal
<1>3. CASE kind = "python-wheels"
  <2>1. Head(calls) \in WheelCalls  BY <1>1, <1>3, RestOfQueue DEF StackInv, WheelRefresh
  <2>2. PICK t \in DOMAIN wheels : Head(calls) =
           Call("update-python-wheels",
                [target |-> t, tag |-> None, series |-> wheels[t].series,
                 rocm |-> None, named |-> <<>>])
    BY <2>1 DEF WheelCalls
  <2>3. None \notin Range(<<>>)  BY DEF Range
  <2> QED  BY <2>2, <2>3 DEF Call, Legal
<1>4. CASE kind = "therock-source"
  <2>1. PICK t \in DOMAIN sourcePins : SourceStage(t)
    BY <1>1, <1>4 DEF StackInv, SourceRefresh
  <2>2. \/ calls \in {SourceCalls(t), AfterPin(t), AfterTree(t), AfterLock(t)}
        \/ calls = AfterBuild(StagedSource) /\ TreeWritten(t) /\ lock = inputs
    BY <1>1, <2>1 DEF SourceStage
  <2>3. CASE calls \in {SourceCalls(t), AfterPin(t), AfterTree(t), AfterLock(t)}
    <3>1. CASE calls = SourceCalls(t)
      <4>1. Head(calls) =
               Call("update-rocm-source", [target |-> t, series |-> None, rev |-> None])
        BY <3>1, SourceQueue
      <4> QED  BY <4>1 DEF Call, Legal
    <3>2. CASE calls = AfterPin(t)
      <4>1. Head(calls) = Call("update-source-tree", [target |-> t])  BY <3>2, SourceQueue
      <4> QED  BY <4>1 DEF Call, Legal
    <3>3. CASE calls = AfterTree(t)
      <4>1. Head(calls) = Call("nix flake lock", [target |-> t])  BY <3>3, SourceQueue
      <4>2. Head(calls).name = "nix flake lock"  BY <4>1, NameOfCall, Zenon
      <4> QED  BY <4>2 DEF Legal
    <3>4. CASE calls = AfterLock(t)
      <4>1. Head(calls) = Call("nix build", [target |-> t])  BY <3>4, SourceQueue
      <4>2. Head(calls).name = "nix build"  BY <4>1, NameOfCall, Zenon
      <4> QED  BY <4>2 DEF Legal
    <3> QED  BY <2>3, <3>1, <3>2, <3>3, <3>4
  <2>4. CASE calls = AfterBuild(StagedSource) /\ TreeWritten(t) /\ lock = inputs
    <3>1. Head(calls) = Call("update-rocm-third-party", [staged |-> StagedSource])
      BY <2>4, SourceQueue
    <3>2. /\ Ordered(tree.submodules) /\ lock = inputs
          /\ inputs[tree.root].rev = sourcePins[t].rev /\ sourcePins[t].rev \in DOMAIN Repository
      BY <2>4, Zenon DEF TreeWritten
    <3>3. StagedSource[<<>>] = lock[tree.root].rev  BY <3>2, StagedTree, Zenon
    <3>4. StagedSource[<<>>] \in DOMAIN Repository  BY <3>2, <3>3
    <3> QED  BY <3>1, <3>4 DEF Call, Legal
  <2> QED  BY <2>2, <2>3, <2>4
<1> QED  BY <1>1, <1>2, <1>3, <1>4 DEF Kinds

\* What the flake asks of the pins, to build for a target.
EvaluatesIn(target) == target \in FlakeTargets /\ Overlay

\* How a step may end a script.
LEMMA StepEnds ==
    ASSUME RunningInv, Step
    PROVE  /\ exit' # "usage"
           /\ exit' = "unreadable" =>
                (UpdateTarballs /\ tarballs' = Torn)
                \/ ((UpdateSources \/ BuildStaged) /\ Torn \in Files')
           /\ exit' = "missingInput" => BuildStaged
           /\ exit' = "evaluation" => BuildStaged /\ ~EvaluatesIn(script.target)
<1>1. exit = None /\ exit \notin {"usage", "unreadable", "missingInput", "evaluation"}
  BY ScriptEnds, ArgumentsAssumption DEF Reasons
<1>2. CASE UpdateTarballs
  BY <1>1, <1>2
  DEF UpdateTarballs, FetchTarballIndex, PinTarball, WriteTarballs, NetworkFails, Writes, Ends,
      Proceeds, Files
<1>3. CASE UpdateWheels
  BY <1>1, <1>3
  DEF UpdateWheels, FetchPage, ChooseRocmVersion, PinWheel, WriteWheels, NetworkFails, Writes,
      Ends, Proceeds
<1>4. CASE UpdateSources
  <2>1. CASE ResolveRev \/ WriteSourcePin \/ ResolveSource \/ UpdateSourcesFile \/ FetchGraph
    BY <1>1, <2>1
    DEF ResolveRev, WriteSourcePin, ResolveSource, GitRev, UpdateSourcesFile, FetchGraph,
        NetworkFails, Writes, Ends, Proceeds
  <2>2. CASE UpdateFlakeInputs \/ WriteTree
    BY <1>1, <1>4, <2>2 DEF UpdateFlakeInputs, WriteTree, Writes, Ends, Proceeds, Files
  <2>4. CASE LockFlake
    <3>1. exit' = "unreadable" => Torn \in {inputs, lock} /\ lock' = lock /\ inputs' = inputs
      BY <1>1, <2>4 DEF LockFlake, NetworkFails, Writes, Ends
    <3>2. Torn \in {inputs, lock} /\ lock' = lock /\ inputs' = inputs => Torn \in Files'
      BY DEF Files
    <3>3. exit' \notin {"usage", "missingInput", "evaluation"}
      BY <1>1, <2>4 DEF LockFlake, NetworkFails, Writes, Ends
    <3> QED  BY <1>4, <3>1, <3>2, <3>3
  <2>3. CASE ScanPins \/ WriteThirdParty
    BY <1>1, <2>3 DEF ScanPins, WriteThirdParty, NetworkFails, Writes, Ends, Proceeds
  <2> QED  BY <1>4, <2>1, <2>2, <2>3, <2>4 DEF UpdateSources
<1>5. CASE BuildStaged /\ UNCHANGED <<tarballs, wheels>>
  <2>1. UNCHANGED <<inputs, lock, tree, sourcePins, tarballs, wheels>>
    BY <1>5 DEF BuildStaged, sourceVars
  <2>2. exit' \in {"network", "unreadable", "evaluation", "missingInput", "ok"}
    BY <1>5 DEF BuildStaged, NetworkFails, Ends
  <2>3. exit' = "unreadable" => Torn \in {inputs, lock, tree, sourcePins, tarballs, wheels}
    BY <1>5 DEF BuildStaged, NetworkFails, Ends
  <2>4. exit' = "evaluation" => ~EvaluatesIn(script.target)
    BY <1>5 DEF BuildStaged, NetworkFails, Ends, EvaluatesIn
  <2>5. Torn \in {inputs, lock, tree, sourcePins, tarballs, wheels} => Torn \in Files'
    BY <2>1 DEF Files
  <2> QED  BY <1>5, <2>2, <2>3, <2>4, <2>5
<1> QED  BY <1>2, <1>3, <1>4, <1>5 DEF Step

\* A step of a child of the refresh.
LEMMA ChildStep ==
    ASSUME StackInv, IInv, Step
    PROVE  StackInv'
<1>1. /\ RunningInv /\ TarballsKnown /\ WheelsKnown /\ SourcesKnown /\ HashesKnown
      /\ kind \in Kinds \cup {None}
      /\ RocmRefresh /\ WheelRefresh /\ SourceRefresh
  BY DEF StackInv
<1>2. RunningInv'  BY <1>1, RunningStep DEF Next
<1>3. kind' = kind  BY DEF Step, BuildStaged, stackVars
<1>4. exit = None /\ script # NoScript /\ Alive  BY <1>1, ScriptEnds DEF Alive
<1>5. /\ UpdateTarballs => UNCHANGED wheels
      /\ UpdateWheels => UNCHANGED tarballs
      /\ UpdateSources \/ BuildStaged => UNCHANGED <<tarballs, wheels>>
      /\ UpdateTarballs \/ UpdateWheels \/ BuildStaged => UNCHANGED <<sourcePins, thirdParty>>
  BY <1>1, <1>4, TarballsContinue, WheelsContinue, SourcesContinue, BuildEnds
  DEF Step, WheelUpdater, SourceScripts, BuildStaged, sourceVars
<1>6. TarballsKnown'
  BY <1>1, <1>5, UpdateTarballsStep, OffTarballsStep, WheelsContinue, SourcesContinue, BuildEnds
  DEF Step, OffTarballs, Continues, WheelUpdater, SourceScripts
<1>7. WheelsKnown'
  BY <1>1, <1>5, UpdateWheelsStep, OffWheelsStep, TarballsContinue, SourcesContinue, BuildEnds
  DEF Step, OffWheels, Continues, WheelUpdater, SourceScripts
<1>8. SourcesKnown' /\ HashesKnown'
  BY <1>1, <1>5, UpdateSourcesStep, OffSourcesStep, TarballsContinue, WheelsContinue, BuildEnds
  DEF Step, OffSources, SourceUpdaters, Continues, WheelUpdater
<1>9. RocmRefresh'  BY <1>1, <1>3, RocmStep DEF RocmRefresh
<1>10. WheelRefresh'  BY <1>1, <1>3, WheelStep DEF WheelRefresh
<1>11. SourceRefresh'  BY <1>1, <1>3, SourceStep DEF SourceRefresh
<1>12. LeftoversDoNotBlock'
  <2>1. CASE kind = None  BY <1>3, <2>1 DEF LeftoversDoNotBlock
  <2>2. ASSUME kind \in {"rocm", "python-wheels"} PROVE ~BuildStaged /\ ~UpdateSources
    <3>1. script.name \in {"update-rocm", WheelUpdater}
      BY <1>1, <1>4, <2>2 DEF RocmRefresh, WheelRefresh, TarballChild
    <3> QED  BY <1>1, <3>1, BuildEnds, SourcesContinue DEF WheelUpdater, SourceScripts
  <2>3. ASSUME kind = "python-wheels" PROVE ~UpdateTarballs
    BY <1>1, <1>4, <2>3, TarballsContinue DEF WheelRefresh, WheelUpdater
  <2>4. ASSUME kind = "therock-source"
        PROVE  BuildStaged => exit' # "missingInput" /\ script.target \in DOMAIN sourcePins
    BY <1>1, <2>4, SourceStep
  <2>5. ASSUME BuildStaged, ~EvaluatesIn(script.target), script.target \in DOMAIN sourcePins
        PROVE  \/ \E t \in DOMAIN tarballs' \cup DOMAIN sourcePins' : t \notin FlakeTargets
               \/ \E t \in DOMAIN wheels' : wheels'[t].tag # PythonTag
    BY <1>5, <2>5 DEF EvaluatesIn, Overlay
  <2>6. tarballs' = Torn => Torn \in Files'  BY DEF Files
  <2>7. ASSUME kind # None
        PROVE
        /\ exit' # "missingInput"
        /\ exit' = "unreadable" => \/ kind = "rocm" /\ tarballs' = Torn
                                   \/ kind = "therock-source" /\ Torn \in Files'
        /\ exit' # "usage"
        /\ exit' = "evaluation" =>
             /\ kind = "therock-source"
             /\ \/ \E t \in DOMAIN tarballs' \cup DOMAIN sourcePins' : t \notin FlakeTargets
                \/ \E t \in DOMAIN wheels' : wheels'[t].tag # PythonTag
    <3>1. RunningInv /\ kind \in Kinds  BY <1>1, <2>7
    <3>2. exit' # "missingInput"  BY <2>2, <2>4, <3>1, StepEnds DEF Kinds
    <3>3. exit' = "unreadable" => \/ kind = "rocm" /\ tarballs' = Torn
                                  \/ kind = "therock-source" /\ Torn \in Files'
      BY <2>2, <2>3, <2>6, <3>1, StepEnds DEF Kinds
    <3>4. ASSUME exit' = "evaluation"
          PROVE  /\ kind = "therock-source"
                 /\ \/ \E t \in DOMAIN tarballs' \cup DOMAIN sourcePins' : t \notin FlakeTargets
                    \/ \E t \in DOMAIN wheels' : wheels'[t].tag # PythonTag
      <4>1. BuildStaged /\ ~EvaluatesIn(script.target)  BY <3>1, <3>4, StepEnds
      <4>2. kind = "therock-source"  BY <2>2, <3>1, <4>1 DEF Kinds
      <4> QED  BY <2>4, <2>5, <4>1, <4>2
    <3> QED  BY <3>1, <3>2, <3>3, <3>4, StepEnds
  <2> QED  BY <1>3, <2>1, <2>7 DEF LeftoversDoNotBlock
<1> QED
  BY <1>1, <1>2, <1>3, <1>6, <1>7, <1>8, <1>9, <1>10, <1>11, <1>12 DEF StackInv

\* The invariant holds of the checked-in files.
LEMMA InitStack == Init => StackInv
<1> SUFFICES ASSUME Init PROVE StackInv  OBVIOUS
<1>1. script = NoScript /\ exit = "ok" /\ kind = None /\ kind \notin Kinds
  BY ArgumentsAssumption DEF Init
<1>2. PICK pins \in CheckedIn :
         tarballs = pins.tarballs /\ wheels = pins.wheels /\ sourcePins = pins.sourcePins
  BY DEF Init
<1>3. TarballsKnown  BY <1>1, <1>2, CheckedInAssumption DEF TarballsKnown
<1>4. WheelsKnown
  <2>1. ASSUME wheels # Torn
        PROVE  IsFiniteSet(DOMAIN wheels) /\ \A pin \in Range(wheels) : pin.tag # None
    BY <1>2, <2>1, CheckedInAssumption
  <2>2. \A t \in DOMAIN wheels : wheels[t] \in Range(wheels)  BY DEF Range
  <2> QED  BY <1>1, <2>1, <2>2 DEF WheelsKnown
<1>5. SourcesKnown
  <2>1. ASSUME sourcePins # Torn PROVE \A pin \in Range(sourcePins) : IsSourcePin(pin)
    BY <1>2, <2>1, CheckedInAssumption
  <2>2. \A t \in DOMAIN sourcePins : sourcePins[t] \in Range(sourcePins)  BY DEF Range
  <2> QED  BY <1>1, <2>1, <2>2 DEF SourcesKnown, PinsWhole
<1>6. HashesKnown
  <2>1. thirdParty = [archives |-> <<>>, esmi |-> None, spirv |-> None]  BY DEF Init
  <2>2. HashIsOfItsSource  BY <2>1 DEF HashIsOfItsSource
  <2> QED  BY <1>1, <2>2 DEF HashesKnown
<1> QED
  BY <1>1, <1>3, <1>4, <1>5, <1>6
  DEF StackInv, RunningInv, RocmRefresh, WheelRefresh, SourceRefresh, LeftoversDoNotBlock, Kinds

\* A refresh starts.
LEMMA RefreshStart ==
    ASSUME StackInv, NEW k \in Kinds, Refresh(k)
    PROVE  StackInv'
<1>1. /\ script = NoScript /\ kind = None /\ kind \notin Kinds
      /\ UNCHANGED <<tarballs, wheels, sourcePins, thirdParty>>
      /\ TarballsKnown /\ WheelsKnown /\ FilesKnown
  BY ArgumentsAssumption DEF Refresh, Idle, StackInv, FilesKnown, sourceVars
<1>2. script' = NoScript  BY <1>1 DEF Refresh, Refuse
<1>3. TarballsKnown' /\ WheelsKnown' /\ SourcesKnown' /\ HashesKnown' /\ RunningInv'
  BY <1>1, <1>2, NoScriptKnown DEF FilesKnown, RunningInv
<1>4. CASE kind' = kind
  BY <1>1, <1>3, <1>4
  DEF StackInv, RocmRefresh, WheelRefresh, SourceRefresh, LeftoversDoNotBlock, Kinds
<1>5. CASE kind' = k /\ exit' = "ok"
  <2>1. exit' # None /\ exit' \notin {"missingInput", "unreadable", "usage", "evaluation"}
    BY <1>5, OkIsNotNone
  <2>2. LeftoversDoNotBlock'  BY <2>1 DEF LeftoversDoNotBlock
  <2>3. CASE k = "rocm" /\ tarballs # Torn /\ calls' \in SetToSeqs(TarballCalls)
    <3>1. calls' \in Seq(TarballCalls) /\ IsInjective(calls')  BY <1>1, <2>3, TarballQueue
    <3>2. TarballCalls' = TarballCalls  BY <1>1 DEF TarballCalls
    <3>3. \A t \in DOMAIN tarballs : tarballs[t] \in RocmVersion
      BY <1>1, <2>3 DEF TarballsKnown
    <3>4. RocmRefresh'  BY <1>1, <2>1, <3>1, <3>2, <3>3 DEF RocmRefresh
    <3> QED
      BY <1>3, <1>5, <2>2, <2>3, <3>4 DEF StackInv, WheelRefresh, SourceRefresh, Kinds
  <2>4. CASE k = "python-wheels" /\ wheels # Torn /\ calls' \in SetToSeqs(WheelCalls)
    <3>1. calls' \in Seq(WheelCalls) /\ IsInjective(calls')  BY <1>1, <2>4, WheelQueue
    <3>2. WheelCalls' = WheelCalls  BY <1>1 DEF WheelCalls
    <3>3. \A t \in DOMAIN wheels : wheels[t].tag # None  BY <1>1, <2>4 DEF WheelsKnown
    <3>4. WheelRefresh'  BY <1>1, <2>1, <3>1, <3>2, <3>3 DEF WheelRefresh
    <3> QED
      BY <1>3, <1>5, <2>2, <2>4, <3>4 DEF StackInv, RocmRefresh, SourceRefresh, Kinds
  <2>5. CASE k = "therock-source" /\ calls' \in {SourceCalls(t) : t \in DOMAIN sourcePins}
    <3>1. PICK t \in DOMAIN sourcePins : calls' = SourceCalls(t)  BY <2>5
    <3>2. SourceStage(t)'  BY <1>5, <3>1 DEF SourceStage
    <3>3. SourceRefresh'  BY <1>1, <3>2 DEF SourceRefresh
    <3> QED
      BY <1>3, <1>5, <2>2, <2>5, <3>3 DEF StackInv, RocmRefresh, WheelRefresh, Kinds
  <2> QED  BY <1>1, <1>5, <2>3, <2>4, <2>5 DEF Refresh, Refuse, Kinds
<1> QED  BY <1>1, <1>4, <1>5 DEF Refresh, Refuse

\* It starts a child.
LEMMA NextChildStart ==
    ASSUME StackInv, NextChild
    PROVE  StackInv'
<1>1. /\ kind \in Kinds /\ kind' = kind /\ UNCHANGED <<tarballs, wheels, sourcePins, thirdParty>>
      /\ RunningInv /\ FilesKnown /\ RocmRefresh /\ WheelRefresh /\ SourceRefresh
  BY DEF StackInv, NextChild, FilesKnown, sourceVars
<1>2. RunningInv'  BY <1>1, RunningStep DEF Next
<1>3. FilesKnown'
  <2>1. CASE Ends("usage")  BY <1>1, <2>1, NoScriptKnown DEF Ends
  <2>2. CASE Start(Head(calls))  BY <1>1, <2>2, HeadKnown, StartKnown
  <2> QED  BY <2>1, <2>2 DEF NextChild
<1>4. TarballsKnown' /\ WheelsKnown' /\ SourcesKnown' /\ HashesKnown'  BY <1>3 DEF FilesKnown
<1>5. None \notin {"missingInput", "unreadable", "usage", "evaluation"}  BY ArgumentsAssumption DEF Reasons
<1>6. CASE kind = "rocm"
  <2>1. RocmRefresh' /\ exit' = None  BY <1>1, <1>6, RocmStart DEF FilesKnown
  <2>2. LeftoversDoNotBlock'  BY <1>5, <2>1 DEF LeftoversDoNotBlock
  <2> QED  BY <1>1, <1>2, <1>4, <1>6, <2>1, <2>2 DEF StackInv, WheelRefresh, SourceRefresh
<1>7. CASE kind = "python-wheels"
  <2>1. /\ WheelRefresh'
        /\ \/ exit' = None
           \/ exit' = "unreadable" /\ wheels' = Torn
           \/ exit' = "usage" /\ \E pin \in Range(wheels') : pin.series = None
    BY <1>1, <1>7, WheelStart DEF FilesKnown
  <2>2. LeftoversDoNotBlock'  BY <1>1, <1>5, <1>7, <2>1 DEF LeftoversDoNotBlock
  <2> QED  BY <1>1, <1>2, <1>4, <1>7, <2>1, <2>2 DEF StackInv, RocmRefresh, SourceRefresh
<1>8. CASE kind = "therock-source"
  <2>1. SourceRefresh' /\ (exit' = None \/ (exit' = "unreadable" /\ Torn \in Files'))
    BY <1>1, <1>8, SourceStart
  <2>2. LeftoversDoNotBlock'  BY <1>1, <1>5, <1>8, <2>1 DEF LeftoversDoNotBlock
  <2> QED  BY <1>1, <1>2, <1>4, <1>8, <2>1, <2>2 DEF StackInv, RocmRefresh, WheelRefresh
<1> QED  BY <1>1, <1>6, <1>7, <1>8 DEF Kinds

\* With no refresh on, only what is in the files counts.
LEMMA NoRefresh ==
    ASSUME RunningInv', FilesKnown', kind' = None
    PROVE  StackInv'
BY ArgumentsAssumption
DEF StackInv, FilesKnown, RocmRefresh, WheelRefresh, SourceRefresh, LeftoversDoNotBlock, Kinds

\* Every step keeps the invariant.
LEMMA StackStep == StackInv /\ IInv /\ [Next]_vars => StackInv'
<1> SUFFICES ASSUME StackInv, IInv, [Next]_vars PROVE StackInv'  OBVIOUS
<1>1. RunningInv /\ FilesKnown /\ RunningInv'
  BY RunningStep DEF StackInv, FilesKnown
<1>2. CASE UNCHANGED vars
  <2>1. UNCHANGED <<script, exit, kind, calls, tarballs, wheels, sourcePins, inputs, tree, lock,
                    thirdParty>>
    BY <1>2 DEF vars
  <2>2. TarballCalls' = TarballCalls /\ WheelCalls' = WheelCalls
    BY <2>1 DEF TarballCalls, WheelCalls
  <2>3. RocmRefresh'
    BY <2>1, <2>2 DEF StackInv, RocmRefresh, TarballChild, Alive
  <2>4. WheelRefresh'  BY <2>1, <2>2 DEF StackInv, WheelRefresh, Alive
  <2>5. StagedSource' = StagedSource  BY <2>1 DEF StagedSource
  <2>6. InputLines' = InputLines  BY <2>1 DEF InputLines, InputName
  <2>7. /\ \A t : TreeWritten(t)' <=> TreeWritten(t)
        /\ \A t : TreeChild(t)' <=> TreeChild(t)
        /\ ThirdPartyChild' <=> ThirdPartyChild
        /\ ThirdPartyWritten' <=> ThirdPartyWritten
    BY <2>1, <2>5, <2>6
    DEF TreeWritten, TreeInputs, TreeChild, ThirdPartyChild, ThirdPartyWritten, OwnSpirv, OwnEsmi
  <2>8. \A t : SourceStage(t) => SourceStage(t)'  BY <2>1, <2>5, <2>7 DEF SourceStage
  <2>9. SourceRefresh'  BY <2>1, <2>8 DEF StackInv, SourceRefresh, Alive
  <2>10. TarballsKnown' /\ WheelsKnown' /\ LeftoversDoNotBlock' /\ kind' \in Kinds \cup {None}
    BY <2>1 DEF StackInv, TarballsKnown, WheelsKnown, LeftoversDoNotBlock, Files
  <2>11. SourcesKnown' /\ HashesKnown'
    BY <1>1, <2>1, OffSourcesStep DEF FilesKnown, OffSources
  <2> QED  BY <1>1, <2>3, <2>4, <2>9, <2>10, <2>11 DEF StackInv
<1>3. CASE \E k \in Kinds : Refresh(k)  BY <1>3, RefreshStart
<1>4. CASE NextChild  BY <1>4, NextChildStart
<1>5. CASE Return
  <2>1. /\ kind' = None /\ script' = NoScript
        /\ UNCHANGED <<tarballs, wheels, sourcePins, thirdParty>>
    BY <1>5 DEF Return, sourceVars
  <2> QED  BY <1>1, <2>1, NoScriptKnown, NoRefresh
<1>6. CASE CallByHand
  <2>1. PICK call \in ByHand : Start(call)  BY <1>6 DEF CallByHand
  <2>2. kind' = None /\ UNCHANGED <<tarballs, wheels, sourcePins, thirdParty>>
    BY <1>6 DEF CallByHand, Idle, sourceVars
  <2>3. Legal(call)  BY ArgumentsAssumption DEF Legal
  <2>4. FilesKnown'  BY <1>1, <2>1, <2>2, <2>3, StartKnown
  <2> QED  BY <1>1, <2>2, <2>4, NoRefresh
<1>7. CASE Kill
  <2>1. /\ UNCHANGED <<kind, tarballs, wheels, sourcePins, thirdParty>>
        /\ script' = NoScript /\ exit' = "killed"
    BY <1>7 DEF Kill, stackVars, sourceVars, Ends
  <2>2. ~Alive'  BY <2>1, ArgumentsAssumption DEF Alive, Reasons
  <2>3. FilesKnown'  BY <1>1, <2>1, NoScriptKnown
  <2> QED
    BY <1>1, <2>1, <2>2, <2>3
    DEF StackInv, FilesKnown, RocmRefresh, WheelRefresh, SourceRefresh, LeftoversDoNotBlock
<1>8. CASE Step  BY <1>8, ChildStep
<1> QED  BY <1>2, <1>3, <1>4, <1>5, <1>6, <1>7, <1>8 DEF Next
-----------------------------------------------------------------------------
(* Types. *)

\* A script that runs is one of those there are; when none does, the last one
\* has ended for a reason.
ScriptTyped ==
    IF script = NoScript THEN exit \in Reasons ELSE exit = None /\ script.name \in Updaters

\* Only a refresh runs nix build, whose end changes what is still to run.
TypesKnown ==
    /\ ScriptTyped /\ runs \in 0 .. MaxRuns
    /\ kind = None => calls = <<>> /\ (script # NoScript => script.name # "nix build")

\* A start launches the script of that name, or fails for a reason.
LEMMA StartTypes ==
    ASSUME NEW call, Start(call)
    PROVE  ScriptTyped' /\ (script' # NoScript => script'.name = call.name)
<1>1. ASSUME NEW name \in Updaters, NEW launched, launched.name = name, Launch(launched)
      PROVE  ScriptTyped' /\ script'.name = name
  <2>1. name # None /\ script' = launched /\ exit' = None
    BY <1>1, ArgumentsAssumption, Zenon DEF Launch
  <2>2. script' # NoScript  BY <1>1, <2>1 DEF NoScript
  <2> QED  BY <1>1, <2>1, <2>2 DEF ScriptTyped
<1>2. ASSUME NEW reason \in Reasons, Ends(reason)
      PROVE  ScriptTyped' /\ script' = NoScript
  BY <1>2 DEF Ends, ScriptTyped
<1>3. /\ {"unreadable", "usage"} \subseteq Reasons
      /\ {"update-rocm", "update-python-wheels", "update-rocm-source", "update-source-tree",
          "update-rocm-third-party"} \subseteq Updaters
      /\ {"nix flake lock", "nix build"} \subseteq Updaters
  BY Zenon DEF Reasons, Updaters
<1>4. CASE call.name = "update-rocm" /\ StartTarballs(call.args)
  BY <1>1, <1>2, <1>3, <1>4 DEF StartTarballs
<1>5. CASE call.name = "update-python-wheels" /\ StartWheels(call.args)
  BY <1>1, <1>2, <1>3, <1>5 DEF StartWheels
<1>6. CASE call.name = "update-rocm-source" /\ StartSource(call.args)
  BY <1>1, <1>2, <1>3, <1>6 DEF StartSource
<1>7. CASE call.name = "update-source-tree" /\ StartTree(call.args)
  BY <1>1, <1>2, <1>3, <1>7 DEF StartTree
<1>8. CASE call.name = "update-rocm-third-party" /\ StartThirdParty(call.args)
  BY <1>1, <1>2, <1>3, <1>8 DEF StartThirdParty
<1>9. CASE /\ call.name \in {"nix flake lock", "nix build"}
           /\ Launch([name |-> call.name, at |-> "run", target |-> call.args.target])
  <2>1. call.name \in Updaters  BY <1>3, <1>9, Zenon
  <2>2. Launch([name |-> call.name, at |-> "run", target |-> call.args.target])
    BY <1>9, Zenon
  <2> QED  BY <1>1, <2>1, <2>2
<1> QED  BY <1>4, <1>5, <1>6, <1>7, <1>8, <1>9, Zenon DEF Start

\* A script stays the one it is, and ends for a reason.
LEMMA StepTypes ==
    ASSUME RunningInv, TypesKnown, Step
    PROVE  TypesKnown'
<1>1. Continues /\ script # NoScript
  BY TarballsContinue, WheelsContinue, SourcesContinue, BuildEnds, Zenon DEF Step
<1>2. exit = None /\ script.name \in Updaters /\ script.name # None
  BY <1>1, ArgumentsAssumption, Zenon DEF TypesKnown, ScriptTyped
<1>3. script' = NoScript \/ script'.name = script.name  BY <1>1 DEF Continues
<1>4. ScriptTyped'
  <2>1. CASE script' = NoScript /\ exit' \in Reasons  BY <2>1 DEF ScriptTyped
  <2>2. CASE exit' = exit /\ script'.name = script.name
    <3>1. script' # NoScript  BY <1>2, <2>2 DEF NoScript
    <3> QED  BY <1>2, <2>2, <3>1 DEF ScriptTyped
  <2> QED  BY <1>1, <2>1, <2>2 DEF Continues
<1>5. CASE BuildStaged
  <2>1. UNCHANGED <<kind, runs>> /\ script.name = "nix build"
    BY <1>5, BuildEnds, Zenon DEF BuildStaged
  <2>2. kind # None  BY <1>1, <2>1, Zenon DEF TypesKnown
  <2> QED  BY <1>4, <2>1, <2>2, Zenon DEF TypesKnown
<1>6. CASE UNCHANGED <<kind, runs, calls>>
  BY <1>1, <1>3, <1>4, <1>6, Zenon DEF TypesKnown
<1>7. BuildStaged \/ UNCHANGED <<kind, runs, calls>>
  BY Zenon DEF Step, stackVars
<1> QED  BY <1>5, <1>6, <1>7

LEMMA InitTypes == Init => TypesKnown
<1> SUFFICES ASSUME Init PROVE TypesKnown  OBVIOUS
<1>1. /\ script = NoScript /\ exit \in Reasons /\ kind = None /\ calls = <<>>
      /\ runs = 0
  BY ArgumentsAssumption, OkIsNotNone DEF Init
<1>2. runs \in 0 .. MaxRuns  BY <1>1, BoundAssumption
<1> QED  BY <1>1, <1>2, Zenon DEF TypesKnown, ScriptTyped

\* Every step keeps the types.
LEMMA NextTypes == TypesKnown /\ StackInv /\ [Next]_vars => TypesKnown'
<1> SUFFICES ASSUME TypesKnown, StackInv, [Next]_vars PROVE TypesKnown'  OBVIOUS
<1>1. RunningInv  BY DEF StackInv
<1>2. CASE UNCHANGED vars  BY <1>2 DEF vars, TypesKnown, ScriptTyped
<1>3. ASSUME NEW k \in Kinds, Refresh(k) PROVE TypesKnown'
  <2>1. runs \in Nat /\ runs' \in 0 .. MaxRuns /\ kind = None
    BY <1>3, BoundAssumption DEF Refresh, Idle, TypesKnown
  <2>2. script' = NoScript /\ exit' \in Reasons  BY <1>3 DEF Refresh, Refuse, Idle, Reasons
  <2>3. kind' = None => UNCHANGED <<kind, calls>>
    BY <1>3, ArgumentsAssumption DEF Refresh, Refuse
  <2> QED  BY <2>1, <2>2, <2>3, Zenon DEF TypesKnown, ScriptTyped
<1>4. CASE NextChild
  <2>1. ASSUME Ends("usage") PROVE ScriptTyped'  BY <2>1 DEF Ends, ScriptTyped, Reasons
  <2>2. ScriptTyped'  BY <1>4, <2>1, StartTypes, Zenon DEF NextChild
  <2>3. UNCHANGED <<kind, runs>> /\ kind # None  BY <1>4, Zenon DEF NextChild
  <2> QED  BY <2>2, <2>3, Zenon DEF TypesKnown
<1>5. CASE Return
  BY <1>5, Zenon DEF Return, TypesKnown, ScriptTyped
<1>6. CASE CallByHand
  <2>1. PICK call \in ByHand : Start(call)  BY <1>6 DEF CallByHand
  <2>2. ScriptTyped' /\ (script' # NoScript => script'.name # "nix build")
    BY <2>1, StartTypes, ArgumentsAssumption, Zenon
  <2>3. runs' \in 0 .. MaxRuns
    <3>1. runs \in 0 .. MaxRuns /\ runs < MaxRuns /\ runs' = runs + 1
      BY <1>6, Zenon DEF CallByHand, TypesKnown
    <3> QED  BY <3>1, BoundAssumption
  <2>4. UNCHANGED <<kind, calls>>  BY <1>6, Zenon DEF CallByHand
  <2> QED  BY <2>2, <2>3, <2>4, Zenon DEF TypesKnown
<1>7. CASE Kill
  <2>1. ScriptTyped' /\ script' = NoScript  BY <1>7 DEF Kill, Ends, ScriptTyped, Reasons
  <2>2. UNCHANGED <<kind, calls, runs>>  BY <1>7, Zenon DEF Kill, stackVars
  <2> QED  BY <2>1, <2>2, Zenon DEF TypesKnown
<1>8. CASE Step  BY <1>1, <1>8, StepTypes
<1> QED  BY <1>2, <1>3, <1>4, <1>5, <1>6, <1>7, <1>8, Zenon DEF Next
-----------------------------------------------------------------------------
(* Versions. *)

\* The first two of a sequence of numbers.
LEMMA FirstTwo ==
    ASSUME NEW s \in Seq(Nat), Len(s) >= 2
    PROVE  SubSeq(s, 1, 2) = <<s[1], s[2]>>
<1> DEFINE two == <<s[1], s[2]>>
<1>1. \A i \in 1..2 : s[i] \in Nat  BY ElementOfSeq
<1>2. /\ SubSeq(s, 1, 2) \in Seq(Nat) /\ Len(SubSeq(s, 1, 2)) = 2
      /\ \A i \in 1..2 : SubSeq(s, 1, 2)[i] = s[i]
  BY <1>1, SubSeqProperties
<1>3. two \in Seq(Nat) /\ Len(two) = 2 /\ \A i \in 1..2 : two[i] = s[i]  BY <1>1
<1>4. SubSeq(s, 1, 2) = two
  <2> HIDE DEF two
  <2> DEFINE first == SubSeq(s, 1, 2)
  <2>1. first \in Seq(Nat) /\ Len(first) = Len(two) /\ \A i \in 1..Len(first) : first[i] = two[i]
    BY <1>2, <1>3
  <2> HIDE DEF first
  <2>2. first = two  BY <2>1, <1>3, SeqEqual
  <2> QED  BY <2>2 DEF first
<1> QED  BY <1>4

\* A ROCm version has three numbers, the first two its train.
LEMMA TwoParts ==
    ASSUME NEW v \in RocmVersion
    PROVE  /\ v.release \in Seq(Nat) /\ Len(v.release) = 3
           /\ SubSeq(v.release, 1, 2) = <<v.release[1], v.release[2]>>
           /\ FirstTwoParts(v) = Final(SubSeq(v.release, 1, 2))
<1>1. v.release \in Seq(Nat) /\ Len(v.release) = 3  BY DEF RocmVersion, Version
<1>2. SubSeq(v.release, 1, 2) = <<v.release[1], v.release[2]>>  BY <1>1, FirstTwo
<1> QED  BY <1>1, <1>2 DEF FirstTwoParts

\* The series of a pin is its train.
LEMMA SeriesIsTrain ==
    ASSUME NEW v \in RocmVersion, NEW w \in RocmVersion
    PROVE  InSeries(w, FirstTwoParts(v)) <=> MajorMinor(w) = MajorMinor(v)
<1> DEFINE series == FirstTwoParts(v)
<1>1. series.suffix = <<>> /\ series.release = <<v.release[1], v.release[2]>>
  BY TwoParts DEF Final
<1>2. InSeries(w, series) <=> IsPrefix(<<v.release[1], v.release[2]>>, w.release)
  BY <1>1 DEF InSeries
<1>3. IsPrefix(<<v.release[1], v.release[2]>>, w.release)
         <=> <<v.release[1], v.release[2]>> = SubSeq(w.release, 1, 2)
  <2>1. /\ Len(<<v.release[1], v.release[2]>>) = 2 /\ Len(w.release) >= 2
        /\ SubSeq(<<v.release[1], v.release[2]>>, 1, 2) = <<v.release[1], v.release[2]>>
    <3> DEFINE two == <<v.release[1], v.release[2]>>
    <3>1. v.release[1] \in Nat /\ v.release[2] \in Nat  BY TwoParts, ElementOfSeq
    <3>2. two \in Seq(Nat) /\ Len(two) = 2 /\ two[1] = v.release[1] /\ two[2] = v.release[2]
      BY <3>1
    <3>3. SubSeq(two, 1, 2) = <<two[1], two[2]>>
      <4> HIDE DEF two
      <4> QED  BY <3>2, FirstTwo
    <3> QED  BY <3>2, <3>3, TwoParts
  <2> QED  BY <2>1 DEF IsPrefix
<1>4. MajorMinor(w) = MajorMinor(v) <=> SubSeq(w.release, 1, 2) = SubSeq(v.release, 1, 2)
  BY DEF MajorMinor, Final
<1> QED  BY <1>2, <1>3, <1>4, TwoParts

\* None of a train is newer than the one that the key sorts last.
LEMMA LatestOfTrain ==
    ASSUME NEW S \in SUBSET RocmVersion, NEW v \in Latest(S), NEW w \in S,
           MajorMinor(w) = MajorMinor(v)
    PROVE  ~Newer(w, v)
<1>1. v \in RocmVersion /\ w \in RocmVersion /\ ~KeyLess(v, w)  BY LatestAmong DEF Latest
<1>2. SubSeq(w.release, 1, 2) = SubSeq(v.release, 1, 2)  BY DEF MajorMinor, Final
<1>3. /\ v.release \in Seq(Nat) /\ w.release \in Seq(Nat)
      /\ Len(v.release) = 3 /\ Len(w.release) = 3
      /\ v.release[1] = w.release[1] /\ v.release[2] = w.release[2]
  BY <1>1, <1>2, TwoParts
<1>4. ~(v.release[3] < w.release[3])
  <2> SUFFICES ASSUME v.release[3] < w.release[3] PROVE KeyLess(v, w)
    BY <1>1
  <2>1. 3 \in DOMAIN v.release \cap DOMAIN w.release  BY <1>3
  <2>2. TupleLess(NumberLess, v.release, w.release)
    BY <1>2, <2>1 DEF TupleLess, NumberLess
  <2> QED  BY <2>2 DEF KeyLess
<1>5. ASSUME v.release[3] = w.release[3], v.suffix # <<>>
      PROVE  w.suffix # <<>> /\ ~TupleLess(TokenLess, v.suffix, w.suffix)
  <2>1. \A i \in 1..3 : w.release[i] = v.release[i]  BY <1>3, <1>5
  <2>2. w.release = v.release  BY <1>3, <2>1, SeqEqual
  <2> QED  BY <1>1, <1>5, <2>2 DEF KeyLess
<1>6. v.release[3] \in Nat /\ w.release[3] \in Nat  BY <1>3
<1>7. ~(w.release[3] > v.release[3])  BY <1>4, <1>6
<1> QED  BY <1>5, <1>7 DEF Newer
-----------------------------------------------------------------------------
(* Theorems. *)

\* The invariant of a refresh holds of every execution.
THEOREM RefreshInvariance == Spec => []StackInv
BY InitStack, StackStep, WheelInvariance, PTL DEF Spec

\* What earlier refreshes, killed or failed, and updaters run by hand left in the
\* files stops update-rocm-stack.py only where a file it reads is torn, where a
\* wheel pin has no series, and, if it builds the staged source, where the flake
\* has not a pin's target or a wheel pin is of another Python than the package set.
THEOREM LeftoversNeverBlock == Spec => []LeftoversDoNotBlock
<1>1. StackInv => LeftoversDoNotBlock  BY DEF StackInv
<1> QED  BY <1>1, RefreshInvariance, PTL

\* After a refresh of the source build the five files speak of one revision.
THEOREM SourceFilesAgree == Spec => []DoneIsConsistent
<1>1. ASSUME StackInv PROVE DoneIsConsistent
  <2> SUFFICES ASSUME Refreshed("therock-source") PROVE DoneIsConsistent
    BY DEF DoneIsConsistent
  <2>1. kind = "therock-source" /\ exit = "ok" /\ exit # None /\ calls = <<>> /\ Alive
    BY OkIsNotNone DEF Refreshed, Alive
  <2>2. PICK t \in DOMAIN sourcePins : SourceStage(t)
    BY <1>1, <2>1 DEF StackInv, SourceRefresh
  <2>3. TreeWritten(t) /\ lock = inputs /\ ThirdPartyWritten
    BY <2>1, <2>2, SourceQueue DEF SourceStage
  <2>4. /\ TreeInputs \subseteq DOMAIN lock
        /\ lock[tree.root].rev = sourcePins[tree.target].rev
    BY <2>3 DEF TreeWritten
  <2> QED
    BY <2>3, <2>4 DEF DoneIsConsistent, ThirdPartyWritten, OwnSpirv, OwnEsmi
<1> QED  BY <1>1, RefreshInvariance, PTL

\* Only the updaters run, each ends for one of their reasons, and the files
\* keep their form.
THEOREM StackTypeCorrect == Spec => []StackTypeOK
<1>1. ASSUME StackInv, TypesKnown PROVE StackTypeOK
  <2>1. /\ script # NoScript => script.name \in Updaters
        /\ exit \in Reasons \cup {None} /\ (exit = None <=> script # NoScript)
    BY <1>1, ArgumentsAssumption, Zenon DEF TypesKnown, ScriptTyped
  <2>2. /\ kind \in Kinds \cup {None} /\ runs \in 0 .. MaxRuns
        /\ kind = None => calls = <<>>
    BY <1>1, Zenon DEF StackInv, TypesKnown
  <2>3. tarballs = Torn \/ \A t \in DOMAIN tarballs : tarballs[t] \in Version
    BY <1>1 DEF StackInv, TarballsKnown, RocmVersion
  <2>4. sourcePins = Torn \/ \A t \in DOMAIN sourcePins :
          sourcePins[t].rev \in DOMAIN Repository \cup {None}
    BY <1>1 DEF StackInv, SourcesKnown, PinsWhole, IsSourcePin
  <2> QED  BY <2>1, <2>2, <2>3, <2>4, Zenon DEF StackTypeOK
<1> QED  BY <1>1, RefreshInvariance, InitTypes, NextTypes, PTL DEF Spec

\* build_graph pins every submodule to what its enclosing repository records,
\* and loses none that is enabled.
THEOREM GraphIsGits == Spec => []GraphIsGitsOwn
<1>1. ASSUME StackInv PROVE GraphIsGitsOwn
  <2> SUFFICES ASSUME Running("update-source-tree", "inputs")
               PROVE  /\ IsGitsOwn(script.pin.rev, script.graph)
                      /\ ToSet(Repository[script.pin.rev].enabled) \subseteq DOMAIN script.graph
    BY DEF GraphIsGitsOwn
  <2> DEFINE root == script.pin.rev
  <2>1. GraphKnown /\ IsSourcePin(script.pin) /\ root # None
    BY <1>1 DEF Running, StackInv, SourcesKnown
  <2>2. root \in DOMAIN Repository  BY <2>1 DEF IsSourcePin
  <2>3. /\ script.graph \in Partial(Path, Entry) /\ Grown(root, script.graph)
        /\ Range(Repository[root].enabled) \subseteq DOMAIN script.graph
    BY <2>1 DEF GraphKnown, GraphsWith
  <2>4. ToSet(Repository[root].enabled) = Range(Repository[root].enabled)  BY DEF ToSet, Range
  <2> QED  BY <2>2, <2>3, <2>4, GrownIsGits
<1> QED  BY <1>1, RefreshInvariance, PTL

\* A hash in rocm-third-party.json is that of the source next to it, whatever
\* it was reused from.
THEOREM HashesAreOwn == Spec => []HashIsOfItsSource
<1>1. StackInv => HashIsOfItsSource  BY DEF StackInv, HashesKnown
<1> QED  BY <1>1, RefreshInvariance, PTL

\* No submodule wipes out another that a refresh has staged.
THEOREM StagedWhole == Spec => []StagedIsWhole
<1>1. ASSUME StackInv PROVE StagedIsWhole
  <2> SUFFICES ASSUME kind # None, Running("update-rocm-third-party", "scan"),
                      NEW s \in ToSet(tree.submodules)
               PROVE  s.path \in DOMAIN script.staged /\ script.staged[s.path] = lock[s.input].rev
    BY DEF StagedIsWhole
  <2>1. /\ script # NoScript /\ script.name = "update-rocm-third-party"
        /\ exit = None /\ Alive /\ kind \in Kinds
    BY <1>1 DEF Running, StackInv, RunningInv, Alive
  <2>2. kind = "therock-source"
    BY <1>1, <2>1 DEF StackInv, RocmRefresh, WheelRefresh, TarballChild, WheelUpdater, Kinds
  <2>3. PICK t \in DOMAIN sourcePins : SourceStage(t)
    BY <1>1, <2>1, <2>2 DEF StackInv, SourceRefresh
  <2>4. script.staged = StagedSource /\ Ordered(tree.submodules)
    <3>1. TreeWritten(t) /\ ThirdPartyChild
      BY <2>1, <2>3, OkIsNotNone, Zenon DEF SourceStage, TreeChild
    <3> QED  BY <3>1 DEF TreeWritten, ThirdPartyChild
  <2>5. PICK i \in DOMAIN tree.submodules : s = tree.submodules[i]  BY DEF ToSet
  <2> QED  BY <2>4, <2>5, StagedTree
<1> QED  BY <1>1, RefreshInvariance, PTL

\* A device wheel follows the version that is named for its frontend.
THEOREM DeviceWheelsFollow == Spec => []DeviceWheelsFollowTorch
<1>1. ASSUME StackInv, IInv PROVE DeviceWheelsFollowTorch
  <2> SUFFICES ASSUME Running("update-python-wheels", "pin"),
                      NEW p \in DOMAIN script.packages \ DOMAIN script.named,
                      p.device # None, p.of \in TorchFrames,
                      Frame(p.of) \in DOMAIN script.named \cap DOMAIN script.packages
               PROVE  script.packages[p].public = script.packages[Frame(p.of)].public
    BY DEF DeviceWheelsFollowTorch
  <2>1. Picking /\ None \notin Range(script.named)
    BY <1>1 DEF IInv, WheelScriptInv, StackInv, WheelsKnown, Running, WheelUpdater
  <2> DEFINE version == script.named[Frame(p.of)]
  <2>2. version # None  BY <2>1 DEF Range
  <2>3. Constraint(p, script.named) = version /\ Constraint(Frame(p.of), script.named) = version
    BY DEF Constraint
  <2>4. ASSUME NEW q \in DOMAIN script.packages, Constraint(q, script.named) = version
        PROVE  script.packages[q].public = version
    <3>1. script.packages[q] \in
             Candidates(script.dists, q, script.rocm, script.tag, script.named)
      BY <2>1 DEF Picking
    <3> HIDE DEF version
    <3> QED  BY <2>2, <2>4, <3>1 DEF Candidates, Installable, MatchesVersion
  <2> QED  BY <2>3, <2>4
<1> QED  BY <1>1, RefreshInvariance, WheelInvariance, PTL

\* What a child of a refresh writes to the tarball pins.
LEMMA TarballWrite ==
    ASSUME StackInv, kind # None, WriteTarballs
    PROVE  \E t \in DOMAIN tarballs :
             /\ \A u \in DOMAIN tarballs : tarballs[u] \in RocmVersion
             /\ script.index \subseteq TarballFiles /\ script.targets = <<t>>
             /\ \E v \in FindVersion(script.index, t, FirstTwoParts(tarballs[t])) :
                  script.sources = Put(tarballs, t, v)
<1>1. /\ script # NoScript /\ script.name = "update-rocm" /\ script.at = "pin"
      /\ script.left = <<>>
  BY DEF WriteTarballs, Running
<1>2. exit = None  BY <1>1 DEF StackInv, RunningInv
<1>3. kind = "rocm"
  <2>1. kind \in Kinds /\ Alive  BY <1>2 DEF StackInv, Alive
  <2>2. kind # "python-wheels"
    BY <1>1, <1>2, <2>1 DEF StackInv, WheelRefresh, WheelUpdater
  <2>3. ASSUME kind = "therock-source" PROVE FALSE
    <3>1. PICK t \in DOMAIN sourcePins : SourceStage(t)
      BY <2>1, <2>3 DEF StackInv, SourceRefresh
    <3> QED
      BY <1>1, <1>2, <3>1, OkIsNotNone DEF SourceStage, TreeChild, ThirdPartyChild
  <2> QED  BY <2>1, <2>2, <2>3 DEF Kinds
<1>4. PICK t \in DOMAIN tarballs : TarballChild(t)
  BY <1>2, <1>3 DEF StackInv, RocmRefresh, Alive
<1>5. /\ script.targets = <<t>>
      /\ \E v \in FindVersion(script.index, t, FirstTwoParts(tarballs[t])) :
           script.sources = Put(tarballs, t, v)
  BY <1>1, <1>4 DEF TarballChild
<1>6. /\ \A u \in DOMAIN tarballs : tarballs[u] \in RocmVersion
      /\ script.index \subseteq TarballFiles
  BY <1>1, <1>2, <1>3 DEF StackInv, RocmRefresh, TarballsKnown, Alive
<1> QED  BY <1>5, <1>6

\* What a refresh does when it changes the tarball pins.
LEMMA TarballsChange ==
    ASSUME StackInv, [Next]_vars, kind # None, tarballs' # tarballs, tarballs' # Torn
    PROVE  WriteTarballs /\ tarballs' = script.sources
<1>1. Step
  BY DEF Next, vars, Refresh, NextChild, Return, CallByHand, Kill
<1>2. RunningInv /\ exit = None /\ script # NoScript
  BY <1>1, ScriptEnds DEF StackInv
<1>3. UpdateTarballs
  BY <1>1, <1>2, TarballsContinue, WheelsContinue, SourcesContinue DEF Step
<1>4. WriteTarballs  BY <1>3 DEF UpdateTarballs, FetchTarballIndex, PinTarball
<1> QED  BY <1>4 DEF WriteTarballs, Writes

\* What a child of a refresh has done when it ends well.
LEMMA TarballsEnd ==
    ASSUME StackInv, [Next]_vars, Running("update-rocm", "pin"), exit' = "ok"
    PROVE  WriteTarballs /\ tarballs' = script.sources
<1>1. script # NoScript /\ exit = None /\ script.name = "update-rocm" /\ script.at = "pin"
  BY DEF Running, StackInv, RunningInv
<1>2. exit' # exit /\ exit' \notin {"network", "noVersion", "killed", "unreadable"}
  BY <1>1, OkIsNotNone
<1>3. Step
  BY <1>1, <1>2
  DEF Next, vars, Refresh, Idle, NextChild, Return, CallByHand, Kill, Ends
<1>4. UpdateTarballs
  BY <1>1, <1>3, WheelsContinue, SourcesContinue, BuildEnds
  DEF Step, StackInv, WheelUpdater, SourceScripts
<1>5. ~FetchTarballIndex  BY <1>1 DEF FetchTarballIndex, Running
<1>6. ~PinTarball  BY <1>2 DEF PinTarball, NetworkFails, Ends, Proceeds
<1>7. WriteTarballs  BY <1>4, <1>5, <1>6 DEF UpdateTarballs
<1> QED  BY <1>2, <1>7 DEF WriteTarballs, Writes, Ends

\* What find_version returns is a version of the train, and none is newer.
LEMMA FoundIsNewest ==
    ASSUME NEW index \in SUBSET TarballFiles, NEW t, NEW old \in RocmVersion,
           NEW v \in FindVersion(index, t, FirstTwoParts(old))
    PROVE  /\ MajorMinor(v) = MajorMinor(old) /\ v \in Listed(index, t, old)
           /\ \A w \in Listed(index, t, old) : ~Newer(w, v)
<1> DEFINE series == FirstTwoParts(old)
           S == {f.version : f \in {g \in index : /\ g.slug = TargetSlug(t)
                                                  /\ series # None => InSeries(g.version, series)}}
<1>1. v \in Latest(S)  BY DEF FindVersion
<1>2. FirstTwoParts(old) # None  BY SeriesGiven
<1>3. S \in SUBSET RocmVersion  BY ArgumentsAssumption
<1>4. \A f \in index : f.version \in RocmVersion  BY ArgumentsAssumption
<1>5. \A f \in index : InSeries(f.version, series) <=> MajorMinor(f.version) = MajorMinor(old)
  BY <1>4, SeriesIsTrain
<1>6. S = Listed(index, t, old)
  <2>1. {g \in index : g.slug = TargetSlug(t) /\ (series # None => InSeries(g.version, series))}
        = {g \in index : g.slug = TargetSlug(t) /\ MajorMinor(g.version) = MajorMinor(old)}
    BY <1>2, <1>5
  <2> QED  BY <2>1 DEF Listed
<1>7. \A w \in S : MajorMinor(w) = MajorMinor(old)  BY <1>6 DEF Listed
<1> HIDE DEF S
<1>8. v \in S  BY <1>1, LatestAmong
<1>9. \A w \in S : ~Newer(w, v)  BY <1>1, <1>3, <1>7, <1>8, LatestOfTrain
<1>10. MajorMinor(v) = MajorMinor(old)  BY <1>7, <1>8
<1> QED  BY <1>6, <1>8, <1>9, <1>10

\* Each target of a refresh stays on its release train.
THEOREM SeriesAreKept == Spec => TargetsKeepTheirSeries
<1>1. ASSUME StackInv, [Next]_vars, kind # None, tarballs' # tarballs, tarballs' # Torn,
             NEW t \in DOMAIN tarballs
      PROVE  MajorMinor(tarballs'[t]) = MajorMinor(tarballs[t])
  <2>1. PICK c \in DOMAIN tarballs :
           /\ \A u \in DOMAIN tarballs : tarballs[u] \in RocmVersion
           /\ script.index \subseteq TarballFiles
           /\ \E v \in FindVersion(script.index, c, FirstTwoParts(tarballs[c])) :
                script.sources = Put(tarballs, c, v)
    BY <1>1, TarballsChange, TarballWrite
  <2>2. PICK v \in FindVersion(script.index, c, FirstTwoParts(tarballs[c])) :
           tarballs' = Put(tarballs, c, v)
    BY <1>1, <2>1, TarballsChange
  <2>3. MajorMinor(v) = MajorMinor(tarballs[c])
    <3>1. script.index \in SUBSET TarballFiles /\ tarballs[c] \in RocmVersion  BY <2>1
    <3> QED  BY <2>2, <3>1, FoundIsNewest
  <2>4. tarballs'[t] = IF t = c THEN v ELSE tarballs[t]  BY <2>2 DEF Put
  <2> QED  BY <2>3, <2>4
<1>2. StackInv /\ [Next]_vars =>
        [kind # None /\ tarballs' # tarballs /\ tarballs' # Torn =>
         \A t \in DOMAIN tarballs : MajorMinor(tarballs'[t]) = MajorMinor(tarballs[t])]_vars
  BY <1>1
<1> QED  BY <1>2, RefreshInvariance, PTL DEF Spec, TargetsKeepTheirSeries

\* A child that ends well has pinned its target to the newest version that the
\* index listed for the target's train, also where it was pinned to that.
THEOREM NewestIsTaken == Spec => RefreshTakesNewest
<1>1. ASSUME StackInv, [Next]_vars, kind # None, Running("update-rocm", "pin"), exit' = "ok",
             NEW t \in Range(script.targets)
      PROVE  /\ tarballs'[t] \in Listed(script.index, t, tarballs[t])
             /\ \A v \in Listed(script.index, t, tarballs[t]) : ~Newer(v, tarballs'[t])
  <2>1. PICK c \in DOMAIN tarballs :
           /\ \A u \in DOMAIN tarballs : tarballs[u] \in RocmVersion
           /\ script.index \subseteq TarballFiles /\ script.targets = <<c>>
           /\ \E v \in FindVersion(script.index, c, FirstTwoParts(tarballs[c])) :
                script.sources = Put(tarballs, c, v)
    BY <1>1, TarballsEnd, TarballWrite
  <2>2. PICK v \in FindVersion(script.index, c, FirstTwoParts(tarballs[c])) :
           tarballs' = Put(tarballs, c, v)
    BY <1>1, <2>1, TarballsEnd
  <2>3. t = c  BY <2>1 DEF Range
  <2>4. tarballs'[t] = v  BY <2>2, <2>3 DEF Put
  <2>5. /\ v \in Listed(script.index, c, tarballs[c])
        /\ \A w \in Listed(script.index, c, tarballs[c]) : ~Newer(w, v)
    <3>1. script.index \in SUBSET TarballFiles /\ tarballs[c] \in RocmVersion  BY <2>1
    <3> QED  BY <2>2, <3>1, FoundIsNewest
  <2> QED  BY <2>3, <2>4, <2>5
<1>2. StackInv /\ [Next]_vars =>
        [kind # None /\ Running("update-rocm", "pin") /\ exit' = "ok" =>
         \A t \in Range(script.targets) :
            /\ tarballs'[t] \in Listed(script.index, t, tarballs[t])
            /\ \A v \in Listed(script.index, t, tarballs[t]) : ~Newer(v, tarballs'[t])]_vars
  BY <1>1
<1> QED  BY <1>2, RefreshInvariance, PTL DEF Spec, RefreshTakesNewest
=============================================================================
