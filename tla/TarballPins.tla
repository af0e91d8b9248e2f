---------------------------- MODULE TarballPins -----------------------------
(***************************************************************************)
(* update-rocm.py: the pins of the ROCm tarballs in sources/rocm.json.     *)
(* The release server may list other files at every request.               *)
(***************************************************************************)
EXTENDS Updater

CONSTANTS
    TargetSlugs,       \* TARGET_SLUGS: the targets the server calls otherwise
    TarballFiles       \* [slug, version] of every file the server may list

VARIABLE tarballs      \* rocm.json: target -> version, or Torn

TargetSlug(target) ==
    IF target \in DOMAIN TargetSlugs THEN TargetSlugs[target] ELSE target

\* The series a pin may supply.  Which entry is the first of the file is open.
PinnedTarballSeries ==
    IF tarballs = Torn THEN {}
    ELSE {MajorMinor(v) : v \in {w \in Range(tarballs) : HasMajorMinor(w)}}

\* update-rocm.py --target T... [--series S] [--version V]; None where not given.
StartTarballs(args) ==
    LET given == args.series # None \/ args.version # None IN
    \/ \E series \in IF given THEN {args.series} ELSE PinnedTarballSeries :
        Launch([name |-> "update-rocm", at |-> "index", targets |-> args.targets,
                left |-> args.targets, series |-> series, version |-> args.version,
                index |-> {}, sources |-> None])
    \/ ~given /\ PinnedTarballSeries = {} /\ script = NoScript /\ Ends("usage")

\* fetch_index, unless a version is named; then the file as it stands.
FetchTarballIndex ==
    /\ Running("update-rocm", "index")
    /\ \/ script.version = None /\ NetworkFails
       \/ tarballs = Torn /\ Ends("unreadable")
       \/ /\ tarballs # Torn
          /\ \E index \in IF script.version = None THEN SUBSET TarballFiles ELSE {{}} :
               Proceeds([script EXCEPT !.at = "pin", !.index = index, !.sources = tarballs])
    /\ UNCHANGED tarballs

\* Fault: the series compared as text.
FindVersionByText(index, target, series) ==
    Latest({f.version : f \in {g \in index : g.slug = TargetSlug(target)
                                          /\ InSeriesAsText(g.version, series)}})
\* find_version: the versions it may return, none when it raises.
FindVersion(index, target, series) ==
    Latest({f.version : f \in {g \in index : g.slug = TargetSlug(target)
                                          /\ (series # None => InSeries(g.version, series))}})

\* One target of the loop: its version, the prefetch of its file, its entry.
PinTarball ==
    /\ Running("update-rocm", "pin") /\ script.left # <<>>
    /\ LET target == Head(script.left)
           found == IF script.version # None THEN {script.version}
                    ELSE FindVersion(script.index, target, script.series)
       IN \/ found = {} /\ Ends("noVersion")
          \/ found # {} /\ NetworkFails
          \/ \E v \in found : Proceeds([script EXCEPT !.left = Tail(@),
                                                      !.sources = Put(@, target, v)])
    /\ UNCHANGED tarballs

WriteTarballs ==
    /\ Running("update-rocm", "pin") /\ script.left = <<>>
    /\ Writes(tarballs, script.sources, Ends("ok"))

UpdateTarballs == FetchTarballIndex \/ PinTarball \/ WriteTarballs
=============================================================================
