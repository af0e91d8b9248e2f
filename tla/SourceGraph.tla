---------------------------- MODULE SourceGraph -----------------------------
(***************************************************************************)
(* build_graph of update-source-tree.py: the submodules that TheRock's     *)
(* fetch policy selects, each at the revision its parent's tree records,   *)
(* and the source tree that pkgs/therock/default.nix stages from them.  A  *)
(* path is the sequence of its segments, and so is a submodule's name.     *)
(* A repository at a revision is a record                                  *)
(*   modules : the sections of .gitmodules, [name, stem, path, url] with   *)
(*             `stem' the name as far as its first dot                     *)
(*   links   : the gitlinks of its tree, path -> revision                  *)
(*   enabled : the paths fetch_sources.py enables, in its order            *)
(* A policy names nested and deep submodules as sequences of               *)
(* [parent, selector].  A graph is path -> [url, rev], or Unresolved when  *)
(* the script raises.                                                      *)
(***************************************************************************)
EXTENDS Integers, Sequences, SequencesExt, Functions, TLC

CONSTANTS
    Repository,       \* revision -> repository
    Unresolved

\* What git keeps: a link is no directory, so none lies inside another.
Path == Seq(STRING) \ {<<>>}
ASSUME RepositoryAssumption ==
    \A rev \in DOMAIN Repository :
        LET links == Repository[rev].links  enabled == Repository[rev].enabled IN
        /\ \A path \in DOMAIN links : path \in Path /\ links[path] \in DOMAIN Repository
        /\ \A p, q \in DOMAIN links : ~IsStrictPrefix(p, q)
        /\ enabled \in Seq(Range(enabled))

\* submodules: a section whose stem has no section, hence no url, is dropped.
Submodules(rev) ==
    LET sections == Repository[rev].modules IN
    {[name |-> s[1].stem, path |-> s[1].path, url |-> s[2].url] :
        s \in {t \in sections \X sections : t[1].stem = t[2].name}}

\* by_name and by_path hold one section per key.
ASSUME SectionsDistinct ==
    \A rev \in DOMAIN Repository : \A m, n \in Submodules(rev) :
        (m.name = n.name \/ m.path = n.path) => m = n

\* resolve_submodule: the section a selector means, none when it raises.
Resolve(rev, selector, preferName) ==
    LET named == {m \in Submodules(rev) : m.name = selector}
        placed == {m \in Submodules(rev) : m.path = selector}
    IN IF named # {} /\ (preferName \/ placed = {}) THEN named ELSE placed

\* add_entry of what `rev' links at `at': the first entry of a path stays.
AddEntry(graph, path, url, rev, at) ==
    IF at \notin DOMAIN Repository[rev].links THEN Unresolved
    ELSE [p \in {path} \cup DOMAIN graph |->
             IF p \in DOMAIN graph THEN graph[p]
             ELSE [url |-> url, rev |-> Repository[rev].links[at]]]

\* A turn of the loop over enabled_root_paths.
AddEnabled(root, graph, path) ==
    LET metas == Resolve(root, path, FALSE) IN
    IF graph = Unresolved \/ metas = {} THEN Unresolved
    ELSE AddEntry(graph, path, (CHOOSE m \in metas : TRUE).url, root, path)

\* Fault: the entry placed by its selector, which may be a name.
AddBelowAsSelected(graph, parent, selector, preferName) ==
    LET metas == Resolve(graph[parent].rev, selector, preferName)
        meta == CHOOSE m \in metas : TRUE
    IN IF metas = {} THEN Unresolved
       ELSE AddEntry(graph, parent \o selector, meta.url, graph[parent].rev, meta.path)
\* A submodule of the entry at `parent'.
AddBelow(graph, parent, selector, preferName) ==
    LET metas == Resolve(graph[parent].rev, selector, preferName)
        meta == CHOOSE m \in metas : TRUE
    IN IF metas = {} THEN Unresolved
       ELSE AddEntry(graph, parent \o meta.path, meta.url, graph[parent].rev, meta.path)

\* Of the loop over nested_specs: a parent that is not enabled is passed over.
AddNested(root, graph, spec) ==
    LET metas == Resolve(root, spec.parent, TRUE)
        parent == (CHOOSE m \in metas : TRUE).path
    IN IF graph = Unresolved \/ metas = {} THEN Unresolved
       ELSE IF parent \notin DOMAIN graph THEN graph
       ELSE AddBelow(graph, parent, spec.selector, TRUE)

\* Of the loop over deepNestedSubmodules: there it is an error.
AddDeep(graph, spec) ==
    IF graph = Unresolved \/ spec.parent \notin DOMAIN graph THEN Unresolved
    ELSE AddBelow(graph, spec.parent, spec.selector, FALSE)

\* The two loops that know the root, and then the third.
EnableAll(root, graph, paths) == FoldLeft(LAMBDA g, path : AddEnabled(root, g, path), graph, paths)
NestAll(root, graph, specs) == FoldLeft(LAMBDA g, spec : AddNested(root, g, spec), graph, specs)
BuildGraph(root, policy) ==
    FoldLeft(AddDeep,
             NestAll(root, EnableAll(root, <<>>, Repository[root].enabled), policy.nested),
             policy.deep)

\* Fault: the deepest first.
InReverseOrder(paths) ==
    {order \in SetToSeqs(paths) :
        \A i, j \in DOMAIN order : i < j => Len(order[i]) >= Len(order[j])}
\* sorted(entries, key=depth): the orders it may give, since that of paths of
\* one depth, the text's, is left open.
InTreeOrder(paths) ==
    {order \in SetToSeqs(paths) :
        \A i, j \in DOMAIN order : i < j => Len(order[i]) <= Len(order[j])}

\* install_source of default.nix: rm -rf the destination, then copy.
InstallSource(staged, entry) ==
    LET kept == {p \in DOMAIN staged : ~IsPrefix(entry.path, p)} IN
    [p \in {entry.path} \cup kept |-> IF p \in kept THEN staged[p] ELSE entry.rev]
Stage(root, entries) == FoldLeft(InstallSource, [p \in {<<>>} |-> root], entries)

-----------------------------------------------------------------------------
\* What git records at `path': the link in the tree of the innermost
\* enclosing repository of the graph.
Enclosing(graph, path) ==
    CHOOSE q \in {<<>>} \cup DOMAIN graph :
        /\ IsStrictPrefix(q, path)
        /\ \A r \in DOMAIN graph : IsStrictPrefix(r, path) => Len(r) <= Len(q)
IsGitsOwn(root, graph) ==
    \A path \in DOMAIN graph :
        LET q == Enclosing(graph, path)
            rev == IF q = <<>> THEN root ELSE graph[q].rev
            rest == SubSeq(path, Len(q) + 1, Len(path))
        IN rest \in DOMAIN Repository[rev].links /\ Repository[rev].links[rest] = graph[path].rev
=============================================================================
