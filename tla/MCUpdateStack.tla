--------------------------- MODULE MCUpdateStack ----------------------------
(***************************************************************************)
(* Two targets on two release trains, an index that may have moved at      *)
(* every request, and three states of TheRock's branches.                  *)
(***************************************************************************)
EXTENDS UpdateStack

CONSTANTS strix, navi, vega, cp312, cp313

V(major, minor, patch) == Final(<<major, minor, patch>>)
Rc(major, minor, patch, n) == Pre(<<major, minor, patch>>, <<<<0, 18>>, <<1, n>>>>)
Series(major, minor) == Final(<<major, minor>>)

MCFlakeTargets == {strix, navi}
MCTargetSlugs == navi :> "gfx103X-all"
MCTarballFiles ==
    {[slug |-> strix, version |-> v] :
        v \in {Rc(10, 1, 2, 1), Rc(10, 1, 2, 2), V(10, 1, 2), V(10, 10, 0)}}
    \cup {[slug |-> "gfx103X-all", version |-> v] : v \in {V(10, 0, 9), V(10, 0, 10)}}

-----------------------------------------------------------------------------
Link(project, ext, public, local, python, platform) ==
    [project |-> project, ext |-> ext, public |-> public, local |-> local,
     python |-> python, abi |-> python, platform |-> platform]
\* A wheel of torch 2.n for a ROCm version.
Torch(project, n, rocm) ==
    Link(project, "whl", Final(<<2, n, 0>>), rocm, cp313, "linux_x86_64")
MCTorchFamily == strix :> "gfx115x" @@ navi :> None
MCDefaultSeries == Series(10, 0)
MCWheelPages ==
    LET page(project) ==
        CASE project.of = "rocm" ->
                {{Link(project, "tar.gz", V(10, 0, 0), None, cp313, None),
                  Link(project, "tar.gz", V(10, 0, 1), None, cp313, None)}}
          [] project.of = "rocm-bootstrap" ->
                {{Link(project, "whl", Final(<<0, 3, 0>>), None, "py3", "any"),
                  Link(Frame("rocm"), "whl", Final(<<0, 4, 0>>), None, "py3", "any")}}
          [] project.of = "rocm-sdk" ->
                {{Link(project, "whl", v, None, "py3", "linux_x86_64") : v \in S} :
                    S \in {{V(10, 0, 0)}, {V(10, 0, 0), V(10, 0, 1), V(10, 1, 0)}}}
          [] project.of = "torch" ->
                {{Torch(project, 13, V(10, 0, 0)), Torch(project, 14, V(10, 0, 0))},
                 {Torch(project, 13, V(10, 0, 0)), Torch(project, 14, V(10, 0, 1))},
                 {Torch(project, 13, V(10, 0, 0)),
                  [Torch(project, 13, V(10, 0, 1)) EXCEPT !.platform = "win_amd64"],
                  [Torch(project, 14, V(10, 0, 1)) EXCEPT !.python = cp312, !.abi = cp312]}}
          [] project.of = "torchvision" ->
                {{Torch(project, 28, V(10, 0, 0)), Torch(project, 28, V(10, 0, 1)),
                  [Torch(project, 28, V(10, 0, 1)) EXCEPT !.python = cp312, !.abi = cp312]}}
    IN [project \in UNION {DefaultPackages(t) : t \in {strix, navi}} |-> page(project)]

-----------------------------------------------------------------------------
Section(name, path, url) == [name |-> name, stem |-> name, path |-> path, url |-> url]
Leaf == [modules |-> {}, links |-> <<>>, enabled |-> <<>>, cmake |-> <<>>, spirv |-> None, esmi |-> None]

Timemory == <<"projects", "timemory">>
Gotcha == <<"external", "gotcha">>
Root(systems, translator, statements) ==
    [Leaf EXCEPT
        !.modules = {Section(SystemsPath, SystemsPath, "systems"),
                     Section(<<"translator">>, SpirvPath, "translator"),
                     [Section(<<"half-1.0">>, <<"half">>, "half") EXCEPT !.stem = <<"half-1">>]},
        !.links = SystemsPath :> systems @@ SpirvPath :> translator @@ <<"half">> :> "half1",
        !.enabled = <<SystemsPath, SpirvPath>>,
        !.cmake = statements]
Systems(timemory, esmi) ==
    [Leaf EXCEPT
        !.modules = {Section(<<"timemory">>, Timemory, "timemory"),
                     Section(<<"fmt">>, <<"lib", "fmt">>, "fmt")},
        !.links = Timemory :> timemory @@ <<"lib", "fmt">> :> "fmt1",
        !.esmi = esmi]

Url(name) == [is |-> "url", value |-> [name |-> name, https |-> TRUE]]
Hash(of) == [is |-> "hash", value |-> of]
MCRepository ==
    "root1" :> Root("systems1", "translator1", <<<<Url("zlib"), Hash("zlib")>>>>) @@
    "root2" :> Root("systems2", "translator2",
                    <<<<Url("zlib"), Hash("zlib")>>, <<Url("zstd"), Hash("zstd"), Hash("other")>>>>) @@
    "root3" :> [Root("systems2", "translator2", <<>>) EXCEPT !.enabled = <<SpirvPath>>] @@
    "systems1" :> Systems("timemory1", "esmi1") @@
    "systems2" :> Systems("timemory1", "v2") @@
    "translator1" :> [Leaf EXCEPT !.spirv = "headers1"] @@
    "translator2" :> [Leaf EXCEPT !.spirv = "headers2"] @@
    "timemory1" :> [Leaf EXCEPT !.modules = {Section(Gotcha, Gotcha, "gotcha")},
                                !.links = Gotcha :> "gotcha1"] @@
    [rev \in {"fmt1", "gotcha1", "half1"} |-> Leaf]

MCHeads == Series(10, 0) :> {"root1", "root2"} @@ Series(10, 1) :> {"root3"}
MCEsmiTags == "v2" :> {"esmi1", "esmi2"}

Policy == [nested |-> <<[parent |-> SystemsPath, selector |-> <<"fmt">>],
                        [parent |-> <<"translator">>, selector |-> <<"none">>]>>,
           deep |-> <<[parent |-> SystemsPath, selector |-> Timemory],
                      [parent |-> SystemsPath \o Timemory, selector |-> Gotcha]>>]
MCDefaultPolicy == [nested |-> <<>>, deep |-> <<>>]

SourcePin(rev) ==
    strix :> [ref |-> Series(10, 0), version |-> V(10, 0, 0), rev |-> rev,
              policy |-> [Policy EXCEPT !.nested = <<@[1]>>]]
MCCheckedIn ==
    {[tarballs |-> strix :> V(10, 1, 0) @@ navi :> V(10, 0, 9),
      wheels |-> strix :> [series |-> Series(10, 0), rocm |-> V(10, 0, 0), tag |-> cp313,
                           packages |-> <<>>],
      sourcePins |-> SourcePin("root1")],
     [tarballs |-> strix :> Rc(10, 1, 2, 1), wheels |-> <<>>, sourcePins |-> SourcePin(None)]}
Wheels(target, rocm, named) ==
    Call("update-python-wheels",
         [target |-> target, tag |-> None, series |-> None, rocm |-> rocm, named |-> named])
MCByHand ==
    {Call("update-rocm", [targets |-> <<strix, navi>>, series |-> None, version |-> None]),
     Call("update-rocm", [targets |-> <<vega>>, series |-> None, version |-> V(10, 0, 10)]),
     Wheels(strix, None, Frame("torch") :> Final(<<2, 13, 0>>)),
     Wheels(strix, V(10, 0, 1), <<>>), Wheels(navi, None, <<>>),
     [Wheels(navi, V(10, 0, 1), <<>>) EXCEPT !.args.tag = cp312],
     Call("update-rocm-source", [target |-> strix, series |-> Series(10, 1), rev |-> None]),
     Call("update-rocm-source", [target |-> strix, series |-> Series(10, 2), rev |-> None]),
     Call("update-rocm-source", [target |-> navi, series |-> None, rev |-> "root2"]),
     Call("update-source-tree", [target |-> strix]), Call("update-source-tree", [target |-> navi]),
     Call("nix flake lock", [target |-> strix])}
=============================================================================
