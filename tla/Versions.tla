------------------------------ MODULE Versions ------------------------------
(***************************************************************************)
(* The version strings of src/pkgs/therock/scripts.  A version is split as *)
(* `version_key' splits it: the numbers of its release, and the words and  *)
(* numbers of what follows.  A word is <<0, rank>> with its place in the   *)
(* alphabet, a number is <<1, value>>; separators are gone, as they are    *)
(* from the key.  "10.1rc2" is Pre(<<10, 1>>, <<Word("rc"), Num(2)>>).     *)
(***************************************************************************)
EXTENDS Integers, Sequences, SequencesExt

Version == [release : Seq(Nat), suffix : Seq({0, 1} \X Nat)]

Final(release) == [release |-> release, suffix |-> <<>>]
Pre(release, suffix) == [release |-> release, suffix |-> suffix]

\* The order of Python's tuples.
TupleLess(Less(_, _), a, b) ==
    \/ IsStrictPrefix(a, b)
    \/ \E i \in DOMAIN a \cap DOMAIN b :
        SubSeq(a, 1, i - 1) = SubSeq(b, 1, i - 1) /\ Less(a[i], b[i])

NumberLess(a, b) == a < b
TokenLess(a, b) == a[1] < b[1] \/ (a[1] = b[1] /\ a[2] < b[2])

\* Fault: without int(not suffix) a final release sorts before its prereleases.
KeyLessFinalFirst(v, w) ==
    \/ TupleLess(NumberLess, v.release, w.release)
    \/ v.release = w.release /\ TupleLess(TokenLess, v.suffix, w.suffix)
\* version_key(v) < version_key(w)
KeyLess(v, w) ==
    \/ TupleLess(NumberLess, v.release, w.release)
    \/ /\ v.release = w.release
       /\ \/ v.suffix # <<>> /\ w.suffix = <<>>
          \/ (v.suffix = <<>>) = (w.suffix = <<>>) /\ TupleLess(TokenLess, v.suffix, w.suffix)

\* sorted(S, key=version_key)[-1], several when keys are equal: the strings
\* come out of a set, in no order.
Latest(S) == {v \in S : \A w \in S : ~KeyLess(v, w)}

-----------------------------------------------------------------------------
\* in_rocm_series: the release begins with the numbers of the series, which
\* has nothing else.
InRocmSeries(v, series) == series.suffix = <<>> /\ IsPrefix(series.release, v.release)

\* Fault: the series as a prefix of the text, in which 10.1 begins 10.10.
InSeriesAsText(v, series) ==
    \/ IsPrefix(series.release, v.release)
    \/ /\ Len(v.release) >= Len(series.release)
       /\ v.release[Len(series.release)] = 10 * Last(series.release)
\* The pattern ^series(?!\d) of find_version; a series may have a suffix.
InSeries(v, series) ==
    IF series.suffix = <<>>
    THEN IsPrefix(series.release, v.release)
    ELSE series.release = v.release /\ IsPrefix(series.suffix, v.suffix)

\* ".".join(version.split(".")[:2]).  No suffix here contains a dot.
FirstTwoParts(v) ==
    IF Len(v.release) > 2 THEN Final(SubSeq(v.release, 1, 2)) ELSE v

\* What the pattern (\d+\.\d+)\. finds at the start of a version.
HasMajorMinor(v) == Len(v.release) > 2
MajorMinor(v) == Final(SubSeq(v.release, 1, 2))
=============================================================================
