--------------------------- MODULE MCStreamClient ---------------------------
(***************************************************************************)
(* Instances of StreamClient for TLC.                                      *)
(***************************************************************************)
EXTENDS StreamClient

CONSTANT Case

Requested(n) == [case |-> Case, concurrency |-> n, skip |-> FALSE]
Skipped == [case |-> Case, concurrency |-> 2, skip |-> TRUE]
UpToThree == {Requested(n) : n \in 0..3} \cup {Skipped}
SomeEvents == {"usage", "oddUsage", "done", "error"}
=============================================================================
