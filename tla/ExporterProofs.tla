--------------------------- MODULE ExporterProofs ---------------------------
(***************************************************************************)
(* For every set of readings, every number of descriptors and every point  *)
(* at which the disk fills, a device goes or the process dies: the two     *)
(* exporters keep their types and never publish a file that was not        *)
(* flushed, nor, without a text longer than stdio's buffer, one that lacks *)
(* a part.                                                                 *)
(***************************************************************************)
EXTENDS Exporter, TLAPS

\* Between fopen and fclose the process holds at least the temporary file.
Writing == {"device", "identity", "emit", "spill", "flush"}

\* What is renamed over the output has been flushed, and nothing has touched it
\* since: it is a whole snapshot, unless a part of a long text was lost before.
WholeWhenRenamed ==
    /\ at \in {"open", "spill", "flush"} => snapshot \in SnapshotType
    /\ at = "rename" => temporary \in {Torn} \cup SnapshotType
    /\ at = "spill" \/ temporary = Torn => exporter \in Spilling
    /\ at \in Writing => files \in 1..MaxFiles

IInv == ExporterTypeOK /\ WholeWhenRenamed /\ PublishedIsWhole
-----------------------------------------------------------------------------
LEMMA InitInv ==
    ASSUME Init
    PROVE  IInv
BY ExporterAssumption
   DEF Init, IInv, ExporterTypeOK, WholeWhenRenamed, PublishedIsWhole, Writing, Over

\* The steps of the process leave what is around it alone.
LEMMA StepInv ==
    ASSUME IInv, Step \/ StopRunning, UNCHANGED <<exporter, device, disk, kills>>
    PROVE  IInv'
<1> USE ExporterAssumption
    DEF IInv, ExporterTypeOK, WholeWhenRenamed, PublishedIsWhole, Writing, Over, Formatted
<1>1. CASE Start  BY <1>1 DEF Start
<1>2. CASE Loop  BY <1>2 DEF Loop
<1>3. CASE ReadMetrics
  <2>1. device \in Readings => Snapshot(1, device) \in SnapshotType
    BY DEF Snapshot, SnapshotType
  <2> QED  BY <1>3, <2>1 DEF ReadMetrics
<1>4. CASE OpenTemporary
  <2>1. files < MaxFiles => files + 1 \in 1..MaxFiles  OBVIOUS
  <2> QED  BY <1>4, <2>1 DEF OpenTemporary
<1>5. CASE OpenDevice
  <2>1. [up |-> 0, identity |-> None, reading |-> None] \in SnapshotType  BY DEF SnapshotType
  <2> QED  BY <1>5, <2>1 DEF OpenDevice
<1>6. CASE ReadIdentity  BY <1>6 DEF ReadIdentity
<1>7. CASE EmitAll
  <2>1. snapshot' \in SnapshotType  BY <1>7 DEF EmitAll, Snapshot, SnapshotType
  <2> QED  BY <1>7, <2>1 DEF EmitAll
<1>8. CASE Flush
  <2>1. files - 1 \in 0..MaxFiles /\ files \in 0..MaxFiles  BY <1>8 DEF Flush
  <2> QED  BY <1>8, <2>1 DEF Flush, Flushed
<1>9. CASE Rename
  <2>1. /\ published' # Partial /\ published' \in {None, Partial, Torn} \cup SnapshotType
        /\ published' = Torn => exporter \in Spilling
    BY <1>9 DEF Rename
  <2> QED  BY <1>9, <2>1 DEF Rename
<1>10. CASE Wake
  <2>1. 0..starts \subseteq 0..StartLimit  OBVIOUS
  <2> QED  BY <1>10, <2>1 DEF Wake
<1>11. CASE Restart
  <2>1. starts < StartLimit => starts + 1 \in 0..StartLimit  OBVIOUS
  <2> QED  BY <1>11, <2>1 DEF Restart, Fresh
<1>12. CASE StopRunning
  <2>1. running' \in BOOLEAN  BY <1>12 DEF StopRunning
  <2>2. UNCHANGED <<at, files, identity, snapshot, temporary, published, starts, failures>>
    BY <1>12 DEF StopRunning
  <2> QED  BY <2>1, <2>2
<1>13. CASE Spill  BY <1>13 DEF Spill
<1>14. CASE GiveUp  BY <1>14 DEF GiveUp
<1> QED
  BY <1>1, <1>2, <1>3, <1>4, <1>5, <1>6, <1>7, <1>8, <1>9, <1>10, <1>11, <1>12, <1>13, <1>14 DEF Step

\* A kill at any point leaves at --output what was there.
LEMMA KillInv ==
    ASSUME IInv, Kill
    PROVE  IInv'
<1>1. 0..starts \subseteq 0..StartLimit  BY ExporterAssumption DEF IInv, ExporterTypeOK
<1> QED
  BY <1>1, ExporterAssumption
     DEF Kill, Fresh, IInv, ExporterTypeOK, WholeWhenRenamed, PublishedIsWhole, Writing, Over

\* So does everything that happens to the device and the disk.
LEMMA EnvironmentInv ==
    ASSUME IInv, Environment
    PROVE  IInv'
<1>1. device' \in {None, "silent"} \cup Readings /\ disk' \in BOOLEAN
  BY DEF Environment, IInv, ExporterTypeOK
<1>2. UNCHANGED <<exporter, at, running, files, identity, snapshot, temporary, published, starts,
                  failures, kills>>
  BY DEF Environment, process
<1> QED
  BY <1>1, <1>2 DEF IInv, ExporterTypeOK, WholeWhenRenamed, PublishedIsWhole, Writing, Over

LEMMA Inductive == Spec => []IInv
<1>1. Init => IInv  BY InitInv
<1>2. IInv /\ [Next]_vars => IInv'
  <2> SUFFICES ASSUME IInv, [Next]_vars PROVE IInv'  OBVIOUS
  <2>1. CASE (Step \/ StopRunning) /\ UNCHANGED <<exporter, device, disk, kills>>
    BY <2>1, StepInv
  <2>2. CASE Kill  BY <2>2, KillInv
  <2>3. CASE Environment  BY <2>3, EnvironmentInv
  <2>4. CASE UNCHANGED vars
    BY <2>4 DEF vars, process, IInv, ExporterTypeOK, WholeWhenRenamed, PublishedIsWhole
  <2> QED  BY <2>1, <2>2, <2>3, <2>4 DEF Next
<1> QED  BY <1>1, <1>2, PTL DEF Spec

\* Both exporters keep the types of their variables; in particular they never
\* close more streams than they hold, and never hold more than the limit.
THEOREM ExporterTypeCorrect == Spec => []ExporterTypeOK
BY Inductive, PTL DEF IInv

\* Whatever fails and whenever the process dies, node_exporter never reads a
\* file that was not flushed (fflush, fsync and the rename); and one that lacks a
\* part only from an exporter whose text exceeds stdio's buffer, whose fprintf
\* calls nobody checks.
THEOREM NeverPublishesAPart == Spec => []PublishedIsWhole
BY Inductive, PTL DEF IInv

\* An exporter whose text stays in stdio's buffer publishes whole snapshots only.
THEOREM ShortTextsArePublishedWhole ==
    Spec => [](exporter \notin Spilling => published \in {None} \cup SnapshotType)
<1>1. ASSUME IInv, exporter \notin Spilling PROVE published \in {None} \cup SnapshotType
  BY <1>1 DEF IInv, ExporterTypeOK, PublishedIsWhole
<1> QED  BY <1>1, Inductive, PTL
=============================================================================
