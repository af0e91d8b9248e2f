------------------------------ MODULE Exporter ------------------------------
(***************************************************************************)
(* amd-npu-exporter and amdgpu-smu-exporter as the services run them, with *)
(* --output: each interval one snapshot of the device is written to a      *)
(* temporary file and renamed over the file that node_exporter reads.      *)
(* `exporter' says which of the two this is; they differ in the order of   *)
(* reading and opening and in what they do without a device.  Metrics are  *)
(* one reading.  No fprintf is checked: a text longer than stdio's buffer  *)
(* is written in several parts, and the loss of all but the last is seen   *)
(* by nobody.  --watch, which only prints, is left out.                    *)
(***************************************************************************)
EXTENDS Naturals

CONSTANTS
    None, Partial, Torn,
    Spilling,       \* the exporters whose text exceeds stdio's buffer
    Readings,       \* what a device that answers may report
    MaxFiles,       \* descriptors left by RLIMIT_NOFILE
    StartLimit,     \* starts that systemd allows in ten seconds
    MaxFailures,    \* bound: snapshots that cannot be written
    MaxKills        \* bound: deaths of the process

SnapshotType == [up : {0, 1}, identity : {None, "known", "unknown"}, reading : {None} \cup Readings]

\* None is no reading.  Partial is a file that has not been flushed, Torn one that
\* has been and lacks a part; neither is a whole snapshot.
ASSUME ExporterAssumption ==
    /\ {Partial, Torn} \cap SnapshotType = {} /\ Partial # Torn
    /\ Spilling \subseteq {"npu", "smu"}
    /\ MaxFiles \in Nat \ {0, 1} /\ StartLimit \in Nat \ {0} /\ {MaxFailures, MaxKills} \subseteq Nat
    /\ None \notin {Partial, Torn} /\ {None, Partial, "silent"} \cap Readings = {}

VARIABLES
    exporter,       \* "npu" or "smu"
    device,         \* None without one, "silent" when it answers no query, or a reading
    disk,           \* whether there is space for the output
    at, running,    \* where the process is, and its flag `running'
    files,          \* streams it holds open
    identity,       \* the NPU's, None until `identified'
    snapshot,       \* what it has formatted: [up, identity, reading]
    temporary,      \* the temporary file: None, Partial, Torn or a snapshot
    published,      \* the file at --output: the same
    starts,         \* starts of the service that systemd still counts
    failures, kills

process == <<at, running, files, identity, snapshot, temporary>>
vars == <<exporter, device, disk, process, published, starts, failures, kills>>

Snapshot(up, reading) == [up |-> up, identity |-> identity, reading |-> reading]
Over == {"exited", "dead", "failed"}
\* Where the process is when it has formatted the whole text.
Formatted == IF exporter \in Spilling THEN "spill" ELSE "flush"

\* A new process, which knows nothing of the one before.
Fresh(place) ==
    /\ at' = place /\ running' = TRUE /\ files' = 0 /\ identity' = None
    /\ snapshot' = None /\ temporary' = None

Init ==
    /\ exporter \in {"npu", "smu"} /\ device \in {None, "silent"} \cup Readings /\ disk = TRUE
    /\ at = "start" /\ running = TRUE /\ files = 0 /\ identity = None
    /\ snapshot = None /\ temporary = None /\ published = None
    /\ starts = 1 /\ failures = 0 /\ kills = 0

\* main as far as the loop: the smu exporter needs a card to be there.
Start ==
    /\ at = "start"
    /\ at' = IF exporter = "smu" /\ device = None THEN "dead" ELSE "loop"
    /\ UNCHANGED <<running, files, identity, snapshot, temporary, published, starts, failures>>

\* Fault: the flag is tested before each sleep only.
LoopForEver ==
    /\ at = "loop" /\ at' = "snapshot"
    /\ UNCHANGED <<running, files, identity, snapshot, temporary, published, starts, failures>>
\* while (running)
Loop ==
    /\ at = "loop" /\ at' = IF running THEN "snapshot" ELSE "exited"
    /\ UNCHANGED <<running, files, identity, snapshot, temporary, published, starts, failures>>

\* read_metrics and the checks of the table: without one nothing is written.
ReadMetrics ==
    /\ at = "snapshot" /\ exporter = "smu"
    /\ IF device \in Readings /\ files < MaxFiles
       THEN at' = "open" /\ snapshot' = Snapshot(1, device)
       ELSE at' = "sleep" /\ UNCHANGED snapshot
    /\ UNCHANGED <<running, files, identity, temporary, published, starts, failures>>

\* fopen(temporary_path, "w")
OpenTemporary ==
    /\ at = IF exporter = "npu" THEN "snapshot" ELSE "open"
    /\ \/ /\ files < MaxFiles /\ files' = files + 1 /\ temporary' = Partial
          /\ at' = IF exporter = "npu" THEN "device" ELSE Formatted
       \/ /\ files = MaxFiles \/ ~disk
          /\ at' = "sleep" /\ UNCHANGED <<files, temporary>>
    /\ UNCHANGED <<running, identity, snapshot, published, starts, failures>>

\* Fault: no device is an error, as in the smu exporter.
OpenDeviceOrFail ==
    /\ at = "device"
    /\ IF device = None \/ files = MaxFiles
       THEN at' = "sleep" /\ files' = files - 1 /\ temporary' = None
       ELSE at' = "identity" /\ UNCHANGED <<files, temporary>>
    /\ UNCHANGED <<running, identity, snapshot, published, starts, failures>>
\* open(device_path): emit_down when it fails, for whatever reason.
OpenDevice ==
    /\ at = "device"
    /\ IF device = None \/ files = MaxFiles
       THEN at' = "flush" /\ snapshot' = [up |-> 0, identity |-> None, reading |-> None]
       ELSE at' = "identity" /\ UNCHANGED snapshot
    /\ UNCHANGED <<running, files, identity, temporary, published, starts, failures>>

\* read_identity, once: what a query that fails leaves is kept too.
ReadIdentity ==
    /\ at = "identity" /\ at' = "emit"
    /\ identity' = IF identity # None THEN identity
                   ELSE IF device \in Readings THEN "known" ELSE "unknown"
    /\ UNCHANGED <<running, files, snapshot, temporary, published, starts, failures>>

\* The rest of emit_all: metrics whose query fails are absent.
EmitAll ==
    /\ at = "emit" /\ at' = Formatted
    /\ snapshot' = Snapshot(1, IF device \in Readings THEN device ELSE None)
    /\ UNCHANGED <<running, files, identity, temporary, published, starts, failures>>

\* The parts of a long text that the fprintf calls wrote: without space one of
\* them is lost, and the next ones may find space again.
Spill ==
    /\ at = "spill" /\ at' = "flush"
    /\ temporary' = temporary \/ (~disk /\ temporary' = Torn)
    /\ UNCHANGED <<running, files, identity, snapshot, published, starts, failures>>

\* What a flush that succeeds makes of the temporary file.
Flushed == IF temporary = Torn THEN Torn ELSE snapshot

\* Fault: the status of fflush and fsync is not looked at.
FlushUnchecked ==
    /\ at = "flush" /\ at' = "rename" /\ files' = files - 1
    /\ temporary' = IF disk THEN Flushed ELSE Partial
    /\ UNCHANGED <<running, identity, snapshot, published, starts, failures>>
\* Fault: no fclose at all.
FlushLeaking ==
    /\ at = "flush"
    /\ \/ at' = "rename" /\ temporary' = Flushed /\ UNCHANGED failures
       \/ /\ ~disk /\ failures < MaxFailures /\ failures' = failures + 1
          /\ at' = "sleep" /\ temporary' = None
    /\ UNCHANGED <<running, files, identity, snapshot, published, starts>>
\* fflush, fsync and fclose; when one of the first two fails the file is
\* unlinked and the stream stays open.
Flush ==
    /\ at = "flush"
    /\ \/ at' = "rename" /\ files' = files - 1 /\ temporary' = Flushed /\ UNCHANGED failures
       \/ /\ ~disk /\ failures < MaxFailures /\ failures' = failures + 1
          /\ at' = "sleep" /\ temporary' = None /\ files' \in {files - 1, files}
    /\ UNCHANGED <<running, identity, snapshot, published, starts>>

\* Fault: the descriptor closed a second time.
RenameClosing ==
    /\ at = "rename" /\ at' = "sleep" /\ temporary' = None
    /\ published' = temporary \/ (~disk /\ UNCHANGED published)
    /\ files' = files - 1
    /\ UNCHANGED <<running, identity, snapshot, starts, failures>>
\* rename(temporary_path, output_path), or unlink when it fails.
Rename ==
    /\ at = "rename" /\ at' = "sleep" /\ temporary' = None
    /\ published' = temporary \/ (~disk /\ UNCHANGED published)
    /\ UNCHANGED <<running, files, identity, snapshot, starts, failures>>

\* nanosleep ends, at the end of the interval or by the signal; the start of the
\* service may be long enough ago by now.
Wake ==
    /\ at = "sleep" /\ at' = "loop" /\ starts' \in 0..starts
    /\ UNCHANGED <<running, files, identity, snapshot, temporary, published, failures>>

\* stop_running, between any two steps.
StopRunning ==
    /\ at \notin Over \cup {"start"} /\ running' = FALSE
    /\ UNCHANGED <<at, files, identity, snapshot, temporary, published, starts, failures>>

\* The process is killed, after any time, and systemd starts another
\* (Restart=on-failure) as long as it counts fewer starts than the limit.
Kill ==
    /\ at \notin Over /\ kills < MaxKills /\ kills' = kills + 1 /\ Fresh("dead")
    /\ starts' \in 0..starts
    /\ UNCHANGED <<exporter, device, disk, published, failures>>
Restart ==
    /\ at = "dead" /\ starts < StartLimit /\ starts' = starts + 1 /\ Fresh("start")
    /\ UNCHANGED <<published, failures>>
\* The start limit: the unit fails, and nothing starts it any more.
GiveUp ==
    /\ at = "dead" /\ starts = StartLimit /\ at' = "failed"
    /\ UNCHANGED <<running, files, identity, snapshot, temporary, published, starts, failures>>

\* Drivers are loaded and unloaded, the disk fills and is cleared.
Environment ==
    /\ \/ device' \in {None, "silent"} \cup Readings /\ UNCHANGED disk
       \/ disk' = ~disk /\ UNCHANGED device
    /\ UNCHANGED <<exporter, process, published, starts, failures, kills>>

Step ==
    \/ Start \/ Loop \/ ReadMetrics \/ OpenTemporary \/ OpenDevice \/ ReadIdentity \/ EmitAll
    \/ Spill \/ Flush \/ Rename \/ Wake \/ Restart \/ GiveUp
Next ==
    \/ (Step \/ StopRunning) /\ UNCHANGED <<exporter, device, disk, kills>>
    \/ Kill \/ Environment

Spec == Init /\ [][Next]_vars
\* The process runs, its sleep ends, and systemd restarts it up to its limit.
FairSpec == Spec /\ WF_vars(Step /\ UNCHANGED <<exporter, device, disk, kills>>)
-----------------------------------------------------------------------------
\* Type invariant.
ExporterTypeOK ==
    /\ exporter \in {"npu", "smu"} /\ device \in {None, "silent"} \cup Readings
    /\ at \in {"start", "loop", "snapshot", "open", "device", "identity", "emit", "spill",
               "flush", "rename", "sleep"} \cup Over
    /\ disk \in BOOLEAN /\ running \in BOOLEAN /\ files \in 0..MaxFiles
    /\ identity \in {None, "known", "unknown"} /\ snapshot \in {None} \cup SnapshotType
    /\ {temporary, published} \subseteq {None, Partial, Torn} \cup SnapshotType
    /\ starts \in 0..StartLimit /\ failures \in 0..MaxFailures /\ kills \in 0..MaxKills

\* Whatever fails and whenever the process dies, node_exporter never reads a
\* file that was not flushed; and a flushed one lacks a part only where the text
\* exceeds stdio's buffer.
PublishedIsWhole == published # Partial /\ (published = Torn => exporter \in Spilling)

\* "We still publish amd_npu_up 0 so the down state is visible rather than a
\* silent gap": a device that stays away is shown as down, unless systemd has
\* given the service up.
DownIsVisible ==
    <>[](exporter = "npu" /\ device = None /\ disk /\ running /\ at # "failed")
        => <>[](published = [up |-> 0, identity |-> None, reading |-> None])

\* A device that stays and answers is shown with what it reports, whatever
\* the exporter met before, unless systemd has given the service up.
ReadingIsPublished ==
    \A r \in Readings : <>[](device = r /\ disk /\ running /\ at # "failed")
        => <>[](published \in [up : {1}, identity : {None, "known", "unknown"}, reading : {r}])

\* A signal at any point, also just before the sleep, ends the process.
StopIsHeeded == ~running ~> at \in Over
=============================================================================
