---------------------------- MODULE Multikernel -----------------------------
(***************************************************************************)
(* modules/multikernel.nix: multikernelctl, the systemd units it starts    *)
(* and stops, and the state of the pool and the instances in the kernel,   *)
(* which kerf changes.  What is prepared is thus known twice, by systemd   *)
(* and by the kernel.  kerf and systemd are external, modelled by how the  *)
(* module uses them; a kerf command fails on a state it is not for, and    *)
(* may fail on any.  console and show change nothing.                      *)
(***************************************************************************)
EXTENDS Naturals, FiniteSets

CONSTANTS
    Instance,       \* the declarative instances
    StartAtBoot,    \* those with startAtBoot
    Ctl,            \* multikernelctl processes, one command each at a time
    None

ASSUME StartAtBootAssumption == StartAtBoot \subseteq Instance

VARIABLES
    pool,           \* whether the kernel has a pool
    status,         \* instance -> "absent" without a directory, or its status file
    poolUnit,       \* multikernel-pool.service, or the place in its script
    unit,           \* instance -> multikernel-instance-I.service, or the place in its script
    ctl             \* process -> [command, instance, at]

vars == <<pool, status, poolUnit, unit, ctl>>
units == <<poolUnit, unit>>
kernel == <<pool, status>>

Idle == [command |-> None, instance |-> None, at |-> "idle"]
Activating == {"pool", "create", "load", "check", "exec"}

\* Booted, with the units in multi-user.target queued: those of
\* prepareAtBoot and startAtBoot, and the pool if one of them or
\* pool.prepareAtBoot wants it.
Init ==
    /\ pool = FALSE /\ status = [i \in Instance |-> "absent"]
    /\ \E wanted \in SUBSET Instance :
         /\ StartAtBoot \subseteq wanted
         /\ unit = [i \in Instance |-> IF i \in wanted THEN "pool" ELSE "inactive"]
         /\ poolUnit \in IF wanted = {} THEN {"inactive", "init"} ELSE {"init"}
    /\ ctl = [c \in Ctl |-> Idle]

-----------------------------------------------------------------------------
(* kerf *)

Kerf(i, from, to) == status[i] = from /\ status' = [status EXCEPT ![i] = to] /\ UNCHANGED pool
KerfCreate(i) == pool /\ Kerf(i, "absent", "ready")
KerfLoad(i) == Kerf(i, "ready", "loaded")
KerfExec(i) == Kerf(i, "loaded", "active")
KerfKill(i) == Kerf(i, "active", "loaded")
KerfUnload(i) == Kerf(i, "loaded", "ready")
KerfDelete(i) == Kerf(i, "ready", "absent")
KerfInit == pool' = TRUE /\ UNCHANGED status
\* kerf init --cpus=none --memory=none
KerfInitNone ==
    /\ \A i \in Instance : status[i] = "absent"
    /\ pool' = FALSE /\ UNCHANGED status
KerfFails == UNCHANGED kernel

\* A panic returns an instance to `loaded'; one that wedges stays active.
Panic(i) == Kerf(i, "active", "loaded") /\ UNCHANGED <<units, ctl>>

-----------------------------------------------------------------------------
(* The units: oneshot, RemainAfterExit.  A failed one is as good as        *)
(* inactive: the next start runs its script again.                         *)

\* A client that waits for a start job hears of its end, and goes on if the
\* unit is active and it has more to do.
Waiting(c) == ctl[c].command \in {"prepare", "start"} /\ ctl[c].at = "wait"
Started(c, u) ==
    IF u[ctl[c].instance] = "active" /\ ctl[c].command = "start"
    THEN [ctl[c] EXCEPT !.at = "second"] ELSE Idle
JobsEnd(u) ==
    [c \in Ctl |-> IF Waiting(c) /\ u[ctl[c].instance] \notin Activating
                   THEN Started(c, u) ELSE ctl[c]]

\* The script of multikernel-pool.service: kerf init, then a test for the
\* kernel's directory of instances, which may miss it whatever kerf did.  When
\* one fails, so do the jobs that require the pool.
PoolFails ==
    /\ poolUnit' = "inactive" /\ UNCHANGED kernel
    /\ unit' = [i \in Instance |-> IF unit[i] = "pool" THEN "inactive" ELSE unit[i]]
    /\ ctl' = JobsEnd(unit')
InitPool ==
    /\ poolUnit = "init"
    /\ \/ KerfInit /\ poolUnit' = "test" /\ UNCHANGED <<unit, ctl>>
       \/ PoolFails
TestPool ==
    /\ poolUnit = "test"
    /\ \/ poolUnit' = "active" /\ UNCHANGED <<kernel, unit, ctl>>
       \/ PoolFails
PoolScript == InitPool \/ TestPool

\* One command of the script, under set -e: it goes on at `next' or fails.
Script(i, next) ==
    unit' = [unit EXCEPT ![i] = next] /\ ctl' = JobsEnd(unit') /\ UNCHANGED poolUnit

\* after and requires the pool.
BeginScript(i) ==
    unit[i] = "pool" /\ poolUnit = "active" /\ Script(i, "create") /\ UNCHANGED kernel

\* if [ ! -d "$instance_dir" ]; then kerf create
CreateInstance(i) ==
    /\ unit[i] = "create"
    /\ \/ status[i] # "absent" /\ Script(i, "load") /\ UNCHANGED kernel
       \/ status[i] = "absent" /\ KerfCreate(i) /\ Script(i, "load")
       \/ status[i] = "absent" /\ KerfFails /\ Script(i, "inactive")

\* case "$status": a ready instance is loaded, no directory is an error.
LoadInstance(i) ==
    /\ unit[i] = "load"
    /\ \/ KerfLoad(i) /\ Script(i, "check")
       \/ status[i] \in {"loaded", "active"} /\ Script(i, "check") /\ UNCHANGED kernel
       \/ status[i] \in {"absent", "ready"} /\ KerfFails /\ Script(i, "inactive")

\* startAtBoot: the status is read again, and without a directory is an error.
CheckAtBoot(i) ==
    /\ unit[i] = "check" /\ UNCHANGED kernel
    /\ \/ i \in StartAtBoot /\ status[i] = "absent" /\ Script(i, "inactive")
       \/ i \in StartAtBoot /\ status[i] = "loaded" /\ Script(i, "exec")
       \/ (i \in StartAtBoot => status[i] \in {"ready", "active"}) /\ Script(i, "active")

\* kerf exec, if it was loaded.
ExecAtBoot(i) ==
    /\ unit[i] = "exec"
    /\ \/ KerfExec(i) /\ Script(i, "active")
       \/ KerfFails /\ Script(i, "inactive")

UnitScript(i) ==
    \/ BeginScript(i) \/ CreateInstance(i) \/ LoadInstance(i)
    \/ CheckAtBoot(i) \/ ExecAtBoot(i)

-----------------------------------------------------------------------------
(* multikernelctl *)

\* "stop" also stands for force-stop, which only adds kerf's --force.
Commands == {"prepare", "start", "stop", "unload", "delete", "reset-pool"}
Goes(c, place) == ctl' = [ctl EXCEPT ![c].at = place]
Returns(c) == ctl' = [ctl EXCEPT ![c] = Idle]
At(c, commands, place) == ctl[c].command \in commands /\ ctl[c].at = place

Invoke(c) ==
    /\ ctl[c].at = "idle"
    /\ \E command \in Commands : \E i \in IF command = "reset-pool" THEN {None} ELSE Instance :
         ctl' = [ctl EXCEPT ![c] = [command |-> command, instance |-> i, at |-> "first"]]
    /\ UNCHANGED <<kernel, units>>

\* systemctl start: no job for a unit that is active, that of another client
\* while it is activating, and else one, with one for the pool it requires.
SystemctlStart(c) ==
    LET i == ctl[c].instance IN
    /\ At(c, {"prepare", "start"}, "first")
    /\ IF unit[i] = "active" THEN ctl' = [ctl EXCEPT ![c] = Started(c, unit)] ELSE Goes(c, "wait")
    /\ IF unit[i] = "inactive"
       THEN /\ unit' = [unit EXCEPT ![i] = "pool"]
            /\ poolUnit' = IF poolUnit = "inactive" THEN "init" ELSE poolUnit
       ELSE UNCHANGED units
    /\ UNCHANGED kernel

\* exec kerf exec, the second command of start.
ExecInstance(c) ==
    /\ At(c, {"start"}, "second")
    /\ KerfExec(ctl[c].instance) \/ KerfFails
    /\ Returns(c) /\ UNCHANGED units

\* kerf kill and kerf unload.
KillOrUnload(c) ==
    /\ At(c, {"stop", "unload"}, "first")
    /\ \/ IF ctl[c].command = "unload" THEN KerfUnload(ctl[c].instance)
          ELSE KerfKill(ctl[c].instance)
       \/ KerfFails
    /\ Returns(c) /\ UNCHANGED units

\* The first command of delete and of reset-pool, under set -e.
DeleteFirst(c) ==
    /\ At(c, {"delete", "reset-pool"}, "first")
    /\ \/ (IF ctl[c].command = "delete" THEN KerfDelete(ctl[c].instance) ELSE KerfInitNone)
          /\ Goes(c, "second")
       \/ KerfFails /\ Returns(c)
    /\ UNCHANGED units

\* Fault: without requires, the instances' units outlive the pool's.
StopPoolAlone(c) ==
    /\ At(c, {"delete", "reset-pool"}, "second")
    /\ IF ctl[c].command = "delete"
       THEN unit' = [unit EXCEPT ![ctl[c].instance] = "inactive"] /\ UNCHANGED poolUnit
       ELSE poolUnit' = "inactive" /\ UNCHANGED unit
    /\ ctl' = [JobsEnd(unit') EXCEPT ![c] = Idle]
    /\ UNCHANGED kernel
\* Fault: a client is not told that its job was cancelled.
SystemctlStopSilently(c) ==
    /\ At(c, {"delete", "reset-pool"}, "second")
    /\ IF ctl[c].command = "delete"
       THEN unit' = [unit EXCEPT ![ctl[c].instance] = "inactive"] /\ UNCHANGED poolUnit
       ELSE /\ poolUnit' = "inactive"
            /\ unit' = [i \in Instance |-> "inactive"]
    /\ Returns(c)
    /\ UNCHANGED kernel
\* systemctl stop: a running script is ended and its job cancelled, and what
\* requires the pool is stopped with it.
SystemctlStop(c) ==
    /\ At(c, {"delete", "reset-pool"}, "second")
    /\ IF ctl[c].command = "delete"
       THEN unit' = [unit EXCEPT ![ctl[c].instance] = "inactive"] /\ UNCHANGED poolUnit
       ELSE /\ poolUnit' = "inactive"
            /\ unit' = [i \in Instance |-> "inactive"]
    /\ ctl' = [JobsEnd(unit') EXCEPT ![c] = Idle]
    /\ UNCHANGED kernel

\* The client is killed between two of its commands or while it waits; what
\* it started runs on.  A teardown cut in two is remembered.
Interrupt(c) ==
    /\ \/ At(c, {"delete", "reset-pool"}, "second") /\ Goes(c, "killed")
       \/ (Waiting(c) \/ At(c, {"start"}, "second")) /\ Returns(c)
    /\ UNCHANGED <<kernel, units>>

CtlStep(c) ==
    \/ SystemctlStart(c) \/ ExecInstance(c) \/ KillOrUnload(c)
    \/ DeleteFirst(c) \/ SystemctlStop(c)

Next ==
    \/ PoolScript \/ \E i \in Instance : UnitScript(i) \/ Panic(i)
    \/ \E c \in Ctl : Invoke(c) \/ CtlStep(c) \/ Interrupt(c)
Spec == Init /\ [][Next]_vars
\* systemd runs its jobs, and a command runs to its end.
FairSpec ==
    /\ Spec /\ WF_vars(PoolScript)
    /\ \A i \in Instance : WF_vars(UnitScript(i))
    /\ \A c \in Ctl : WF_vars(CtlStep(c))
-----------------------------------------------------------------------------
\* Only prepare has a single command that is waited for.
CtlType ==
    {r \in [command : Commands \cup {None}, instance : Instance \cup {None},
           at : {"idle", "first", "wait", "second", "killed"}] :
        r.at \in {"second", "killed"} => r.command # "prepare"}

\* Type invariant.
MultikernelTypeOK ==
    /\ pool \in BOOLEAN /\ status \in [Instance -> {"absent", "ready", "loaded", "active"}]
    /\ poolUnit \in {"inactive", "init", "test", "active"}
    /\ unit \in [Instance -> {"inactive", "active"} \cup Activating]
    /\ ctl \in [Ctl -> CtlType]

\* Between the two commands of a teardown, at this moment or for ever.
TearingDown(c, command) == At(c, {command}, "second") \/ At(c, {command}, "killed")
Deleting(i) == \E c \in Ctl : TearingDown(c, "delete") /\ ctl[c].instance = i
Resetting == \E c \in Ctl : TearingDown(c, "reset-pool")

\* What systemd takes for prepared is there, so that the next prepare does
\* not pass over what is missing; only a teardown between its two commands,
\* or killed there, leaves a unit active without its pool or instance.
UnitsMatchKernel ==
    /\ \A i \in Instance : unit[i] = "active" =>
         /\ poolUnit = "active"
         /\ status[i] = "absent" => Deleting(i)
    /\ poolUnit = "active" /\ ~pool => Resetting

\* Every command returns: no client waits for a job that is gone.
CommandsReturn == \A c \in Ctl : ctl[c].at = "wait" ~> ctl[c].at # "wait"
=============================================================================
