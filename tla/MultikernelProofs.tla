------------------------- MODULE MultikernelProofs --------------------------
(***************************************************************************)
(* For every number of instances and of multikernelctl processes, systemd  *)
(* takes nothing for prepared that is not there, but for a teardown that   *)
(* is under way or was cut in two.                                         *)
(***************************************************************************)
EXTENDS Multikernel, TLAPS

\* An instance that is loaded, as its unit has it, is missing only in a
\* teardown; before that the script itself looks.
InstanceKnown ==
    \A i \in Instance : unit[i] \in {"check", "exec", "active"} /\ status[i] = "absent" =>
        Deleting(i)
\* A script only runs under an active pool unit, or waits for it.
PoolFirst ==
    \A i \in Instance :
        /\ unit[i] \in {"create", "load", "check", "exec", "active"} => poolUnit = "active"
        /\ unit[i] = "pool" => poolUnit \in {"init", "test", "active"}
\* kerf init has made the pool, which only a reset takes away.
PoolKnown == poolUnit \in {"test", "active"} /\ ~pool => Resetting

IInv == MultikernelTypeOK /\ InstanceKnown /\ PoolFirst /\ PoolKnown
-----------------------------------------------------------------------------
\* The end of start jobs concerns no teardown, and is one of the places.
LEMMA JobsEndKeep ==
    ASSUME MultikernelTypeOK, NEW u
    PROVE  /\ JobsEnd(u) \in [Ctl -> CtlType]
           /\ \A c \in Ctl : ctl[c].command \in {"delete", "reset-pool"} => JobsEnd(u)[c] = ctl[c]
BY DEF CtlType, MultikernelTypeOK, JobsEnd, Started, Waiting, Idle, Commands

\* A teardown goes on while its client's record stays.
TeardownsStay ==
    (\A i : Deleting(i) => Deleting(i)') /\ (Resetting => Resetting')
LEMMA RecordsStay ==
    ASSUME \A c \in Ctl : \A command \in {"delete", "reset-pool"} : TearingDown(c, command) =>
               TearingDown(c, command)' /\ ctl'[c].instance = ctl[c].instance
    PROVE  TeardownsStay
BY DEF TeardownsStay, Deleting, Resetting

\* The units as they are when the machine has booted.
LEMMA InitInv == Init => IInv
<1> SUFFICES ASSUME Init PROVE IInv  OBVIOUS
<1>1. PICK wanted \in SUBSET Instance :
        /\ unit = [i \in Instance |-> IF i \in wanted THEN "pool" ELSE "inactive"]
        /\ poolUnit \in IF wanted = {} THEN {"inactive", "init"} ELSE {"init"}
  BY DEF Init
<1>2. poolUnit \in {"inactive", "init"} /\ (wanted # {} => poolUnit = "init")  BY <1>1
<1>3. MultikernelTypeOK  BY <1>1, <1>2 DEF CtlType, Init, MultikernelTypeOK, Activating, Idle
<1>4. InstanceKnown /\ PoolFirst /\ PoolKnown
  BY <1>1, <1>2 DEF InstanceKnown, PoolFirst, PoolKnown
<1> QED  BY <1>3, <1>4 DEF IInv

\* The script of the pool.
LEMMA PoolScriptInv ==
    ASSUME IInv, PoolScript
    PROVE  IInv'
<1>1. MultikernelTypeOK'
  <2>1. UNCHANGED status /\ pool' \in BOOLEAN /\ poolUnit' \in {"test", "active", "inactive"}
    BY DEF IInv, MultikernelTypeOK, PoolScript, InitPool, TestPool, PoolFails, KerfInit, kernel
  <2>2. unit' \in [Instance -> {"inactive", "active"} \cup Activating]
    BY DEF IInv, MultikernelTypeOK, PoolScript, InitPool, TestPool, PoolFails
  <2>3. ctl' = ctl \/ ctl' = JobsEnd(unit')
    BY DEF PoolScript, InitPool, TestPool, PoolFails
  <2> QED  BY <2>1, <2>2, <2>3, JobsEndKeep DEF IInv, MultikernelTypeOK
<1>2. TeardownsStay
  BY JobsEndKeep, RecordsStay
  DEF IInv, PoolScript, InitPool, TestPool, PoolFails, TearingDown, At
<1>3. InstanceKnown'
  BY <1>2
  DEF TeardownsStay, IInv, InstanceKnown, PoolScript, InitPool, TestPool, PoolFails, KerfInit,
      kernel, MultikernelTypeOK
<1>4. PoolFirst'
  BY DEF IInv, PoolFirst, PoolScript, InitPool, TestPool, PoolFails, MultikernelTypeOK
<1>5. PoolKnown'
  BY <1>2
  DEF TeardownsStay, IInv, PoolKnown, PoolScript, InitPool, TestPool, PoolFails, KerfInit, kernel
<1> QED  BY <1>1, <1>3, <1>4, <1>5 DEF IInv

\* The script of an instance.
LEMMA UnitScriptInv ==
    ASSUME IInv, NEW i \in Instance, UnitScript(i)
    PROVE  IInv'
<1> DEFINE places == {"create", "load", "check", "exec", "active", "inactive"}
<1>1. PICK next \in places : Script(i, next)
  BY DEF UnitScript, BeginScript, CreateInstance, LoadInstance, CheckAtBoot, ExecAtBoot
<1>2. /\ pool' = pool /\ poolUnit' = poolUnit
      /\ status' \in [Instance -> {"absent", "ready", "loaded", "active"}]
      /\ \A j \in Instance : status'[j] = "absent" => status[j] = "absent"
  BY <1>1 DEF UnitScript, BeginScript, CreateInstance, LoadInstance, CheckAtBoot, ExecAtBoot, Script,
     KerfCreate, KerfLoad, KerfExec, Kerf, KerfFails, kernel, IInv, MultikernelTypeOK
<1>3. unit[i] \in Activating /\ (next # "inactive" => poolUnit = "active")
  BY <1>1 DEF UnitScript, BeginScript, CreateInstance, LoadInstance, CheckAtBoot, ExecAtBoot, Script,
     IInv, PoolFirst, Activating, MultikernelTypeOK
<1>4. /\ next \in {"check", "exec", "active"} /\ status'[i] = "absent"
      => unit[i] \in {"check", "exec"}
  BY <1>1, <1>2 DEF UnitScript, BeginScript, CreateInstance, LoadInstance, CheckAtBoot, ExecAtBoot, Script,
     KerfLoad, Kerf, KerfFails, kernel, IInv, MultikernelTypeOK
<1>5. ctl' = JobsEnd(unit') /\ unit' = [unit EXCEPT ![i] = next]  BY <1>1 DEF Script
<1>6. MultikernelTypeOK'
  BY <1>2, <1>5, JobsEndKeep DEF IInv, MultikernelTypeOK, Activating
<1>7. TeardownsStay  BY <1>5, JobsEndKeep, RecordsStay DEF IInv, TearingDown, At
<1>8. InstanceKnown'
  BY <1>2, <1>4, <1>5, <1>7 DEF TeardownsStay, IInv, InstanceKnown, MultikernelTypeOK
<1>9. PoolFirst' /\ PoolKnown'
  BY <1>2, <1>3, <1>5, <1>7 DEF TeardownsStay, IInv, PoolFirst, PoolKnown, MultikernelTypeOK
<1> QED  BY <1>6, <1>8, <1>9 DEF IInv

\* A panic.
LEMMA PanicInv ==
    ASSUME IInv, NEW i \in Instance, Panic(i)
    PROVE  IInv'
BY DEF Panic, Kerf, IInv, MultikernelTypeOK, InstanceKnown, PoolFirst, PoolKnown, Deleting, Resetting,
   TearingDown, At, units

\* The steps of a client that tear nothing down.
LEMMA ClientInv ==
    ASSUME IInv, NEW c \in Ctl,
           \/ Invoke(c) \/ SystemctlStart(c) \/ ExecInstance(c) \/ KillOrUnload(c) \/ Interrupt(c)
    PROVE  IInv'
<1>1. /\ pool' = pool
      /\ status' \in [Instance -> {"absent", "ready", "loaded", "active"}]
      /\ \A j \in Instance : status'[j] = "absent" => status[j] = "absent"
  BY DEF Invoke, SystemctlStart, ExecInstance, KillOrUnload, Interrupt, kernel,
     KerfExec, KerfKill, KerfUnload, Kerf, KerfFails, IInv, MultikernelTypeOK
<1>2. /\ \A d \in Ctl \ {c} : ctl'[d] = ctl[d]
      /\ ctl' \in [Ctl -> CtlType]
  BY DEF CtlType, Invoke, SystemctlStart, ExecInstance, KillOrUnload, Interrupt, Goes, Returns, Started,
     IInv, MultikernelTypeOK, Idle, Commands, At
<1>3. TeardownsStay
  <2>1. \A command \in {"delete", "reset-pool"} : TearingDown(c, command) =>
            TearingDown(c, command)' /\ ctl'[c].instance = ctl[c].instance
    BY DEF CtlType, Invoke, SystemctlStart, ExecInstance, KillOrUnload, Interrupt, Goes, Waiting,
       TearingDown, At, IInv, MultikernelTypeOK
  <2> QED  BY <1>2, <2>1, RecordsStay DEF TearingDown, At
<1>4. CASE SystemctlStart(c)
  <2> DEFINE i == ctl[c].instance
  <2>1. CASE unit[i] = "inactive"
    <3>1. /\ unit' = [unit EXCEPT ![i] = "pool"] /\ UNCHANGED kernel
          /\ poolUnit' = IF poolUnit = "inactive" THEN "init" ELSE poolUnit
      BY <1>4, <2>1 DEF SystemctlStart
    <3>2. MultikernelTypeOK'  BY <1>1, <1>2, <3>1 DEF IInv, MultikernelTypeOK, Activating
    <3>3. InstanceKnown'  BY <1>3, <3>1 DEF TeardownsStay, IInv, InstanceKnown, kernel, MultikernelTypeOK
    <3>4. PoolFirst'  BY <3>1 DEF IInv, PoolFirst, MultikernelTypeOK
    <3>5. PoolKnown'  BY <1>3, <3>1 DEF TeardownsStay, IInv, PoolKnown, kernel
    <3> QED  BY <3>2, <3>3, <3>4, <3>5 DEF IInv
  <2>2. CASE unit[i] # "inactive"
    BY <1>1, <1>2, <1>3, <1>4, <2>2 DEF TeardownsStay, SystemctlStart, units, IInv, MultikernelTypeOK,
       InstanceKnown, PoolFirst, PoolKnown
  <2> QED  BY <2>1, <2>2
<1>5. CASE Invoke(c) \/ ExecInstance(c) \/ KillOrUnload(c) \/ Interrupt(c)
  <2>1. UNCHANGED units  BY <1>5 DEF Invoke, ExecInstance, KillOrUnload, Interrupt
  <2> QED  BY <1>1, <1>2, <1>3, <2>1 DEF TeardownsStay, units, IInv, MultikernelTypeOK,
       InstanceKnown, PoolFirst, PoolKnown
<1> QED  BY <1>4, <1>5

\* kerf delete or kerf init --cpus=none: the client is then tearing down.
LEMMA DeleteFirstInv ==
    ASSUME IInv, NEW c \in Ctl, DeleteFirst(c)
    PROVE  IInv'
<1> DEFINE i == ctl[c].instance
<1>1. TeardownsStay
  BY RecordsStay DEF DeleteFirst, Returns, Goes, TearingDown, At, IInv, MultikernelTypeOK
<1>2. ctl' \in [Ctl -> CtlType]
  BY DEF CtlType, DeleteFirst, At, Returns, Goes, Idle, IInv, MultikernelTypeOK
<1>3. UNCHANGED units  BY DEF DeleteFirst
<1>4. CASE KerfFails
  BY <1>1, <1>2, <1>3, <1>4 DEF TeardownsStay, KerfFails, kernel, units,
     IInv, MultikernelTypeOK, InstanceKnown, PoolFirst, PoolKnown
<1>5. CASE KerfDelete(i) /\ Goes(c, "second") /\ ctl[c].command = "delete"
  <2>1. TearingDown(c, "delete")' /\ ctl'[c].instance = i
    BY <1>5 DEF Goes, TearingDown, At, IInv, MultikernelTypeOK
  <2>2. MultikernelTypeOK'
    BY <1>2, <1>3, <1>5 DEF KerfDelete, Kerf, units, IInv, MultikernelTypeOK
  <2>3. InstanceKnown'
    <3> SUFFICES ASSUME NEW j \in Instance, unit'[j] \in {"check", "exec", "active"}, status'[j] = "absent"
                 PROVE  Deleting(j)'
      BY DEF InstanceKnown
    <3>1. CASE j = i  BY <2>1, <3>1 DEF Deleting
    <3>2. CASE j # i
      <4>1. unit[j] = unit'[j] /\ status[j] = status'[j]
        BY <1>3, <1>5, <3>2 DEF KerfDelete, Kerf, units, IInv, MultikernelTypeOK
      <4>2. Deleting(j)  BY <4>1 DEF IInv, InstanceKnown
      <4> QED  BY <1>1, <4>2 DEF TeardownsStay
    <3> QED  BY <3>1, <3>2
  <2>4. PoolFirst' /\ PoolKnown'
    BY <1>1, <1>3, <1>5 DEF TeardownsStay, KerfDelete, Kerf, units, IInv, PoolFirst, PoolKnown
  <2> QED  BY <2>2, <2>3, <2>4 DEF IInv
<1>6. CASE KerfInitNone /\ Goes(c, "second") /\ ctl[c].command = "reset-pool"
  <2>1. Resetting'
    BY <1>6 DEF Goes, Resetting, TearingDown, At, IInv, MultikernelTypeOK
  <2> QED
    BY <1>1, <1>2, <1>3, <1>6, <2>1 DEF TeardownsStay, KerfInitNone, units,
       IInv, MultikernelTypeOK, InstanceKnown, PoolFirst, PoolKnown
<1> QED  BY <1>4, <1>5, <1>6 DEF DeleteFirst, At

\* systemctl stop, which ends the teardown and the units with it.
LEMMA SystemctlStopInv ==
    ASSUME IInv, NEW c \in Ctl, SystemctlStop(c)
    PROVE  IInv'
<1> DEFINE i == ctl[c].instance
<1>1. /\ ctl' = [JobsEnd(unit') EXCEPT ![c] = Idle] /\ UNCHANGED kernel
      /\ ctl[c].command \in {"delete", "reset-pool"}
  BY DEF SystemctlStop, At
<1>2. ctl' \in [Ctl -> CtlType]
  BY <1>1, JobsEndKeep DEF CtlType, IInv, Idle
<1>3. \A d \in Ctl \ {c} : ctl[d].command \in {"delete", "reset-pool"} => ctl'[d] = ctl[d]
  BY <1>1, JobsEndKeep DEF IInv
<1>4. CASE ctl[c].command = "delete"
  <2>1. unit' = [unit EXCEPT ![i] = "inactive"] /\ UNCHANGED poolUnit
    BY <1>4 DEF SystemctlStop
  <2>2. /\ \A j : Deleting(j) /\ j # i => Deleting(j)'
        /\ Resetting => Resetting'
    BY <1>3, <1>4 DEF Deleting, Resetting, TearingDown, At
  <2>3. MultikernelTypeOK'  BY <1>1, <1>2, <2>1 DEF IInv, MultikernelTypeOK, kernel
  <2>4. InstanceKnown'
    <3> SUFFICES ASSUME NEW j \in Instance, unit'[j] \in {"check", "exec", "active"}, status'[j] = "absent"
                 PROVE  Deleting(j)'
      BY DEF InstanceKnown
    <3>1. j # i /\ unit[j] = unit'[j]  BY <2>1 DEF IInv, MultikernelTypeOK
    <3>2. status[j] = "absent"  BY <1>1 DEF kernel
    <3>3. Deleting(j)  BY <3>1, <3>2 DEF IInv, InstanceKnown
    <3> QED  BY <2>2, <3>1, <3>3
  <2>5. PoolFirst'  BY <2>1 DEF IInv, PoolFirst, MultikernelTypeOK
  <2>6. PoolKnown'  BY <1>1, <2>1, <2>2 DEF IInv, PoolKnown, kernel
  <2> QED  BY <2>3, <2>4, <2>5, <2>6 DEF IInv
<1>5. CASE ctl[c].command = "reset-pool"
  <2>1. /\ poolUnit' = "inactive"
        /\ unit' = [j \in Instance |-> "inactive"]
    BY <1>5 DEF SystemctlStop
  <2> QED  BY <1>1, <1>2, <2>1 DEF IInv, MultikernelTypeOK, InstanceKnown, PoolFirst, PoolKnown, kernel
<1> QED  BY <1>1, <1>4, <1>5

\* Every step of the system, and a stutter.
LEMMA NextInv == IInv /\ [Next]_vars => IInv'
<1> SUFFICES ASSUME IInv, [Next]_vars PROVE IInv'  OBVIOUS
<1>1. CASE UNCHANGED vars
  BY <1>1 DEF vars, IInv, MultikernelTypeOK, InstanceKnown, PoolFirst, PoolKnown,
     Deleting, Resetting, TearingDown, At
<1>2. CASE Next
  BY <1>2, PoolScriptInv, UnitScriptInv, PanicInv, ClientInv, DeleteFirstInv, SystemctlStopInv
  DEF Next, CtlStep
<1> QED  BY <1>1, <1>2
-----------------------------------------------------------------------------
(* Theorems. *)

\* Every variable keeps its type, and the invariant holds of every execution.
THEOREM MultikernelTypeCorrect == Spec => []MultikernelTypeOK
<1>1. IInv => MultikernelTypeOK  BY DEF IInv
<1> QED  BY <1>1, InitInv, NextInv, PTL DEF Spec

\* A unit is active without its pool or its instance only in a teardown that
\* is under way or was killed between its two commands.
THEOREM UnitsAgreeWithKernel == Spec => []UnitsMatchKernel
<1>1. IInv => UnitsMatchKernel
  BY DEF IInv, InstanceKnown, PoolFirst, PoolKnown, UnitsMatchKernel
<1> QED  BY <1>1, InitInv, NextInv, PTL DEF Spec
=============================================================================
