-------------------------- MODULE TransportMatrix --------------------------
(***************************************************************************)
(* src/lib/bench/vllm-transport-matrix.sh: a plan of benchmark cases,      *)
(* sorted so that the cases of one server follow each other, a vLLM server *)
(* started for each (transport, model) and one StreamClient process per    *)
(* case, until the plan ends, a client fails or a signal comes; then the   *)
(* script may be run again with RESUME.  The client's variables are this   *)
(* module's, and its steps are StreamClient's.  A comment "Fault:" marks   *)
(* an operator that is what the one below it would be with a bug in it.    *)
(***************************************************************************)
EXTENDS Integers, Sequences, FiniteSets, FiniteSetsExt

CONSTANTS
    TRANSPORTS,      \* sequence of transport names; "solo" needs no peer
    MODELS,          \* sequence of models
    CONCURRENCIES,   \* set of numbers of concurrent requests
    SAMPLE_CASES,    \* how many cases to draw, 0 for all
    RESUME,          \* whether a later invocation skips what is done
    MaxInvocations,  \* bound on the runs of the script over one CSV file
    Events, MaxEvents, None   \* StreamClient's

Killed == -1   \* the exit status of a script that a signal killed

ASSUME MatrixAssumption ==
    /\ {TRANSPORTS, MODELS} \subseteq Seq(STRING)
    /\ None \notin {Killed, 0, 1, 2, 130, 143}
    /\ SAMPLE_CASES \in Nat /\ RESUME \in BOOLEAN /\ MaxInvocations \in Nat \ {0}
    /\ IsFiniteSet(CONCURRENCIES) /\ CONCURRENCIES \subseteq Nat

VARIABLES
    phase,        \* where the script is
    planFile,     \* PLAN_FILE, the sorted cases of this invocation
    line,         \* the line of planFile the loop is at
    lastKey,      \* last_key
    startFailed,  \* start_failed_reason is not empty
    servers,      \* the vLLM processes of this invocation, in starting order
    pid,          \* VLLM_PID: an index of servers, 0 for empty
    stray,        \* a server of an earlier invocation is still alive
    ready,        \* the server had started when wait_ready last returned
    signalled,    \* a SIGTERM or SIGINT is pending or was obeyed
    code,         \* exit status of the script, None while it runs
    invocation,   \* how often the script has been started
    args, main, task, rows, exit, csv    \* the client (StreamClient)

Cases == [transport : {TRANSPORTS[i] : i \in DOMAIN TRANSPORTS},
          model : {MODELS[i] : i \in DOMAIN MODELS}, concurrency : CONCURRENCIES]
Command(case, skip) == [case |-> case, concurrency |-> case.concurrency, skip |-> skip]
Invocations == {Command(case, skip) : case \in Cases, skip \in BOOLEAN}

Client == INSTANCE StreamClient

streamVars == <<args, main, task, rows, exit, csv>>
planVars == <<planFile, line>>
serverVars == <<servers, pid, stray>>
vars == <<phase, planVars, lastKey, startFailed, serverVars, ready, signalled, code,
          invocation, streamVars>>

Init ==
    /\ phase = "plan"
    /\ planFile = <<>> /\ line = 1
    /\ lastKey = None /\ startFailed = FALSE
    /\ servers = <<>> /\ pid = 0 /\ stray = FALSE /\ ready = FALSE
    /\ signalled = FALSE /\ code = None /\ invocation = 1
    /\ args = None /\ main = "absent" /\ task = <<>> /\ rows = {} /\ exit = None
    /\ csv = <<>>

-----------------------------------------------------------------------------
(* make_plan *)

\* Fault: a skipped case is planned again.
DoneWhenOk == {"ok"}
DoneStatuses == {"ok", "skipped"}
Done == IF RESUME THEN {csv[k].case : k \in {l \in DOMAIN csv : csv[l].status \in DoneStatuses}}
                  ELSE {}

\* Every subset the seeded generator may draw.
Samples(cases) ==
    IF 0 < SAMPLE_CASES /\ SAMPLE_CASES < Cardinality(cases)
    THEN kSubset(SAMPLE_CASES, cases) ELSE {cases}

Position(seq, x) == CHOOSE i \in DOMAIN seq : seq[i] = x
\* Fault: the plan is sorted by concurrency first.
RankByLoad(c) ==
    <<c.concurrency, Position(TRANSPORTS, c.transport), Position(MODELS, c.model)>>
\* The sort key (transport_order, model_order, concurrency).
Rank(c) ==
    <<Position(TRANSPORTS, c.transport), Position(MODELS, c.model), c.concurrency>>
Before(a, b) == \E i \in 1..3 :
    Rank(a)[i] < Rank(b)[i] /\ \A j \in 1..(i - 1) : Rank(a)[j] = Rank(b)[j]
\* The orders list.sort may leave the cases in: one, as no two have the same key.
Sorted(cases) ==
    {plan \in [1..Cardinality(cases) -> cases] :
        \A i, j \in 1..Cardinality(cases) : i < j => Before(plan[i], plan[j])}

MakePlan ==
    /\ phase = "plan" /\ ~signalled
    /\ \E cases \in Samples(Cases \ Done) : planFile' \in Sorted(cases)
    /\ phase' = "loop"
    /\ UNCHANGED <<line, lastKey, startFailed, serverVars, ready, signalled, code, invocation,
                   streamVars>>

-----------------------------------------------------------------------------
(* stop_server, cleanup and start_server *)

\* Fault: VLLM_PID is forgotten without a kill.
ForgetThen(waiting, gone) == phase' = gone /\ pid' = 0 /\ UNCHANGED servers
\* stop_server: with a VLLM_PID it kills, and waits at `waiting' for as long as
\* the process takes; without one there is nothing to do.
StopThen(waiting, gone) ==
    IF pid = 0 THEN phase' = gone /\ UNCHANGED <<servers, pid>>
    ELSE /\ phase' = waiting
         /\ servers' = [servers EXCEPT ![pid].held = "told"]
         /\ UNCHANGED pid
\* `wait' returns when the process is gone.
Awaited(gone) ==
    /\ ~servers[pid].alive
    /\ phase' = gone /\ pid' = 0 /\ UNCHANGED servers

\* Fault: no trap on EXIT.
ExitsUntrapped(status) == phase' = "exited" /\ code' = status /\ UNCHANGED <<servers, pid>>
\* Fault: cleanup passes on the client's status instead of its own.
ExitsAsClient(status) == phase' = "cleanup" /\ code' = exit /\ UNCHANGED <<servers, pid>>
\* Every way out runs `cleanup', which resets the traps and keeps the status.
Exits(status) == phase' = "cleanup" /\ code' = status /\ UNCHANGED <<servers, pid>>

CleanUp ==
    /\ phase = "cleanup"
    /\ StopThen("reap", "exited")
    /\ UNCHANGED <<planVars, lastKey, startFailed, stray, ready, signalled, code, invocation,
                   streamVars>>

Reaped ==
    /\ phase = "reap"
    /\ Awaited("exited")
    /\ UNCHANGED <<planVars, lastKey, startFailed, stray, ready, signalled, code, invocation,
                   streamVars>>

Key(case) == <<case.transport, case.model>>
Case == planFile[line]
AtCase == phase = "loop" /\ ~signalled /\ line <= Len(planFile)

\* start_server begins with stop_server, and so does the end of the plan.
StopServer ==
    /\ phase = "loop" /\ ~signalled
    /\ \/ line <= Len(planFile) /\ Key(Case) # lastKey /\ startFailed' = FALSE
       \/ line > Len(planFile) /\ UNCHANGED startFailed
    /\ StopThen("stop", "stopped")
    /\ UNCHANGED <<planVars, lastKey, stray, ready, signalled, code, invocation, streamVars>>

Reap ==
    /\ phase = "stop" /\ ~signalled
    /\ Awaited("stopped")
    /\ UNCHANGED <<planVars, lastKey, startFailed, stray, ready, signalled, code, invocation,
                   streamVars>>

\* start_server finds that the transport has no peer (return 10); the loop
\* notes the reason, and its own stop_server has no VLLM_PID.
RefuseStart ==
    /\ phase = "stopped" /\ ~signalled /\ line <= Len(planFile) /\ Case.transport # "solo"
    /\ phase' = "loop" /\ lastKey' = Key(Case) /\ startFailed' = TRUE
    /\ UNCHANGED <<planVars, serverVars, ready, signalled, code, invocation, streamVars>>

\* `vllm serve ... &': the server runs, and VLLM_PID is still empty.
Fork ==
    /\ phase = "stopped" /\ ~signalled /\ line <= Len(planFile)
    /\ phase' = "forked"
    /\ servers' = Append(servers, [key |-> Key(Case), alive |-> TRUE, started |-> FALSE,
                                   held |-> "unnoted"])
    /\ UNCHANGED <<planVars, lastKey, startFailed, pid, stray, ready, signalled, code,
                   invocation, streamVars>>

\* VLLM_PID=$!
NotePid ==
    /\ phase = "forked" /\ ~signalled
    /\ phase' = "boot"
    /\ pid' = Len(servers) /\ servers' = [servers EXCEPT ![Len(servers)].held = "noted"]
    /\ UNCHANGED <<planVars, lastKey, startFailed, stray, ready, signalled, code, invocation,
                   streamVars>>

BootEnds ==
    /\ ready' = servers[pid].started
    /\ phase' = "loop" /\ lastKey' = Key(Case)
    /\ UNCHANGED <<planVars, startFailed, serverVars, signalled, code, invocation, streamVars>>
\* Fault: no STARTUP_TIMEOUT_S.
WaitReadyForever ==
    /\ phase = "boot" /\ ~signalled
    /\ servers[pid].started \/ ~servers[pid].alive
    /\ BootEnds
\* The log says the startup is complete, or the process is gone, or the time is
\* up.  `if ! start_server' suspends errexit, so that wait_ready's answer is
\* dropped and start_server returns what its last command, `... || true', does.
WaitReady == phase = "boot" /\ ~signalled /\ BootEnds

-----------------------------------------------------------------------------
(* The loop over the plan *)

RunClient(skip) ==
    /\ Client!Exec(Command(Case, skip))
    /\ phase' = "client"
    /\ UNCHANGED <<planVars, lastKey, startFailed, serverVars, ready, signalled, code,
                   invocation>>

SkipCase == AtCase /\ Key(Case) = lastKey /\ startFailed /\ RunClient(TRUE)
RunCase == AtCase /\ Key(Case) = lastKey /\ ~startFailed /\ RunClient(FALSE)

\* resolve_usb4_hca finds no common device, and errexit ends the script.
ResolveFails ==
    /\ AtCase /\ Key(Case) = lastKey /\ ~startFailed /\ Case.transport = "usb4_rdma"
    /\ Exits(1)
    /\ UNCHANGED <<planVars, lastKey, startFailed, stray, ready, signalled, invocation,
                   streamVars>>

NextLine == phase' = "loop" /\ line' = line + 1 /\ UNCHANGED <<servers, pid, code>>
\* Fault: the client is run as `run_case ... || true'.
ClientReturnsAnyway ==
    /\ phase = "client" /\ main = "done"
    /\ IF ~signalled THEN NextLine ELSE Exits(exit) /\ UNCHANGED line
    /\ Client!Gone
    /\ UNCHANGED <<planFile, lastKey, startFailed, stray, ready, signalled, invocation>>
\* errexit ends the script when the client fails; a pending signal is obeyed
\* now, with the client's status as $?.
ClientReturns ==
    /\ phase = "client" /\ main = "done"
    /\ IF exit = 0 /\ ~signalled THEN NextLine ELSE Exits(exit) /\ UNCHANGED line
    /\ Client!Gone
    /\ UNCHANGED <<planFile, lastKey, startFailed, stray, ready, signalled, invocation>>

\* The plan has ended, and its last server is gone.
Finish ==
    /\ phase = "stopped" /\ ~signalled /\ line > Len(planFile)
    /\ Exits(0)
    /\ UNCHANGED <<planVars, lastKey, startFailed, stray, ready, signalled, invocation,
                   streamVars>>

-----------------------------------------------------------------------------
(* Signals, and the next invocation *)

Trapped == {"plan", "loop", "stop", "stopped", "forked", "boot", "client"}

\* SIGTERM to the script: bash runs the trap when the foreground command ends,
\* between two commands at once.
Terminate ==
    /\ phase \in Trapped /\ ~signalled
    /\ signalled' = TRUE
    /\ UNCHANGED <<phase, planVars, lastKey, startFailed, serverVars, ready, code, invocation,
                   streamVars>>

\* Outside the client: $? is that of whatever command was the last, and `wait'
\* is interrupted with 128 + 15.
ObeySignal ==
    /\ signalled /\ phase \in Trapped \ {"client"}
    /\ \E status \in {0, 1, 143} : Exits(status)
    /\ UNCHANGED <<planVars, lastKey, startFailed, stray, ready, signalled, invocation,
                   streamVars>>

\* SIGINT from the terminal also kills the foreground command, the client too;
\* between two commands $? is the last one's.
Interrupt ==
    /\ phase \in Trapped
    /\ \E status \in {0, 1, 130} : (phase = "client" => status = 130) /\ Exits(status)
    /\ signalled' = TRUE
    /\ Client!Gone
    /\ UNCHANGED <<planVars, lastKey, startFailed, stray, ready, invocation>>

\* cleanup has reset the traps: a signal now ends the script where it is.
KillCleanUp ==
    /\ phase \in {"cleanup", "reap"}
    /\ phase' = "exited" /\ code' = Killed /\ signalled' = TRUE
    /\ UNCHANGED <<planVars, lastKey, startFailed, serverVars, ready, invocation, streamVars>>

Rerun ==
    /\ phase = "exited" /\ invocation < MaxInvocations
    /\ phase' = "plan" /\ invocation' = invocation + 1
    /\ planFile' = <<>> /\ line' = 1
    /\ lastKey' = None /\ startFailed' = FALSE
    /\ stray' = (stray \/ \E p \in DOMAIN servers : servers[p].alive)
    /\ servers' = <<>> /\ pid' = 0 /\ ready' = FALSE
    /\ signalled' = FALSE /\ code' = None
    /\ UNCHANGED streamVars

-----------------------------------------------------------------------------
(* The servers, and the client they answer *)

Serving(p) == servers[p].alive /\ servers[p].started

ServerStarts(p) ==
    /\ servers[p].alive /\ ~servers[p].started
    /\ servers' = [servers EXCEPT ![p].started = TRUE]
    /\ UNCHANGED <<phase, planVars, lastKey, startFailed, pid, stray, ready, signalled,
                   code, invocation, streamVars>>

ServerDies(p) ==
    /\ servers[p].alive
    /\ servers' = [servers EXCEPT ![p].alive = FALSE]
    /\ UNCHANGED <<phase, planVars, lastKey, startFailed, pid, stray, ready, signalled,
                   code, invocation, streamVars>>

StrayDies ==
    /\ stray /\ stray' = FALSE
    /\ UNCHANGED <<phase, planVars, lastKey, startFailed, servers, pid, ready, signalled, code,
                   invocation, streamVars>>

ClientStep ==
    /\ phase = "client"
    /\ \/ Client!MainStep \/ Client!ReleaseBarrier
       \/ \E i \in DOMAIN task :
            \/ Client!ArriveAtBarrier(i)
            \/ Client!Unanswered(i)
            \/ (stray \/ \E p \in DOMAIN servers : Serving(p)) /\ Client!Answered(i)
    /\ UNCHANGED <<phase, planVars, lastKey, startFailed, serverVars, ready, signalled, code,
                   invocation>>

ScriptStep ==
    \/ MakePlan \/ StopServer \/ Reap \/ RefuseStart \/ Fork \/ NotePid \/ WaitReady
    \/ SkipCase \/ RunCase \/ ResolveFails \/ ClientReturns
    \/ Finish \/ ObeySignal \/ CleanUp \/ Reaped

Next ==
    \/ ScriptStep \/ ClientStep
    \/ Terminate \/ Interrupt \/ KillCleanUp \/ Rerun
    \/ StrayDies \/ \E p \in DOMAIN servers : ServerStarts(p) \/ ServerDies(p)

Spec == Init /\ [][Next]_vars
\* The operating system runs the script and its client.  wait_ready ends by
\* STARTUP_TIMEOUT_S and the client by CLIENT_TIMEOUT_S; ray, ssh and curl are
\* taken to end.  The `wait' of stop_server has no limit (Reap, Reaped): the
\* servers owe nothing.
FairSpec == Spec /\ WF_vars(ScriptStep \/ ClientStep)

-----------------------------------------------------------------------------
(* Properties *)

\* Every variable has its type; the script has a status exactly when it is on
\* its way out, Killed only by a signal, and a client only while it waits for one.
TypeOK ==
    /\ phase \in Trapped \cup {"cleanup", "reap", "exited"}
    /\ planFile \in Seq(Cases) /\ line \in 1..(Len(planFile) + 1)
    /\ lastKey \in {None} \cup {Key(case) : case \in Cases}
    /\ startFailed \in BOOLEAN /\ ready \in BOOLEAN /\ signalled \in BOOLEAN
    /\ servers \in Seq([key : {Key(case) : case \in Cases}, alive : BOOLEAN, started : BOOLEAN,
                        held : {"unnoted", "noted", "told"}])
    /\ pid \in 0..Len(servers) /\ stray \in BOOLEAN
    /\ code \in {None, Killed, 0, 1, 2, 130, 143} /\ (code = None <=> phase \in Trapped)
    /\ code = Killed => signalled
    /\ invocation \in 1..MaxInvocations
    /\ phase # "client" <=> main = "absent"

\* The requests of a case can only reach a server started for its transport
\* and model: no other is alive while its client runs, unless an earlier
\* invocation left one (stop_server 165-171, start_server 480, the loop 661-673).
MeasuredOnOwnServer ==
    phase = "client" /\ ~args.skip /\ ~stray =>
        \A p \in DOMAIN servers : servers[p].alive => p = pid /\ servers[p].key = Key(args.case)

\* A script that ends by itself, by an error or by its traps leaves no server
\* behind but one a signal came between the fork and VLLM_PID=$! of; only a
\* second signal, to cleanup itself, can leave another (cleanup 179-185, 577-578).
NoServerLeft ==
    phase = "exited" /\ code # Killed =>
        \A p \in DOMAIN servers : servers[p].alive =>
            signalled /\ p = Len(servers) /\ servers[p].held = "unnoted"

\* An invocation starts the server of a transport and model once, however many
\* cases share it (the sort of make_plan 354-356, last_key 662-673).
EachServerStartedOnce ==
    \A p, q \in DOMAIN servers : servers[p].key = servers[q].key => p = q

\* A case recorded as ok or skipped is not recorded again by any invocation
\* that resumes (make_plan 326-349).
NeverRepeated ==
    RESUME => \A k, l \in DOMAIN csv :
        k < l /\ csv[k].case = csv[l].case => csv[k].status \notin {"ok", "skipped"}

\* When the script ends with status 0 and no signal made it end, every case of
\* its plan has a row that is not a failure (set -e 14, run_case 686).
CompleteOnSuccess ==
    code = 0 /\ ~signalled =>
        \A i \in DOMAIN planFile : \E k \in DOMAIN csv :
            csv[k].case = planFile[i] /\ csv[k].status # "failed"

\* Every invocation ends, whatever the servers and the clients run into, unless
\* a server that was told to exit never does (wait 169, wait_ready 383-401).
Deaf == \E p \in DOMAIN servers : servers[p].held = "told" /\ servers[p].alive
InvocationEnds == (~<>[]Deaf) => (phase = "plan" ~> phase = "exited")

\* A server that does not start is "server-start-failed-..." (668): its cases
\* are skipped, not measured.
StartFailureIsSkipped == phase = "client" /\ ~args.skip => ready
=============================================================================
