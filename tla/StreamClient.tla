---------------------------- MODULE StreamClient ----------------------------
(***************************************************************************)
(* One process of src/lib/bench/vllm-stream-client.py: `concurrency'       *)
(* threads wait for each other at a barrier, each makes one streamed       *)
(* completion request, and the main thread gathers their results into one  *)
(* row of the CSV file.  A comment "Fault:" marks an operator that is what *)
(* the one below it would be with a bug in it.                             *)
(***************************************************************************)
EXTENDS Integers, Sequences, FiniteSets, SequencesExt

CONSTANTS
    Invocations,   \* command lines: [case, concurrency, skip]
    Events,        \* the server-sent events a stream may carry
    MaxEvents,     \* bound on the events of one stream
    None

AllEvents == {"text", "usage", "oddUsage", "done", "error", "malformed", "notObject"}

ASSUME EventsAssumption == Events \subseteq AllEvents
ASSUME InvocationsAssumption == \A invocation \in Invocations : invocation.concurrency \in Int
ASSUME MaxEventsAssumption == MaxEvents \in Nat \ {0}

VARIABLES
    args,        \* the parsed command line, None when no client runs
    main,        \* where the main thread is
    task,        \* the submitted calls of stream_one: [at, events]
    rows,        \* the tasks whose results `aggregate' has gathered
    exit,        \* exit status of the process, None while it runs
    csv          \* the rows of the CSV file

clientVars == <<args, main, task, rows, exit, csv>>

-----------------------------------------------------------------------------
Requests == 1..args.concurrency
At(place) == {i \in DOMAIN task : task[i].at = place}
\* Tasks a pool thread is executing.
Running == At("barrier") \cup At("requesting") \cup At("errorBody") \cup At("streaming")
Finished == At("ok") \cup At("failed") \cup At("raised")

\* Fault: the main thread counted as one of the pool.
PoolWithoutMain == args.concurrency - 1
\* ThreadPoolExecutor(max_workers=args.concurrency)
PoolThreads == args.concurrency

\* Fault: a barrier that does not count the last thread.
PartiesButOne == args.concurrency - 1
\* threading.Barrier(args.concurrency)
BarrierParties == args.concurrency

\* Fault: an error event does not end the stream.
AfterIgnoringErrors(event) ==
    CASE event = "done" -> "ok"
      [] event \in {"malformed", "notObject"} -> "failed"
      [] OTHER -> "streaming"
\* What the loop of consume_stream makes of an event: leave it with a result,
\* raise into stream_one's "except Exception", or read on.
After(event) ==
    CASE event = "done" -> "ok"
      [] event \in {"malformed", "error", "notObject"} -> "failed"
      [] OTHER -> "streaming"

\* The token counts of a finished task cannot be turned into integers.
Uncountable(i) ==
    LET usages == SelectSeq(task[i].events, LAMBDA e : e \in {"usage", "oddUsage"})
    IN  usages # <<>> /\ Last(usages) = "oddUsage"

-----------------------------------------------------------------------------
ClientInit ==
    /\ args \in Invocations
    /\ main = "started"
    /\ task = <<>>
    /\ rows = {}
    /\ exit = None
    /\ csv = <<>>

\* A caller starts the client; the file is the one earlier clients appended to.
Exec(invocation) ==
    /\ main = "absent"
    /\ args' = invocation
    /\ main' = "started"
    /\ UNCHANGED <<task, rows, exit, csv>>

\* The caller has waited for the process, or the process was killed.
Gone ==
    /\ args' = None
    /\ main' = "absent"
    /\ task' = <<>>
    /\ rows' = {}
    /\ exit' = None
    /\ UNCHANGED csv

ExitWith(code) == main' = "done" /\ exit' = code

Row(status, ok, failed) ==
    [case |-> args.case, status |-> status, ok |-> ok, failed |-> failed]

-----------------------------------------------------------------------------
(* The main thread. *)

\* --skip-reason: one row, no request.
RecordSkip ==
    /\ main = "started" /\ args.skip
    /\ csv' = Append(csv, Row("skipped", 0, 0))
    /\ ExitWith(0)
    /\ UNCHANGED <<args, task, rows>>

RefuseConcurrency ==
    /\ main = "started" /\ ~args.skip /\ args.concurrency < 1
    /\ ExitWith(2)
    /\ UNCHANGED <<args, task, rows, csv>>

Aggregate ==
    /\ main = "started" /\ ~args.skip /\ args.concurrency >= 1
    /\ main' = "submitting"
    /\ UNCHANGED <<args, task, rows, exit, csv>>

Submit ==
    /\ main = "submitting"
    /\ task' = Append(task, [at |-> "queued", events |-> <<>>])
    /\ main' = IF Len(task') = args.concurrency THEN "collecting" ELSE main
    /\ UNCHANGED <<args, rows, exit, csv>>

\* as_completed yields the futures in the order they finish; result() raises
\* what the task raised, and the `with' block then waits for the others.
Collect(i) ==
    /\ main = "collecting"
    /\ i \in Finished \ rows
    /\ IF task[i].at = "raised"
         THEN main' = "unwinding" /\ UNCHANGED rows
         ELSE rows' = rows \cup {i} /\ UNCHANGED main
    /\ UNCHANGED <<args, task, exit, csv>>

Raise ==
    /\ main = "unwinding" /\ Finished = Requests
    /\ ExitWith(1)
    /\ UNCHANGED <<args, task, rows, csv>>

OkRows == rows \cap At("ok")
Status ==
    IF OkRows = rows THEN "ok" ELSE IF OkRows # {} THEN "partial" ELSE "failed"

ExitStatus == IF Status \in {"ok", "partial"} THEN 0 ELSE 1

Gathered == main = "collecting" /\ rows = Requests

Report ==
    /\ Gathered
    /\ \A i \in OkRows : ~Uncountable(i)
    /\ csv' = Append(csv, Row(Status, Cardinality(OkRows), Cardinality(rows \ OkRows)))
    /\ ExitWith(ExitStatus)
    /\ UNCHANGED <<args, task, rows>>

\* int(row["prompt_tokens"]) raises.
ReportRaises ==
    /\ Gathered
    /\ \E i \in OkRows : Uncountable(i)
    /\ ExitWith(1)
    /\ UNCHANGED <<args, task, rows, csv>>

-----------------------------------------------------------------------------
(* The threads of the pool, each in stream_one. *)

Move(i, place) ==
    /\ task' = [task EXCEPT ![i].at = place]
    /\ UNCHANGED <<args, main, rows, exit, csv>>

\* A pool thread takes the first queued task and waits at the barrier.
ArriveAtBarrier(i) ==
    /\ task[i].at = "queued"
    /\ \A j \in 1..(i - 1) : task[j].at # "queued"
    /\ Cardinality(Running) < PoolThreads
    /\ Move(i, "barrier")

\* The last party to arrive lets all of them go.
ReleaseBarrier ==
    /\ Cardinality(At("barrier")) = BarrierParties
    /\ task' = [i \in DOMAIN task |->
                  IF i \in At("barrier") THEN [task[i] EXCEPT !.at = "requesting"] ELSE task[i]]
    /\ UNCHANGED <<args, main, rows, exit, csv>>

\* urlopen returned a response.
Open(i) == task[i].at = "requesting" /\ Move(i, "streaming")

\* urlopen raised HTTPError, whose body the handler reads ...
OpenHttpError(i) == task[i].at = "requesting" /\ Move(i, "errorBody")
ReadErrorBody(i) == task[i].at = "errorBody" /\ Move(i, "failed")
\* ... and a read that fails there is not caught by the sibling handler.
ErrorBodyRaises(i) == task[i].at = "errorBody" /\ Move(i, "raised")

\* Connection refused, reset or timed out.
OpenRaises(i) == task[i].at = "requesting" /\ Move(i, "failed")

Receive(i, event) ==
    /\ task[i].at = "streaming"
    /\ Len(task[i].events) < MaxEvents
    /\ task' = [task EXCEPT ![i].events = Append(@, event), ![i].at = After(event)]
    /\ UNCHANGED <<args, main, rows, exit, csv>>

\* End of file before [DONE], or the read raises (a timeout, a reset).
StreamBreaks(i) == task[i].at = "streaming" /\ Move(i, "failed")

-----------------------------------------------------------------------------
MainStep ==
    \/ RecordSkip \/ RefuseConcurrency \/ Aggregate \/ Submit
    \/ \E i \in DOMAIN task : Collect(i)
    \/ Raise \/ Report \/ ReportRaises

\* What task i does when a server answers it, and when none does.
Answered(i) ==
    \/ Open(i) \/ OpenHttpError(i) \/ ReadErrorBody(i)
    \/ \E event \in Events : Receive(i, event)
Unanswered(i) == OpenRaises(i) \/ ErrorBodyRaises(i) \/ StreamBreaks(i)

ThreadStep(i) == ArriveAtBarrier(i) \/ Answered(i) \/ Unanswered(i)

ClientNext ==
    \/ MainStep \/ ReleaseBarrier
    \/ \E i \in DOMAIN task : ThreadStep(i)

Threads == 1..Max({invocation.concurrency : invocation \in Invocations})

\* The interpreter runs every thread, and --timeout bounds every socket read.
ClientFairness ==
    /\ WF_clientVars(MainStep)
    /\ WF_clientVars(ReleaseBarrier)
    /\ \A i \in Threads : WF_clientVars(i \in DOMAIN task /\ ThreadStep(i))

ClientSpec == ClientInit /\ [][ClientNext]_clientVars
FairClientSpec == ClientSpec /\ ClientFairness

-----------------------------------------------------------------------------
(* Properties *)

\* Every variable has its type (main 274-293, stream_one 119-171).
ClientTypeOK ==
    /\ args \in Invocations \cup {None}
    /\ main \in {"absent", "started", "submitting", "collecting", "unwinding", "done"}
    /\ task \in Seq([at : {"queued", "barrier", "requesting", "errorBody", "streaming",
                           "ok", "failed", "raised"},
                     events : Seq(Events)])
    /\ rows \subseteq DOMAIN task
    /\ exit \in {None, 0, 1, 2}
    /\ csv \in Seq([case : {a.case : a \in Invocations}, ok : Nat, failed : Nat,
                    status : {"ok", "partial", "failed", "skipped"}])

\* The requests of a run are concurrent: none leaves before the thread of
\* every one has come to the barrier, and none is left behind there (142, 270).
NoHeadStart ==
    Running \ At("barrier") # {} =>
        Len(task) = args.concurrency /\ At("queued") \cup At("barrier") = {}

\* A stream that ended with [DONE] and carried nothing the docstring of
\* consume_stream (174-180) calls a failure.
Complete(i) ==
    LET events == task[i].events
    IN  events # <<>> /\ Last(events) = "done"
        /\ \A k \in DOMAIN events : events[k] \notin {"error", "malformed", "notObject"}

\* The row a run leaves counts as ok exactly the requests whose streams were
\* complete, counts every request once, and agrees with the exit status
\* (293-294, 337-344, 414-422).
RowTellsWhatWasServed ==
    \A k \in DOMAIN csv : main = "done" /\ csv[k].status # "skipped" =>
        LET served == {i \in Requests : Complete(i)} IN
        /\ csv[k].ok = Cardinality(served)
        /\ csv[k].failed = args.concurrency - csv[k].ok
        /\ exit = 0 <=> served # {}
        /\ csv[k].status = "ok" <=> served = Requests

\* The client ends, whatever the server answers or does not answer (274-291).
ClientFinishes == main = "started" ~> main = "done"
=============================================================================
