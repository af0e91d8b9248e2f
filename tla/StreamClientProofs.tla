------------------------- MODULE StreamClientProofs -------------------------
(***************************************************************************)
(* One run of the benchmark client, for every number of requests, every    *)
(* stream the server may send and every interleaving of the threads: the   *)
(* requests start together, and the row tells what was served.             *)
(***************************************************************************)
EXTENDS StreamClient, TLAPS, FiniteSetTheorems, SequenceTheorems

Waiting == {"queued", "barrier"}
Over == {"ok", "failed", "raised"}
Places == Waiting \cup {"requesting", "errorBody", "streaming"} \cup Over
Call == [at : Places, events : Seq(Events)]

\* The events of a complete stream, and those of one that still runs.
Whole(events) ==
    events # <<>> /\ Last(events) = "done"
    /\ \A k \in DOMAIN events : events[k] \notin {"error", "malformed", "notObject"}
StillOpen(events) ==
    \A k \in DOMAIN events : events[k] \notin {"done", "error", "malformed", "notObject"}

\* Where a call is agrees with what its stream has carried.
Truthful(call) ==
    /\ call.at \in Waiting \cup {"requesting", "errorBody"} => call.events = <<>>
    /\ call.at = "streaming" => StillOpen(call.events)
    /\ call.at = "ok" => Whole(call.events)
    /\ call.at \in {"failed", "raised"} => ~Whole(call.events)
AllTruthful == \A i \in DOMAIN task : Truthful(task[i])

\* Either no task has passed the barrier, or all of them have.
Together ==
    (\E i \in DOMAIN task : task[i].at \notin Waiting) =>
        Len(task) = args.concurrency /\ \A i \in DOMAIN task : task[i].at \notin Waiting

\* How far the submission of the tasks and their collection have come.
Phase ==
    /\ main \in {"started", "submitting", "collecting", "unwinding", "done"}
    /\ main = "started" => task = <<>>
    /\ main = "submitting" => Len(task) < args.concurrency
    /\ main \in {"collecting", "unwinding"} => Len(task) = args.concurrency
    /\ task # <<>> \/ main \in {"submitting", "collecting", "unwinding"} => args.concurrency >= 1
    /\ main = "done" => task = <<>> \/ Len(task) = args.concurrency
    /\ main \in {"started", "submitting"} => rows = {}
    /\ main # "done" => csv = <<>> /\ exit = None
    /\ main = "done" => \A i \in DOMAIN task : task[i].at \in Over

\* What has been gathered is over, and was returned.
Gathering == \A i \in rows : i \in DOMAIN task /\ task[i].at \in {"ok", "failed"}

\* The row of a run that is over.
Reported ==
    main = "done" =>
        \/ csv = <<>>
        \/ csv = <<Row("skipped", 0, 0)>>
        \/ /\ rows = Requests /\ DOMAIN task = Requests /\ Requests # {}
           /\ csv = <<Row(Status, Cardinality(OkRows), Cardinality(rows \ OkRows))>>
           /\ exit = ExitStatus

CsvRow == [case : {a.case : a \in Invocations}, ok : Nat, failed : Nat,
           status : {"ok", "partial", "failed", "skipped"}]
Types ==
    /\ args \in Invocations
    /\ task \in Seq(Call) /\ rows \subseteq DOMAIN task
    /\ exit \in {None, 0, 1, 2} /\ csv \in Seq(CsvRow)
IInv == Types /\ AllTruthful /\ Together /\ Phase /\ Gathering /\ Reported
-----------------------------------------------------------------------------
(* Facts about a task that changes. *)

\* What the types of the main thread's variables and of one task amount to.
LEMMA TypesGive ==
    ASSUME Types
    PROVE  /\ args.concurrency \in Int
           /\ Len(task) \in Nat /\ DOMAIN task = 1..Len(task)
BY InvocationsAssumption DEF Types

\* A thread that takes its task one step further, and not back.
LEMMA TurnInv ==
    ASSUME IInv, NEW i \in DOMAIN task, NEW call \in Call,
           task' = [task EXCEPT ![i] = call], UNCHANGED <<args, main, rows, exit, csv>>,
           task[i].at \notin Over, Truthful(call),
           task[i].at \in Waiting <=> call.at \in Waiting
    PROVE  IInv'
<1>1. Types  BY DEF IInv
<1>2. /\ task \in Seq(Call) /\ i \in 1..Len(task)
      /\ DOMAIN task = 1..Len(task) /\ args.concurrency \in Int
  BY <1>1, TypesGive DEF Types
<1>3. /\ task' \in Seq(Call) /\ Len(task') = Len(task) /\ DOMAIN task' = DOMAIN task
      /\ \A j \in DOMAIN task : task'[j] = IF j = i THEN call ELSE task[j]
  BY <1>2, ExceptSeq
<1>4. main # "done"  BY DEF IInv, Phase
<1>5. Types'  BY <1>1, <1>3 DEF Types
<1>6. AllTruthful'  BY <1>3 DEF IInv, AllTruthful, Truthful, Whole, StillOpen
<1>7. Together'
  <2> SUFFICES ASSUME NEW j \in DOMAIN task, task'[j].at \notin Waiting
               PROVE  Len(task) = args.concurrency /\ \A k \in DOMAIN task : task'[k].at \notin Waiting
    BY <1>3 DEF Together
  <2>1. task[j].at \notin Waiting  BY <1>3
  <2> QED  BY <1>3, <2>1 DEF IInv, Together
<1>8. Phase'  BY <1>2, <1>3, <1>4 DEF IInv, Phase
<1>9. Gathering'
  <2>1. i \notin rows  BY DEF IInv, Gathering, Over
  <2> QED  BY <1>3, <2>1 DEF IInv, Gathering
<1>10. Reported'  BY <1>4 DEF Reported
<1> QED  BY <1>5, <1>6, <1>7, <1>8, <1>9, <1>10 DEF IInv

\* The last thread to arrive has every thread leave the barrier.
LEMMA ReleaseBarrierInv ==
    ASSUME IInv, ReleaseBarrier
    PROVE  IInv'
<1> DEFINE released(i) == [task[i] EXCEPT !.at = "requesting"]
           after == [i \in DOMAIN task |-> IF i \in At("barrier") THEN released(i) ELSE task[i]]
<1>1. Types  BY DEF IInv
<1>2. /\ task \in Seq(Call) /\ args.concurrency \in Int
      /\ Len(task) \in Nat /\ DOMAIN task = 1..Len(task)
      /\ \A i \in DOMAIN task : task[i] \in Call
  BY <1>1, TypesGive DEF Types
<1>3. At("barrier") = DOMAIN task
  <2>1. IsFiniteSet(DOMAIN task) /\ Cardinality(DOMAIN task) = Len(task)  BY <1>2, FS_Interval
  <2>2. At("barrier") \in SUBSET DOMAIN task /\ Cardinality(At("barrier")) = args.concurrency
    BY DEF At, ReleaseBarrier, BarrierParties
  <2>3. task = <<>> \/ Len(task) <= args.concurrency  BY <1>2 DEF IInv, Phase
  <2>4. CASE task = <<>>  BY <2>2, <2>4
  <2>5. CASE Len(task) <= args.concurrency
    BY <1>2, <2>1, <2>2, <2>5, FS_Subset
  <2> QED  BY <2>3, <2>4, <2>5
<1>4. task' = after /\ UNCHANGED <<args, main, rows, exit, csv>>  BY DEF ReleaseBarrier
<1>5. /\ DOMAIN task' = DOMAIN task /\ Len(task') = Len(task) /\ task' \in Seq(Call)
      /\ \A i \in DOMAIN task : task'[i] = released(i) /\ task[i].at = "barrier"
  <2>1. \A i \in DOMAIN task : task[i].at = "barrier"  BY <1>3 DEF At
  <2>2. after = [i \in 1..Len(task) |-> released(i)]  BY <1>2, <1>3
  <2>3. \A i \in DOMAIN task : released(i) \in Call  BY <1>2 DEF Call, Places
  <2> QED  BY <1>2, <1>4, <2>1, <2>2, <2>3
<1>6. \A i \in DOMAIN task : task'[i].at = "requesting" /\ task'[i].events = task[i].events
  BY <1>2, <1>5 DEF Call
<1>7. task # <<>> => Len(task) = args.concurrency
  <2>1. Cardinality(DOMAIN task) = Len(task)  BY <1>2, FS_Interval
  <2> QED  BY <1>3, <2>1 DEF ReleaseBarrier, BarrierParties
<1>8. Types'  BY <1>1, <1>4, <1>5 DEF Types
<1>9. AllTruthful'  BY <1>5, <1>6 DEF IInv, AllTruthful, Truthful, Waiting
<1>10. Together'
  <2>1. DOMAIN task # {} => task # <<>>  BY <1>2
  <2> QED  BY <1>4, <1>5, <1>6, <1>7, <2>1 DEF Together, Waiting
<1>11. task # <<>> => main # "done"
  <2> SUFFICES ASSUME task # <<>>, main = "done" PROVE FALSE  OBVIOUS
  <2>1. Len(task) # 0  BY <1>2, EmptySeq
  <2>2. 1 \in DOMAIN task  BY <1>2, <2>1
  <2> QED  BY <1>5, <2>2 DEF IInv, Phase, Over
<1>12. task' # <<>> <=> task # <<>>  BY <1>2, <1>5
<1>13. Phase'  BY <1>2, <1>4, <1>5, <1>11, <1>12 DEF IInv, Phase
<1>14. rows = {}  BY <1>5 DEF IInv, Gathering
<1>15. Gathering' /\ Reported'
  <2>1. CASE task # <<>>  BY <1>4, <1>11, <1>14, <2>1 DEF Gathering, Reported
  <2>2. CASE task = <<>>
    <3>1. task' = task  BY <1>12, <2>2
    <3> QED  BY <1>4, <1>14, <3>1 DEF IInv, Gathering, Reported, Requests, OkRows, At, Status,
                 ExitStatus, Row
  <2> QED  BY <2>1, <2>2
<1> QED  BY <1>8, <1>9, <1>10, <1>13, <1>15 DEF IInv
-----------------------------------------------------------------------------
(* The threads of the pool. *)

\* What a thread's own step makes of its task.
LEMMA Moved ==
    ASSUME IInv, NEW i \in DOMAIN task, NEW place \in Places, Move(i, place)
    PROVE  \E call \in Call : /\ call = [task[i] EXCEPT !.at = place]
                             /\ call.at = place /\ call.events = task[i].events
                             /\ task' = [task EXCEPT ![i] = call]
                             /\ UNCHANGED <<args, main, rows, exit, csv>>
<1>1. task[i] \in Call  BY DEF IInv, Types
<1> QED  BY <1>1 DEF Move, Call

\* A task's record with its place and its events replaced is again one.
LEMMA CallUpdate ==
    ASSUME NEW call \in Call, NEW events, NEW place
    PROVE  [call EXCEPT !.events = events, !.at = place] = [at |-> place, events |-> events]
<1> DEFINE first == [call EXCEPT !.events = events]
<1>1. first = [at |-> call.at, events |-> events]  BY DEF Call
<1>2. [first EXCEPT !.at = place] = [at |-> place, events |-> events]
  <2> HIDE DEF first
  <2> QED  BY <1>1
<1> QED  BY <1>2

\* A step of a pool thread.
LEMMA ThreadStepInv ==
    ASSUME IInv, NEW i \in DOMAIN task, ThreadStep(i)
    PROVE  IInv'
<1>1. task[i] \in Call /\ Truthful(task[i])  BY DEF IInv, Types, AllTruthful
<1>2. ~Whole(<<>>)  BY DEF Whole
<1>3. ASSUME StillOpen(task[i].events) PROVE ~Whole(task[i].events)
  <2>1. task[i].events \in Seq(Events)  BY <1>1 DEF Call
  <2>2. task[i].events # <<>> =>
          Len(task[i].events) \in DOMAIN task[i].events
          /\ Last(task[i].events) = task[i].events[Len(task[i].events)]
    BY <2>1 DEF Last
  <2> QED  BY <1>3, <2>2 DEF StillOpen, Whole
<1>4. CASE ArriveAtBarrier(i)
  BY <1>1, <1>4, Moved, TurnInv DEF ArriveAtBarrier, Truthful, Waiting, Places, Over
<1>5. CASE Open(i)
  <2>1. task[i].events = <<>>  BY <1>1, <1>5 DEF Open, Truthful
  <2> QED  BY <1>5, <2>1, Moved, TurnInv DEF Open, Truthful, StillOpen, Waiting, Places, Over
<1>6. CASE OpenHttpError(i)
  BY <1>1, <1>6, Moved, TurnInv DEF OpenHttpError, Truthful, Waiting, Places, Over
<1>7. CASE ReadErrorBody(i)
  BY <1>1, <1>2, <1>7, Moved, TurnInv DEF ReadErrorBody, Truthful, Waiting, Places, Over
<1>8. CASE ErrorBodyRaises(i)
  BY <1>1, <1>2, <1>8, Moved, TurnInv DEF ErrorBodyRaises, Truthful, Waiting, Places, Over
<1>9. CASE OpenRaises(i)
  BY <1>1, <1>2, <1>9, Moved, TurnInv DEF OpenRaises, Truthful, Waiting, Places, Over
<1>10. CASE StreamBreaks(i)
  BY <1>1, <1>3, <1>10, Moved, TurnInv DEF StreamBreaks, Truthful, Waiting, Places, Over
<1>11. ASSUME NEW event \in Events, Receive(i, event) PROVE IInv'
  <2> DEFINE events == Append(task[i].events, event)
             call == [task[i] EXCEPT !.events = events, !.at = After(event)]
  <2>1. /\ task[i].at = "streaming" /\ task[i].events \in Seq(Events)
        /\ StillOpen(task[i].events)
    BY <1>1, <1>11 DEF Receive, Call, Truthful
  <2>2. After(event) \in {"ok", "failed", "streaming"}  BY DEF After
  <2>3. call \in Call /\ call.at = After(event) /\ call.events = events
    <3>1. events \in Seq(Events)  BY <2>1, AppendProperties
    <3>2. call = [at |-> After(event), events |-> events]  BY <1>1, CallUpdate
    <3> QED  BY <2>2, <3>1, <3>2 DEF Call, Places, Over
  <2>4. /\ DOMAIN events = 1..(Len(task[i].events) + 1) /\ events # <<>>
        /\ \A k \in DOMAIN task[i].events : events[k] = task[i].events[k]
        /\ DOMAIN events = DOMAIN task[i].events \cup {Len(task[i].events) + 1}
        /\ events[Len(task[i].events) + 1] = event /\ Last(events) = event
    BY <2>1 DEF Last
  <2>5. Truthful(call)
    <3>1. CASE event = "done"
      BY <2>1, <2>3, <2>4, <3>1 DEF After, Truthful, Whole, StillOpen, Waiting
    <3>2. CASE event \in {"malformed", "error", "notObject"}
      BY <2>1, <2>3, <2>4, <3>2 DEF After, Truthful, Whole, Waiting
    <3>3. CASE event \notin {"done", "malformed", "error", "notObject"}
      BY <2>1, <2>3, <2>4, <3>3 DEF After, Truthful, StillOpen, Waiting
    <3> QED  BY <3>1, <3>2, <3>3
  <2>6. task' = [task EXCEPT ![i] = call] /\ UNCHANGED <<args, main, rows, exit, csv>>
    BY <1>11 DEF Receive
  <2> QED  BY <2>1, <2>2, <2>3, <2>5, <2>6, TurnInv DEF Waiting, Over
<1> QED  BY <1>4, <1>5, <1>6, <1>7, <1>8, <1>9, <1>10, <1>11 DEF ThreadStep, Answered, Unanswered
-----------------------------------------------------------------------------
(* The main thread. *)

\* A client that has only parsed its arguments.
LEMMA InitInv == ClientInit => IInv
<1> SUFFICES ASSUME ClientInit PROVE IInv  OBVIOUS
<1>1. task = <<>> /\ DOMAIN task = {} /\ Len(task) = 0  BY DEF ClientInit
<1>2. <<>> \in Seq(Call) /\ <<>> \in Seq(CsvRow)  OBVIOUS
<1> QED  BY <1>1, <1>2 DEF ClientInit, IInv, Types, AllTruthful, Together, Phase, Gathering, Reported

\* A task that was just submitted is a task.
LEMMA CallType == [at |-> "queued", events |-> <<>>] \in Call
BY DEF Call, Places, Waiting

\* aggregate hands the next request to the pool.
LEMMA SubmitInv ==
    ASSUME IInv, Submit
    PROVE  IInv'
<1> DEFINE queued == [at |-> "queued", events |-> <<>>]
           n == Len(task) + 1
<1>1. Types  BY DEF IInv
<1>2. /\ task \in Seq(Call) /\ args.concurrency \in Int
      /\ Len(task) \in Nat /\ DOMAIN task = 1..Len(task)
  BY <1>1, TypesGive DEF Types
<1>3. /\ main = "submitting" /\ Len(task) < args.concurrency
      /\ rows = {} /\ csv = <<>> /\ exit = None
  BY DEF IInv, Phase, Submit
<1>4. task' = Append(task, queued) /\ UNCHANGED <<args, rows, exit, csv>>  BY DEF Submit
<1>5. /\ task' \in Seq(Call) /\ Len(task') = n /\ DOMAIN task' = DOMAIN task \cup {n}
      /\ task'[n] = queued /\ \A i \in DOMAIN task : task'[i] = task[i]
  BY <1>2, <1>4, CallType
<1>6. main' = IF n = args.concurrency THEN "collecting" ELSE "submitting"
  BY <1>3, <1>5 DEF Submit
<1>7. Types'  BY <1>1, <1>4, <1>5 DEF Types
<1>8. AllTruthful'  BY <1>5 DEF IInv, AllTruthful, Truthful, Waiting
<1>9. Together'
  <2>1. \A i \in DOMAIN task : task[i].at \in Waiting  BY <1>2, <1>3 DEF IInv, Together
  <2> QED  BY <1>5, <2>1 DEF Together, Waiting
<1>10. Phase'  BY <1>2, <1>3, <1>4, <1>5, <1>6 DEF IInv, Phase
<1>11. Gathering' /\ Reported'  BY <1>3, <1>4, <1>6 DEF Gathering, Reported
<1> QED  BY <1>7, <1>8, <1>9, <1>10, <1>11 DEF IInv

\* as_completed yields the next finished task.
LEMMA CollectInv ==
    ASSUME IInv, NEW i \in DOMAIN task, Collect(i)
    PROVE  IInv'
<1>1. /\ main = "collecting" /\ task[i].at \in Over /\ UNCHANGED <<args, task, exit, csv>>
      /\ \/ task[i].at = "raised" /\ main' = "unwinding" /\ rows' = rows
         \/ task[i].at \in {"ok", "failed"} /\ main' = main /\ rows' = rows \cup {i}
  BY DEF Collect, Finished, At, Over
<1>2. Types' /\ AllTruthful' /\ Together'
  BY <1>1 DEF IInv, Types, AllTruthful, Together, Truthful, Whole, StillOpen
<1>3. Phase' /\ Gathering' /\ Reported'  BY <1>1 DEF IInv, Phase, Gathering, Reported
<1> QED  BY <1>2, <1>3 DEF IInv

\* The steps that end the run without a row.
LEMMA EndInv ==
    ASSUME IInv, main # "done", NEW code \in {0, 1, 2}, ExitWith(code),
           UNCHANGED <<args, task, rows, csv>>,
           \A i \in DOMAIN task : task[i].at \in Over,
           task = <<>> \/ Len(task) = args.concurrency
    PROVE  IInv'
<1>1. Types' /\ AllTruthful' /\ Together' /\ Gathering'
  BY DEF IInv, Types, AllTruthful, Together, Gathering, Truthful, Whole, StillOpen, ExitWith
<1>2. csv' = <<>>  BY DEF IInv, Phase
<1>3. Phase' /\ Reported'  BY <1>2 DEF IInv, Phase, Reported, ExitWith
<1> QED  BY <1>1, <1>3 DEF IInv

\* The main thread decides what to do, or comes to the barrier.
LEMMA StartedInv ==
    ASSUME IInv, RecordSkip \/ RefuseConcurrency \/ Aggregate
    PROVE  IInv'
<1>1. /\ main = "started" /\ task = <<>> /\ rows = {} /\ csv = <<>> /\ exit = None
      /\ args \in Invocations /\ args.concurrency \in Int
  BY InvocationsAssumption DEF IInv, Types, Phase, RecordSkip, RefuseConcurrency, Aggregate
<1>2. DOMAIN task = {} /\ Len(task) = 0  BY <1>1
<1>3. CASE RecordSkip
  <2>1. csv' = <<Row("skipped", 0, 0)>>  BY <1>1, <1>3 DEF RecordSkip
  <2>2. Row("skipped", 0, 0) \in CsvRow  BY <1>1 DEF Row, CsvRow
  <2>3. csv' \in Seq(CsvRow)  BY <2>1, <2>2
  <2>4. Types'  BY <1>3, <2>3 DEF IInv, Types, RecordSkip, ExitWith
  <2>5. csv' = <<Row("skipped", 0, 0)'>>  BY <1>3, <2>1 DEF RecordSkip, Row
  <2>6. Phase' /\ Reported'
    BY <1>1, <1>2, <1>3, <2>5 DEF Phase, Reported, RecordSkip, ExitWith
  <2>7. AllTruthful' /\ Together' /\ Gathering'
    BY <1>1, <1>2, <1>3 DEF AllTruthful, Together, Gathering, RecordSkip
  <2> QED  BY <2>4, <2>6, <2>7 DEF IInv
<1>4. CASE RefuseConcurrency
  BY <1>1, <1>2, <1>4, EndInv DEF RefuseConcurrency
<1>5. CASE Aggregate
  <2>1. UNCHANGED <<args, task, rows, exit, csv>> /\ main' = "submitting" /\ args.concurrency >= 1
    BY <1>5 DEF Aggregate
  <2>2. Phase' /\ Reported'  BY <1>1, <1>2, <2>1 DEF Phase, Reported
  <2>3. Types' /\ AllTruthful' /\ Together' /\ Gathering'
    BY <1>1, <1>2, <2>1 DEF IInv, Types, AllTruthful, Together, Gathering
  <2> QED  BY <2>2, <2>3 DEF IInv
<1> QED  BY <1>3, <1>4, <1>5

\* When every result is gathered, every task is over.
LEMMA AllGathered ==
    ASSUME IInv, main \in {"collecting", "unwinding"}
    PROVE  /\ DOMAIN task = Requests /\ Len(task) = args.concurrency /\ args.concurrency >= 1
           /\ IsFiniteSet(Requests) /\ Cardinality(Requests) = args.concurrency
           /\ rows = Requests => \A i \in DOMAIN task : task[i].at \in {"ok", "failed"}
<1>1. args.concurrency \in Int /\ DOMAIN task = 1..Len(task)  BY TypesGive DEF IInv
<1>2. Len(task) = args.concurrency /\ args.concurrency >= 1  BY DEF IInv, Phase
<1>3. DOMAIN task = Requests  BY <1>1, <1>2 DEF Requests
<1>4. IsFiniteSet(Requests) /\ Cardinality(Requests) = args.concurrency
  BY <1>1, <1>2, FS_Interval DEF Requests
<1>5. rows = Requests => \A i \in DOMAIN task : task[i].at \in {"ok", "failed"}
  BY <1>3 DEF IInv, Gathering
<1> QED  BY <1>2, <1>3, <1>4, <1>5

\* The row is appended and the exit status follows from it.
LEMMA ReportInv ==
    ASSUME IInv, Report
    PROVE  IInv'
<1> DEFINE row == Row(Status, Cardinality(OkRows), Cardinality(rows \ OkRows))
<1>1. /\ main = "collecting" /\ rows = Requests /\ UNCHANGED <<args, task, rows>>
      /\ csv' = Append(csv, row) /\ main' = "done" /\ exit' = ExitStatus
  BY DEF Report, Gathered, ExitWith
<1>2. /\ DOMAIN task = Requests /\ Len(task) = args.concurrency /\ args.concurrency >= 1
      /\ IsFiniteSet(rows) /\ \A i \in DOMAIN task : task[i].at \in Over
  BY <1>1, AllGathered DEF Over
<1>3. Cardinality(OkRows) \in Nat /\ Cardinality(rows \ OkRows) \in Nat
  <2>1. OkRows \in SUBSET rows /\ rows \ OkRows \in SUBSET rows  BY DEF OkRows
  <2> QED  BY <1>2, <2>1, FS_Subset, FS_CardinalityType
<1>4. csv = <<>> /\ args \in Invocations  BY <1>1 DEF IInv, Phase, Types
<1>5. csv' = <<row>>  BY <1>1, <1>4
<1>6. row \in CsvRow  BY <1>3, <1>4 DEF Row, CsvRow, Status
<1>7. Types'
  <2>1. csv' \in Seq(CsvRow)  BY <1>5, <1>6
  <2>2. exit' \in {0, 1}  BY <1>1 DEF ExitStatus
  <2> QED  BY <1>1, <2>1, <2>2 DEF IInv, Types
<1>8. AllTruthful' /\ Together' /\ Gathering'
  BY <1>1 DEF IInv, AllTruthful, Together, Gathering
<1>9. Phase'  BY <1>1, <1>2 DEF IInv, Phase
<1>10. Reported'
  <2>1. OkRows' = OkRows /\ Status' = Status /\ ExitStatus' = ExitStatus /\ Requests' = Requests
    BY <1>1 DEF OkRows, At, Status, ExitStatus, Requests
  <2>2. row' = row  BY <1>1, <2>1 DEF Row
  <2>3. Requests # {}  BY <1>2 DEF Requests
  <2> QED  BY <1>1, <1>2, <1>5, <2>1, <2>2, <2>3 DEF Reported
<1> QED  BY <1>7, <1>8, <1>9, <1>10 DEF IInv

\* A step of the main thread.
LEMMA MainStepInv ==
    ASSUME IInv, MainStep
    PROVE  IInv'
<1>1. CASE RecordSkip \/ RefuseConcurrency \/ Aggregate  BY <1>1, StartedInv
<1>2. CASE Submit  BY <1>2, SubmitInv
<1>3. CASE \E i \in DOMAIN task : Collect(i)  BY <1>3, CollectInv
<1>4. CASE Raise
  <2>1. main = "unwinding" /\ Finished = Requests  BY <1>4 DEF Raise
  <2>2. \A i \in DOMAIN task : task[i].at \in Over
    BY <2>1, AllGathered DEF Finished, At, Over
  <2> QED  BY <1>4, <2>1, <2>2, AllGathered, EndInv DEF Raise
<1>5. CASE Report  BY <1>5, ReportInv
<1>6. CASE ReportRaises
  <2>1. main = "collecting" /\ rows = Requests  BY <1>6 DEF ReportRaises, Gathered
  <2>2. \A i \in DOMAIN task : task[i].at \in Over  BY <2>1, AllGathered DEF Over
  <2> QED  BY <1>6, <2>1, <2>2, AllGathered, EndInv DEF ReportRaises
<1> QED  BY <1>1, <1>2, <1>3, <1>4, <1>5, <1>6 DEF MainStep

\* Every step of the client, and a stutter.
LEMMA NextInv == IInv /\ [ClientNext]_clientVars => IInv'
<1> SUFFICES ASSUME IInv, [ClientNext]_clientVars PROVE IInv'  OBVIOUS
<1>1. CASE UNCHANGED clientVars
  BY <1>1 DEF clientVars, IInv, Types, AllTruthful, Together, Phase, Gathering, Reported,
     Row, Status, ExitStatus, OkRows, At, Requests
<1>2. CASE MainStep  BY <1>2, MainStepInv
<1>3. CASE ReleaseBarrier  BY <1>3, ReleaseBarrierInv
<1>4. CASE \E i \in DOMAIN task : ThreadStep(i)  BY <1>4, ThreadStepInv
<1> QED  BY <1>1, <1>2, <1>3, <1>4 DEF ClientNext
-----------------------------------------------------------------------------
(* Theorems. *)

\* The invariant holds of every execution of the client.
THEOREM ClientInvariance == ClientSpec => []IInv
BY InitInv, NextInv, PTL DEF ClientSpec

\* Every variable keeps its type.
THEOREM ClientTypeCorrect == ClientSpec => []ClientTypeOK
<1>1. Places = {"queued", "barrier", "requesting", "errorBody", "streaming", "ok", "failed", "raised"}
  BY DEF Places, Waiting, Over
<1>2. IInv => main \in {"absent", "started", "submitting", "collecting", "unwinding", "done"}
  BY DEF IInv, Phase
<1>3. IInv => ClientTypeOK
  BY <1>1, <1>2, Zenon DEF IInv, Types, ClientTypeOK, Call, CsvRow
<1> QED  BY <1>3, ClientInvariance, PTL

\* No request leaves the barrier before every thread has come to it.
THEOREM NobodyStartsAhead == ClientSpec => []NoHeadStart
<1>1. ASSUME IInv PROVE NoHeadStart
  <2> SUFFICES ASSUME NEW i \in Running \ At("barrier")
               PROVE  Len(task) = args.concurrency /\ At("queued") \cup At("barrier") = {}
    BY DEF NoHeadStart
  <2>1. i \in DOMAIN task /\ task[i].at \notin Waiting  BY DEF Running, At, Waiting
  <2> QED  BY <1>1, <2>1 DEF IInv, Together, At, Waiting
<1> QED  BY <1>1, ClientInvariance, PTL

\* The row counts as ok exactly the complete streams, counts every request
\* once, and agrees with the exit status.
THEOREM RowIsTrue == ClientSpec => []RowTellsWhatWasServed
<1>1. ASSUME IInv PROVE RowTellsWhatWasServed
  <2> DEFINE served == {i \in Requests : Complete(i)}
  <2> SUFFICES ASSUME NEW k \in DOMAIN csv, main = "done", csv[k].status # "skipped"
               PROVE  /\ csv[k].ok = Cardinality(served)
                      /\ csv[k].failed = args.concurrency - csv[k].ok
                      /\ exit = 0 <=> served # {}
                      /\ csv[k].status = "ok" <=> served = Requests
    BY DEF RowTellsWhatWasServed
  <2>1. csv # <<>> /\ csv # <<Row("skipped", 0, 0)>>  BY DEF Row
  <2>2. /\ rows = Requests /\ DOMAIN task = Requests /\ Requests # {}
        /\ csv = <<Row(Status, Cardinality(OkRows), Cardinality(rows \ OkRows))>>
        /\ exit = ExitStatus
    BY <1>1, <2>1 DEF IInv, Reported
  <2>3. csv[k] = Row(Status, Cardinality(OkRows), Cardinality(rows \ OkRows))  BY <2>2
  <2>4. \A i \in Requests : i \in OkRows <=> Complete(i)
    <3> SUFFICES ASSUME NEW i \in Requests PROVE i \in OkRows <=> Complete(i)  OBVIOUS
    <3>1. Truthful(task[i]) /\ task[i].at \in {"ok", "failed"}
      BY <1>1, <2>2 DEF IInv, AllTruthful, Gathering
    <3>2. Complete(i) <=> Whole(task[i].events)  BY DEF Complete, Whole
    <3> QED  BY <2>2, <3>1, <3>2 DEF OkRows, At, Truthful
  <2>5. served = OkRows /\ OkRows \in SUBSET rows  BY <2>2, <2>4 DEF OkRows
  <2>6. /\ IsFiniteSet(rows) /\ Cardinality(rows) = args.concurrency
        /\ args.concurrency \in Int
    <3>1. args.concurrency \in Int  BY <1>1, TypesGive DEF IInv
    <3>2. 1 <= args.concurrency  BY <2>2, <3>1 DEF Requests
    <3> QED  BY <2>2, <3>1, <3>2, FS_Interval DEF Requests
  <2>7. Cardinality(rows \ OkRows) = args.concurrency - Cardinality(OkRows)
    <3>1. rows \cap OkRows = OkRows  BY <2>5
    <3>2. Cardinality(rows \ OkRows) = Cardinality(rows) - Cardinality(rows \cap OkRows)
      BY <2>6, FS_Difference
    <3> QED  BY <2>6, <3>1, <3>2
  <2>8. csv[k].ok = Cardinality(served) /\ csv[k].failed = args.concurrency - csv[k].ok
    BY <2>3, <2>5, <2>7 DEF Row
  <2>9. csv[k].status = Status  BY <2>3 DEF Row
  <2>10. exit = 0 <=> served # {}  BY <2>2, <2>5 DEF ExitStatus, Status
  <2>11. csv[k].status = "ok" <=> served = Requests  BY <2>2, <2>5, <2>9 DEF Status
  <2> QED  BY <2>8, <2>10, <2>11
<1> QED  BY <1>1, ClientInvariance, PTL
=============================================================================
