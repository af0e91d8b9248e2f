----------------------- MODULE TransportMatrixProofs -----------------------
(***************************************************************************)
(* For every list of transports and models, every set of concurrencies and *)
(* sample size, any number of invocations, whatever the servers do and     *)
(* whenever a signal comes: what a case measures, what an invocation       *)
(* leaves running and what the CSV file says of its plan.                  *)
(***************************************************************************)
EXTENDS TransportMatrix, TLAPS, FiniteSetTheorems, SequenceTheorems

Keys == {Key(case) : case \in Cases}
Holds == {"unnoted", "noted", "told"}
Server == [key : Keys, alive : BOOLEAN, started : BOOLEAN, held : Holds]
InLoop == phase \in Trapped \ {"plan"}
Statuses == {"ok", "partial", "skipped"}

\* The plan is in the order of its keys; before there is one nothing has begun.
PlanInOrder ==
    /\ \A i, j \in DOMAIN planFile : i < j => Before(planFile[i], planFile[j])
    /\ phase = "plan" => planFile = <<>> /\ line = 1 /\ servers = <<>>

\* last_key is the key of this line or, until its server is up, of the line
\* before; a server is stopped because the line's key is another.
KeyOfLine ==
    /\ phase \in {"loop", "stop", "stopped"} =>
          \/ phase = "loop" /\ line \in DOMAIN planFile /\ lastKey = Key(planFile[line])
          \/ line > 1 /\ lastKey = Key(planFile[line - 1])
          \/ line = 1 /\ servers = <<>>
    /\ phase \in {"stop", "stopped"} /\ line \in DOMAIN planFile => Key(planFile[line]) # lastKey

\* The server that boots is the last one, started for the line.
StartedForLine ==
    phase \in {"forked", "boot"} =>
        /\ line \in DOMAIN planFile /\ servers # <<>>
        /\ servers[Len(servers)].key = Key(planFile[line])
        /\ phase = "boot" => pid = Len(servers)

\* Every server was started for a line the loop has come to.
ServersOfPlan ==
    InLoop => \A p \in DOMAIN servers : \E i \in DOMAIN planFile :
        /\ i <= line /\ servers[p].key = Key(planFile[i])
        /\ i = line => phase \in {"forked", "boot"} \/ lastKey = servers[p].key

\* Only the server of VLLM_PID may be alive, the one of last_key while the loop
\* uses it, and one that a signal kept out of VLLM_PID.
Current(p) == p = pid /\ (phase \in {"loop", "client"} => servers[p].key = lastKey)
Missed(p) == /\ servers[p].held = "unnoted" /\ p = Len(servers)
             /\ phase \in {"forked", "cleanup", "reap", "exited"}
             /\ phase # "forked" => signalled
OnlyCurrentServer ==
    \A p \in DOMAIN servers : servers[p].alive => Current(p) \/ Missed(p)
PidOfPhase ==
    /\ phase = "exited" /\ code # Killed => pid = 0
    /\ phase \in {"stopped", "forked"} => pid = 0
    /\ phase \in {"boot", "stop", "reap"} => pid # 0

\* The client runs the case of the line.
ClientOfLine ==
    phase = "client" => /\ line \in DOMAIN planFile
                        /\ args = Command(planFile[line], startFailed)
                        /\ lastKey = Key(planFile[line])

\* A client that ends with status 0 has just added the row of its case.
LastRow(row) == row.case = args.case /\ row.status \in Statuses
ClientReports ==
    main = "done" => exit \in {0, 1, 2} /\ (exit = 0 => csv # <<>> /\ LastRow(csv[Len(csv)]))

\* The lines the loop has left behind have rows.
RecordedBefore(n) ==
    \A i \in DOMAIN planFile : i < n =>
        \E k \in DOMAIN csv : csv[k].case = planFile[i] /\ csv[k].status # "failed"

\* No case still to be run has a row that would have kept it out of the plan.
StillToDo ==
    RESUME /\ InLoop =>
        \A i \in DOMAIN planFile, k \in DOMAIN csv :
            line <= i /\ (main = "done" => line < i) /\ csv[k].case = planFile[i]
                => csv[k].status \notin {"ok", "skipped"}

Plan == PlanInOrder /\ KeyOfLine /\ StartedForLine
Servers == ServersOfPlan /\ OnlyCurrentServer /\ PidOfPhase /\ EachServerStartedOnce
Records == /\ csv \in Seq(Range(csv))
           /\ ClientReports /\ RecordedBefore(line) /\ StillToDo
           /\ NeverRepeated /\ CompleteOnSuccess
IInv == TypeOK /\ Plan /\ Servers /\ ClientOfLine /\ Records
-----------------------------------------------------------------------------
(* The cases, and the order of a plan. *)

LEMMA RangeFinite ==
    ASSUME NEW seq \in Seq(STRING)
    PROVE  IsFiniteSet({seq[i] : i \in DOMAIN seq})
<1> DEFINE names == {seq[i] : i \in DOMAIN seq}
<1>1. DOMAIN seq = 1..Len(seq) /\ Len(seq) \in Nat  BY LenProperties
<1>2. IsFiniteSet(DOMAIN seq)  BY <1>1, FS_Interval
<1>3. [i \in DOMAIN seq |-> seq[i]] \in Surjection(DOMAIN seq, names)  BY DEF Surjection
<1> QED  BY <1>2, <1>3, FS_Surjection

LEMMA CasesFinite == IsFiniteSet(Cases)
<1> DEFINE transports == {TRANSPORTS[i] : i \in DOMAIN TRANSPORTS}
           models == {MODELS[i] : i \in DOMAIN MODELS}
           triples == (transports \X models) \X CONCURRENCIES
           toCase == [t \in triples |->
                        [transport |-> t[1][1], model |-> t[1][2], concurrency |-> t[2]]]
<1>1. IsFiniteSet(transports) /\ IsFiniteSet(models)  BY MatrixAssumption, RangeFinite
<1>2. IsFiniteSet(transports \X models)  BY <1>1, FS_Product
<1>3. IsFiniteSet(triples)  BY <1>2, MatrixAssumption, FS_Product
<1>4. toCase \in Surjection(triples, Cases)
  <2>1. \A t \in triples : toCase[t] \in Cases  BY DEF Cases
  <2>2. ASSUME NEW c \in Cases
        PROVE  \E t \in triples : toCase[t] = c
    <3>1. /\ c = [transport |-> c.transport, model |-> c.model, concurrency |-> c.concurrency]
          /\ <<<<c.transport, c.model>>, c.concurrency>> \in triples
      BY DEF Cases
    <3>2. toCase[<<<<c.transport, c.model>>, c.concurrency>>] = c  BY <3>1
    <3> QED  BY <3>1, <3>2
  <2> QED  BY <2>1, <2>2 DEF Surjection
<1> QED  BY <1>3, <1>4, FS_Surjection

\* What make_plan may write: a sequence of cases that are not done, in order.
LEMMA SortedPlan ==
    ASSUME NEW cases \in Samples(Cases \ Done), NEW plan \in Sorted(cases)
    PROVE  /\ plan \in Seq(Cases)
           /\ \A i \in DOMAIN plan : plan[i] \in Cases \ Done
           /\ \A i, j \in DOMAIN plan : i < j => Before(plan[i], plan[j])
<1>1. cases \subseteq Cases \ Done  BY DEF Samples, kSubset
<1>2. IsFiniteSet(cases)  BY <1>1, CasesFinite, FS_Subset
<1>3. Cardinality(cases) \in Nat  BY <1>2, FS_CardinalityType
<1>4. plan \in [1..Cardinality(cases) -> cases]  BY DEF Sorted
<1>5. plan \in Seq(cases)  BY <1>3, <1>4, SeqDef
<1> QED  BY <1>1, <1>4, <1>5, SeqMonotonic DEF Sorted

\* The order compares three numbers, and the first two tell the key.
LEMMA RankIsNumeric ==
    ASSUME NEW c \in Cases
    PROVE  /\ Position(TRANSPORTS, c.transport) \in Nat
           /\ Position(MODELS, c.model) \in Nat
           /\ c.concurrency \in Nat
           /\ TRANSPORTS[Position(TRANSPORTS, c.transport)] = c.transport
           /\ MODELS[Position(MODELS, c.model)] = c.model
<1>1. /\ \E i \in DOMAIN TRANSPORTS : TRANSPORTS[i] = c.transport
      /\ \E i \in DOMAIN MODELS : MODELS[i] = c.model
      /\ c.concurrency \in Nat
  BY MatrixAssumption DEF Cases
<1>2. DOMAIN TRANSPORTS \subseteq Nat /\ DOMAIN MODELS \subseteq Nat
  <2>1. DOMAIN TRANSPORTS = 1..Len(TRANSPORTS) /\ DOMAIN MODELS = 1..Len(MODELS)
    BY MatrixAssumption, LenProperties
  <2> QED  BY <2>1
<1> QED  BY <1>1, <1>2 DEF Position

LEMMA BeforeMeans ==
    ASSUME NEW a \in Cases, NEW b \in Cases, Before(a, b)
    PROVE  LET t(c) == Position(TRANSPORTS, c.transport)
               m(c) == Position(MODELS, c.model)
           IN  \/ t(a) < t(b)
               \/ t(a) = t(b) /\ m(a) < m(b)
               \/ t(a) = t(b) /\ m(a) = m(b) /\ a.concurrency < b.concurrency
<1>1. PICK i \in 1..3 : /\ Rank(a)[i] < Rank(b)[i]
                        /\ \A j \in 1..(i - 1) : Rank(a)[j] = Rank(b)[j]
  BY DEF Before
<1>2. CASE i = 1  BY <1>1, <1>2 DEF Rank
<1>3. CASE i = 2
  <2>1. Rank(a)[1] = Rank(b)[1]  BY <1>1, <1>3
  <2> QED  BY <1>1, <1>3, <2>1 DEF Rank
<1>4. CASE i = 3
  <2>1. Rank(a)[1] = Rank(b)[1] /\ Rank(a)[2] = Rank(b)[2]  BY <1>1, <1>4
  <2> QED  BY <1>1, <1>4, <2>1 DEF Rank
<1> QED  BY <1>2, <1>3, <1>4

\* Cases of one key follow each other.
LEMMA SortedIsGrouped ==
    ASSUME NEW a \in Cases, NEW b \in Cases, NEW c \in Cases,
           Before(a, b), Before(b, c), Key(a) = Key(c)
    PROVE  Key(b) = Key(a)
<1>1. a.transport = c.transport /\ a.model = c.model  BY DEF Key
<1>2. /\ Position(TRANSPORTS, a.transport) = Position(TRANSPORTS, b.transport)
      /\ Position(MODELS, a.model) = Position(MODELS, b.model)
  BY <1>1, BeforeMeans, RankIsNumeric
<1>3. a.transport = b.transport /\ a.model = b.model  BY <1>2, RankIsNumeric
<1> QED  BY <1>3 DEF Key

LEMMA BeforeIsStrict ==
    ASSUME NEW a \in Cases
    PROVE  ~Before(a, a)
BY BeforeMeans, RankIsNumeric
-----------------------------------------------------------------------------
(* What the proofs of the steps share. *)

LEMMA TypesGive ==
    ASSUME TypeOK
    PROVE  /\ DOMAIN planFile = 1..Len(planFile) /\ Len(planFile) \in Nat /\ line \in Nat \ {0}
           /\ \A i \in DOMAIN planFile : planFile[i] \in Cases /\ Key(planFile[i]) \in Keys
           /\ servers \in Seq(Server) /\ DOMAIN servers = 1..Len(servers)
           /\ Len(servers) \in Nat /\ pid \in Nat
           /\ \A p \in DOMAIN servers : servers[p] \in Server
<1>1. planFile \in Seq(Cases) /\ servers \in Seq(Server)  BY DEF TypeOK, Server, Keys, Holds
<1>2. /\ DOMAIN planFile = 1..Len(planFile) /\ Len(planFile) \in Nat
      /\ DOMAIN servers = 1..Len(servers) /\ Len(servers) \in Nat
  BY <1>1, LenProperties
<1> QED  BY <1>1, <1>2, ElementOfSeq DEF TypeOK, Keys

\* The sequence of servers with one of them changed.
LEMMA ServerExcept ==
    ASSUME TypeOK, NEW p \in DOMAIN servers, NEW server \in Server,
           servers' = [servers EXCEPT ![p] = server]
    PROVE  /\ servers' \in Seq(Server) /\ Len(servers') = Len(servers)
           /\ DOMAIN servers' = DOMAIN servers
           /\ \A q \in DOMAIN servers : servers'[q] = IF q = p THEN server ELSE servers[q]
<1>1. servers \in Seq(Server) /\ DOMAIN servers = 1..Len(servers) /\ Len(servers) \in Nat
  BY TypesGive
<1> QED  BY <1>1, ExceptSeq

\* stop_server tells the server of VLLM_PID, and no other, to exit.
LEMMA StopThenFacts ==
    ASSUME TypeOK, NEW waiting, NEW gone, StopThen(waiting, gone)
    PROVE  /\ servers' \in Seq(Server) /\ Len(servers') = Len(servers)
           /\ DOMAIN servers' = DOMAIN servers /\ (servers = <<>> => servers' = <<>>)
           /\ \A p \in DOMAIN servers : /\ servers'[p].key = servers[p].key
                                        /\ servers'[p].alive = servers[p].alive
                                        /\ p # pid => servers'[p] = servers[p]
           /\ pid' = pid /\ phase' = IF pid = 0 THEN gone ELSE waiting
<1>1. CASE pid = 0  BY <1>1, TypesGive DEF StopThen
<1>2. CASE pid # 0
  <2> DEFINE told == [servers[pid] EXCEPT !.held = "told"]
  <2>1. pid \in DOMAIN servers  BY <1>2, TypesGive DEF TypeOK
  <2>2. told \in Server /\ told.key = servers[pid].key /\ told.alive = servers[pid].alive
    BY <2>1, TypesGive DEF Server, Holds
  <2>3. servers' = [servers EXCEPT ![pid] = told] /\ pid' = pid /\ phase' = waiting
    BY <1>2 DEF StopThen
  <2> HIDE DEF told
  <2>4. /\ servers' \in Seq(Server) /\ Len(servers') = Len(servers)
        /\ DOMAIN servers' = DOMAIN servers
        /\ \A q \in DOMAIN servers : servers'[q] = IF q = pid THEN told ELSE servers[q]
    BY <2>1, <2>2, <2>3, ServerExcept
  <2>5. servers # <<>>  BY <2>1
  <2> QED  BY <1>2, <2>2, <2>3, <2>4, <2>5
<1> QED  BY <1>1, <1>2

LEMMA AppendFacts ==
    ASSUME NEW S, NEW s \in Seq(S), NEW e
    PROVE  /\ Append(s, e) \in Seq(S \cup {e})
           /\ Len(Append(s, e)) = Len(s) + 1 /\ Len(s) \in Nat
           /\ DOMAIN s = 1..Len(s) /\ DOMAIN Append(s, e) = 1..(Len(s) + 1)
           /\ \A i \in 1..Len(s) : Append(s, e)[i] = s[i]
           /\ Append(s, e)[Len(s) + 1] = e
<1>1. s \in Seq(S \cup {e}) /\ e \in S \cup {e}  BY SeqMonotonic
<1>2. /\ Append(s, e) \in Seq(S \cup {e}) /\ Len(Append(s, e)) = Len(s) + 1
      /\ \A i \in 1..Len(s) : Append(s, e)[i] = s[i]
      /\ Append(s, e)[Len(s) + 1] = e
  BY <1>1, AppendProperties
<1> QED  BY <1>2, LenProperties

\* A step that adds no row and leaves client and line alone.
LEMMA SameRows ==
    ASSUME Records, UNCHANGED <<planFile, line, csv, args, main, exit>>,
           InLoop' => InLoop, CompleteOnSuccess'
    PROVE  Records'
<1>1. ClientReports'  BY DEF Records, ClientReports, LastRow
<1>2. RecordedBefore(line)'  BY DEF Records, RecordedBefore
<1>3. StillToDo'  BY DEF Records, StillToDo
<1>4. NeverRepeated'  BY DEF Records, NeverRepeated
<1> QED  BY <1>1, <1>2, <1>3, <1>4 DEF Records

LEMMA InitInv ==
    ASSUME Init
    PROVE  IInv
<1>1. /\ planFile = <<>> /\ servers = <<>> /\ csv = <<>> /\ phase = "plan" /\ line = 1 /\ pid = 0
      /\ main = "absent"
  BY DEF Init
<1>2. DOMAIN planFile = {} /\ DOMAIN servers = {} /\ DOMAIN csv = {}
  BY <1>1
<1>3. TypeOK
  <2>1. /\ planFile \in Seq(Cases) /\ Len(planFile) = 0 /\ Len(servers) = 0
        /\ servers \in Seq(Server)
    BY <1>1, EmptySeq
  <2>2. line \in 1..(Len(planFile) + 1) /\ pid \in 0..Len(servers) /\ invocation \in 1..MaxInvocations
    BY <1>1, <2>1, MatrixAssumption DEF Init
  <2>3. code = None /\ code # Killed  BY MatrixAssumption DEF Init
  <2> QED  BY <1>1, <2>1, <2>2, <2>3 DEF Init, TypeOK, Trapped, Server, Keys, Holds
<1>4. Plan /\ Servers /\ ClientOfLine
  BY <1>1, <1>2 DEF Plan, PlanInOrder, KeyOfLine, StartedForLine, InLoop, Servers,
                    ServersOfPlan, OnlyCurrentServer, PidOfPhase, EachServerStartedOnce,
                    ClientOfLine
<1>5. Records
  <2>1. csv \in Seq(Range(csv))  BY <1>1, EmptySeq
  <2> QED  BY <1>1, <1>2, <2>1
           DEF Init, Records, ClientReports, RecordedBefore, StillToDo, InLoop, NeverRepeated,
               CompleteOnSuccess
<1> QED  BY <1>3, <1>4, <1>5 DEF IInv

\* A way out of the script: the client is gone, status 0 without a signal means
\* the end of the plan, and only a signal finds a server not in VLLM_PID.
LEMMA ExitsInv ==
    ASSUME IInv, NEW status \in {0, 1, 2, 130, 143}, Exits(status),
           UNCHANGED <<planVars, lastKey, startFailed, stray, ready, invocation, csv>>,
           main' = "absent", phase \in Trapped, signalled' \in BOOLEAN, signalled => signalled',
           phase = "forked" => signalled',
           status = 0 /\ ~signalled' => line > Len(planFile)
    PROVE  IInv'
<1>1. /\ phase' = "cleanup" /\ code' = status /\ servers' = servers /\ pid' = pid
      /\ planFile' = planFile /\ line' = line /\ lastKey' = lastKey /\ csv' = csv
  BY DEF Exits, planVars
<1>2. TypeOK'
  <2>1. status \notin {None}  BY MatrixAssumption
  <2>2. "cleanup" \notin Trapped /\ "cleanup" # "client" /\ status # Killed  BY DEF Trapped, Killed
  <2> QED  BY <1>1, <2>1, <2>2 DEF IInv, TypeOK
<1>3. Plan' /\ ClientOfLine'
  BY <1>1 DEF IInv, Plan, PlanInOrder, KeyOfLine, StartedForLine, ClientOfLine
<1>4. Servers'
  <2>1. ServersOfPlan' /\ PidOfPhase' /\ EachServerStartedOnce'
    BY <1>1 DEF IInv, Servers, ServersOfPlan, InLoop, Trapped, PidOfPhase, EachServerStartedOnce
  <2>2. OnlyCurrentServer'
    BY <1>1 DEF IInv, Servers, OnlyCurrentServer, Current, Missed, Trapped
  <2> QED  BY <2>1, <2>2 DEF Servers
<1>5. CompleteOnSuccess'
  <2> SUFFICES ASSUME status = 0, ~signalled', NEW i \in DOMAIN planFile
               PROVE  \E k \in DOMAIN csv : csv[k].case = planFile[i] /\ csv[k].status # "failed"
    BY <1>1 DEF CompleteOnSuccess
  <2>1. i < line  BY TypesGive DEF IInv
  <2> QED  BY <2>1 DEF IInv, Records, RecordedBefore
<1>6. Records'
  BY <1>1, <1>5 DEF IInv, Records, ClientReports, RecordedBefore, StillToDo, InLoop, Trapped,
                    NeverRepeated
<1> QED  BY <1>2, <1>3, <1>4, <1>6 DEF IInv
-----------------------------------------------------------------------------
(* The script's own steps. *)

LEMMA MakePlanInv ==
    ASSUME IInv, MakePlan
    PROVE  IInv'
<1>1. /\ phase = "plan" /\ phase' = "loop" /\ line' = line /\ lastKey' = lastKey
      /\ UNCHANGED <<startFailed, servers, pid, ready, signalled, code, invocation>>
      /\ UNCHANGED <<args, main, task, rows, exit, csv>>
  BY DEF MakePlan, serverVars, streamVars
<1>2. /\ planFile' \in Seq(Cases)
      /\ \A i \in DOMAIN planFile' : planFile'[i] \in Cases \ Done
      /\ \A i, j \in DOMAIN planFile' : i < j => Before(planFile'[i], planFile'[j])
  BY SortedPlan DEF MakePlan
<1>3. planFile = <<>> /\ line = 1 /\ servers = <<>> /\ main = "absent"
  BY <1>1 DEF IInv, Plan, PlanInOrder, TypeOK
<1>4. Len(planFile') \in Nat /\ DOMAIN planFile' = 1..Len(planFile') /\ DOMAIN servers = {}
  BY <1>2, <1>3, LenProperties
<1>5. TypeOK'
  <2>1. stray' = stray  BY DEF MakePlan, serverVars
  <2> QED  BY <1>1, <1>2, <1>3, <1>4, <2>1 DEF IInv, TypeOK, Trapped
<1>6. Plan' /\ ClientOfLine'
  BY <1>1, <1>2, <1>3 DEF Plan, PlanInOrder, KeyOfLine, StartedForLine, ClientOfLine
<1>7. Servers'
  BY <1>1, <1>4
     DEF IInv, Servers, ServersOfPlan, OnlyCurrentServer, PidOfPhase, EachServerStartedOnce
<1>8. StillToDo'
  BY <1>1, <1>2 DEF StillToDo, Done, DoneStatuses
<1>9. RecordedBefore(line)'  BY <1>1, <1>3, <1>4 DEF RecordedBefore
<1>10. CompleteOnSuccess'
  <2>1. code' = None  BY <1>1 DEF IInv, TypeOK, Trapped
  <2> QED  BY <2>1, MatrixAssumption DEF CompleteOnSuccess
<1>11. Records'
  BY <1>1, <1>3, <1>8, <1>9, <1>10 DEF IInv, Records, ClientReports, NeverRepeated
<1> QED  BY <1>5, <1>6, <1>7, <1>11 DEF IInv

\* A key that is not last_key's is new: the lines before belong to others.
LEMMA NewKey ==
    ASSUME IInv, phase = "stopped", line \in DOMAIN planFile, NEW p \in DOMAIN servers
    PROVE  servers[p].key # Key(planFile[line])
<1> SUFFICES ASSUME servers[p].key = Key(planFile[line]) PROVE FALSE  OBVIOUS
<1>1. PICK i \in DOMAIN planFile : /\ i <= line /\ Key(planFile[i]) = Key(planFile[line])
                                   /\ i = line => lastKey = Key(planFile[line])
  BY DEF IInv, Servers, ServersOfPlan, InLoop, Trapped
<1>2. i < line  BY <1>1, TypesGive DEF IInv, Plan, KeyOfLine
<1>3. line > 1 /\ lastKey = Key(planFile[line - 1])
  <2>1. DOMAIN servers # {}  OBVIOUS
  <2>2. servers # <<>>  BY <2>1
  <2> QED  BY <2>2 DEF IInv, Plan, KeyOfLine
<1>4. i = line - 1 \/ i < line - 1  BY <1>2, <1>3, TypesGive DEF IInv
<1>5. CASE i = line - 1  BY <1>1, <1>3, <1>5 DEF IInv, Plan, KeyOfLine
<1>6. CASE i < line - 1
  <2>1. line - 1 \in DOMAIN planFile /\ line - 1 < line  BY <1>3, TypesGive DEF IInv
  <2>2. Before(planFile[i], planFile[line - 1]) /\ Before(planFile[line - 1], planFile[line])
    BY <1>6, <2>1 DEF IInv, Plan, PlanInOrder
  <2>3. Key(planFile[line - 1]) = Key(planFile[i])
    BY <1>1, <2>1, <2>2, TypesGive, SortedIsGrouped DEF IInv
  <2> QED  BY <1>1, <1>3, <2>3 DEF IInv, Plan, KeyOfLine
<1> QED  BY <1>4, <1>5, <1>6

\* A step of the loop that keeps plan, rows and client, and every server's key.
LEMMA LoopStepInv ==
    ASSUME IInv, TypeOK', ClientOfLine', KeyOfLine', StartedForLine', OnlyCurrentServer',
           PidOfPhase', InLoop, phase' \in Trapped \ {"plan"},
           DOMAIN servers' = DOMAIN servers,
           \A p \in DOMAIN servers : servers'[p].key = servers[p].key,
           phase \in {"forked", "boot"} /\ phase' \notin {"forked", "boot"}
               => lastKey' = Key(planFile[line]),
           phase \notin {"forked", "boot"} => lastKey' = lastKey,
           UNCHANGED <<planFile, line, csv, args, main, exit, code>>
    PROVE  IInv'
<1>1. InLoop' /\ phase' # "plan"  BY DEF InLoop
<1>2. Plan'  BY <1>1 DEF IInv, Plan, PlanInOrder
<1>3. ServersOfPlan'
  <2> SUFFICES ASSUME NEW p \in DOMAIN servers
               PROVE  \E i \in DOMAIN planFile :
                        /\ i <= line /\ servers'[p].key = Key(planFile[i])
                        /\ i = line => phase' \in {"forked", "boot"} \/ lastKey' = servers'[p].key
    BY <1>1 DEF ServersOfPlan
  <2>1. PICK i \in DOMAIN planFile :
            /\ i <= line /\ servers[p].key = Key(planFile[i])
            /\ i = line => phase \in {"forked", "boot"} \/ lastKey = servers[p].key
    BY DEF IInv, Servers, ServersOfPlan
  <2>2. servers'[p].key = Key(planFile[i])  BY <2>1
  <2>3. i = line => phase' \in {"forked", "boot"} \/ lastKey' = servers'[p].key
    <3>1. CASE phase \in {"forked", "boot"}  BY <2>2, <3>1
    <3>2. CASE phase \notin {"forked", "boot"}  BY <2>1, <3>2
    <3> QED  BY <3>1, <3>2
  <2> QED  BY <2>1, <2>2, <2>3
<1>4. EachServerStartedOnce'  BY DEF IInv, Servers, EachServerStartedOnce
<1>5. CompleteOnSuccess'
  <2>1. code' = None  BY DEF IInv, TypeOK, InLoop
  <2> QED  BY <2>1, MatrixAssumption DEF CompleteOnSuccess
<1>6. Records'  BY <1>5, SameRows DEF IInv
<1> QED  BY <1>2, <1>3, <1>4, <1>6 DEF IInv, Servers

LEMMA StopServerInv ==
    ASSUME IInv, StopServer
    PROVE  IInv'
<1>1. /\ phase = "loop" /\ UNCHANGED <<planFile, line, lastKey, stray, ready, signalled, code>>
      /\ UNCHANGED <<invocation, args, main, exit, csv>>
      /\ StopThen("stop", "stopped")
  BY DEF StopServer, planVars, streamVars
<1>2. startFailed' \in BOOLEAN  BY DEF StopServer, IInv, TypeOK
<1>3. line \in DOMAIN planFile => Key(planFile[line]) # lastKey
  BY TypesGive DEF StopServer, Case, IInv
<1>4. /\ servers' \in Seq(Server) /\ Len(servers') = Len(servers)
      /\ DOMAIN servers' = DOMAIN servers /\ (servers = <<>> => servers' = <<>>)
      /\ \A p \in DOMAIN servers : /\ servers'[p].key = servers[p].key
                                   /\ servers'[p].alive = servers[p].alive
      /\ pid' = pid /\ phase' = IF pid = 0 THEN "stopped" ELSE "stop"
  BY <1>1, StopThenFacts DEF IInv
<1>5. phase' \in {"stop", "stopped"}  BY <1>4
<1>6. TypeOK'
  BY <1>1, <1>2, <1>4, <1>5 DEF IInv, TypeOK, Trapped, Server, Keys, Holds
<1>7. KeyOfLine'
  BY <1>1, <1>3, <1>4, <1>5 DEF IInv, Plan, KeyOfLine
<1>8. StartedForLine' /\ ClientOfLine'  BY <1>5 DEF StartedForLine, ClientOfLine
<1>9. OnlyCurrentServer'
  BY <1>1, <1>4, <1>5 DEF IInv, Servers, OnlyCurrentServer, Current, Missed
<1>10. PidOfPhase'  BY <1>4 DEF PidOfPhase
<1>11. InLoop /\ phase' \in Trapped \ {"plan"}  BY <1>1, <1>5 DEF InLoop, Trapped
<1> QED  BY <1>1, <1>4, <1>6, <1>7, <1>8, <1>9, <1>10, <1>11, LoopStepInv

LEMMA ReapInv ==
    ASSUME IInv, Reap
    PROVE  IInv'
<1>1. /\ phase = "stop" /\ phase' = "stopped" /\ pid' = 0 /\ servers' = servers
      /\ ~servers[pid].alive
      /\ UNCHANGED <<planFile, line, lastKey, startFailed, stray, ready, signalled, code>>
      /\ UNCHANGED <<invocation, args, main, exit, csv>>
  BY DEF Reap, Awaited, planVars, streamVars
<1>2. TypeOK'  BY <1>1, TypesGive DEF IInv, TypeOK, Trapped
<1>3. KeyOfLine' /\ StartedForLine' /\ ClientOfLine'
  BY <1>1 DEF IInv, Plan, KeyOfLine, StartedForLine, ClientOfLine
<1>4. OnlyCurrentServer' /\ PidOfPhase'
  BY <1>1 DEF IInv, Servers, OnlyCurrentServer, Current, Missed, PidOfPhase
<1>5. InLoop /\ phase' \in Trapped \ {"plan"}  BY <1>1 DEF InLoop, Trapped
<1> QED  BY <1>1, <1>2, <1>3, <1>4, <1>5, LoopStepInv

\* With no VLLM_PID before the fork, nothing is alive.
LEMMA NothingAlive ==
    ASSUME IInv, phase = "stopped", NEW p \in DOMAIN servers
    PROVE  ~servers[p].alive
<1>1. pid = 0 /\ p # 0  BY TypesGive DEF IInv, Servers, PidOfPhase
<1> QED  BY <1>1 DEF IInv, Servers, OnlyCurrentServer, Current, Missed

LEMMA RefuseStartInv ==
    ASSUME IInv, RefuseStart
    PROVE  IInv'
<1>1. /\ phase = "stopped" /\ phase' = "loop" /\ line \in DOMAIN planFile
      /\ lastKey' = Key(planFile[line]) /\ startFailed' = TRUE
      /\ UNCHANGED <<planFile, line, servers, pid, stray, ready, signalled, code>>
      /\ UNCHANGED <<invocation, args, main, exit, csv>>
  BY TypesGive DEF RefuseStart, Case, planVars, serverVars, streamVars, IInv
<1>2. Key(planFile[line]) \in Keys  BY <1>1, TypesGive DEF IInv
<1>3. TypeOK'  BY <1>1, <1>2 DEF IInv, TypeOK, Trapped, Keys
<1>4. Plan' /\ ClientOfLine'
  BY <1>1 DEF IInv, Plan, PlanInOrder, KeyOfLine, StartedForLine, ClientOfLine
<1>5. \A p \in DOMAIN servers : servers[p].key # Key(planFile[line])  BY <1>1, NewKey
<1>6. ServersOfPlan'
  <2> SUFFICES ASSUME NEW p \in DOMAIN servers
               PROVE  \E i \in DOMAIN planFile :
                         i <= line /\ servers[p].key = Key(planFile[i]) /\ i # line
    BY <1>1 DEF ServersOfPlan
  <2>1. InLoop  BY <1>1 DEF InLoop, Trapped
  <2> QED  BY <1>5, <2>1 DEF IInv, Servers, ServersOfPlan
<1>7. OnlyCurrentServer'  BY <1>1, NothingAlive DEF OnlyCurrentServer
<1>8. PidOfPhase' /\ EachServerStartedOnce'
  BY <1>1 DEF IInv, Servers, PidOfPhase, EachServerStartedOnce
<1>9. Records'
  <2>1. CompleteOnSuccess'  BY <1>1 DEF IInv, Records, CompleteOnSuccess
  <2>2. InLoop  BY <1>1 DEF InLoop, Trapped
  <2> QED  BY <1>1, <2>1, <2>2, SameRows DEF IInv
<1> QED  BY <1>3, <1>4, <1>6, <1>7, <1>8, <1>9 DEF IInv, Servers

LEMMA ForkInv ==
    ASSUME IInv, Fork
    PROVE  IInv'
<1> DEFINE server == [key |-> Key(planFile[line]), alive |-> TRUE, started |-> FALSE,
                      held |-> "unnoted"]
           n == Len(servers)
<1>1. /\ phase = "stopped" /\ phase' = "forked" /\ line \in DOMAIN planFile
      /\ servers' = Append(servers, server)
      /\ UNCHANGED <<planFile, line, lastKey, startFailed, pid, stray, ready, signalled, code>>
      /\ UNCHANGED <<invocation, args, main, exit, csv>>
  BY TypesGive DEF Fork, Case, planVars, streamVars, IInv
<1>2. Key(planFile[line]) \in Keys  BY <1>1, TypesGive DEF IInv
<1>3. server \in Server /\ server.key = Key(planFile[line]) /\ server.held = "unnoted"
  BY <1>2 DEF Server, Holds
<1> HIDE DEF server
<1>4. /\ servers' \in Seq(Server) /\ Len(servers') = n + 1 /\ DOMAIN servers' = 1..(n + 1)
      /\ DOMAIN servers = 1..n /\ n \in Nat
      /\ \A p \in 1..n : servers'[p] = servers[p]
      /\ servers'[n + 1] = server
  <2>1. Server \cup {server} = Server  BY <1>3
  <2>2. servers \in Seq(Server)  BY TypesGive DEF IInv
  <2> QED  BY <1>1, <2>1, <2>2, AppendFacts
<1>5. \A p \in 1..n : servers[p].key # Key(planFile[line])  BY <1>1, <1>4, NewKey
<1>6. \A p \in 1..n : ~servers[p].alive  BY <1>1, <1>4, NothingAlive
<1> HIDE DEF n
<1>7. \A p \in 1..(n + 1) : p \in 1..n \/ p = n + 1  BY <1>4
<1>8. TypeOK'
  <2>1. pid' \in 0..Len(servers')
    <3>1. pid = 0  BY <1>1 DEF IInv, Servers, PidOfPhase
    <3> QED  BY <1>1, <1>4, <3>1
  <2> QED  BY <1>1, <1>4, <2>1 DEF IInv, TypeOK, Trapped, Server, Keys, Holds
<1>9. Plan' /\ ClientOfLine'
  <2>1. servers' # <<>>  BY <1>4
  <2>2. servers'[Len(servers')].key = Key(planFile[line])  BY <1>3, <1>4
  <2> QED  BY <1>1, <2>1, <2>2 DEF IInv, Plan, PlanInOrder, KeyOfLine, StartedForLine, ClientOfLine
<1>10. ServersOfPlan'
  <2> SUFFICES ASSUME NEW p \in 1..(n + 1)
               PROVE  \E i \in DOMAIN planFile : i <= line /\ servers'[p].key = Key(planFile[i])
    BY <1>1, <1>4 DEF ServersOfPlan
  <2>1. CASE p = n + 1
    <3>1. line <= line  BY TypesGive DEF IInv
    <3> QED  BY <1>1, <1>3, <1>4, <2>1, <3>1
  <2>2. CASE p \in 1..n
    <3>1. InLoop  BY <1>1 DEF InLoop, Trapped
    <3> QED  BY <1>4, <2>2, <3>1 DEF IInv, Servers, ServersOfPlan
  <2> QED  BY <1>7, <2>1, <2>2
<1>11. OnlyCurrentServer' /\ PidOfPhase'
  BY <1>1, <1>3, <1>4, <1>6, <1>7 DEF OnlyCurrentServer, Missed, IInv, Servers, PidOfPhase
<1>12. EachServerStartedOnce'
  BY <1>3, <1>4, <1>5, <1>7 DEF IInv, Servers, EachServerStartedOnce
<1>13. Records'
  <2>1. CompleteOnSuccess'  BY <1>1 DEF IInv, Records, CompleteOnSuccess
  <2>2. InLoop  BY <1>1 DEF InLoop, Trapped
  <2> QED  BY <1>1, <2>1, <2>2, SameRows DEF IInv
<1> QED  BY <1>8, <1>9, <1>10, <1>11, <1>12, <1>13 DEF IInv, Servers

LEMMA NotePidInv ==
    ASSUME IInv, NotePid
    PROVE  IInv'
<1> DEFINE n == Len(servers)
           noted == [servers[n] EXCEPT !.held = "noted"]
<1>1. /\ phase = "forked" /\ phase' = "boot" /\ pid' = n
      /\ servers' = [servers EXCEPT ![n] = noted]
      /\ UNCHANGED <<planFile, line, lastKey, startFailed, stray, ready, signalled, code>>
      /\ UNCHANGED <<invocation, args, main, exit, csv>>
  BY DEF NotePid, planVars, streamVars
<1>2. /\ line \in DOMAIN planFile /\ servers # <<>> /\ servers[n].key = Key(planFile[line])
  BY <1>1 DEF IInv, Plan, StartedForLine
<1>3. n \in DOMAIN servers /\ n \in Nat \ {0}
  BY <1>2, TypesGive, EmptySeq DEF IInv
<1>4. noted \in Server /\ noted.key = servers[n].key
  BY <1>3, TypesGive DEF IInv, Server, Holds
<1> HIDE DEF noted
<1>5. /\ servers' \in Seq(Server) /\ Len(servers') = n /\ DOMAIN servers' = DOMAIN servers
      /\ \A q \in DOMAIN servers : servers'[q] = IF q = n THEN noted ELSE servers[q]
  BY <1>1, <1>3, <1>4, ServerExcept DEF IInv
<1>6. \A q \in DOMAIN servers : servers'[q].key = servers[q].key  BY <1>4, <1>5
<1> HIDE DEF n
<1>7. TypeOK'
  <2>1. pid' \in 0..Len(servers')  BY <1>1, <1>3, <1>5
  <2> QED  BY <1>1, <1>5, <2>1 DEF IInv, TypeOK, Trapped, Server, Keys, Holds
<1>8. KeyOfLine' /\ StartedForLine' /\ ClientOfLine'
  <2>1. servers' # <<>>  BY <1>3, <1>5
  <2> QED  BY <1>1, <1>2, <1>3, <1>5, <1>6, <2>1 DEF KeyOfLine, StartedForLine, ClientOfLine
<1>9. OnlyCurrentServer'
  <2> SUFFICES ASSUME NEW p \in DOMAIN servers, servers'[p].alive PROVE p = n
    BY <1>1, <1>5 DEF OnlyCurrentServer, Current
  <2>1. pid = 0 /\ p # 0  BY <1>1, TypesGive DEF IInv, Servers, PidOfPhase
  <2> QED  BY <1>5, <2>1 DEF IInv, Servers, OnlyCurrentServer, Current, Missed, n
<1>10. PidOfPhase'  BY <1>1, <1>3 DEF PidOfPhase
<1>11. InLoop /\ phase' \in Trapped \ {"plan"}  BY <1>1 DEF InLoop, Trapped
<1> QED  BY <1>1, <1>5, <1>6, <1>7, <1>8, <1>9, <1>10, <1>11, LoopStepInv

LEMMA WaitReadyInv ==
    ASSUME IInv, WaitReady
    PROVE  IInv'
<1>1. /\ phase = "boot" /\ phase' = "loop" /\ ready' = servers[pid].started
      /\ lastKey' = Key(planFile[line])
      /\ UNCHANGED <<planFile, line, servers, pid, stray, startFailed, signalled, code>>
      /\ UNCHANGED <<invocation, args, main, exit, csv>>
  BY DEF WaitReady, BootEnds, Case, planVars, serverVars, streamVars
<1>2. /\ line \in DOMAIN planFile /\ servers # <<>> /\ pid = Len(servers)
      /\ servers[pid].key = Key(planFile[line])
  BY <1>1 DEF IInv, Plan, StartedForLine
<1>3. Key(planFile[line]) \in Keys /\ pid \in DOMAIN servers
  <2>1. pid # 0  BY <1>1 DEF IInv, Servers, PidOfPhase
  <2> QED  BY <1>2, <2>1, TypesGive DEF IInv, TypeOK
<1>4. ready' \in BOOLEAN  BY <1>1, <1>3, TypesGive DEF IInv, Server
<1>5. TypeOK'  BY <1>1, <1>3, <1>4 DEF IInv, TypeOK, Trapped, Keys
<1>6. KeyOfLine' /\ StartedForLine' /\ ClientOfLine'
  BY <1>1, <1>2 DEF KeyOfLine, StartedForLine, ClientOfLine
<1>7. OnlyCurrentServer' /\ PidOfPhase'
  BY <1>1, <1>2 DEF IInv, Servers, OnlyCurrentServer, Current, Missed, PidOfPhase
<1>8. InLoop /\ phase' \in Trapped \ {"plan"}  BY <1>1 DEF InLoop, Trapped
<1> QED  BY <1>1, <1>5, <1>6, <1>7, <1>8, LoopStepInv

\* A step of the client, or to it, on a line whose server is last_key's.
LEMMA SameLineInv ==
    ASSUME IInv, TypeOK', ClientOfLine', ClientReports', phase \in {"loop", "client"},
           phase' = "client",
           UNCHANGED <<planVars, lastKey, serverVars, code, csv>>, main = "done" => main' = "done"
    PROVE  IInv'
<1>1. /\ InLoop /\ InLoop' /\ phase' = "client"
      /\ UNCHANGED <<planFile, line, servers, pid, csv, code, lastKey>>
  BY DEF InLoop, Trapped, planVars, serverVars
<1>2. Plan'
  BY <1>1 DEF IInv, Plan, PlanInOrder, KeyOfLine, StartedForLine
<1>3. Servers'
  <2>1. ServersOfPlan' /\ EachServerStartedOnce'
    BY <1>1 DEF IInv, Servers, ServersOfPlan, EachServerStartedOnce
  <2>2. OnlyCurrentServer' /\ PidOfPhase'
    BY <1>1 DEF IInv, Servers, OnlyCurrentServer, Current, Missed, PidOfPhase
  <2> QED  BY <2>1, <2>2 DEF Servers
<1>4. CompleteOnSuccess'
  <2>1. code' = None  BY <1>1 DEF IInv, TypeOK, InLoop
  <2> QED  BY <2>1, MatrixAssumption DEF CompleteOnSuccess
<1>5. Records'
  BY <1>1, <1>4 DEF IInv, Records, RecordedBefore, StillToDo, NeverRepeated
<1> QED  BY <1>2, <1>3, <1>5 DEF IInv

\* append_skip and run_case start the client for the case of the line.
LEMMA RunClientInv ==
    ASSUME IInv, SkipCase \/ RunCase
    PROVE  IInv'
<1>1. /\ phase = "loop" /\ line \in DOMAIN planFile /\ Key(planFile[line]) = lastKey
      /\ RunClient(startFailed)
  <2> USE DEF AtCase, Case
  <2>1. phase = "loop" /\ line \in DOMAIN planFile /\ Key(planFile[line]) = lastKey
    <3>1. line \in Nat \ {0} /\ DOMAIN planFile = 1..Len(planFile) /\ Len(planFile) \in Nat
      BY TypesGive DEF IInv
    <3>2. phase = "loop" /\ line <= Len(planFile) /\ Key(planFile[line]) = lastKey
      BY DEF SkipCase, RunCase
    <3> QED  BY <3>1, <3>2
  <2>2. CASE SkipCase
    <3>1. startFailed = TRUE /\ RunClient(TRUE)  BY <2>2 DEF SkipCase, IInv, TypeOK
    <3> QED  BY <2>1, <3>1
  <2>3. CASE RunCase
    <3>1. startFailed = FALSE /\ RunClient(FALSE)  BY <2>3 DEF RunCase, IInv, TypeOK
    <3> QED  BY <2>1, <3>1
  <2> QED  BY <2>2, <2>3
<1>2. /\ phase' = "client" /\ args' = Command(planFile[line], startFailed) /\ main' = "started"
      /\ UNCHANGED <<planVars, lastKey, serverVars, csv>>
      /\ UNCHANGED <<startFailed, ready, signalled, code, invocation, exit>>
  BY <1>1 DEF RunClient, Client!Exec, Case
<1>3. main = "absent"  BY <1>1 DEF IInv, TypeOK
<1>4. TypeOK'  BY <1>1, <1>2 DEF IInv, TypeOK, Trapped, planVars, serverVars
<1>5. ClientOfLine' /\ ClientReports'
  BY <1>1, <1>2 DEF ClientOfLine, ClientReports, planVars
<1> QED  BY <1>1, <1>2, <1>3, <1>4, <1>5, SameLineInv

LEMMA ResolveFailsInv ==
    ASSUME IInv, ResolveFails
    PROVE  IInv'
<1>1. main = "absent" /\ signalled \in BOOLEAN  BY DEF ResolveFails, AtCase, IInv, TypeOK
<1>2. phase \in Trapped /\ phase # "forked"  BY DEF ResolveFails, AtCase, Trapped
<1> QED  BY <1>1, <1>2, ExitsInv DEF ResolveFails, streamVars

LEMMA FinishInv ==
    ASSUME IInv, Finish
    PROVE  IInv'
<1>1. main = "absent" /\ signalled \in BOOLEAN  BY DEF Finish, IInv, TypeOK
<1>2. phase \in Trapped /\ phase # "forked"  BY DEF Finish, Trapped
<1> QED  BY <1>1, <1>2, ExitsInv DEF Finish, streamVars

\* The client of this line has ended well: its row is the line's.
LEMMA NextLineInv ==
    ASSUME IInv, ClientReturns, exit = 0, ~signalled
    PROVE  IInv'
<1>1. /\ phase = "client" /\ main = "done" /\ phase' = "loop" /\ line' = line + 1
      /\ main' = "absent" /\ csv' = csv
      /\ planFile' = planFile /\ servers' = servers /\ pid' = pid /\ code' = code
      /\ lastKey' = lastKey /\ startFailed' = startFailed /\ ready' = ready
      /\ signalled' = signalled /\ invocation' = invocation /\ stray' = stray
  BY DEF ClientReturns, NextLine, Client!Gone
<1>2. /\ line \in DOMAIN planFile /\ args = Command(planFile[line], startFailed)
      /\ lastKey = Key(planFile[line])
  BY <1>1 DEF IInv, ClientOfLine
<1>3. /\ DOMAIN planFile = 1..Len(planFile) /\ Len(planFile) \in Nat /\ line \in Nat \ {0}
      /\ line + 1 > 1 /\ (line + 1) - 1 = line
  BY TypesGive DEF IInv
<1>4. TypeOK'
  <2>1. line' \in 1..(Len(planFile') + 1)  BY <1>1, <1>2, <1>3
  <2> QED  BY <1>1, <2>1 DEF IInv, TypeOK, Trapped
<1>5. Plan' /\ ClientOfLine'
  BY <1>1, <1>2, <1>3 DEF IInv, Plan, PlanInOrder, KeyOfLine, StartedForLine, ClientOfLine
<1>6. Servers'
  <2>1. ServersOfPlan'
    BY <1>1, <1>2, <1>3 DEF IInv, Servers, ServersOfPlan, InLoop, Trapped
  <2>2. OnlyCurrentServer' /\ PidOfPhase' /\ EachServerStartedOnce'
    BY <1>1 DEF IInv, Servers, OnlyCurrentServer, Current, Missed, PidOfPhase, EachServerStartedOnce
  <2> QED  BY <2>1, <2>2 DEF Servers
<1>7. \E k \in DOMAIN csv : csv[k].case = planFile[line] /\ csv[k].status # "failed"
  <2>1. csv # <<>> /\ LastRow(csv[Len(csv)])
    BY <1>1 DEF IInv, Records, ClientReports
  <2>2. Len(csv) \in DOMAIN csv
    <3>1. csv \in Seq(Range(csv))  BY DEF IInv, Records
    <3> QED  BY <2>1, <3>1, EmptySeq, LenProperties
  <2>3. args.case = planFile[line]  BY <1>2 DEF Command
  <2> QED  BY <2>1, <2>2, <2>3 DEF LastRow, Statuses
<1>8. RecordedBefore(line)'
  <2>1. \A i \in DOMAIN planFile : i < line + 1 => i < line \/ i = line  BY <1>3
  <2> QED  BY <1>1, <1>7, <2>1 DEF IInv, Records, RecordedBefore
<1>9. StillToDo'
  <2>1. \A i \in DOMAIN planFile : line + 1 <= i => line <= i /\ line < i  BY <1>3
  <2> QED  BY <1>1, <2>1 DEF IInv, Records, StillToDo, InLoop, Trapped
<1>10. CompleteOnSuccess'
  <2>1. code' = None  BY <1>1 DEF IInv, TypeOK, Trapped
  <2> QED  BY <2>1, MatrixAssumption DEF CompleteOnSuccess
<1>11. Records'
  BY <1>1, <1>8, <1>9, <1>10 DEF IInv, Records, ClientReports, NeverRepeated
<1> QED  BY <1>4, <1>5, <1>6, <1>11 DEF IInv

LEMMA ClientReturnsInv ==
    ASSUME IInv, ClientReturns
    PROVE  IInv'
<1>1. CASE exit = 0 /\ ~signalled  BY <1>1, NextLineInv
<1>2. CASE ~(exit = 0 /\ ~signalled)
  <2>1. exit \in {0, 1, 2, 130} /\ signalled \in BOOLEAN
    BY DEF ClientReturns, IInv, TypeOK, Records, ClientReports
  <2>2. Exits(exit) /\ main' = "absent" /\ signalled' = signalled
        /\ UNCHANGED <<planVars, lastKey, startFailed, stray, ready, invocation, csv>>
    BY <1>2 DEF ClientReturns, Client!Gone, planVars
  <2>3. phase \in Trapped /\ phase # "forked"  BY DEF ClientReturns, Trapped
  <2> QED  BY <1>2, <2>1, <2>2, <2>3, ExitsInv
<1> QED  BY <1>1, <1>2

LEMMA ObeySignalInv ==
    ASSUME IInv, ObeySignal
    PROVE  IInv'
<1>1. /\ main = "absent" /\ signalled \in BOOLEAN /\ signalled' = signalled /\ signalled
      /\ phase \in Trapped
  BY DEF ObeySignal, IInv, TypeOK
<1>2. PICK status \in {0, 1, 143} : Exits(status)  BY DEF ObeySignal
<1> QED  BY <1>1, <1>2, ExitsInv DEF ObeySignal, streamVars

-----------------------------------------------------------------------------
(* cleanup. *)

\* After the script's last decision: the plan, the client and the rows stay.
LEMMA WayOutInv ==
    ASSUME IInv, TypeOK', OnlyCurrentServer', PidOfPhase', phase \notin Trapped,
           phase' \notin Trapped, DOMAIN servers' = DOMAIN servers,
           \A p \in DOMAIN servers : servers'[p].key = servers[p].key,
           UNCHANGED <<planFile, line, csv, args, main, exit>>,
           UNCHANGED <<signalled, code>> \/ code' = Killed
    PROVE  IInv'
<1>1. ~InLoop' /\ phase' \notin {"plan", "loop", "stop", "stopped", "forked", "boot", "client"}
  BY DEF InLoop, Trapped
<1>2. Plan' /\ ClientOfLine'
  BY <1>1 DEF IInv, Plan, PlanInOrder, KeyOfLine, StartedForLine, ClientOfLine
<1>3. ServersOfPlan' /\ EachServerStartedOnce'
  BY <1>1 DEF IInv, Servers, ServersOfPlan, EachServerStartedOnce
<1>4. CompleteOnSuccess'
  <2>1. CASE UNCHANGED <<signalled, code>>  BY <2>1 DEF IInv, Records, CompleteOnSuccess
  <2>2. CASE code' = Killed  BY <2>2 DEF CompleteOnSuccess, Killed
  <2> QED  BY <2>1, <2>2
<1>5. Records'  BY <1>1, <1>4, SameRows DEF IInv
<1> QED  BY <1>2, <1>3, <1>5 DEF IInv, Servers

LEMMA CleanUpInv ==
    ASSUME IInv, CleanUp
    PROVE  IInv'
<1>1. /\ phase = "cleanup" /\ UNCHANGED <<planFile, line, lastKey, startFailed, stray, ready>>
      /\ UNCHANGED <<signalled, code, invocation, args, main, exit, csv>>
      /\ StopThen("reap", "exited")
  BY DEF CleanUp, planVars, streamVars
<1>2. /\ servers' \in Seq(Server) /\ Len(servers') = Len(servers)
      /\ DOMAIN servers' = DOMAIN servers
      /\ \A p \in DOMAIN servers : /\ servers'[p].key = servers[p].key
                                   /\ servers'[p].alive = servers[p].alive
                                   /\ p # pid => servers'[p] = servers[p]
      /\ pid' = pid /\ phase' = IF pid = 0 THEN "exited" ELSE "reap"
  BY <1>1, StopThenFacts DEF IInv
<1>3. phase' \in {"reap", "exited"} /\ phase' \notin Trapped /\ phase \notin Trapped
      /\ phase' # "client" /\ phase # "client"
  BY <1>1, <1>2 DEF Trapped
<1>4. TypeOK'
  BY <1>1, <1>2, <1>3 DEF IInv, TypeOK, Server, Keys, Holds
<1>5. OnlyCurrentServer'
  <2> SUFFICES ASSUME NEW p \in DOMAIN servers, servers'[p].alive
               PROVE  Current(p)' \/ Missed(p)'
    BY <1>2 DEF OnlyCurrentServer
  <2>1. CASE p = pid  BY <1>2, <1>3, <2>1 DEF Current
  <2>2. CASE p # pid
    <3>1. Missed(p) /\ servers'[p] = servers[p]
      BY <1>2, <2>2 DEF IInv, Servers, OnlyCurrentServer, Current
    <3> QED  BY <1>1, <1>2, <1>3, <3>1 DEF Missed
  <2> QED  BY <2>1, <2>2
<1>6. PidOfPhase'  BY <1>2 DEF PidOfPhase
<1> QED  BY <1>1, <1>2, <1>3, <1>4, <1>5, <1>6, WayOutInv

LEMMA ReapedInv ==
    ASSUME IInv, Reaped
    PROVE  IInv'
<1>1. /\ phase = "reap" /\ phase' = "exited" /\ pid' = 0 /\ servers' = servers
      /\ ~servers[pid].alive
      /\ UNCHANGED <<planFile, line, lastKey, startFailed, stray, ready, signalled, code>>
      /\ UNCHANGED <<invocation, args, main, exit, csv>>
  BY DEF Reaped, Awaited, planVars, streamVars
<1>2. phase \notin Trapped /\ phase' \notin Trapped  BY <1>1 DEF Trapped
<1>3. TypeOK'  BY <1>1, <1>2, TypesGive DEF IInv, TypeOK
<1>4. OnlyCurrentServer' /\ PidOfPhase'
  BY <1>1 DEF IInv, Servers, OnlyCurrentServer, Current, Missed, PidOfPhase
<1> QED  BY <1>1, <1>2, <1>3, <1>4, WayOutInv

LEMMA KillCleanUpInv ==
    ASSUME IInv, KillCleanUp
    PROVE  IInv'
<1>1. /\ phase \in {"cleanup", "reap"} /\ phase' = "exited" /\ code' = Killed /\ signalled' = TRUE
      /\ UNCHANGED <<planFile, line, lastKey, startFailed, servers, pid, stray, ready>>
      /\ UNCHANGED <<invocation, args, main, exit, csv>>
  BY DEF KillCleanUp, planVars, serverVars, streamVars
<1>2. phase \notin Trapped /\ phase' \notin Trapped  BY <1>1 DEF Trapped
<1>3. TypeOK'
  <2>1. code' # None  BY <1>1, MatrixAssumption
  <2> QED  BY <1>1, <1>2, <2>1 DEF IInv, TypeOK
<1>4. OnlyCurrentServer' /\ PidOfPhase'
  BY <1>1 DEF IInv, Servers, OnlyCurrentServer, Current, Missed, PidOfPhase
<1> QED  BY <1>1, <1>2, <1>3, <1>4, WayOutInv

-----------------------------------------------------------------------------
(* Signals, the next invocation, and the servers. *)

LEMMA InterruptInv ==
    ASSUME IInv, Interrupt
    PROVE  IInv'
<1>1. PICK status \in {0, 1, 130} : Exits(status)  BY DEF Interrupt
<1>2. main' = "absent" /\ csv' = csv /\ signalled' = TRUE /\ phase \in Trapped
  BY DEF Interrupt, Client!Gone
<1> QED  BY <1>1, <1>2, ExitsInv DEF Interrupt

LEMMA TerminateInv ==
    ASSUME IInv, Terminate
    PROVE  IInv'
<1>1. /\ phase \in Trapped /\ phase' = phase /\ signalled' = TRUE
      /\ UNCHANGED <<planFile, line, lastKey, startFailed, servers, pid, stray, ready, code>>
      /\ UNCHANGED <<invocation, args, main, exit, csv>>
  BY DEF Terminate, planVars, serverVars, streamVars
<1>2. TypeOK'  BY <1>1 DEF IInv, TypeOK
<1>3. Plan' /\ ClientOfLine'
  BY <1>1 DEF IInv, Plan, PlanInOrder, KeyOfLine, StartedForLine, ClientOfLine
<1>4. Servers'
  BY <1>1 DEF IInv, Servers, ServersOfPlan, InLoop, OnlyCurrentServer, Current, Missed,
              PidOfPhase, EachServerStartedOnce
<1>5. Records'  BY <1>1, SameRows DEF IInv, InLoop, CompleteOnSuccess
<1> QED  BY <1>2, <1>3, <1>4, <1>5 DEF IInv

LEMMA StrayDiesInv ==
    ASSUME IInv, StrayDies
    PROVE  IInv'
<1>1. /\ stray' \in BOOLEAN
      /\ UNCHANGED <<phase, planFile, line, lastKey, startFailed, servers, pid, ready, signalled>>
      /\ UNCHANGED <<code, invocation, args, main, exit, csv>>
  BY DEF StrayDies, planVars, streamVars
<1>2. TypeOK'  BY <1>1 DEF IInv, TypeOK
<1>3. Plan' /\ ClientOfLine'
  BY <1>1 DEF IInv, Plan, PlanInOrder, KeyOfLine, StartedForLine, ClientOfLine
<1>4. Servers'
  BY <1>1 DEF IInv, Servers, ServersOfPlan, InLoop, OnlyCurrentServer, Current, Missed,
              PidOfPhase, EachServerStartedOnce
<1>5. Records'
  <2>1. CompleteOnSuccess'  BY <1>1 DEF IInv, Records, CompleteOnSuccess
  <2> QED  BY <1>1, <2>1, SameRows DEF IInv, InLoop
<1> QED  BY <1>2, <1>3, <1>4, <1>5 DEF IInv

\* Another run of the script over the same CSV file.
LEMMA RerunInv ==
    ASSUME IInv, Rerun
    PROVE  IInv'
<1>1. /\ phase = "exited" /\ phase' = "plan" /\ planFile' = <<>> /\ line' = 1 /\ servers' = <<>>
      /\ pid' = 0 /\ UNCHANGED <<args, main, exit, csv>> /\ invocation < MaxInvocations
      /\ lastKey' = None /\ startFailed' = FALSE /\ ready' = FALSE /\ signalled' = FALSE
      /\ code' = None /\ invocation' = invocation + 1 /\ stray' \in BOOLEAN
  BY DEF Rerun, streamVars, IInv, TypeOK
<1>2. DOMAIN planFile' = {} /\ DOMAIN servers' = {} /\ main = "absent"
  BY <1>1 DEF IInv, TypeOK
<1>3. TypeOK'
  <2>1. /\ planFile' \in Seq(Cases) /\ Len(planFile') = 0 /\ Len(servers') = 0
        /\ servers' \in Seq(Server)
    BY <1>1, EmptySeq
  <2>2. /\ line' \in 1..(Len(planFile') + 1) /\ pid' \in 0..Len(servers')
        /\ invocation' \in 1..MaxInvocations /\ code' # Killed
    BY <1>1, <2>1, MatrixAssumption DEF IInv, TypeOK
  <2> QED  BY <1>1, <1>2, <2>1, <2>2 DEF TypeOK, Trapped, Server, Keys, Holds
<1>4. Plan' /\ Servers' /\ ClientOfLine'
  BY <1>1, <1>2 DEF Plan, PlanInOrder, KeyOfLine, StartedForLine, Servers, ServersOfPlan,
                    OnlyCurrentServer, PidOfPhase, EachServerStartedOnce, ClientOfLine
<1>5. Records'
  BY <1>1, <1>2 DEF IInv, Records, ClientReports, RecordedBefore, StillToDo, InLoop,
                    NeverRepeated, CompleteOnSuccess
<1> QED  BY <1>3, <1>4, <1>5 DEF IInv

\* A server becomes ready or dies; it keeps its key, and none comes to life.
LEMMA ServerStepInv ==
    ASSUME IInv, NEW p \in DOMAIN servers, ServerStarts(p) \/ ServerDies(p)
    PROVE  IInv'
<1> DEFINE starting == [servers[p] EXCEPT !.started = TRUE]
           dying == [servers[p] EXCEPT !.alive = FALSE]
<1>1. PICK server \in Server : /\ servers' = [servers EXCEPT ![p] = server]
                               /\ server.key = servers[p].key
                               /\ server.held = servers[p].held
                               /\ server.alive => servers[p].alive
  <2>1. servers[p] \in Server  BY TypesGive DEF IInv
  <2>2. /\ starting \in Server /\ starting.key = servers[p].key
        /\ starting.alive = servers[p].alive /\ starting.held = servers[p].held
        /\ dying \in Server /\ dying.key = servers[p].key /\ ~dying.alive
        /\ dying.held = servers[p].held
    BY <2>1 DEF Server
  <2>3. servers' = [servers EXCEPT ![p] = starting] \/ servers' = [servers EXCEPT ![p] = dying]
    BY DEF ServerStarts, ServerDies
  <2> HIDE DEF starting, dying
  <2> QED  BY <2>2, <2>3
<1>2. /\ UNCHANGED <<phase, planFile, line, lastKey, startFailed, pid, stray, ready>>
      /\ UNCHANGED <<signalled, code, invocation, args, main, exit, csv>>
  BY DEF ServerStarts, ServerDies, planVars, streamVars
<1> HIDE DEF starting, dying
<1>4. /\ servers' \in Seq(Server) /\ Len(servers') = Len(servers)
      /\ DOMAIN servers' = DOMAIN servers
      /\ \A q \in DOMAIN servers : servers'[q] = IF q = p THEN server ELSE servers[q]
  BY <1>1, ServerExcept DEF IInv
<1>5. /\ DOMAIN servers' = DOMAIN servers
      /\ \A q \in DOMAIN servers : servers'[q].key = servers[q].key
      /\ \A q \in DOMAIN servers : servers'[q].held = servers[q].held
      /\ \A q \in DOMAIN servers : servers'[q].alive => servers[q].alive
  BY <1>1, <1>4
<1>6. servers # <<>> /\ DOMAIN servers = 1..Len(servers) /\ Len(servers) \in Nat
  BY TypesGive DEF IInv
<1>7. TypeOK'  BY <1>2, <1>4 DEF IInv, TypeOK, Server, Keys, Holds
<1>8. Plan' /\ ClientOfLine'
  <2>1. servers' # <<>>  BY <1>4, <1>6
  <2>2. Len(servers) \in DOMAIN servers  BY <1>6, EmptySeq, TypesGive DEF IInv
  <2> QED  BY <1>2, <1>4, <1>5, <1>6, <2>1, <2>2
           DEF IInv, Plan, PlanInOrder, KeyOfLine, StartedForLine, ClientOfLine
<1>9. Servers'
  <2>1. ServersOfPlan'  BY <1>2, <1>5 DEF IInv, Servers, ServersOfPlan, InLoop
  <2>2. OnlyCurrentServer'
    BY <1>2, <1>4, <1>5 DEF IInv, Servers, OnlyCurrentServer, Current, Missed
  <2>3. EachServerStartedOnce'  BY <1>5 DEF IInv, Servers, EachServerStartedOnce
  <2>4. PidOfPhase'  BY <1>2 DEF IInv, Servers, PidOfPhase
  <2> QED  BY <2>1, <2>2, <2>3, <2>4 DEF Servers
<1>10. Records'
  <2>1. CompleteOnSuccess'  BY <1>2 DEF IInv, Records, CompleteOnSuccess
  <2> QED  BY <1>2, <2>1, SameRows DEF IInv, InLoop
<1> QED  BY <1>7, <1>8, <1>9, <1>10 DEF IInv
-----------------------------------------------------------------------------
(* The client's steps. *)

\* A step of the client that leaves what it was asked and the file alone, and
\* ends it, if at all, with a failure.
LEMMA QuietStepInv ==
    ASSUME IInv, phase = "client", args' = args, csv' = csv, main' # "absent",
           \/ main' = main /\ exit' = exit
           \/ main' # "done" \/ exit' \in {1, 2},
           main = "done" => main' = "done",
           UNCHANGED <<phase, planVars, lastKey, startFailed, serverVars, ready, signalled, code,
                       invocation>>
    PROVE  IInv'
<1>1. TypeOK'  BY DEF IInv, TypeOK, planVars, serverVars
<1>2. ClientOfLine'  BY DEF IInv, ClientOfLine, planVars
<1>3. ClientReports'  BY DEF IInv, Records, ClientReports, LastRow
<1> QED  BY <1>1, <1>2, <1>3, SameLineInv

\* The client adds the row of its case, the first that keeps the case out of a
\* later plan.
LEMMA RowStepInv ==
    ASSUME IInv, phase = "client", args' = args, main # "done", main' = "done",
           NEW row, row.case = args.case, csv' = Append(csv, row),
           exit' \in {0, 1}, exit' = 0 => row.status \in Statuses,
           UNCHANGED <<phase, planVars, lastKey, startFailed, serverVars, ready, signalled, code,
                       invocation>>
    PROVE  IInv'
<1> DEFINE n == Len(csv)
<1>1. TypeOK'  BY DEF IInv, TypeOK, planVars, serverVars
<1>2. ClientOfLine' /\ Plan'
  BY DEF IInv, ClientOfLine, Plan, PlanInOrder, KeyOfLine, StartedForLine, planVars, serverVars
<1>3. Servers'
  <2>1. ServersOfPlan'  BY DEF IInv, Servers, ServersOfPlan, InLoop, planVars, serverVars
  <2>2. OnlyCurrentServer'
    BY DEF IInv, Servers, OnlyCurrentServer, Current, Missed, serverVars
  <2> QED  BY <2>1, <2>2 DEF IInv, Servers, PidOfPhase, EachServerStartedOnce, serverVars
<1>4. /\ csv \in Seq(Range(csv)) /\ planFile' = planFile /\ line' = line
      /\ line \in DOMAIN planFile /\ row.case = planFile[line]
  BY DEF IInv, Records, ClientOfLine, Command, planVars
<1>5. /\ csv' \in Seq(Range(csv) \cup {row}) /\ Len(csv') = n + 1 /\ n \in Nat
      /\ DOMAIN csv = 1..n /\ DOMAIN csv' = 1..(n + 1)
      /\ \A k \in 1..n : csv'[k] = csv[k]
      /\ csv'[n + 1] = row
  BY <1>4, AppendFacts
<1>6. \A k \in 1..(n + 1) : k \in 1..n \/ k = n + 1  BY <1>5
<1> HIDE DEF n
<1>7. Range(csv') = Range(csv) \cup {row}  BY <1>5, <1>6 DEF Range
<1>8. ClientReports'
  <2>1. csv' # <<>>  BY <1>5
  <2> QED  BY <1>5, <2>1 DEF ClientReports, LastRow
<1>9. RecordedBefore(line)'  BY <1>4, <1>5, <1>6 DEF IInv, Records, RecordedBefore
<1>10. \A i \in DOMAIN planFile, k \in 1..n :
          RESUME /\ line <= i /\ csv[k].case = planFile[i] => csv[k].status \notin {"ok", "skipped"}
  BY <1>5 DEF IInv, Records, StillToDo, InLoop, Trapped
<1>11. StillToDo'
  <2> SUFFICES ASSUME RESUME, NEW i \in DOMAIN planFile, NEW k \in 1..(n + 1), line < i,
                      csv'[k].case = planFile[i]
               PROVE  csv'[k].status \notin {"ok", "skipped"}
    BY <1>4, <1>5 DEF StillToDo
  <2>1. CASE k \in 1..n
    <3>1. line <= i  BY TypesGive DEF IInv
    <3> QED  BY <1>5, <1>10, <2>1, <3>1
  <2>2. CASE k = n + 1
    <3>1. Before(planFile[line], planFile[i])  BY <1>4 DEF IInv, Plan, PlanInOrder
    <3>2. planFile[line] = planFile[i]  BY <1>4, <1>5, <2>2
    <3> QED  BY <1>4, <3>1, <3>2, TypesGive, BeforeIsStrict DEF IInv
  <2> QED  BY <1>6, <2>1, <2>2
<1>12. NeverRepeated'
  <2> SUFFICES ASSUME RESUME, NEW k \in 1..(n + 1), NEW l \in 1..(n + 1), k < l,
                      csv'[k].case = csv'[l].case
               PROVE  csv'[k].status \notin {"ok", "skipped"}
    BY <1>5 DEF NeverRepeated
  <2>1. k \in 1..n  BY <1>5
  <2>2. CASE l \in 1..n  BY <1>5, <2>1, <2>2 DEF IInv, Records, NeverRepeated
  <2>3. CASE l = n + 1
    <3>1. line <= line  BY TypesGive DEF IInv
    <3> QED  BY <1>4, <1>5, <1>10, <2>1, <2>3, <3>1
  <2> QED  BY <1>6, <2>2, <2>3
<1>13. CompleteOnSuccess'
  <2>1. code' = None  BY DEF IInv, TypeOK, Trapped
  <2> QED  BY <2>1, MatrixAssumption DEF CompleteOnSuccess
<1>14. csv' \in Seq(Range(csv'))  BY <1>5, <1>7
<1>15. Records'  BY <1>8, <1>9, <1>11, <1>12, <1>13, <1>14 DEF Records
<1> QED  BY <1>1, <1>2, <1>3, <1>15 DEF IInv

LEMMA ClientStepInv ==
    ASSUME IInv, ClientStep
    PROVE  IInv'
<1>1. /\ phase = "client" /\ main # "absent"
      /\ UNCHANGED <<phase, planVars, lastKey, startFailed, serverVars, ready, signalled, code,
                     invocation>>
  BY DEF ClientStep, IInv, TypeOK
<1>2. CASE UNCHANGED <<args, main, exit, csv>>  BY <1>1, <1>2, QuietStepInv
<1>3. CASE Client!RecordSkip
  <2> DEFINE row == Client!Row("skipped", 0, 0)
  <2>1. row.case = args.case /\ row.status \in Statuses  BY DEF Client!Row, Statuses
  <2>2. /\ main = "started" /\ main' = "done" /\ exit' = 0 /\ csv' = Append(csv, row)
        /\ args' = args
    BY <1>3 DEF Client!RecordSkip, Client!ExitWith
  <2> HIDE DEF row
  <2> QED  BY <1>1, <2>1, <2>2, RowStepInv
<1>4. CASE Client!RefuseConcurrency \/ Client!Raise \/ Client!ReportRaises
  <2>1. main # "done" /\ main' = "done" /\ exit' \in {1, 2} /\ args' = args /\ csv' = csv
    BY <1>4 DEF Client!RefuseConcurrency, Client!Raise, Client!ReportRaises, Client!Gathered,
                Client!ExitWith
  <2> QED  BY <1>1, <2>1, QuietStepInv
<1>5. CASE Client!Aggregate \/ Client!Submit \/ \E i \in DOMAIN task : Client!Collect(i)
  <2>1. main # "done" /\ main' \notin {"done", "absent"} /\ args' = args /\ csv' = csv
    BY <1>5 DEF Client!Aggregate, Client!Submit, Client!Collect
  <2> QED  BY <1>1, <2>1, QuietStepInv
<1>6. CASE Client!Report
  <2>1. PICK row : /\ row.case = args.case /\ row.status = Client!Status
                   /\ csv' = Append(csv, row)
    BY <1>6 DEF Client!Report, Client!Row
  <2>2. main = "collecting" /\ main' = "done" /\ exit' = Client!ExitStatus /\ args' = args
    BY <1>6 DEF Client!Report, Client!ExitWith, Client!Gathered
  <2>3. exit' \in {0, 1} /\ (exit' = 0 => row.status \in Statuses)
    BY <2>1, <2>2 DEF Client!ExitStatus, Statuses
  <2> QED  BY <1>1, <2>1, <2>2, <2>3, RowStepInv
<1>7. ASSUME NEW i \in DOMAIN task,
             Client!ArriveAtBarrier(i) \/ Client!Unanswered(i) \/ Client!Answered(i)
      PROVE  UNCHANGED <<args, main, exit, csv>>
  BY <1>7 DEF Client!ArriveAtBarrier, Client!Unanswered, Client!Answered, Client!Move, Client!Open,
              Client!OpenHttpError, Client!ReadErrorBody, Client!ErrorBodyRaises,
              Client!OpenRaises, Client!StreamBreaks, Client!Receive
<1>8. CASE Client!ReleaseBarrier
  <2>1. UNCHANGED <<args, main, exit, csv>>  BY <1>8 DEF Client!ReleaseBarrier
  <2> QED  BY <1>2, <2>1
<1> QED
  BY <1>2, <1>3, <1>4, <1>5, <1>6, <1>7, <1>8 DEF ClientStep, Client!MainStep
-----------------------------------------------------------------------------
LEMMA StutterInv ==
    ASSUME IInv, UNCHANGED vars
    PROVE  IInv'
<1>1. /\ UNCHANGED <<phase, planFile, line, lastKey, startFailed, servers, pid, stray, ready>>
      /\ UNCHANGED <<signalled, code, invocation, args, main, exit, csv>>
  BY DEF vars, planVars, serverVars, streamVars
<1>2. TypeOK'  BY <1>1 DEF IInv, TypeOK
<1>3. Plan' /\ ClientOfLine'
  BY <1>1 DEF IInv, Plan, PlanInOrder, KeyOfLine, StartedForLine, ClientOfLine
<1>4. Servers'
  BY <1>1 DEF IInv, Servers, ServersOfPlan, InLoop, OnlyCurrentServer, Current, Missed,
              PidOfPhase, EachServerStartedOnce
<1>5. Records'
  <2>1. CompleteOnSuccess'  BY <1>1 DEF IInv, Records, CompleteOnSuccess
  <2> QED  BY <1>1, <2>1, SameRows DEF IInv, InLoop
<1> QED  BY <1>2, <1>3, <1>4, <1>5 DEF IInv

LEMMA Inductive == Spec => []IInv
<1>1. Init => IInv  BY InitInv
<1>2. IInv /\ [Next]_vars => IInv'
  <2> SUFFICES ASSUME IInv, [Next]_vars PROVE IInv'  OBVIOUS
  <2>1. CASE ScriptStep
    BY <2>1, MakePlanInv, StopServerInv, ReapInv, RefuseStartInv, ForkInv, NotePidInv,
       WaitReadyInv, RunClientInv, ResolveFailsInv, ClientReturnsInv, FinishInv, ObeySignalInv,
       CleanUpInv, ReapedInv
       DEF ScriptStep
  <2>2. CASE ClientStep  BY <2>2, ClientStepInv
  <2>3. CASE Terminate \/ Interrupt \/ KillCleanUp \/ Rerun \/ StrayDies
    BY <2>3, TerminateInv, InterruptInv, KillCleanUpInv, RerunInv, StrayDiesInv
  <2>4. CASE \E p \in DOMAIN servers : ServerStarts(p) \/ ServerDies(p)
    BY <2>4, ServerStepInv
  <2>5. CASE UNCHANGED vars  BY <2>5, StutterInv
  <2> QED  BY <2>1, <2>2, <2>3, <2>4, <2>5 DEF Next
<1> QED  BY <1>1, <1>2, PTL DEF Spec

\* The script has an exit status exactly when it is gone, a client only while it
\* waits for one, and every variable its type.
THEOREM MatrixTypeCorrect == Spec => []TypeOK
BY Inductive, PTL DEF IInv

\* With nothing left on the port by an earlier invocation, the requests of a case
\* reach no server but the one started for its transport and model (stop_server,
\* start_server and the loop).
THEOREM MeasuresItsOwnServer == Spec => []MeasuredOnOwnServer
<1>1. IInv => MeasuredOnOwnServer
  BY DEF IInv, Servers, OnlyCurrentServer, Current, Missed, ClientOfLine, MeasuredOnOwnServer,
         Command
<1> QED  BY <1>1, Inductive, PTL

\* A script that ends otherwise than by a second signal, which finds the traps
\* reset, leaves no server behind but one a signal kept out of VLLM_PID: the
\* last, between its fork and VLLM_PID=$! (cleanup, start_server).
THEOREM LeavesNoServer == Spec => []NoServerLeft
<1>1. IInv => NoServerLeft
  <2> SUFFICES ASSUME IInv, phase = "exited", code # Killed, NEW p \in DOMAIN servers,
                      servers[p].alive
               PROVE  signalled /\ p = Len(servers) /\ servers[p].held = "unnoted"
    BY DEF NoServerLeft
  <2>1. pid = 0 /\ p # 0  BY TypesGive DEF IInv, Servers, PidOfPhase
  <2> QED  BY <2>1 DEF IInv, Servers, OnlyCurrentServer, Current, Missed
<1> QED  BY <1>1, Inductive, PTL

\* Without a signal nothing is left at all.
THEOREM UnsignalledLeavesNothing ==
    Spec => [](phase = "exited" /\ ~signalled => \A p \in DOMAIN servers : ~servers[p].alive)
<1>1. IInv /\ NoServerLeft =>
        (phase = "exited" /\ ~signalled => \A p \in DOMAIN servers : ~servers[p].alive)
  BY DEF NoServerLeft, IInv, TypeOK
<1> QED  BY <1>1, Inductive, LeavesNoServer, PTL

\* The sort of make_plan brings the cases of a server together, so that
\* last_key is enough to start it once.
THEOREM StartsEachServerOnce == Spec => []EachServerStartedOnce
BY Inductive, PTL DEF IInv, Servers

\* A case recorded as ok or skipped is not recorded again by any invocation that
\* resumes (make_plan).
THEOREM ResumeNeverRepeats == Spec => []NeverRepeated
BY Inductive, PTL DEF IInv, Records

\* Status 0 without a signal means that every case of the plan has a row that is
\* not a failure (set -e, run_case).
THEOREM SuccessIsComplete == Spec => []CompleteOnSuccess
BY Inductive, PTL DEF IInv, Records
=============================================================================
