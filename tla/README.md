# TLA+ specifications of nix-strix-halo

nix-strix-halo is a Nix flake that packages a machine-learning stack for AMD
Strix Halo machines. Most of its files are declarative package expressions.
The program logic of its own, with state, failure and concurrency, sits in a
few places, and these are modelled here: a reliable stream over an RDMA queue
pair and a tensor cache that it patches into llama.cpp, the client and the
driver of its vLLM benchmarks, the scripts that update source pins, two
hardware exporters, and the lifecycle of multikernel instances.

Run a model with `tlc -config <run>.cfg <module>.tla`, check proofs with
`tlapm <module>.tla` for the eight modules named `*Proofs`. `PROJECT.json` lists
the runs with their modules, the code behind every definition, the hazards,
the findings and, for each property, a plausible bug that it catches.

## Inventory

| Part | State | Operations | What is hard | Correct when |
|---|---|---|---|---|
| Fixed-frame RDMA stream (`pkgs/llama-cpp/patches/0010`, `0014`–`0018`, `0020`) | per connection: next send and receive sequence, last ACK sent and received, one buffered frame, transmit ring; the receive slots in flight | `rdma_send`, `rdma_recv`, `rdma_wait_fixed_ack`, `rdma_send_fixed_ack`, the TCP close watch | silent loss, timeouts racing ACKs, ACKs and data crossing, frames of an earlier connection, ring reuse | what is read is what was written, once and in order; a send that returned was accepted; loss is repaired |
| RDMA activation (`0003`–`0009`, `0012`, `0019`) | probed device, queue-pair state | probe, HELLO, activate, fall back to TCP | one end activates and the other falls back | both ends use the same transport |
| RPC tensor cache and server lifetime (`0011`, `0013`, `0021`) | files named by content hash | store (temporary file, rename), load, serve one client | two servers in one directory, crash between write and rename, failures nobody sees | a hit returns the content of its hash, or the part of it that an unseen failure left |
| Streaming client (`lib/bench/vllm-stream-client.py`) | threads at a barrier, their results, one CSV row | submit, request, read events, gather, record | threads, partial failure, failure inside an error handler | the row says what happened |
| Transport matrix (`lib/bench/vllm-transport-matrix.sh`) | plan, last key, server process, CSV file | plan, start, wait, skip, run, clean up, resume | shell error handling, signals, servers that hang or die | each case is measured once, on its own server |
| Pin updaters (`pkgs/therock/scripts`) | `rocm.json`, `python-wheels.json`, `rocm-source.json`, the inputs of `flake.nix`, `source-tree.nix`, `flake.lock`, `rocm-third-party.json` | `update-rocm-stack.py` over five scripts and two nix commands | a failure or a kill between two files, indexes that move between requests, version order, reused hashes | pins that a refresh leaves belong together, and a leftover stops the next one in known ways only |
| Exporters (`pkgs/amd-npu-exporter`, `pkgs/amdgpu-smu-exporter`) | cached identity, temporary and published file, open streams | sample, write, rename, sleep, stop | a kill or a full disk while publishing, signals, what failures leave open | a reader sees a file that was flushed, and in the end the device as it is |
| Multikernel lifecycle (`modules/multikernel.nix`) | pool and instance status in the kernel, unit states in systemd | `multikernelctl` prepare, start, stop, unload, delete, reset-pool; the units' scripts | two records of one fact, commands cut in two, panics | what systemd takes for prepared is there |
| Other modules, packages, vendored patches | none of their own | – | – | not modelled |

Interaction: the matrix runs one client process at a time against the server
it started and reads the CSV file the clients append to; the two ends of an
RPC connection interact only through the queue pair and the TCP socket beside
it; the service modules start these programs and restart them.

## Modules

| Module | Role |
|---|---|
| `ReliableStream` | abstract: two ends submit, accept and confirm items; no frames, no loss |
| `RdmaFrames` | the frame link, and its refinement of `ReliableStream` |
| `CacheStore` | abstract: a tensor that is stored whole stays so; a lookup answers with it, with one cut off at its end, or with nothing |
| `RpcCache` | the tensor cache on disk, and its refinement of `CacheStore` |
| `StreamClient` | one benchmark client process |
| `TransportMatrix` | the driver, composed with `StreamClient` and the servers |
| `Versions` | version strings and their order (pure) |
| `Updater` | what the updaters share: one at a time, its end, a file rewritten in place |
| `TarballPins`, `WheelPins`, `SourcePins` | the scripts with their files |
| `SourceGraph` | `build_graph` and the staging of the source tree (pure) |
| `UpdateStack` | `update-rocm-stack.py` over the three, calls by hand, kills |
| `Exporter` | both exporters |
| `Multikernel` | `multikernelctl`, systemd's units, the kernel's instances |
| `MCRdmaFrames`, `MCStreamClient`, `MCTransportMatrix`, `MCUpdateStack` | instances for TLC |
| `RdmaFramesProofs`, `RpcCacheProofs`, `StreamClientProofs`, `TransportMatrixProofs`, `SourceProofs`, `UpdateStackProofs`, `ExporterProofs`, `MultikernelProofs` | inductive invariants, theorems |

In the modules an operator under a comment `Fault:` is the definition after it
with a plausible bug. No run uses it as it stands: `PROJECT.json` pairs it
with the property that finds it.

### RdmaFrames

One action stands for one turn of a loop of the code. `BeginCall` enters the
next `rdma_send` or `rdma_recv`; `SendFrame` posts a frame and decides whether
to wait (`MustWait`: window full or last frame of the call); `Timeout` is a
poll that gave up, with retransmission or failure. A completion on the receive
queue is handled by `DropStale`, `TakeAck`, `TakeDuplicate`, `RejectFuture` and
then, in a wait, `BufferWhileWaiting` or `RejectSecondBuffer`, in a read,
`TakeData`; `ReadPending` hands out the buffered frame. `PeerGone` is the watch
on the TCP socket. `txSeq`, `txAcked`, `rxSeq`, `rxAcked` and `pending` are the
fields of `rdma_conn`; `slot` is the awaited frame's place in the transmit
ring, with how far the ring has moved on, which is all the ring matters for.

The wire to each end is a FIFO that may lose any frame (`Lose`): an
unreliable-connection queue pair keeps order and drops silently, and a frame
that finds no posted receive is such a drop. `StaleTraffic` starts it with
frames of an earlier connection. The two ends make mirrored calls, as the RPC
layer does, so every read ends on a frame boundary. Sequence numbers do not
wrap (64 bits).

`sent` and `got` are history variables. `Accepted` is what an end has read or
holds in its buffer. The refinement maps `accepted` to it, `confirmed` to
`txAcked`, and the histories to themselves.

### RpcCache

`set_tensor` is `SetTensor` (not cached yet), `OpenTmp`, one `WriteBlock` per
write, the test `!ofs` (`StreamGood` or `WriteFails`), the destructor
(`Closed`), then `Commit` or the path of a failure: `RenameFails` (which
removes the entry and tries again) and `RetryFails`. The test comes before the
stream is closed, and the stream may still hold the end of the data then
(`Buffered` blocks): `Closed` may come before they are written, nothing looks,
and the cut file is renamed. `get_cached_file` answers with a file at whatever
size it has, so a lookup finds the cut one, until a `set_tensor`, which does
compare the size, replaces it. (In libstdc++ a write larger than the stream's
buffer, as that of a cached tensor, goes straight to the file: `Buffered` is 0
there.) `GetCachedFile` is a lookup. Names refer to inodes, so that a process goes on writing into a file
that another has renamed, and a truncation hits whoever has it open. `Crash`
is the death of the process between any two steps; the next one finds the
directory as it was. What a power loss does to unsynced data is not modelled.

`modules/rpc-server.nix` gives each instance a directory of its own, hence one
`Server` in the run and in the theorems. The module allows more: two servers
would share `hash.tmp`, and `CommittedIsClosed` fails. The refinement maps
`kept` to what the entry of a tensor holds, whole, cut or none, and `answer`
to the tensor and the form of what was answered; a file with a hole, of another
tensor, or one that lacks more than `Buffered` blocks is none of these.

### StreamClient

`main` is where `main()` and `aggregate()` are, `task[i]` where thread `i` is
in `stream_one`, with the events its response has carried. `Collect` is the
loop over `as_completed`, `Report` the row, the append and the exit status in
one step, since no other thread runs any more. Events are the kinds
`consume_stream` tells apart; a read that times out, breaks or meets the end
of file is `StreamBreaks`. Durations and token counts are left out, except
that a count may be unreadable (`oddUsage`), which ends `aggregate` with an
exception.

### TransportMatrix

`phase` is where the script is; `planFile` and `line` are the plan and the read
position; `lastKey`, `startFailed` and `pid` are `last_key`,
`start_failed_reason` and `VLLM_PID`; `servers` are the processes this
invocation has started. Every exit goes through `Exits`, as every exit of the
script goes through the trap `cleanup`. `Fork` and `NotePid` are
`vllm serve ... &` and `VLLM_PID=$!`: a signal between the two finds `VLLM_PID`
empty, and `cleanup` leaves the server alone. `StopServer` and `CleanUp` kill,
`Reap` and `Reaped` are the `wait` after it, which has no limit; `KillCleanUp`
is a signal during it, when the traps are reset. A server that outlives its
invocation is `stray` in the next, holds the port, and may answer its clients.
These are the exceptions that `NoServerLeft` and `MeasuredOnOwnServer` name.
The client's variables are those of
`StreamClient` (`Client == INSTANCE StreamClient`), and its steps are that
module's, with the restriction that only a started and living server answers.
`WaitReady` shows what the shell makes of `if ! start_server`: errexit is
suspended, the answer of `wait_ready` is dropped, and the start counts as
successful. What it was is kept in `ready`, whether the server had logged its
start when the wait ended, which only `StartFailureIsSkipped` reads. `Rerun` is a later invocation with
`RESUME=1` over the same CSV file. The seeded random sample is any subset of
the right size, and the sorted plan any order that agrees with the sort key. The
run measures all cases (`SAMPLE_CASES` 0); the theorems hold for every sample.

### The updaters

Each script is a sequence of actions with its local variables in `script`:
`UpdateTarballs` is `update-rocm.py`, `UpdateWheels` `update-python-wheels.py`,
and `UpdateSources` holds `update-rocm-source.py`, `update-source-tree.py`,
`nix flake lock` and `update-rocm-third-party.py`. `Refresh`, `NextChild` and
`Return` are `update-rocm-stack.py`: the list of children is made when the
refresh starts, each is started after one that ended well, and the first that
does not ends the refresh. `CallByHand` runs a script with other arguments
between two refreshes, and its result is what the next refresh starts from.

The keys of a file and the paths of one depth are taken in any order, where the
scripts sort them as text. The outside world answers each request on its own:
a wheel project's page, the tarball listing, a branch head and a tag may be
another one at every request.
`NetworkFails` is a request or a nix command that fails for good. `Writes` is
`Path.write_text`, which truncates: a process killed inside it leaves `Torn`.
`Kill` may come between any two steps, of the parent and the child together.

A version is the key the scripts compare: numbers of the release, words and
numbers of the suffix. A repository at a revision is the sections of its
`.gitmodules`, the gitlinks of its tree and what `fetch_sources.py` enables,
and a path is a sequence of segments, so that one path can lie inside another.
`Stage` is `install_source` of `default.nix`, which clears a destination before
it copies. `StagedIsWhole` is about the tree a refresh stages; a developer may
hand `update-rocm-third-party.py` any tree. A hash is modelled by what it is the hash of: a hash that belongs
to something else is then seen at once.

`nix flake lock` reads the lock there is and rewrites it in place (`LockFlake`),
so a kill can leave that file torn too, and no later refresh gets past it.

`BuildStaged` is the `nix build` of the staged source. It evaluates the flake's
overlay, which parses `rocm.json`, `rocm-source.json` and `python-wheels.json`,
looks up the target of every tarball pin (`targetFor`) and asserts the
`pythonTag` of every wheel pin of a target of the flake (`Overlay`): a torn file
of another updater, a tarball pin by hand for a target the flake has not, or
wheels pinned by hand with another `--python-tag` stop a refresh of the source
build that has nothing to do with them. `LeftoversDoNotBlock` lists these cases,
and those of the other two kinds, and demands that there is no other.
Two branches of `BuildStaged` are never taken in a refresh: a torn tree and an
input that is not locked, since the children before it have just written both.
The first is part of what the property allows, the second is what it excludes.

`RefreshTakesNewest` looks at every child of a tarball refresh that ends well,
also where the pin did not change: its target is then pinned to a version that
the index listed for its train, and none of the listed ones is newer, patch,
final release and release candidates included.

Left out: `--package` and the flags that replace url, ref, policy or a hash,
the two older file formats `load_sources` accepts, files that do not exist,
the text of `.gitmodules`, of specs and of CMake variables, and the patches
applied to the staged tree.

### Exporter

One module for both programs: `exporter` says which. They share the publish
loop and differ in the order of reading and opening, and in what they do
without a device: the NPU exporter publishes `up 0`, the SMU exporter writes
nothing (the age of its file is the sign) and does not start without a card.
`Loop` to `Wake` are the steps of one interval; `StopRunning` is the signal
handler, which may run between any two. No `fprintf` is checked. The SMU
exporter's text exceeds stdio's buffer (`Spilling`), so parts of it are written
before `fflush`: `Spill` may lose one of them while the disk is full, and if
there is space again at the end, `fflush`, `fsync` and `rename` succeed and a
file that lacks a part (`Torn`) is published. The NPU exporter's text fits the
buffer, and there `PublishedIsWhole` excludes it. `Flush` is `fflush`, `fsync`
and `fclose`: a failing `fclose` has closed the descriptor, a failing `fflush`
or `fsync` skips it and the stream stays open (`files`). `Environment` changes the
device and the disk at any time; `Kill` and `Restart` are a death and
`Restart=on-failure` with `RestartSec=1s`, under systemd's default start limit:
`starts` counts the starts of the last ten seconds, and past `StartLimit` of
them the unit has failed for good (`GiveUp`). The SMU exporter without a card
ends so. `Wake` and `Kill` may forget starts, since any time may have passed.
The metrics of a device are one reading. Left out: `--watch`, wrong arguments,
and the temporary file a killed process leaves (the next one has another name).

### Multikernel

`pool` and `status` are the kernel's record (`status` is the instance's status
file), `poolUnit` and `unit` systemd's; each is also the place in the unit's
script while that runs, from one command to the next, since clients come in
between: `kerf init` and the `test -d` after it, the status read and the
`kerf exec` it leads to. `ctl` holds the running `multikernelctl` processes.
`SystemctlStart` is `systemctl start`: nothing to do for an active unit,
otherwise a job that the client waits for (`JobsEnd` wakes it). `SystemctlStop`
ends a running script, and what requires the pool is stopped with it. kerf is
external: each command is for one status and may fail in any. `Panic` returns
an instance to `loaded`, as `docs/multikernel.md` says. `Interrupt` kills a
client between its two commands, or while it waits; a client at `killed`
stands for the teardown it left undone. `stop` also stands for `force-stop`;
`console` and `show` change nothing and are left out.

## Runs

| Run | Question | Bounds |
|---|---|---|
| `frames_default` | window 1 (the default): refinement, calls keep their own frames, awaited slot intact, no out-of-order failure, one end's failure ends the other's calls | session of four calls with a two-part response, 2 losses, 2 retries, 1 error, impatient timeouts, stale frames |
| `frames_window` | ACK every 2, window 4: safety although calls may fail | sessions of up to 5 frames per call, 2 losses, 2 retries |
| `frames_upload` | one-way traffic completes under loss | as many losses as retries (2) |
| `rpc_cache` | crashes and failures in `set_tensor`: refinement of the store, no writes after the rename | 1 server, 2 tensors of 3 blocks, 1 of them put off to the close, 4 inodes |
| `client` | the row, the exit status, the common start, termination | 0 to 3 requests, 2 events each, and the skip mode |
| `matrix_resume` | attribution, clean-up, resumption, termination | 2 transports, concurrency 1 and 2, all 4 cases, 2 invocations |
| `stack` | what refreshes leave: consistency, graph, staging, hashes, versions; what can stop the next one | 2 refreshes or calls by hand, 2 targets on 2 release trains and 1 that the flake has not, 2 Pythons, pages and branches with up to 3 states |
| `exporter` | readers, device loss, recovery, signals | 2 readings, 2 failed writes with 4 descriptors, 1 kill, 5 starts |
| `multikernel` | units against the kernel, waiting clients | 2 instances, one started at boot, 2 clients |
| `frames_lost_ack`, `matrix_start_failure`, `exporter_descriptors` | findings, below | small |

Why the bounds suffice. *Frames:* the window logic only compares distances, so
calls one frame longer than the window reach every case, the wait in the
middle of a call included; two losses cover a frame with its ACK and a frame
with its retransmission; with 2 retries the last retry and the failure after
it both occur. *Cache:* two tensors are the fewest that could share an inode;
three blocks leave a middle to fail in, and one put off to the close is
what tells a cut file from a hole. *Client:* three threads are the fewest
with one at the barrier, one gone ahead and one late, if the barrier were
wrong. *Matrix:* two keys with two cases each are the fewest with a server
change and a server reuse; two invocations are the fewest with a resumption,
which starts from every file the first can leave behind. *Updaters:* the second
run starts from every leftover of the first, and both what a refresh would
have pinned and what a call by hand pinned differently are among them; the
versions in the index are those that sort or match wrongly as text (10.1 and
10.10, 9 and 10, a candidate, a later one and their release); the third
target and the second Python are what the overlay refuses; the graph has a submodule in a
submodule in a submodule, one chosen by name with another path, and one whose
section is dropped. *Exporter:* fewer failures than descriptors, which is the
case the run is about; `exporter_descriptors` is the other. One kill at any
point leaves every state a file can be in. *Multikernel:* interference is
between two clients, or a client and a script, over one instance; the second
instance is what a reset of the pool must wait for. For the theorems below the
bounds do not matter. Where a type invariant is among them (`TypeCorrect`,
`CacheTypeCorrect`, `ClientTypeCorrect`, `MultikernelTypeCorrect`) no run
repeats it.

All runs have deadlock checking off: sessions, clients, scripts and exporters
end, and idle systems wait to be called.

### Fairness

* `RdmaFrames!FairSpec`: weak fairness of each end's own steps. A thread in a
  call polls in a loop and the RPC layers keep calling; `FailureIsNoticed` needs
  no more, since the watch on the TCP socket (`PeerGone`) is part of the poll.
  Nothing is assumed of loss. `frames_upload` takes `Patient`: the ACK timeout (a setting) is longer
  than what is in flight needs; completion is not claimed otherwise.
* `StreamClient`: weak fairness of the main thread, the barrier and each pool
  thread: the interpreter schedules all of them and `--timeout` bounds every
  socket read. A response has at most `MaxEvents` events (`max_tokens`).
* `TransportMatrix`: weak fairness of the script with its client. `wait_ready`
  is bounded by `STARTUP_TIMEOUT_S`, the client by its timeout; `ray`, `ssh` and
  `curl` are taken to end. Servers owe nothing: they may hang, die, or start
  late. `stop_server` waits for the one it killed without a limit and has no
  SIGKILL, so `InvocationEnds` has a premise: no server that was told to exit
  lives on for ever.
* `Exporter`: weak fairness of the process, of its sleep ending and of systemd
  restarting it or giving it up; nothing of the device or the disk, whose good
  behaviour is a premise of the two properties about what is shown in the end,
  as is a unit that systemd has not given up.
* `Multikernel`: weak fairness of each unit's script and of each client.

`UpdateStack` has none: its scripts are loops over lists they hold, and no
property about their end is stated.

## Proofs

| Module | Theorems | Assumptions |
|---|---|---|
| `RdmaFramesProofs` | `TypeCorrect`, `AcceptsInOrder` (`ExactlyOnceInOrder`), `SendIsAccepted` (`SendReturnsAccepted`), `WindowIsRespected` (`WindowRespected`), `LinkImplementsStream` (`ImplementsStream`), `CallsKeepTheirPlace` (`CallsReadTheirOwn`) | ends and old cookie differ, settings are positive, stale frames carry the old cookie |
| | `OneFrameStaysInOrder` (`NeverOutOfOrder`) | also: window 1 and every ACK awaited, the default |
| | `RingHoldsAwaited` (`RetransmitsAwaited`) | also: `TxDepth >= 2 * MaxRetries + 2` |
| `RpcCacheProofs` | `CacheTypeCorrect`, `NeverWrittenAfterCommit` (`CommittedIsClosed`), `AnswersLackTheTail`, `CacheImplementsStore` (`ImplementsStore`) | one server; a tensor has at least one block |
| | `AnswersWhole`: every answer is the whole tensor | also: nothing put off to the close (`Buffered = 0`) |
| `StreamClientProofs` | `ClientTypeCorrect`, `NobodyStartsAhead` (`NoHeadStart`), `RowIsTrue` (`RowTellsWhatWasServed`) | the command line's counts are natural numbers, the events are those of the module |
| `TransportMatrixProofs` | `MatrixTypeCorrect` (`TypeOK`), `MeasuresItsOwnServer` (`MeasuredOnOwnServer`), `LeavesNoServer` (`NoServerLeft`), `UnsignalledLeavesNothing`, `StartsEachServerOnce` (`EachServerStartedOnce`), `ResumeNeverRepeats` (`NeverRepeated`), `SuccessIsComplete` (`CompleteOnSuccess`) | the settings have their types |
| `SourceProofs` | `BuildsGitsGraph`, `StagingKeepsAll` | `RepositoryAssumption`: gitlinks are paths of which none lies inside another, and lead to known revisions; `fetch_sources.py` names a sequence of paths |
| `UpdateStackProofs` | `ChosenIsInstallable` (`ChosenVersionIsInstallable`), `PinnedWheelsFit` (`WheelsFitTogether`), `LeftoversNeverBlock` (`LeftoversDoNotBlock`), `SourceFilesAgree` (`DoneIsConsistent`), `DeviceWheelsFollow` (`DeviceWheelsFollowTorch`), `SeriesAreKept` (`TargetsKeepTheirSeries`), `NewestIsTaken` (`RefreshTakesNewest`), `StackTypeCorrect` (`StackTypeOK`), `GraphIsGits` (`GraphIsGitsOwn`), `StagedWhole` (`StagedIsWhole`), `HashesAreOwn` (`HashIsOfItsSource`) | the same; `CheckedInAssumption`: versions checked in have three numbers, wheel pins have the tag they were chosen for and their wheels fit together, source pins have a fetch policy; `ArgumentsAssumption`: versions that the server lists or that are named have three numbers, revisions that are named exist; `SourcesAssumption`: branches are at revisions that exist, a CMake file is a sequence of statements; `BoundAssumption` |
| `ExporterProofs` | `ExporterTypeCorrect` (`ExporterTypeOK`), `NeverPublishesAPart` (`PublishedIsWhole`), `ShortTextsArePublishedWhole` | at least two descriptors; a part is told apart from a snapshot |
| `MultikernelProofs` | `MultikernelTypeCorrect`, `UnitsAgreeWithKernel` (`UnitsMatchKernel`) | none but `StartAtBoot \subseteq Instance` |

Each holds for every value of the constants. Hardly any of the
properties is inductive; in each module an invariant strengthens them: `IInv`,
for a refresh `StackInv` with `TypesKnown`, and for two theorems of the link `CallsInv` and
`RingInv` beside `IInv`.

*RdmaFrames.* `IInv` says what a call has left to do (`CallInv`), that every
frame of this connection on a wire and in an awaited slot says the truth about
its sender (`WireInv`, `SlotInv`), that counters and histories agree
(`StreamInv`), that an ACK is never ahead of the receiver (`AckInv`), and how
far a sender can be ahead of its ACKs in each state (`AheadInv`). `WireInv` is
the heart: retransmission, duplication and loss are harmless because a frame
stays true for ever once it is sent, since histories only grow. The refinement
maps a new transmission to `Submit`, `BufferWhileWaiting` and `TakeData` to
`Accept`, an ACK that tells something new to `Confirm`, and everything else to
a stutter; `ReadPending` stutters because the frame only moves from the buffer
to the reader.

`CallsInv`, for the place of a chunk in its call: the chunks in `sent` and `got`
are exactly those of the calls an end is past, up to the frame it is at, in the
order of the session (`SentInv`, `GotInv`). Two sequences of the same chunks in
the same strict order agree, so the next chunk accepted is the one the running
read waits for. `OneFrameStaysInOrder` needs less: with one frame outstanding
and its ACK awaited the sender's next number is the receiver's.

`RingInv`, for the transmit ring: a wait posts an ACK for each repeat it sees of
the last frame it has accepted, and for the one frame it buffers and its
repeats. The peer sends a frame at most `MaxRetries + 1` times, so the wires
hold, with what the peer may still resend, a bounded number of each
(`CopiesBound`), and the slot moves on by at most `2 * MaxRetries + 1`
(`SlotBound`). The bound is exact: with one retry TLC finds a violation at
`TxDepth = 3` and none at 4. The code's defaults are 10 retries and a ring of at
least 8192, and both come from the environment (patches 0016 and 0017), where
nothing relates them.

*RpcCache.* `Distinct`: no inode is under two names. `ServersKnow`: the server
in `set_tensor` writes into the file under `hash.tmp` of a tensor that is not
cached whole, what it has written is a prefix, and past the test of the stream
at most the `Buffered` last blocks are missing. `EntriesHold` and `AnswersHold`
follow. One server is needed for `ServersKnow`.

*StreamClient.* `AllTruthful`: a finished task's result says what its response
carried. `Together`: nobody is past the barrier while another has not come to
it. `Phase`, `Gathering` and `Reported` tie the main thread to its pool, the
gathered results to the tasks, and the row to the gathered results.

*TransportMatrix.* `PlanInOrder` and `KeyOfLine` say how `last_key` follows the
sorted plan; `ServersOfPlan` that a server was started for a line already
reached, which with the order gives each key one start. `OnlyCurrentServer`: a
living server is the one in `VLLM_PID` and has the key of `last_key`, or is
the last one started and was forked when `VLLM_PID` was not yet set, through
every exit but that of a signal to `cleanup`. `ClientReports`, `RecordedBefore` and `StillToDo` tie the rows of
the CSV file to the lines the loop has left behind.

*UpdateStack.* `WheelScriptInv` follows one run of the script: what is chosen
comes from the listings it holds, under its constraints (`Picking`). The two
filters of `choose_rocm_version` and `choose_distribution` are compared by a
lemma about their operators, and every other action leaves the wheels alone.
`StackInv` follows a refresh child by child: which children are still to run,
with which arguments, and what each that has run left behind (`SourceStage` for
the source build). It is inductive because a child writes nothing that a later
one was called with. The order of versions is total on ROCm's three numbers
and their suffixes (`LatestOfTrain`), which is what the newest of a train rests
on. `StepEnds` says which end a step may give a script, and with `SourceStage`
leaves the cases `LeftoversDoNotBlock` names. `TypesKnown`
is about the running script alone: only a refresh runs `nix build`, the one
script whose end changes the calls still to run.

*The source build.* `build_graph`, the staging and `scan_archives` are folds
over sequences. `FoldResult` and the lemmas after it unfold such a fold into its
values turn by turn: when the start is in a set of values and no turn leaves
it, the result is in it too. They rest on induction over the places of the
sequence, stated with sets of numbers (`Least`, `Induction`), since the
library's induction theorems take an operator as a parameter, which the provers
cannot instantiate. For `build_graph` that set is `GraphsWith`: every entry is
linked by the root or by an entry whose path is a prefix of its own (`Grown`).
Since no gitlink lies inside another, that entry is the innermost enclosing
one (`GrownIsGits`). The order by depth puts no path before its prefix
(`TreeOrder`), so `install_source` never clears what was copied before
(`StagingKeepsAll`). What `scan_archives` collects stands in a CMake file
(`ArchivesAreStated`), and what is reused from an earlier
`rocm-third-party.json` is that of the same url and revision: `HashesKnown`
says so of every file there may be. `GraphKnown` and `TreeWritten` carry the
facts from the script that computes them to the ones that use them.

*Exporter.* `WholeWhenRenamed`: past a flush that succeeded the temporary file
holds the snapshot that was formatted, or one with a part lost by an exporter in
`Spilling`, and nothing else is ever renamed.

*Multikernel.* `InstanceKnown` extends the property to a script that has
passed its load: from there on only a teardown takes the instance away, and
it is remembered in its client's record. `PoolFirst` is what systemd's
`requires` and `after` give; `PoolKnown` the same for the pool, from the end of
`kerf init` on.

Only model-checked: liveness (`CallsComplete`, `ClientFinishes`,
`FailureIsNoticed`, `InvocationEnds`, `DownIsVisible`, `ReadingIsPublished`,
`StopIsHeeded`, `CommandsReturn`), since fairness and ENABLED are out of the
prover's reach. The safety properties of every passing run are proved.

## Findings

1. `frames_lost_ack`: a lost ACK of a request's last frame and a response in
   two parts end in "received data while pending data is buffered", not in a
   retransmission as the README describes.
2. `matrix_start_failure`: a server that did not start is measured, and the
   failing client then ends the matrix; the skip reason is only ever used for a
   transport without an address.
3. `exporter_descriptors`: a failing `fflush` or `fsync` skips `fclose`. Every
   interval with a full disk leaks a descriptor; after the last one nothing is
   published any more, also when there is space again, and no restart helps.

Smaller things that the models also show, for which no run is kept:

* With ACK every 2 and window 4, allowed by the clamp of patch 0020, a sender
  can stop at a frame the receiver does not acknowledge, and waits out its
  timeout without any loss: the window counts from the last ACK, which after
  the final ACK of a call need not be a multiple of `ack_every`.
* `GGML_RPC_RDMA_TX_DEPTH=1` is accepted; an ACK sent during a wait then overwrites
  the frame to be retransmitted. `RingHoldsAwaited` has the bound that the code
  does not check: twice the retries and two.
* A failing read of an HTTP error body (`ErrorBodyRaises`) loses the whole row
  of a benchmark run.
* `amd_npu_up` is described as "present and responding" and is 1 for a device
  that answers no query (`EmitAll`).
* A write of the tensor cache that fails when the stream is closed is not noticed
  (`Closed`), and the short file is served.
* A full disk in the middle of a snapshot of the SMU exporter can be published
  as a file with a gap (`Spill`).
* A signal between `vllm serve ... &` and `VLLM_PID=$!` leaves the server running
  (`Fork`), and a server that ignores SIGTERM keeps the script (`Reap`).
* Wheels pinned with another `--python-tag`, or a tarball pin for a target that
  is not in `targets.nix`, make every later refresh of the source build fail
  (`Overlay`).
* After `multikernelctl unload`, `prepare` succeeds without loading a kernel,
  because the unit is still active (`SystemctlStart`).

## Not modelled

The raw (non-framed) mode, reads that split a frame, the shared completion
queue, the choice of device and transport before the stream exists (`0003` to
`0009`, `0012`, `0019`), the ray processes and environment of the matrix, its
dry run, a torn CSV row, measured times. The service modules hold one command
each, whose order and restarts are systemd's. Package expressions, overlays,
job sets, generated benchmark commands and vendored numerical patches have no
state to model; the result tools read one file and print a table. `hazards` in
`PROJECT.json` marks what no property covers, and why.

## Plan

1. `RpcActivation`: HELLO, activation and fallback on both ends, composed with
   the frame link's settings (mixed ACK switches), and the shared completion
   queue as a variant of `RdmaFrames` with explicit completions.
