----------------------------- MODULE RdmaFrames -----------------------------
(***************************************************************************)
(* The fixed-frame stream that patches 0010 to 0020 add to the RPC         *)
(* transport of llama.cpp: rdma_send, rdma_recv, rdma_wait_fixed_ack and   *)
(* rdma_send_fixed_ack, run by the two ends of one connection over an      *)
(* unreliable-connection (UC) queue pair.                                  *)
(*                                                                         *)
(* A UC queue pair delivers in order and drops silently, so the wire is a  *)
(* FIFO per direction with a loss action; a frame that finds no posted     *)
(* receive is such a loss.  A payload is abstracted to the name of the     *)
(* chunk it carries, <<call, chunk>>.  The two ends make mirrored calls    *)
(* (what one sends with one rdma_send the other reads with one rdma_recv   *)
(* of the same size), as the RPC layer does, so a frame is always read     *)
(* whole.                                                                  *)
(*                                                                         *)
(* An operator whose comment starts with "Fault:" is the definition that   *)
(* follows it with a bug put in; no run uses it as it stands.  PROJECT.json *)
(* names the property that each of them breaks.                            *)
(***************************************************************************)
EXTENDS Naturals, SequencesExt

CONSTANTS
    Client, Server,   \* the two ends
    Transfers,        \* the calls of the session, in order: [from, frames]
    AckEvery,         \* per end: ack_every, after the clamp to ack_window
    AckWindow,        \* per end: ack_window
    SendAck,          \* per end: send_frame_ack
    WaitAck,          \* per end: wait_frame_ack
    TxDepth,          \* tx_depth, the slots of the transmit ring
    MaxRetries,       \* rdma_ack_retries()
    StaleTraffic,     \* what an earlier connection may have left on a wire
    OldCookie,        \* the frame cookie of that earlier connection
    MaxLoss,          \* bound: how many frames the wires drop
    MaxErrors,        \* bound: how many queue-pair errors happen
    Patient           \* TRUE: the ACK timeout outlasts whatever is in flight

Endpoint == {Client, Server}
Peer(p) == IF p = Client THEN Server ELSE Client

None == <<>>                  \* no payload: an ACK's, an empty rx_pending's
Chunk == UNION {{i} \X (1 .. Transfers[i].frames) : i \in DOMAIN Transfers}

Frame == [kind : {"data", "ack"}, seq : Nat,
          cookie : Endpoint \cup {OldCookie}, body : Chunk \cup {None}]

DataFrame(p, n, chunk) ==
    [kind |-> "data", seq |-> n, cookie |-> p, body |-> chunk]
AckFrame(p, n) == [kind |-> "ack", seq |-> n, cookie |-> p, body |-> None]

NoSlot == [frame |-> None, ahead |-> 0]

ASSUME EndpointsDiffer == Client # Server /\ OldCookie \notin Endpoint
ASSUME TransfersType ==
    Transfers \in Seq([from : Endpoint, frames : Nat])
ASSUME SettingsType ==
    /\ AckEvery \in [Endpoint -> Nat \ {0}]
    /\ AckWindow \in [Endpoint -> Nat \ {0}]
    /\ SendAck \in [Endpoint -> BOOLEAN]
    /\ WaitAck \in [Endpoint -> BOOLEAN]
    /\ TxDepth \in Nat \ {0}
    /\ MaxRetries \in Nat
ASSUME BoundsType ==
    /\ MaxLoss \in Nat
    /\ MaxErrors \in Nat
    /\ Patient \in BOOLEAN
\* What is left of an earlier connection carries that connection's cookie.
ASSUME StaleType ==
    \A s \in StaleTraffic : s \in Seq({f \in Frame : f.cookie = OldCookie})
-----------------------------------------------------------------------------
VARIABLES
    \* the thread that runs the RPC calls of an end
    pc,        \* idle, sending, waiting (rdma_wait_fixed_ack), receiving, failed
    why,       \* why it failed
    op,        \* the call it is at, an index of Transfers
    left,      \* rem: frames the call has still to send or to read
    retries,   \* retransmissions of the awaited frame
    slot,      \* transmit slot of the awaited frame, see TakeSlot
    \* struct rdma_conn
    txSeq, txAcked, rxSeq, rxAcked, pending,
    \* the wire towards an end, and the bounds' counters
    chan, lost, errors,
    \* history: frames p has first sent, chunks its calls have returned
    sent, got

call == <<pc, why, op, left, retries, slot>>
conn == <<txSeq, txAcked, rxSeq, rxAcked, pending>>
history == <<sent, got>>
vars == <<call, conn, chan, lost, errors, history>>

Init ==
    /\ pc = [p \in Endpoint |-> "idle"]
    /\ why = [p \in Endpoint |-> "none"]
    /\ op = [p \in Endpoint |-> 1]
    /\ left = [p \in Endpoint |-> 0]
    /\ retries = [p \in Endpoint |-> 0]
    /\ slot = [p \in Endpoint |-> NoSlot]
    /\ txSeq = [p \in Endpoint |-> 1]
    /\ txAcked = [p \in Endpoint |-> 0]
    /\ rxSeq = [p \in Endpoint |-> 1]
    /\ rxAcked = [p \in Endpoint |-> 0]
    /\ pending = [p \in Endpoint |-> None]
    /\ chan \in [Endpoint -> StaleTraffic]
    /\ lost = 0
    /\ errors = 0
    /\ sent = [p \in Endpoint |-> <<>>]
    /\ got = [p \in Endpoint |-> <<>>]
-----------------------------------------------------------------------------
Larger(a, b) == IF a >= b THEN a ELSE b

\* The call returns when nothing is left of it, else it goes on in state s.
Proceed(p, remaining, s) ==
    /\ pc' = [pc EXCEPT ![p] = IF remaining = 0 THEN "idle" ELSE s]
    /\ op' = [op EXCEPT ![p] = IF remaining = 0 THEN @ + 1 ELSE @]

Fail(p, reason) ==
    /\ pc' = [pc EXCEPT ![p] = "failed"]
    /\ why' = [why EXCEPT ![p] = reason]
    /\ UNCHANGED <<op, left, retries, slot>>

\* Fault: one transmit buffer for everything, as before patch 0015.
TakeSlotShared(p, frame) ==
    IF pc[p] # "waiting" THEN slot[p] ELSE [frame |-> frame, ahead |-> 1]
\* Every ACK takes the next transmit slot.  The only slot read again is the
\* awaited frame's, so the ring is kept as that slot's content and how far
\* tx_head is ahead of it; TxDepth slots ahead is the slot itself.
TakeSlot(p, frame) ==
    IF pc[p] # "waiting" THEN slot[p]
    ELSE IF slot[p].ahead = TxDepth THEN [frame |-> frame, ahead |-> 1]
    ELSE [slot[p] EXCEPT !.ahead = @ + 1]

\* Take the frame at the head of p's wire and repost its receive slot; with
\* reply, send an ACK for n.
Consume(p) == chan' = [chan EXCEPT ![p] = Tail(@)]

rdma_send_fixed_ack(p, n, reply) ==
    IF reply
    THEN /\ chan' = [chan EXCEPT ![p] = Tail(@),
                                 ![Peer(p)] = Append(@, AckFrame(p, n))]
         /\ rxAcked' = [rxAcked EXCEPT ![p] = Larger(n, @)]
         /\ slot' = [slot EXCEPT ![p] = TakeSlot(p, AckFrame(p, n))]
    ELSE Consume(p) /\ UNCHANGED <<rxAcked, slot>>
-----------------------------------------------------------------------------
(* The calls of an end.                                                    *)

\* The RPC layer enters its next call; a call of size 0 returns at once.
BeginCall(p) ==
    /\ pc[p] = "idle" /\ op[p] \in DOMAIN Transfers
    /\ LET t == Transfers[op[p]]
       IN  /\ left' = [left EXCEPT ![p] = t.frames]
           /\ Proceed(p, t.frames,
                      IF t.from = p THEN "sending" ELSE "receiving")
    /\ UNCHANGED <<why, retries, slot, conn, chan, lost, errors, history>>

\* Between requests the server sits in the read of the next command.
AwaitCommand(p) ==
    /\ p = Server
    /\ pc[p] = "idle" /\ op[p] \notin DOMAIN Transfers
    /\ left' = [left EXCEPT ![p] = 1]
    /\ pc' = [pc EXCEPT ![p] = "receiving"]
    /\ UNCHANGED <<why, op, retries, slot, conn, chan, lost, errors, history>>

\* Fault: the window is one frame too wide.
MustWaitLate(p, n, final) ==
    /\ WaitAck[p]
    /\ \/ n > txAcked[p] /\ n - txAcked[p] > AckWindow[p]
       \/ final
    /\ txAcked[p] < n
\* Fault: no wait for the last frame of a call.
MustWaitWindowOnly(p, n, final) ==
    WaitAck[p] /\ n > txAcked[p] /\ n - txAcked[p] >= AckWindow[p]
\* rdma_send waits when the window is full or the frame is the last of the call.
MustWait(p, n, final) ==
    /\ WaitAck[p]
    /\ \/ n > txAcked[p] /\ n - txAcked[p] >= AckWindow[p]
       \/ final
    /\ txAcked[p] < n

\* One turn of rdma_send's loop: post the next frame, then wait for its ACK
\* when the window is full or it is the last one of the call.
SendFrame(p) ==
    LET n == txSeq[p]
        chunk == <<op[p], Transfers[op[p]].frames - left[p] + 1>>
        frame == DataFrame(p, n, chunk)
    IN  /\ pc[p] = "sending"
        /\ chan' = [chan EXCEPT ![Peer(p)] = Append(@, frame)]
        /\ sent' = [sent EXCEPT ![p] = Append(@, chunk)]
        /\ txSeq' = [txSeq EXCEPT ![p] = n + 1]
        /\ left' = [left EXCEPT ![p] = @ - 1]
        /\ IF MustWait(p, n, left[p] = 1)
           THEN /\ pc' = [pc EXCEPT ![p] = "waiting"]
                /\ retries' = [retries EXCEPT ![p] = 0]
                /\ slot' = [slot EXCEPT ![p] = [frame |-> frame, ahead |-> 1]]
                /\ UNCHANGED op
           ELSE Proceed(p, left[p] - 1, "sending") /\ UNCHANGED <<retries, slot>>
        /\ UNCHANGED <<why, txAcked, rxSeq, rxAcked, pending, lost, errors, got>>

\* rdma_poll_timeout gave up: retransmit the awaited frame's slot, or fail.
Timeout(p) ==
    /\ pc[p] = "waiting"
    /\ Patient => chan[p] = <<>> /\ chan[Peer(p)] = <<>>
    /\ \/ /\ retries[p] < MaxRetries
          /\ retries' = [retries EXCEPT ![p] = @ + 1]
          /\ chan' = [chan EXCEPT ![Peer(p)] = Append(@, slot[p].frame)]
          /\ UNCHANGED <<pc, why, op, left, slot>>
       \/ /\ retries[p] >= MaxRetries
          /\ Fail(p, "timeout")
          /\ UNCHANGED chan
    /\ UNCHANGED <<conn, lost, errors, history>>

\* Fault: rx_pending_len is not reset.
ReadPendingAgain(p) ==
    /\ pc[p] = "receiving" /\ pending[p] # None
    /\ got' = [got EXCEPT ![p] = Append(@, pending[p])]
    /\ left' = [left EXCEPT ![p] = @ - 1]
    /\ Proceed(p, left[p] - 1, "receiving")
    /\ UNCHANGED <<why, retries, slot, conn, chan, lost, errors, sent>>
\* rdma_recv first hands out what a wait has buffered.
ReadPending(p) ==
    /\ pc[p] = "receiving" /\ pending[p] # None
    /\ got' = [got EXCEPT ![p] = Append(@, pending[p])]
    /\ pending' = [pending EXCEPT ![p] = None]
    /\ left' = [left EXCEPT ![p] = @ - 1]
    /\ Proceed(p, left[p] - 1, "receiving")
    /\ UNCHANGED <<why, retries, slot, txSeq, txAcked, rxSeq, rxAcked,
                   chan, lost, errors, sent>>
-----------------------------------------------------------------------------
(* A completion on the receive queue, in rdma_recv and in                  *)
(* rdma_wait_fixed_ack; the two take the same first steps.                 *)

Polling(p) ==
    \/ pc[p] = "waiting"
    \/ pc[p] = "receiving" /\ pending[p] = None

Arrived(p) == Polling(p) /\ chan[p] # <<>>
\* Fault: the frame cookie is not compared, as before patch 0018.
CurrentAny(p) == Arrived(p)
Current(p) == Arrived(p) /\ Head(chan[p]).cookie = Peer(p)
CurrentData(p) == Current(p) /\ Head(chan[p]).kind = "data"

DropStale(p) ==
    /\ Arrived(p) /\ ~Current(p)
    /\ Consume(p)
    /\ UNCHANGED <<call, conn, lost, errors, history>>

\* ACKs are cumulative; a wait ends when the awaited frame is covered.
TakeAck(p) ==
    LET acked == Larger(Head(chan[p]).seq, txAcked[p])
    IN  /\ Current(p) /\ Head(chan[p]).kind = "ack"
        /\ Consume(p)
        /\ txAcked' = [txAcked EXCEPT ![p] = acked]
        /\ IF pc[p] = "waiting" /\ acked >= txSeq[p] - 1
           THEN /\ Proceed(p, left[p], "sending")
                /\ slot' = [slot EXCEPT ![p] = NoSlot]
           ELSE UNCHANGED <<pc, op, slot>>
        /\ UNCHANGED <<why, left, retries, txSeq, rxSeq, rxAcked, pending,
                       lost, errors, history>>

\* Fault: a duplicate is dropped without an answer.
TakeDuplicateSilently(p) ==
    /\ CurrentData(p) /\ Head(chan[p]).seq < rxSeq[p]
    /\ Consume(p)
    /\ UNCHANGED <<call, conn, lost, errors, history>>
\* A retransmission of what was already accepted: acknowledge it again.
TakeDuplicate(p) ==
    /\ CurrentData(p) /\ Head(chan[p]).seq < rxSeq[p]
    /\ rdma_send_fixed_ack(p, Head(chan[p]).seq, SendAck[p])
    /\ UNCHANGED <<pc, why, op, left, retries, txSeq, txAcked, rxSeq, pending,
                   lost, errors, history>>

\* A frame is missing: the call fails.
RejectFuture(p) ==
    /\ CurrentData(p) /\ Head(chan[p]).seq > rxSeq[p]
    /\ Consume(p)
    /\ Fail(p, "order")
    /\ UNCHANGED <<conn, lost, errors, history>>

\* Fault: rx_seq is not advanced past the buffered frame.
BufferWithoutCounting(p) ==
    LET f == Head(chan[p])
    IN  /\ CurrentData(p) /\ f.seq = rxSeq[p]
        /\ pc[p] = "waiting" /\ pending[p] = None
        /\ pending' = [pending EXCEPT ![p] = f.body]
        /\ rdma_send_fixed_ack(p, f.seq, SendAck[p])
        /\ UNCHANGED <<pc, why, op, left, retries, txSeq, txAcked, rxSeq,
                       lost, errors, history>>
\* The next frame while waiting for an ACK: keep it, there is room for one.
BufferWhileWaiting(p) ==
    LET f == Head(chan[p])
    IN  /\ CurrentData(p) /\ f.seq = rxSeq[p]
        /\ pc[p] = "waiting" /\ pending[p] = None
        /\ pending' = [pending EXCEPT ![p] = f.body]
        /\ rxSeq' = [rxSeq EXCEPT ![p] = @ + 1]
        /\ rdma_send_fixed_ack(p, f.seq, SendAck[p])
        /\ UNCHANGED <<pc, why, op, left, retries, txSeq, txAcked,
                       lost, errors, history>>

RejectSecondBuffer(p) ==
    /\ CurrentData(p) /\ Head(chan[p]).seq = rxSeq[p]
    /\ pc[p] = "waiting" /\ pending[p] # None
    /\ Consume(p)
    /\ Fail(p, "pending")
    /\ UNCHANGED <<conn, lost, errors, history>>

\* Every ack_every-th frame is acknowledged, and the last one of a call.
AckDue(p, n) ==
    /\ SendAck[p]
    /\ \/ n % AckEvery[p] = 0
       \/ left[p] = 1 /\ rxAcked[p] < n

\* The next frame of the call.
TakeData(p) ==
    LET f == Head(chan[p])
    IN  /\ CurrentData(p) /\ f.seq = rxSeq[p] /\ pc[p] = "receiving"
        /\ got' = [got EXCEPT ![p] = Append(@, f.body)]
        /\ rxSeq' = [rxSeq EXCEPT ![p] = @ + 1]
        /\ left' = [left EXCEPT ![p] = @ - 1]
        /\ Proceed(p, left[p] - 1, "receiving")
        /\ rdma_send_fixed_ack(p, f.seq, AckDue(p, f.seq))
        /\ UNCHANGED <<why, retries, txSeq, txAcked, pending,
                       lost, errors, sent>>
-----------------------------------------------------------------------------
(* Failures.                                                               *)

Active(p) == pc[p] \in {"sending", "waiting", "receiving"}

\* Fault: a read polls without the watch.
PeerGoneWhileSending(p) ==
    /\ pc[p] \in {"sending", "waiting"} /\ pc[Peer(p)] = "failed"
    /\ Fail(p, "gone")
    /\ UNCHANGED <<conn, chan, lost, errors, history>>
\* The polls watch the TCP control socket: a failed peer has closed it.
PeerGone(p) ==
    /\ Active(p) /\ pc[Peer(p)] = "failed"
    /\ Fail(p, "gone")
    /\ UNCHANGED <<conn, chan, lost, errors, history>>

\* A completion with an error status, or a post that is refused.
QueuePairError(p) ==
    /\ Active(p) /\ errors < MaxErrors
    /\ errors' = errors + 1
    /\ Fail(p, "error")
    /\ UNCHANGED <<conn, chan, lost, history>>

Lose(p) ==
    /\ lost < MaxLoss
    /\ lost' = lost + 1
    /\ \E i \in 1 .. Len(chan[p]) :
          chan' = [chan EXCEPT ![p] = RemoveAt(@, i)]
    /\ UNCHANGED <<call, conn, errors, history>>

Work(p) ==
    \/ BeginCall(p) \/ AwaitCommand(p) \/ SendFrame(p) \/ Timeout(p)
    \/ ReadPending(p)
    \/ DropStale(p) \/ TakeAck(p) \/ TakeDuplicate(p) \/ RejectFuture(p)
    \/ BufferWhileWaiting(p) \/ RejectSecondBuffer(p) \/ TakeData(p)
    \/ PeerGone(p)

Next == \E p \in Endpoint : Work(p) \/ QueuePairError(p) \/ Lose(p)

Spec == Init /\ [][Next]_vars

\* A thread that is in a call keeps polling, and the RPC layers keep calling.
FairSpec == Spec /\ \A p \in Endpoint : WF_vars(Work(p))
-----------------------------------------------------------------------------
Accepted(p) == IF pending[p] = None THEN got[p] ELSE Append(got[p], pending[p])

\* Every field of an end and of the wires holds a value of its kind.
TypeOK ==
    /\ pc \in [Endpoint -> {"idle", "sending", "waiting", "receiving", "failed"}]
    /\ why \in [Endpoint -> {"none", "timeout", "order", "pending", "gone", "error"}]
    /\ op \in [Endpoint -> Nat \ {0}]
    /\ left \in [Endpoint -> Nat]
    /\ retries \in [Endpoint -> 0 .. MaxRetries]
    /\ slot \in [Endpoint -> [frame : Frame \cup {None}, ahead : 0 .. TxDepth]]
    /\ txSeq \in [Endpoint -> Nat \ {0}]
    /\ txAcked \in [Endpoint -> Nat]
    /\ rxSeq \in [Endpoint -> Nat \ {0}]
    /\ rxAcked \in [Endpoint -> Nat]
    /\ pending \in [Endpoint -> Chunk \cup {None}]
    /\ chan \in [Endpoint -> Seq(Frame)]
    /\ lost \in 0 .. MaxLoss
    /\ errors \in 0 .. MaxErrors
    /\ sent \in [Endpoint -> Seq(Chunk)]
    /\ got \in [Endpoint -> Seq(Chunk)]

\* What an end has accepted is a prefix of what the other end has sent, frame
\* by frame, whatever was lost, retransmitted or left by an older connection.
ExactlyOnceInOrder ==
    \A p \in Endpoint :
        /\ Len(Accepted(p)) <= Len(sent[Peer(p)])
        /\ \A i \in 1 .. Len(Accepted(p)) : Accepted(p)[i] = sent[Peer(p)][i]

\* A successful rdma_send means that the peer has accepted all of it: outside
\* a send, an end that waits for ACKs has no frame in doubt.
SendReturnsAccepted ==
    \A p \in Endpoint :
        WaitAck[p] /\ pc[p] \in {"idle", "receiving"} => rxSeq[Peer(p)] = txSeq[p]

\* No more than ack_window frames are ever sent beyond the last ACK.
WindowRespected ==
    \A p \in Endpoint :
        WaitAck[p] => txSeq[p] - 1 <= txAcked[p] + AckWindow[p]

\* The slot that a timeout would retransmit still holds the awaited frame: no
\* ACK sent during the wait has gone round the transmit ring and taken it.
RetransmitsAwaited ==
    \A p \in Endpoint :
        pc[p] = "waiting" =>
            slot[p].frame = DataFrame(p, txSeq[p] - 1, sent[p][txSeq[p] - 1])

\* A call that reads returns its own chunks, each at its place: the calls of
\* the two ends never slip against each other.
CallsReadTheirOwn ==
    [][\A p \in Endpoint :
          got'[p] # got[p] =>
              /\ op[p] \in DOMAIN Transfers
              /\ got'[p] = Append(got[p],
                     <<op[p], Transfers[op[p]].frames - left[p] + 1>>)]_vars

\* With a window of one frame nothing is ever missing in front of a frame:
\* the out-of-order failure cannot be reached.
NeverOutOfOrder == \A p \in Endpoint : why[p] # "order"

\* A lost frame is retransmitted when the wait for its ACK times out (README):
\* it does not make a call fail before that.
LossIsRetransmitted == \A p \in Endpoint : why[p] # "pending"

AllCallsDone == \A p \in Endpoint : op[p] > Len(Transfers)

\* The session runs to its end.
CallsComplete == <>AllCallsDone

\* When one end has failed, for whatever reason and in the middle of whatever
\* call, the other does not poll for ever: it fails too, or has nothing left to
\* do (tcp_peer_closed, patch 0014).
FailureIsNoticed ==
    \A p \in Endpoint : pc[p] = "failed" ~> pc[Peer(p)] = "failed" \/ op[Peer(p)] > Len(Transfers)

\* The link implements the reliable stream.
Stream == INSTANCE ReliableStream
            WITH Item <- Chunk,
                 accepted <- [p \in Endpoint |-> Accepted(p)],
                 confirmed <- txAcked
ImplementsStream == Stream!Spec
=============================================================================
