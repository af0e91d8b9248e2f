-------------------------- MODULE RdmaFramesProofs --------------------------
(***************************************************************************)
(* The safety of the fixed-frame stream for every session, window, ACK     *)
(* mode, ring depth, retry limit and number of losses.                     *)
(***************************************************************************)
EXTENDS RdmaFrames, FiniteSetTheorems, SequenceTheorems, TLAPS

\* An end inside a call has something left to do in it.
CallInv ==
    \A p \in Endpoint :
        /\ pc[p] \in {"sending", "waiting"} => op[p] \in DOMAIN Transfers
        /\ pc[p] = "sending" => left[p] \in 1 .. Transfers[op[p]].frames
        /\ pc[p] = "waiting" => left[p] < Transfers[op[p]].frames
        /\ pc[p] = "receiving" => left[p] > 0

\* A frame that p put on the wire of this connection says the truth: an ACK
\* names a frame that p has accepted, a data frame carries what p sent under
\* its sequence number.
Genuine(p, f) ==
    /\ f.kind = "ack" => f.seq < rxSeq[p]
    /\ f.kind = "data" => f.seq \in 1 .. Len(sent[p]) /\ f.body = sent[p][f.seq]

WireInv ==
    \A p \in Endpoint : \A f \in Range(chan[p]) :
        f.cookie = Peer(p) => Genuine(Peer(p), f)

SlotInv ==
    \A p \in Endpoint :
        pc[p] = "waiting" => slot[p].frame \in Frame /\ Genuine(p, slot[p].frame)

\* The sequence counters count, and what is accepted is what was sent.
StreamInv ==
    \A p \in Endpoint :
        /\ Len(sent[p]) = txSeq[p] - 1
        /\ Len(Accepted(p)) = rxSeq[p] - 1
        /\ rxSeq[p] <= txSeq[Peer(p)]
        /\ \A i \in 1 .. rxSeq[p] - 1 : Accepted(p)[i] = sent[Peer(p)][i]

AckInv == \A p \in Endpoint : txAcked[p] < rxSeq[Peer(p)]

\* How far a sender that waits for ACKs may be ahead of them in each state.
AheadInv ==
    \A p \in Endpoint : WaitAck[p] =>
        /\ txSeq[p] - 1 <= txAcked[p] + AckWindow[p]
        /\ pc[p] \in {"idle", "receiving"} => txSeq[p] - 1 <= txAcked[p]
        /\ pc[p] = "sending" => txSeq[p] - 1 < txAcked[p] + AckWindow[p]

\* TypeOK in the four groups of the variables.
CallType ==
    /\ pc \in [Endpoint -> {"idle", "sending", "waiting", "receiving", "failed"}]
    /\ why \in [Endpoint -> {"none", "timeout", "order", "pending", "gone", "error"}]
    /\ op \in [Endpoint -> Nat \ {0}]
    /\ left \in [Endpoint -> Nat]
    /\ retries \in [Endpoint -> 0 .. MaxRetries]
    /\ slot \in [Endpoint -> [frame : Frame \cup {None}, ahead : 0 .. TxDepth]]

ConnType ==
    /\ txSeq \in [Endpoint -> Nat \ {0}]
    /\ txAcked \in [Endpoint -> Nat]
    /\ rxSeq \in [Endpoint -> Nat \ {0}]
    /\ rxAcked \in [Endpoint -> Nat]
    /\ pending \in [Endpoint -> Chunk \cup {None}]

WireType ==
    /\ chan \in [Endpoint -> Seq(Frame)]
    /\ lost \in 0 .. MaxLoss
    /\ errors \in 0 .. MaxErrors

HistoryType ==
    /\ sent \in [Endpoint -> Seq(Chunk)]
    /\ got \in [Endpoint -> Seq(Chunk)]

Types == CallType /\ ConnType /\ WireType /\ HistoryType

IInv ==
    /\ Types
    /\ CallInv
    /\ WireInv
    /\ SlotInv
    /\ StreamInv
    /\ AckInv
    /\ AheadInv
-----------------------------------------------------------------------------
LEMMA PeerFacts ==
    \A p \in Endpoint : Peer(p) \in Endpoint /\ Peer(p) # p /\ Peer(Peer(p)) = p
BY EndpointsDiffer DEF Endpoint, Peer

LEMMA TransferFacts ==
    \A i \in DOMAIN Transfers : Transfers[i].frames \in Nat
<1> DEFINE T == [from : Endpoint, frames : Nat]
<1>1. \A t \in T : t.frames \in Nat
  OBVIOUS
<1>2. Transfers \in Seq(T)
  BY TransfersType
<1> HIDE DEF T
<1>3. \A i \in DOMAIN Transfers : Transfers[i] \in T
  BY <1>2
<1> QED BY <1>1, <1>3

LEMMA ChunkNotNone == None \notin Chunk
<1>1. \A c \in Chunk : c[1] \in DOMAIN Transfers /\ DOMAIN c = {1, 2}
  BY DEF Chunk
<1> QED BY <1>1 DEF None

LEMMA AppendFacts ==
    ASSUME NEW S, NEW s \in Seq(S), NEW e \in S
    PROVE  /\ Append(s, e) \in Seq(S)
           /\ Len(Append(s, e)) = Len(s) + 1
           /\ \A i \in 1 .. Len(s) : Append(s, e)[i] = s[i]
           /\ Append(s, e)[Len(s) + 1] = e
           /\ Range(Append(s, e)) = Range(s) \cup {e}
<1>1. Append(s, e) \in Seq(S) /\ Len(Append(s, e)) = Len(s) + 1
  OBVIOUS
<1>2. \A i \in 1 .. Len(s) : Append(s, e)[i] = s[i]
  OBVIOUS
<1>3. Append(s, e)[Len(s) + 1] = e
  OBVIOUS
<1>4. Range(Append(s, e)) = Range(s) \cup {e}
  BY <1>1, <1>2, <1>3 DEF Range
<1> QED BY <1>1, <1>2, <1>3, <1>4

LEMMA TailFacts ==
    ASSUME NEW S, NEW s \in Seq(S), s # <<>>
    PROVE  /\ Tail(s) \in Seq(S)
           /\ Head(s) \in S
           /\ Head(s) \in Range(s)
           /\ Range(Tail(s)) \subseteq Range(s)
<1>1. Len(s) > 0 /\ Head(s) = s[1] /\ Head(s) \in S
  OBVIOUS
<1>2. Tail(s) \in Seq(S) /\ Len(Tail(s)) = Len(s) - 1
  OBVIOUS
<1>3. \A i \in 1 .. Len(s) - 1 : Tail(s)[i] = s[i + 1]
  OBVIOUS
<1> QED BY <1>1, <1>2, <1>3 DEF Range

LEMMA RemoveFacts ==
    ASSUME NEW S, NEW s \in Seq(S), NEW i \in 1 .. Len(s)
    PROVE  /\ RemoveAt(s, i) \in Seq(S)
           /\ Range(RemoveAt(s, i)) \subseteq Range(s)
<1> DEFINE R == Range(s)
           a == SubSeq(s, 1, i - 1)
           b == SubSeq(s, i + 1, Len(s))
<1>1. R \subseteq S /\ \A j \in 1 .. Len(s) : s[j] \in R
  BY RangeEquality
<1> HIDE DEF R
<1>2. a \in Seq(R)
  BY <1>1, SubSeqProperties
<1>3. b \in Seq(R)
  BY <1>1, SubSeqProperties
<1> HIDE DEF a, b
<1>4. a \o b \in Seq(R)
  BY <1>2, <1>3, ConcatProperties
<1>5. RemoveAt(s, i) \in Seq(R)
  BY <1>4 DEF RemoveAt, a, b
<1>6. Range(RemoveAt(s, i)) \subseteq R
  BY <1>5, RangeOfSeq
<1>7. RemoveAt(s, i) \in Seq(S)
  BY <1>1, <1>5
<1> QED BY <1>6, <1>7 DEF R

\* The wires stay truthful when what is truthful stays so and whatever is new
\* on a wire is truthful.
LEMMA WireKept ==
    ASSUME WireInv, WireType,
           \A r \in Endpoint : \A f \in Frame : Genuine(r, f) => Genuine(r, f)',
           \A r \in Endpoint : \A f \in Range(chan'[r]) :
               f \in Range(chan[r]) \/ Genuine(Peer(r), f)'
    PROVE  WireInv'
<1>1. \A r \in Endpoint : Range(chan[r]) \subseteq Frame
  BY RangeEquality DEF WireType
<1> QED BY <1>1, PeerFacts DEF WireInv

\* The counters of an end and of its peer, as numbers.
LEMMA CounterFacts ==
    ASSUME IInv, NEW p \in Endpoint
    PROVE  /\ txSeq[p] \in Nat \ {0} /\ txAcked[p] \in Nat
           /\ rxSeq[p] \in Nat \ {0} /\ rxAcked[p] \in Nat
           /\ left[p] \in Nat /\ op[p] \in Nat \ {0}
           /\ AckWindow[p] \in Nat \ {0}
           /\ txAcked[p] < rxSeq[Peer(p)] /\ rxSeq[Peer(p)] <= txSeq[p]
           /\ txAcked[p] < txSeq[p]
<1>1. /\ txSeq[p] \in Nat \ {0} /\ txAcked[p] \in Nat
      /\ rxSeq[p] \in Nat \ {0} /\ rxAcked[p] \in Nat
  BY DEF IInv, Types, ConnType
<1>2. left[p] \in Nat /\ op[p] \in Nat \ {0} /\ AckWindow[p] \in Nat \ {0}
  BY SettingsType DEF IInv, Types, CallType
<1>3. rxSeq[Peer(p)] \in Nat \ {0}
  BY PeerFacts DEF IInv, Types, ConnType
<1>4. txAcked[p] < rxSeq[Peer(p)] /\ rxSeq[Peer(p)] <= txSeq[p]
  BY PeerFacts DEF IInv, AckInv, StreamInv
<1> QED BY <1>1, <1>2, <1>3, <1>4

\* A step that leaves the connection and the history alone keeps what relates
\* them.
LEMMA ConnKept ==
    ASSUME IInv, UNCHANGED <<conn, history>>
    PROVE  /\ ConnType' /\ HistoryType' /\ StreamInv' /\ AckInv'
           /\ \A r \in Endpoint : \A f : Genuine(r, f) => Genuine(r, f)'
<1>1. UNCHANGED <<txSeq, txAcked, rxSeq, rxAcked, pending, sent, got>>
  BY DEF conn, history
<1>2. ConnType' /\ HistoryType'
  BY <1>1 DEF IInv, Types, ConnType, HistoryType
<1>3. \A r \in Endpoint : Accepted(r)' = Accepted(r)
  BY <1>1 DEF Accepted
<1>4. StreamInv' /\ AckInv'
  BY <1>1, <1>3, PeerFacts DEF IInv, StreamInv, AckInv
<1> QED BY <1>1, <1>2, <1>4 DEF Genuine

\* A wait's slot stays truthful when it is not touched.
LEMMA SlotKept ==
    ASSUME SlotInv, UNCHANGED slot,
           \A r \in Endpoint : pc'[r] = "waiting" => pc[r] = "waiting",
           \A r \in Endpoint : \A f : Genuine(r, f) => Genuine(r, f)'
    PROVE  SlotInv'
BY DEF SlotInv

\* A thread that fails leaves everything but the wire as it was.
LEMMA FailInv ==
    ASSUME IInv, NEW p \in Endpoint, Fail(p, why'[p]),
           why'[p] \in {"timeout", "order", "pending", "gone", "error"},
           UNCHANGED <<conn, history>>, WireType',
           \A r \in Endpoint : Range(chan'[r]) \subseteq Range(chan[r])
    PROVE  IInv'
<1>1. ConnType' /\ HistoryType' /\ StreamInv' /\ AckInv'
  BY ConnKept
<1>2. \A r \in Endpoint : \A f : Genuine(r, f) => Genuine(r, f)'
  BY ConnKept
<1>3. UNCHANGED <<op, left, retries, slot, txSeq, txAcked>>
  BY DEF Fail, conn
<1>4. /\ pc' \in [Endpoint -> {"idle", "sending", "waiting", "receiving", "failed"}]
      /\ pc'[p] = "failed" /\ \A r \in Endpoint \ {p} : pc'[r] = pc[r]
  BY DEF IInv, Types, CallType, Fail
<1>5. CallType'
  BY <1>3, <1>4 DEF IInv, Types, CallType, Fail
<1>6. CallInv'
  BY <1>3, <1>4 DEF IInv, CallInv
<1>7. SlotInv'
  BY <1>2, <1>3, <1>4, SlotKept DEF IInv
<1>8. WireInv'
  BY <1>2, WireKept DEF IInv, Types
<1>9. AheadInv'
  BY <1>3, <1>4 DEF IInv, AheadInv
<1> QED BY <1>1, <1>5, <1>6, <1>7, <1>8, <1>9 DEF IInv, Types

LEMMA BeginCallInv ==
    ASSUME IInv, NEW p \in Endpoint, BeginCall(p)
    PROVE  IInv'
<1> DEFINE t == Transfers[op[p]]
           s == IF t.from = p THEN "sending" ELSE "receiving"
<1>1. pc[p] = "idle" /\ op[p] \in DOMAIN Transfers /\ t.frames \in Nat
  BY TransferFacts DEF BeginCall
<1>2. /\ left' = [left EXCEPT ![p] = t.frames]
      /\ pc' = [pc EXCEPT ![p] = IF t.frames = 0 THEN "idle" ELSE s]
      /\ op' = [op EXCEPT ![p] = IF t.frames = 0 THEN @ + 1 ELSE @]
      /\ UNCHANGED <<why, retries, slot, conn, chan, lost, errors, history>>
  BY DEF BeginCall, Proceed
<1>3. /\ ConnType' /\ HistoryType' /\ StreamInv' /\ AckInv'
      /\ \A r \in Endpoint : \A f : Genuine(r, f) => Genuine(r, f)'
  BY <1>2, ConnKept
<1>4. /\ left' \in [Endpoint -> Nat] /\ left'[p] = t.frames
      /\ op' \in [Endpoint -> Nat \ {0}] /\ (t.frames # 0 => op'[p] = op[p])
      /\ \A r \in Endpoint \ {p} : left'[r] = left[r] /\ op'[r] = op[r]
  BY <1>1, <1>2 DEF IInv, Types, CallType
<1>5. /\ pc' \in [Endpoint -> {"idle", "sending", "waiting", "receiving", "failed"}]
      /\ pc'[p] = (IF t.frames = 0 THEN "idle" ELSE s)
      /\ \A r \in Endpoint \ {p} : pc'[r] = pc[r]
  BY <1>2 DEF IInv, Types, CallType
<1> HIDE DEF t
<1>6. CallType' /\ WireType'
  BY <1>2, <1>4, <1>5 DEF IInv, Types, CallType, WireType
<1>7. CallInv'
  <2>1. \A r \in Endpoint \ {p} : pc'[r] = pc[r] /\ left'[r] = left[r] /\ op'[r] = op[r]
    BY <1>4, <1>5
  <2> QED BY <1>1, <1>4, <1>5, <2>1 DEF IInv, CallInv, t
<1>8. SlotInv'
  BY <1>2, <1>3, <1>5, SlotKept DEF IInv
<1>9. WireInv'
  BY <1>2, <1>3, WireKept DEF IInv, Types
<1>10. AheadInv'
  <2>1. UNCHANGED <<txSeq, txAcked>>
    BY <1>2 DEF conn
  <2> QED BY <1>1, <1>5, <2>1, CounterFacts DEF IInv, AheadInv
<1> QED BY <1>3, <1>6, <1>7, <1>8, <1>9, <1>10 DEF IInv, Types

LEMMA AwaitCommandInv ==
    ASSUME IInv, NEW p \in Endpoint, AwaitCommand(p)
    PROVE  IInv'
<1>1. /\ pc[p] = "idle"
      /\ left' = [left EXCEPT ![p] = 1]
      /\ pc' = [pc EXCEPT ![p] = "receiving"]
      /\ UNCHANGED <<why, op, retries, slot, conn, chan, lost, errors, history>>
  BY DEF AwaitCommand
<1>2. /\ ConnType' /\ HistoryType' /\ StreamInv' /\ AckInv'
      /\ \A r \in Endpoint : \A f : Genuine(r, f) => Genuine(r, f)'
  BY <1>1, ConnKept
<1>3. /\ pc'[p] = "receiving" /\ left'[p] = 1
      /\ \A r \in Endpoint \ {p} : pc'[r] = pc[r] /\ left'[r] = left[r]
  BY <1>1 DEF IInv, Types, CallType
<1>4. CallType' /\ WireType'
  BY <1>1 DEF IInv, Types, CallType, WireType
<1>5. CallInv'
  BY <1>1, <1>3 DEF IInv, CallInv
<1>6. SlotInv'
  BY <1>1, <1>2, <1>3, SlotKept DEF IInv
<1>7. WireInv'
  BY <1>1, <1>2, WireKept DEF IInv, Types
<1>8. AheadInv'
  <2>1. UNCHANGED <<txSeq, txAcked>>
    BY <1>1 DEF conn
  <2> QED BY <1>1, <1>3, <2>1 DEF IInv, AheadInv
<1> QED BY <1>2, <1>4, <1>5, <1>6, <1>7, <1>8 DEF IInv, Types

\* What p has sent only grows, so what was truthful stays so.
LEMMA GenuineKept ==
    ASSUME IInv, rxSeq' \in [Endpoint -> Nat],
           \A r \in Endpoint : rxSeq[r] <= rxSeq'[r],
           \A r \in Endpoint :
               /\ Len(sent'[r]) \in Nat /\ Len(sent[r]) <= Len(sent'[r])
               /\ \A i \in 1 .. Len(sent[r]) : sent'[r][i] = sent[r][i],
           NEW r \in Endpoint, NEW f \in Frame, Genuine(r, f)
    PROVE  Genuine(r, f)'
<1>1. f.seq \in Nat
  BY DEF Frame
<1>2. rxSeq[r] \in Nat /\ rxSeq'[r] \in Nat /\ Len(sent[r]) \in Nat
  BY DEF IInv, Types, ConnType, HistoryType
<1> QED BY <1>1, <1>2 DEF Genuine

LEMMA SendFrameInv ==
    ASSUME IInv, NEW p \in Endpoint, SendFrame(p)
    PROVE  IInv'
<1> DEFINE n == txSeq[p]
           q == Peer(p)
           chunk == <<op[p], Transfers[op[p]].frames - left[p] + 1>>
           frame == DataFrame(p, n, chunk)
           wait == MustWait(p, n, left[p] = 1)
<1>1. /\ pc[p] = "sending" /\ op[p] \in DOMAIN Transfers
      /\ Transfers[op[p]].frames \in Nat
      /\ left[p] \in 1 .. Transfers[op[p]].frames
  BY TransferFacts DEF SendFrame, IInv, CallInv
<1>2. chunk \in Chunk
  <2>1. Transfers[op[p]].frames - left[p] + 1 \in 1 .. Transfers[op[p]].frames
    BY <1>1
  <2> QED BY <1>1, <2>1 DEF Chunk
<1>3. /\ chan' = [chan EXCEPT ![q] = Append(@, frame)]
      /\ sent' = [sent EXCEPT ![p] = Append(@, chunk)]
      /\ txSeq' = [txSeq EXCEPT ![p] = n + 1]
      /\ left' = [left EXCEPT ![p] = @ - 1]
      /\ UNCHANGED <<why, txAcked, rxSeq, rxAcked, pending, lost, errors, got>>
  BY DEF SendFrame
<1>4. \/ /\ wait
         /\ pc' = [pc EXCEPT ![p] = "waiting"]
         /\ retries' = [retries EXCEPT ![p] = 0]
         /\ slot' = [slot EXCEPT ![p] = [frame |-> frame, ahead |-> 1]]
         /\ UNCHANGED op
      \/ /\ ~wait
         /\ pc' = [pc EXCEPT ![p] = IF left[p] - 1 = 0 THEN "idle" ELSE "sending"]
         /\ op' = [op EXCEPT ![p] = IF left[p] - 1 = 0 THEN @ + 1 ELSE @]
         /\ UNCHANGED <<retries, slot>>
  BY DEF SendFrame, Proceed
<1>5. q \in Endpoint /\ q # p /\ Peer(q) = p
  BY PeerFacts
<1>6. n \in Nat \ {0} /\ AckWindow[p] \in Nat \ {0} /\ txAcked[p] \in Nat /\ txAcked[p] < n
  BY CounterFacts
<1>7. frame \in Frame /\ frame = DataFrame(p, n, chunk)
  BY <1>2, <1>6 DEF Frame, DataFrame
<1>8. frame.kind = "data" /\ frame.seq = n /\ frame.body = chunk /\ frame.cookie = p
  BY DEF DataFrame
<1> HIDE DEF chunk, frame, q, wait
<1>9. sent[p] \in Seq(Chunk) /\ chan[q] \in Seq(Frame)
  BY <1>5 DEF IInv, Types, HistoryType, WireType
<1>10. /\ HistoryType'
       /\ Len(sent'[p]) = Len(sent[p]) + 1
       /\ \A i \in 1 .. Len(sent[p]) : sent'[p][i] = sent[p][i]
       /\ sent'[p][Len(sent[p]) + 1] = chunk
       /\ \A r \in Endpoint \ {p} : sent'[r] = sent[r]
  <2>1. sent'[p] = Append(sent[p], chunk) /\ \A r \in Endpoint \ {p} : sent'[r] = sent[r]
    BY <1>3 DEF IInv, Types, HistoryType
  <2>2. Append(sent[p], chunk) \in Seq(Chunk)
    BY <1>2, <1>9
  <2>3. HistoryType'
    BY <1>3, <2>2 DEF IInv, Types, HistoryType
  <2> QED BY <1>2, <1>9, <2>1, <2>3, AppendFacts
<1>11. /\ WireType'
       /\ Range(chan'[q]) = Range(chan[q]) \cup {frame}
       /\ \A r \in Endpoint \ {q} : chan'[r] = chan[r]
  <2>1. chan'[q] = Append(chan[q], frame) /\ \A r \in Endpoint \ {q} : chan'[r] = chan[r]
    BY <1>3, <1>5 DEF IInv, Types, WireType
  <2>2. Append(chan[q], frame) \in Seq(Frame)
    BY <1>7, <1>9
  <2>3. WireType'
    BY <1>3, <2>2 DEF IInv, Types, WireType
  <2> QED BY <1>7, <1>9, <2>1, <2>3, AppendFacts
<1>12. /\ ConnType' /\ txSeq'[p] = n + 1
       /\ \A r \in Endpoint \ {p} : txSeq'[r] = txSeq[r]
  BY <1>3, <1>6 DEF IInv, Types, ConnType
<1>13. /\ left' \in [Endpoint -> Nat] /\ left'[p] = left[p] - 1
       /\ \A r \in Endpoint \ {p} : left'[r] = left[r]
  BY <1>1, <1>3 DEF IInv, Types, CallType
<1>14. /\ pc' \in [Endpoint -> {"idle", "sending", "waiting", "receiving", "failed"}]
       /\ op' \in [Endpoint -> Nat \ {0}]
       /\ pc'[p] = (IF wait THEN "waiting" ELSE IF left[p] = 1 THEN "idle" ELSE "sending")
       /\ pc'[p] # "idle" => op'[p] = op[p]
       /\ \A r \in Endpoint \ {p} : pc'[r] = pc[r] /\ op'[r] = op[r]
  <2>1. (left[p] - 1 = 0) = (left[p] = 1)
    BY <1>1
  <2>2. /\ pc \in [Endpoint -> {"idle", "sending", "waiting", "receiving", "failed"}]
        /\ op \in [Endpoint -> Nat \ {0}]
    BY DEF IInv, Types, CallType
  <2>3. CASE wait
    BY <1>4, <2>2, <2>3
  <2>4. CASE ~wait
    BY <1>4, <2>1, <2>2, <2>4
  <2> QED BY <2>3, <2>4
<1>15. /\ retries' \in [Endpoint -> 0 .. MaxRetries]
       /\ slot' \in [Endpoint -> [frame : Frame \cup {None}, ahead : 0 .. TxDepth]]
       /\ wait => slot'[p].frame = frame
       /\ \A r \in Endpoint \ {p} : slot'[r] = slot[r]
  <2>1. CASE wait
    <3>1. [frame |-> frame, ahead |-> 1] \in [frame : Frame \cup {None}, ahead : 0 .. TxDepth]
      BY <1>7, SettingsType
    <3>2. retries' \in [Endpoint -> 0 .. MaxRetries]
      BY <1>4, <2>1, SettingsType DEF IInv, Types, CallType
    <3>3. /\ slot' \in [Endpoint -> [frame : Frame \cup {None}, ahead : 0 .. TxDepth]]
          /\ slot'[p] = [frame |-> frame, ahead |-> 1]
          /\ \A r \in Endpoint \ {p} : slot'[r] = slot[r]
      BY <1>4, <2>1, <3>1 DEF IInv, Types, CallType
    <3> QED BY <2>1, <3>2, <3>3
  <2>2. CASE ~wait
    BY <1>4, <2>2 DEF IInv, Types, CallType
  <2> QED BY <2>1, <2>2
<1>16. CallType'
  BY <1>3, <1>13, <1>14, <1>15 DEF IInv, Types, CallType
<1>17. CallInv'
  <2>1. ASSUME NEW r \in Endpoint, r # p
        PROVE  pc'[r] = pc[r] /\ op'[r] = op[r] /\ left'[r] = left[r]
    BY <1>13, <1>14, <2>1
  <2> QED BY <1>1, <1>13, <1>14, <2>1 DEF IInv, CallInv
<1>18. Len(sent[p]) = n - 1
  BY DEF IInv, StreamInv
<1>19. \A r \in Endpoint : \A f \in Frame : Genuine(r, f) => Genuine(r, f)'
  <2>1. rxSeq' \in [Endpoint -> Nat] /\ \A r \in Endpoint : rxSeq[r] <= rxSeq'[r]
    BY <1>3 DEF IInv, Types, ConnType
  <2>2. \A r \in Endpoint : Len(sent[r]) \in Nat
    BY DEF IInv, Types, HistoryType
  <2>3. \A r \in Endpoint :
            /\ Len(sent'[r]) \in Nat /\ Len(sent[r]) <= Len(sent'[r])
            /\ \A i \in 1 .. Len(sent[r]) : sent'[r][i] = sent[r][i]
    BY <1>10, <2>2
  <2> QED BY <2>1, <2>3, GenuineKept
<1>20. \A f : f = frame => Genuine(p, f)'
  BY <1>6, <1>8, <1>10, <1>18 DEF Genuine
<1>21. WireInv'
  <2>1. \A r \in Endpoint : \A f \in Range(chan'[r]) :
            f \in Range(chan[r]) \/ Genuine(Peer(r), f)'
    BY <1>5, <1>11, <1>20
  <2> QED BY <1>19, <2>1, WireKept DEF IInv, Types
<1>22. SlotInv'
  <2>1. ASSUME NEW r \in Endpoint, r # p, pc'[r] = "waiting"
        PROVE  /\ slot'[r] = slot[r] /\ slot[r].frame \in Frame
               /\ Genuine(r, slot[r].frame)
    BY <1>14, <1>15, <2>1 DEF IInv, SlotInv
  <2>2. ASSUME NEW r \in Endpoint, r # p, pc'[r] = "waiting", NEW f, f = slot'[r].frame
        PROVE  f \in Frame /\ Genuine(r, f)'
    BY <1>19, <2>1, <2>2
  <2>3. ASSUME pc'[p] = "waiting", NEW f, f = slot'[p].frame
        PROVE  f \in Frame /\ Genuine(p, f)'
    BY <1>7, <1>14, <1>15, <1>20, <2>3
  <2> QED BY <2>2, <2>3 DEF SlotInv, Genuine
<1>23. StreamInv'
  <2>1. \A r \in Endpoint : Accepted(r)' = Accepted(r)
    BY <1>3 DEF Accepted
  <2>2. ASSUME NEW r \in Endpoint
        PROVE  Len(sent'[r]) = txSeq'[r] - 1
    <3>1. Len(sent[r]) = txSeq[r] - 1 /\ txSeq[r] \in Nat
      BY CounterFacts DEF IInv, StreamInv
    <3> QED BY <1>6, <1>10, <1>12, <3>1
  <2>3. ASSUME NEW r \in Endpoint
        PROVE  /\ Len(Accepted(r)') = rxSeq'[r] - 1
               /\ rxSeq'[r] <= txSeq'[Peer(r)]
               /\ \A i \in 1 .. rxSeq'[r] - 1 : Accepted(r)'[i] = sent'[Peer(r)][i]
    <3>1. /\ Peer(r) \in Endpoint /\ rxSeq[r] \in Nat /\ txSeq[Peer(r)] \in Nat
          /\ Len(sent[Peer(r)]) = txSeq[Peer(r)] - 1
          /\ Len(Accepted(r)) = rxSeq[r] - 1
          /\ rxSeq[r] <= txSeq[Peer(r)]
          /\ \A i \in 1 .. rxSeq[r] - 1 : Accepted(r)[i] = sent[Peer(r)][i]
      BY CounterFacts, PeerFacts DEF IInv, StreamInv
    <3>2. txSeq[Peer(r)] <= txSeq'[Peer(r)] /\ rxSeq'[r] = rxSeq[r]
      BY <1>3, <1>12, <3>1
    <3>3. \A i \in 1 .. Len(sent[Peer(r)]) : sent'[Peer(r)][i] = sent[Peer(r)][i]
      BY <1>10, <3>1
    <3>4. txSeq'[Peer(r)] \in Nat
      BY <1>12, <3>1 DEF ConnType
    <3>5. rxSeq'[r] <= txSeq'[Peer(r)]
      BY <3>1, <3>2, <3>4
    <3>6. ASSUME NEW i \in 1 .. rxSeq'[r] - 1
          PROVE  Accepted(r)'[i] = sent'[Peer(r)][i]
      <4>1. i \in 1 .. rxSeq[r] - 1 /\ i \in 1 .. Len(sent[Peer(r)])
        BY <3>1, <3>2
      <4> QED BY <2>1, <3>1, <3>3, <4>1
    <3> QED BY <2>1, <3>1, <3>2, <3>5, <3>6
  <2> QED BY <2>2, <2>3 DEF StreamInv
<1>24. AckInv'
  BY <1>3 DEF IInv, AckInv
<1>25. AheadInv'
  <2>1. ASSUME NEW r \in Endpoint, r # p, WaitAck[r]
        PROVE  /\ txSeq'[r] - 1 <= txAcked'[r] + AckWindow[r]
               /\ pc'[r] \in {"idle", "receiving"} => txSeq'[r] - 1 <= txAcked'[r]
               /\ pc'[r] = "sending" => txSeq'[r] - 1 < txAcked'[r] + AckWindow[r]
    BY <1>3, <1>12, <1>14, <2>1 DEF IInv, AheadInv
  <2>2. ASSUME WaitAck[p]
        PROVE  /\ n <= txAcked[p] + AckWindow[p]
               /\ pc'[p] \in {"idle", "receiving"} => n <= txAcked[p]
               /\ pc'[p] = "sending" => n < txAcked[p] + AckWindow[p]
    <3>1. n - 1 < txAcked[p] + AckWindow[p]
      BY <1>1, <2>2 DEF IInv, AheadInv
    <3>2. ~wait => left[p] # 1 /\ n < txAcked[p] + AckWindow[p]
      BY <1>6, <2>2 DEF wait, MustWait
    <3> QED BY <1>1, <1>6, <1>14, <3>1, <3>2
  <2> QED BY <1>3, <1>6, <1>12, <2>1, <2>2 DEF AheadInv
<1> QED BY <1>10, <1>11, <1>12, <1>16, <1>17, <1>21, <1>22, <1>23, <1>24, <1>25
        DEF IInv, Types

LEMMA TimeoutInv ==
    ASSUME IInv, NEW p \in Endpoint, Timeout(p)
    PROVE  IInv'
<1> DEFINE q == Peer(p)
           f == slot[p].frame
<1>1. pc[p] = "waiting" /\ UNCHANGED <<conn, lost, errors, history>>
  BY DEF Timeout
<1>2. f \in Frame /\ Genuine(p, f)
  BY <1>1 DEF IInv, SlotInv
<1>3. q \in Endpoint /\ q # p /\ Peer(q) = p
  BY PeerFacts
<1>4. CASE /\ retries[p] < MaxRetries
           /\ retries' = [retries EXCEPT ![p] = @ + 1]
           /\ chan' = [chan EXCEPT ![q] = Append(@, f)]
           /\ UNCHANGED <<pc, why, op, left, slot>>
  <2>1. /\ ConnType' /\ HistoryType' /\ StreamInv' /\ AckInv'
        /\ \A r \in Endpoint : \A g : Genuine(r, g) => Genuine(r, g)'
    BY <1>1, ConnKept
  <2> HIDE DEF f, q
  <2>2. chan[q] \in Seq(Frame)
    BY <1>3 DEF IInv, Types, WireType
  <2>3. /\ WireType'
        /\ Range(chan'[q]) = Range(chan[q]) \cup {f}
        /\ \A r \in Endpoint \ {q} : chan'[r] = chan[r]
    <3>1. chan'[q] = Append(chan[q], f) /\ \A r \in Endpoint \ {q} : chan'[r] = chan[r]
      BY <1>3, <1>4 DEF IInv, Types, WireType
    <3>2. Append(chan[q], f) \in Seq(Frame)
      BY <1>2, <2>2
    <3>3. WireType'
      BY <1>1, <1>4, <3>2 DEF IInv, Types, WireType
    <3> QED BY <1>2, <2>2, <3>1, <3>3, AppendFacts
  <2>4. CallType'
    <3>1. retries' \in [Endpoint -> 0 .. MaxRetries]
      BY <1>4, SettingsType DEF IInv, Types, CallType
    <3> QED BY <1>4, <3>1 DEF IInv, Types, CallType
  <2>5. CallInv'
    BY <1>4 DEF IInv, CallInv
  <2>6. WireInv'
    <3>1. \A r \in Endpoint : \A g \in Range(chan'[r]) :
              g \in Range(chan[r]) \/ Genuine(Peer(r), g)'
      BY <1>2, <1>3, <2>1, <2>3
    <3> QED BY <2>1, <3>1, WireKept DEF IInv, Types
  <2>7. SlotInv'
    BY <1>4, <2>1, SlotKept DEF IInv
  <2>8. AheadInv'
    BY <1>1, <1>4 DEF IInv, AheadInv, conn
  <2> QED BY <2>1, <2>3, <2>4, <2>5, <2>6, <2>7, <2>8 DEF IInv, Types
<1>5. CASE Fail(p, "timeout") /\ UNCHANGED chan
  <2>1. why'[p] = "timeout"
    BY <1>5 DEF Fail, IInv, Types, CallType
  <2>2. WireType'
    BY <1>1, <1>5 DEF IInv, Types, WireType
  <2> QED BY <1>1, <1>5, <2>1, <2>2, FailInv
<1> QED BY <1>4, <1>5 DEF Timeout

-----------------------------------------------------------------------------
\* Taking the frame at the head of a wire.
LEMMA ArrivedFacts ==
    ASSUME IInv, NEW p \in Endpoint, Arrived(p)
    PROVE  /\ Head(chan[p]) \in Frame
           /\ Tail(chan[p]) \in Seq(Frame)
           /\ Range(Tail(chan[p])) \subseteq Range(chan[p])
           /\ Head(chan[p]).seq \in Nat
           /\ Head(chan[p]).cookie = Peer(p) => Genuine(Peer(p), Head(chan[p]))
<1>1. chan[p] \in Seq(Frame) /\ chan[p] # <<>>
  BY DEF Arrived, IInv, Types, WireType
<1>2. /\ Head(chan[p]) \in Frame
      /\ Tail(chan[p]) \in Seq(Frame)
      /\ Head(chan[p]) \in Range(chan[p])
      /\ Range(Tail(chan[p])) \subseteq Range(chan[p])
  BY <1>1, TailFacts
<1>3. Head(chan[p]).seq \in Nat
  BY <1>2 DEF Frame
<1> QED BY <1>2, <1>3 DEF IInv, WireInv

LEMMA ConsumeFacts ==
    ASSUME IInv, NEW p \in Endpoint, Arrived(p), Consume(p), UNCHANGED <<lost, errors>>
    PROVE  /\ WireType'
           /\ \A r \in Endpoint : Range(chan'[r]) \subseteq Range(chan[r])
<1>1. /\ chan' = [chan EXCEPT ![p] = Tail(chan[p])]
      /\ Tail(chan[p]) \in Seq(Frame)
      /\ Range(Tail(chan[p])) \subseteq Range(chan[p])
  BY ArrivedFacts DEF Consume
<1>2. chan'[p] = Tail(chan[p]) /\ \A r \in Endpoint \ {p} : chan'[r] = chan[r]
  BY <1>1 DEF IInv, Types, WireType
<1>3. WireType'
  BY <1>1 DEF IInv, Types, WireType
<1> QED BY <1>1, <1>2, <1>3

\* Consume a frame, with an ACK for n or without one.
MayAck(p, n) == rdma_send_fixed_ack(p, n, TRUE) \/ rdma_send_fixed_ack(p, n, FALSE)

\* What consuming a frame and possibly acknowledging n does to the wires and
\* to the awaited slot.
LEMMA ReplyFacts ==
    ASSUME IInv, NEW p \in Endpoint, Arrived(p), NEW n \in Nat, MayAck(p, n),
           UNCHANGED <<lost, errors>>
    PROVE  /\ WireType'
           /\ \A r \in Endpoint : \A f \in Range(chan'[r]) :
                  f \in Range(chan[r]) \/ (r = Peer(p) /\ f = AckFrame(p, n))
           /\ rxAcked' \in [Endpoint -> Nat]
           /\ slot' \in [Endpoint -> [frame : Frame \cup {None}, ahead : 0 .. TxDepth]]
           /\ \A r \in Endpoint :
                  \/ slot'[r].frame = slot[r].frame
                  \/ r = p /\ slot'[r].frame = AckFrame(p, n)
<1> DEFINE q == Peer(p)
           ack == AckFrame(p, n)
<1>1. q \in Endpoint /\ q # p
  BY PeerFacts
<1>2. ack \in Frame
  BY DEF AckFrame, Frame
<1>3. CASE rdma_send_fixed_ack(p, n, FALSE)
  <2>1. Consume(p) /\ UNCHANGED <<rxAcked, slot>>
    BY <1>3 DEF rdma_send_fixed_ack
  <2>2. WireType' /\ \A r \in Endpoint : Range(chan'[r]) \subseteq Range(chan[r])
    BY <2>1, ConsumeFacts
  <2> QED BY <2>1, <2>2 DEF IInv, Types, ConnType, CallType
<1>4. CASE rdma_send_fixed_ack(p, n, TRUE)
  <2>1. /\ chan' = [chan EXCEPT ![p] = Tail(@), ![q] = Append(@, ack)]
        /\ rxAcked' = [rxAcked EXCEPT ![p] = Larger(n, @)]
        /\ slot' = [slot EXCEPT ![p] = TakeSlot(p, ack)]
    BY <1>4 DEF rdma_send_fixed_ack
  <2> HIDE DEF q, ack
  <2>2. /\ chan'[p] = Tail(chan[p]) /\ chan'[q] = Append(chan[q], ack)
        /\ \A r \in Endpoint \ {p, q} : chan'[r] = chan[r]
        /\ chan' \in [Endpoint -> {chan'[r] : r \in Endpoint}]
        /\ chan[q] \in Seq(Frame)
    BY <1>1, <2>1 DEF IInv, Types, WireType
  <2>3. /\ Tail(chan[p]) \in Seq(Frame)
        /\ Range(Tail(chan[p])) \subseteq Range(chan[p])
    BY ArrivedFacts
  <2>4. /\ Append(chan[q], ack) \in Seq(Frame)
        /\ Range(Append(chan[q], ack)) = Range(chan[q]) \cup {ack}
    BY <1>2, <2>2, AppendFacts
  <2>5. WireType'
    <3>1. \A r \in Endpoint : chan'[r] \in Seq(Frame)
      BY <2>2, <2>3, <2>4 DEF IInv, Types, WireType
    <3>2. chan' \in [Endpoint -> Seq(Frame)]
      BY <2>2, <3>1
    <3> QED BY <3>2 DEF IInv, Types, WireType
  <2>6. \A r \in Endpoint : \A f \in Range(chan'[r]) :
            f \in Range(chan[r]) \/ (r = q /\ f = ack)
    BY <2>2, <2>3, <2>4
  <2>7. rxAcked' \in [Endpoint -> Nat]
    BY <2>1 DEF IInv, Types, ConnType, Larger
  <2>8. /\ TakeSlot(p, ack) \in [frame : Frame \cup {None}, ahead : 0 .. TxDepth]
        /\ TakeSlot(p, ack).frame \in {slot[p].frame, ack}
    <3>1. slot[p] \in [frame : Frame \cup {None}, ahead : 0 .. TxDepth]
      BY DEF IInv, Types, CallType
    <3>2. CASE pc[p] # "waiting"
      BY <3>1, <3>2 DEF TakeSlot
    <3>3. CASE pc[p] = "waiting" /\ slot[p].ahead = TxDepth
      <4>1. TakeSlot(p, ack) = [frame |-> ack, ahead |-> 1]
        BY <3>3 DEF TakeSlot
      <4> QED BY <1>2, <4>1, SettingsType
    <3>4. CASE pc[p] = "waiting" /\ slot[p].ahead # TxDepth
      <4>1. TakeSlot(p, ack) = [slot[p] EXCEPT !.ahead = @ + 1]
        BY <3>4 DEF TakeSlot
      <4>2. slot[p].ahead + 1 \in 0 .. TxDepth
        BY <3>1, <3>4, SettingsType
      <4> QED BY <3>1, <4>1, <4>2
    <3> QED BY <3>2, <3>3, <3>4
  <2> HIDE DEF TakeSlot
  <2>9. /\ slot' \in [Endpoint -> [frame : Frame \cup {None}, ahead : 0 .. TxDepth]]
        /\ slot'[p] = TakeSlot(p, ack)
        /\ \A r \in Endpoint \ {p} : slot'[r] = slot[r]
    BY <2>1, <2>8 DEF IInv, Types, CallType
  <2> QED BY <2>5, <2>6, <2>7, <2>8, <2>9 DEF q, ack
<1> QED BY <1>3, <1>4 DEF MayAck

\* The wires and the slot stay truthful when the ACK that is sent is.
LEMMA ReplyInv ==
    ASSUME IInv, NEW p \in Endpoint, Arrived(p), NEW n \in Nat, MayAck(p, n),
           UNCHANGED <<lost, errors>>,
           \A r \in Endpoint : pc'[r] = "waiting" => pc[r] = "waiting",
           n < rxSeq'[p],
           \A r \in Endpoint : \A f \in Frame : Genuine(r, f) => Genuine(r, f)'
    PROVE  WireInv' /\ SlotInv'
<1>1. /\ \A r \in Endpoint : \A f \in Range(chan'[r]) :
             f \in Range(chan[r]) \/ (r = Peer(p) /\ f = AckFrame(p, n))
      /\ \A r \in Endpoint :
             \/ slot'[r].frame = slot[r].frame
             \/ r = p /\ slot'[r].frame = AckFrame(p, n)
  BY ReplyFacts
<1>2. \A f : f = AckFrame(p, n) => f \in Frame /\ Genuine(p, f)'
  BY DEF AckFrame, Frame, Genuine
<1>3. WireInv'
  <2>1. \A r \in Endpoint : \A f \in Range(chan'[r]) :
            f \in Range(chan[r]) \/ Genuine(Peer(r), f)'
    BY <1>1, <1>2, PeerFacts
  <2> QED BY <2>1, WireKept DEF IInv, Types
<1>4. SlotInv'
  <2>1. ASSUME NEW r \in Endpoint, pc'[r] = "waiting", NEW f, f = slot'[r].frame
        PROVE  f \in Frame /\ Genuine(r, f)'
    <3>1. slot[r].frame \in Frame /\ Genuine(r, slot[r].frame)
      BY <2>1 DEF IInv, SlotInv
    <3> QED BY <1>1, <1>2, <2>1, <3>1
  <2> QED BY <2>1 DEF SlotInv, Genuine
<1> QED BY <1>3, <1>4

\* Frames leave the wires and nothing else happens.
LEMMA WireShrinks ==
    ASSUME IInv, UNCHANGED <<call, conn, history>>, WireType',
           \A r \in Endpoint : Range(chan'[r]) \subseteq Range(chan[r])
    PROVE  IInv'
<1>1. /\ ConnType' /\ HistoryType' /\ StreamInv' /\ AckInv'
      /\ \A r \in Endpoint : \A f : Genuine(r, f) => Genuine(r, f)'
  BY ConnKept
<1>2. UNCHANGED <<pc, why, op, left, retries, slot, txSeq, txAcked>>
  BY DEF call, conn
<1>3. CallType' /\ CallInv' /\ AheadInv'
  BY <1>2 DEF IInv, Types, CallType, CallInv, AheadInv
<1>4. SlotInv'
  BY <1>1, <1>2, SlotKept DEF IInv
<1>5. WireInv'
  BY <1>1, WireKept DEF IInv, Types
<1> QED BY <1>1, <1>3, <1>4, <1>5 DEF IInv, Types

LEMMA DropStaleInv ==
    ASSUME IInv, NEW p \in Endpoint, DropStale(p)
    PROVE  IInv'
<1>1. Arrived(p) /\ Consume(p) /\ UNCHANGED <<call, conn, lost, errors, history>>
  BY DEF DropStale
<1> QED BY <1>1, ConsumeFacts, WireShrinks

LEMMA LoseInv ==
    ASSUME IInv, NEW p \in Endpoint, Lose(p)
    PROVE  IInv'
<1>1. PICK i \in 1 .. Len(chan[p]) : chan' = [chan EXCEPT ![p] = RemoveAt(chan[p], i)]
  BY DEF Lose
<1>2. /\ RemoveAt(chan[p], i) \in Seq(Frame)
      /\ Range(RemoveAt(chan[p], i)) \subseteq Range(chan[p])
  BY RemoveFacts DEF IInv, Types, WireType
<1>3. lost' \in 0 .. MaxLoss /\ UNCHANGED <<call, conn, errors, history>>
  BY BoundsType DEF Lose, IInv, Types, WireType
<1>4. WireType'
  BY <1>1, <1>2, <1>3 DEF IInv, Types, WireType
<1>5. chan'[p] = RemoveAt(chan[p], i) /\ \A r \in Endpoint \ {p} : chan'[r] = chan[r]
  BY <1>1 DEF IInv, Types, WireType
<1>6. \A r \in Endpoint : Range(chan'[r]) \subseteq Range(chan[r])
  BY <1>2, <1>5
<1> QED BY <1>3, <1>4, <1>6, WireShrinks

\* An ACK never names a frame that the peer has not accepted.
LEMMA AckFacts ==
    ASSUME IInv, NEW p \in Endpoint, Current(p), Head(chan[p]).kind = "ack"
    PROVE  Head(chan[p]).seq \in Nat /\ Head(chan[p]).seq < rxSeq[Peer(p)]
BY ArrivedFacts DEF Current, Genuine

LEMMA TakeAckInv ==
    ASSUME IInv, NEW p \in Endpoint, TakeAck(p)
    PROVE  IInv'
<1> DEFINE acked == Larger(Head(chan[p]).seq, txAcked[p])
           ends == pc[p] = "waiting" /\ acked >= txSeq[p] - 1
<1>1. /\ Current(p) /\ Head(chan[p]).kind = "ack" /\ Arrived(p)
      /\ Consume(p)
      /\ txAcked' = [txAcked EXCEPT ![p] = acked]
      /\ UNCHANGED <<why, left, retries, txSeq, rxSeq, rxAcked, pending,
                     lost, errors, history>>
  BY DEF TakeAck, Current
<1>2. \/ /\ ends
         /\ pc' = [pc EXCEPT ![p] = IF left[p] = 0 THEN "idle" ELSE "sending"]
         /\ op' = [op EXCEPT ![p] = IF left[p] = 0 THEN @ + 1 ELSE @]
         /\ slot' = [slot EXCEPT ![p] = NoSlot]
      \/ ~ends /\ UNCHANGED <<pc, op, slot>>
  BY DEF TakeAck, Proceed
<1>3. acked \in Nat /\ acked >= txAcked[p] /\ acked < rxSeq[Peer(p)]
  BY <1>1, AckFacts, CounterFacts, PeerFacts DEF Larger
<1> HIDE DEF acked, ends
<1>4. /\ WireType'
      /\ \A r \in Endpoint : Range(chan'[r]) \subseteq Range(chan[r])
  BY <1>1, ConsumeFacts
<1>5. /\ txAcked' \in [Endpoint -> Nat] /\ txAcked'[p] = acked
      /\ \A r \in Endpoint \ {p} : txAcked'[r] = txAcked[r]
  BY <1>1, <1>3 DEF IInv, Types, ConnType
<1>6. ConnType' /\ HistoryType'
  BY <1>1, <1>5 DEF IInv, Types, ConnType, HistoryType, history
<1>7. /\ pc' \in [Endpoint -> {"idle", "sending", "waiting", "receiving", "failed"}]
      /\ op' \in [Endpoint -> Nat \ {0}]
      /\ \A r \in Endpoint \ {p} : pc'[r] = pc[r] /\ op'[r] = op[r]
      /\ ends => pc'[p] = (IF left[p] = 0 THEN "idle" ELSE "sending")
      /\ ends /\ left[p] # 0 => op'[p] = op[p]
      /\ ~ends => pc'[p] = pc[p] /\ op'[p] = op[p]
  <2>1. /\ pc \in [Endpoint -> {"idle", "sending", "waiting", "receiving", "failed"}]
        /\ op \in [Endpoint -> Nat \ {0}]
    BY DEF IInv, Types, CallType
  <2>2. CASE ends
    BY <1>2, <2>1, <2>2
  <2>3. CASE ~ends
    BY <1>2, <2>1, <2>3
  <2> QED BY <2>2, <2>3
<1>8. /\ slot' \in [Endpoint -> [frame : Frame \cup {None}, ahead : 0 .. TxDepth]]
      /\ \A r \in Endpoint : pc'[r] = "waiting" => pc[r] = "waiting" /\ slot'[r] = slot[r]
  <2>1. NoSlot \in [frame : Frame \cup {None}, ahead : 0 .. TxDepth]
    BY SettingsType DEF NoSlot
  <2>2. slot \in [Endpoint -> [frame : Frame \cup {None}, ahead : 0 .. TxDepth]]
    BY DEF IInv, Types, CallType
  <2>3. CASE ends
    <3>1. /\ slot' \in [Endpoint -> [frame : Frame \cup {None}, ahead : 0 .. TxDepth]]
          /\ \A r \in Endpoint \ {p} : slot'[r] = slot[r]
      BY <1>2, <2>1, <2>2, <2>3
    <3> QED BY <1>7, <2>3, <3>1
  <2>4. CASE ~ends
    BY <1>2, <2>2, <2>4
  <2> QED BY <2>3, <2>4
<1>9. CallType'
  BY <1>1, <1>7, <1>8 DEF IInv, Types, CallType
<1>10. CallInv'
  <2>1. ends => pc[p] = "waiting"
    BY DEF ends
  <2>2. left' = left /\ left[p] \in Nat
    BY <1>1, CounterFacts
  <2>3. op[p] \in DOMAIN Transfers => Transfers[op[p]].frames \in Nat
    BY TransferFacts
  <2>4. ASSUME NEW r \in Endpoint, r # p
        PROVE  pc'[r] = pc[r] /\ op'[r] = op[r]
    BY <1>7, <2>4
  <2> QED BY <1>7, <2>1, <2>2, <2>3, <2>4 DEF IInv, CallInv
<1>11. \A r \in Endpoint : \A f : Genuine(r, f) => Genuine(r, f)'
  BY <1>1 DEF Genuine, history
<1>12. WireInv'
  BY <1>4, <1>11, WireKept DEF IInv, Types
<1>13. SlotInv'
  BY <1>8, <1>11 DEF IInv, SlotInv
<1>14. StreamInv'
  <2>1. \A r \in Endpoint : Accepted(r)' = Accepted(r)
    BY <1>1 DEF Accepted, history
  <2> QED BY <1>1, <2>1 DEF IInv, StreamInv, history
<1>15. AckInv'
  BY <1>1, <1>3, <1>5 DEF IInv, AckInv
<1>16. AheadInv'
  <2>1. ASSUME NEW r \in Endpoint, r # p, WaitAck[r]
        PROVE  /\ txSeq'[r] - 1 <= txAcked'[r] + AckWindow[r]
               /\ pc'[r] \in {"idle", "receiving"} => txSeq'[r] - 1 <= txAcked'[r]
               /\ pc'[r] = "sending" => txSeq'[r] - 1 < txAcked'[r] + AckWindow[r]
    BY <1>1, <1>5, <1>7, <2>1 DEF IInv, AheadInv
  <2>2. ASSUME WaitAck[p]
        PROVE  /\ txSeq[p] - 1 <= acked + AckWindow[p]
               /\ pc'[p] \in {"idle", "receiving"} => txSeq[p] - 1 <= acked
               /\ pc'[p] = "sending" => txSeq[p] - 1 < acked + AckWindow[p]
    <3>1. /\ txSeq[p] - 1 <= txAcked[p] + AckWindow[p]
          /\ pc[p] \in {"idle", "receiving"} => txSeq[p] - 1 <= txAcked[p]
          /\ pc[p] = "sending" => txSeq[p] - 1 < txAcked[p] + AckWindow[p]
      BY <2>2 DEF IInv, AheadInv
    <3>2. /\ txSeq[p] \in Nat /\ AckWindow[p] \in Nat \ {0}
          /\ txAcked[p] \in Nat
      BY CounterFacts
    <3>3. CASE ends
      <4>1. acked >= txSeq[p] - 1
        BY <3>3 DEF ends
      <4> QED BY <1>3, <3>1, <3>2, <4>1
    <3>4. CASE ~ends
      BY <1>3, <1>7, <3>1, <3>2, <3>4
    <3> QED BY <3>3, <3>4
  <2> QED BY <1>1, <1>5, <2>1, <2>2 DEF AheadInv
<1> QED BY <1>4, <1>6, <1>9, <1>10, <1>12, <1>13, <1>14, <1>15, <1>16 DEF IInv, Types

LEMMA TakeDuplicateInv ==
    ASSUME IInv, NEW p \in Endpoint, TakeDuplicate(p)
    PROVE  IInv'
<1> DEFINE n == Head(chan[p]).seq
<1>1. /\ Arrived(p) /\ n < rxSeq[p]
      /\ MayAck(p, n)
      /\ UNCHANGED <<pc, why, op, left, retries, txSeq, txAcked, rxSeq, pending,
                     lost, errors, history>>
  BY DEF TakeDuplicate, CurrentData, Current, MayAck, rdma_send_fixed_ack
<1>2. n \in Nat
  BY <1>1, ArrivedFacts
<1> HIDE DEF n
<1>3. \A r \in Endpoint : \A f : Genuine(r, f) => Genuine(r, f)'
  BY <1>1 DEF Genuine, history
<1>4. \A r \in Endpoint : pc'[r] = "waiting" => pc[r] = "waiting"
  BY <1>1
<1>5. WireInv' /\ SlotInv'
  BY <1>1, <1>2, <1>3, <1>4, ReplyInv
<1>6. /\ WireType' /\ rxAcked' \in [Endpoint -> Nat]
      /\ slot' \in [Endpoint -> [frame : Frame \cup {None}, ahead : 0 .. TxDepth]]
  BY <1>1, <1>2, ReplyFacts
<1>7. CallType' /\ ConnType' /\ HistoryType'
  BY <1>1, <1>6 DEF IInv, Types, CallType, ConnType, HistoryType, history
<1>8. CallInv' /\ AckInv' /\ AheadInv'
  BY <1>1 DEF IInv, CallInv, AckInv, AheadInv
<1>9. StreamInv'
  <2>1. \A r \in Endpoint : Accepted(r)' = Accepted(r)
    BY <1>1 DEF Accepted, history
  <2> QED BY <1>1, <2>1 DEF IInv, StreamInv, history
<1> QED BY <1>5, <1>6, <1>7, <1>8, <1>9 DEF IInv, Types

-----------------------------------------------------------------------------
LEMMA RejectInv ==
    ASSUME IInv, NEW p \in Endpoint, RejectFuture(p) \/ RejectSecondBuffer(p)
    PROVE  IInv'
<1>1. Arrived(p) /\ Consume(p) /\ UNCHANGED <<conn, lost, errors, history>>
  BY DEF RejectFuture, RejectSecondBuffer, CurrentData, Current
<1>2. /\ Fail(p, why'[p])
      /\ why'[p] \in {"timeout", "order", "pending", "gone", "error"}
  BY DEF RejectFuture, RejectSecondBuffer, Fail, IInv, Types, CallType
<1>3. /\ WireType'
      /\ \A r \in Endpoint : Range(chan'[r]) \subseteq Range(chan[r])
  BY <1>1, ConsumeFacts
<1> QED BY <1>1, <1>2, <1>3, FailInv

LEMMA PeerGoneInv ==
    ASSUME IInv, NEW p \in Endpoint, PeerGone(p)
    PROVE  IInv'
<1>1. UNCHANGED <<conn, chan, lost, errors, history>>
  BY DEF PeerGone
<1>2. Fail(p, why'[p]) /\ why'[p] = "gone"
  BY DEF PeerGone, Fail, IInv, Types, CallType
<1>3. WireType'
  BY <1>1 DEF IInv, Types, WireType
<1> QED BY <1>1, <1>2, <1>3, FailInv

LEMMA QueuePairErrorInv ==
    ASSUME IInv, NEW p \in Endpoint, QueuePairError(p)
    PROVE  IInv'
<1>1. /\ UNCHANGED <<conn, chan, lost, history>>
      /\ errors < MaxErrors /\ errors' = errors + 1
  BY DEF QueuePairError
<1>2. Fail(p, why'[p]) /\ why'[p] = "error"
  BY DEF QueuePairError, Fail, IInv, Types, CallType
<1>3. WireType'
  BY <1>1, BoundsType DEF IInv, Types, WireType
<1> QED BY <1>1, <1>2, <1>3, FailInv

\* The next frame carries the chunk the peer sent next.
LEMMA NextFrameFacts ==
    ASSUME IInv, NEW p \in Endpoint, CurrentData(p), Head(chan[p]).seq = rxSeq[p]
    PROVE  /\ rxSeq[p] < txSeq[Peer(p)]
           /\ Head(chan[p]).body = sent[Peer(p)][rxSeq[p]]
           /\ Head(chan[p]).body \in Chunk
<1> DEFINE q == Peer(p)
           f == Head(chan[p])
<1>1. Genuine(q, f) /\ f.kind = "data"
  BY ArrivedFacts DEF CurrentData, Current
<1>2. rxSeq[p] \in 1 .. Len(sent[q]) /\ f.body = sent[q][rxSeq[p]]
  BY <1>1 DEF Genuine
<1>3. q \in Endpoint /\ sent[q] \in Seq(Chunk)
  BY PeerFacts DEF IInv, Types, HistoryType
<1>4. Len(sent[q]) = txSeq[q] - 1 /\ txSeq[q] \in Nat
  BY <1>3, CounterFacts DEF IInv, StreamInv
<1> HIDE DEF f, q
<1>5. sent[q][rxSeq[p]] \in Chunk
  BY <1>2, <1>3
<1> QED BY <1>2, <1>4, <1>5 DEF f, q

LEMMA AcceptedType ==
    ASSUME IInv, NEW p \in Endpoint
    PROVE  Accepted(p) \in Seq(Chunk)
<1>1. got[p] \in Seq(Chunk) /\ pending[p] \in Chunk \cup {None}
  BY DEF IInv, Types, HistoryType, ConnType
<1> QED BY <1>1 DEF Accepted

\* Accepting the next frame, into the call or into rx_pending.
LEMMA AcceptInv ==
    ASSUME IInv, NEW p \in Endpoint, CurrentData(p), Head(chan[p]).seq = rxSeq[p],
           Accepted(p)' = Append(Accepted(p), Head(chan[p]).body),
           \A r \in Endpoint : r # p => Accepted(r)' = Accepted(r),
           rxSeq' = [rxSeq EXCEPT ![p] = @ + 1],
           UNCHANGED <<sent, txSeq, txAcked>>
    PROVE  /\ StreamInv' /\ AckInv'
           /\ rxSeq' \in [Endpoint -> Nat \ {0}] /\ rxSeq'[p] = rxSeq[p] + 1
           /\ \A r \in Endpoint : \A f \in Frame : Genuine(r, f) => Genuine(r, f)'
<1> DEFINE q == Peer(p)
           body == Head(chan[p]).body
<1>1. /\ rxSeq[p] < txSeq[q] /\ body = sent[q][rxSeq[p]] /\ body \in Chunk
  BY NextFrameFacts
<1>2. Accepted(p) \in Seq(Chunk)
  BY AcceptedType
<1> HIDE DEF body
<1>3. /\ Len(Accepted(p)') = Len(Accepted(p)) + 1
      /\ \A i \in 1 .. Len(Accepted(p)) : Accepted(p)'[i] = Accepted(p)[i]
      /\ Accepted(p)'[Len(Accepted(p)) + 1] = body
  BY <1>1, <1>2, AppendFacts DEF body
<1>4. /\ rxSeq' \in [Endpoint -> Nat \ {0}] /\ rxSeq'[p] = rxSeq[p] + 1
      /\ \A r \in Endpoint \ {p} : rxSeq'[r] = rxSeq[r]
  BY DEF IInv, Types, ConnType
<1>5. \A r \in Endpoint : rxSeq[r] \in Nat /\ txSeq[r] \in Nat \ {0} /\ txAcked[r] \in Nat
  BY CounterFacts
<1>6. q \in Endpoint /\ txSeq[q] \in Nat \ {0} /\ rxSeq[p] \in Nat \ {0}
  BY CounterFacts, PeerFacts
<1>7. StreamInv'
  <2>1. Len(Accepted(p)) = rxSeq[p] - 1
    BY DEF IInv, StreamInv
  <2>2. Len(Accepted(p)') = rxSeq'[p] - 1 /\ rxSeq'[p] <= txSeq[q]
    BY <1>1, <1>3, <1>4, <1>6, <2>1
  <2>3. ASSUME NEW i \in 1 .. rxSeq'[p] - 1
        PROVE  Accepted(p)'[i] = sent[q][i]
    <3>1. CASE i = rxSeq[p]
      BY <1>1, <1>3, <1>6, <2>1, <3>1
    <3>2. CASE i # rxSeq[p]
      <4>1. i \in 1 .. rxSeq[p] - 1
        BY <1>4, <1>6, <3>2
      <4>2. Accepted(p)[i] = sent[q][i]
        BY <4>1 DEF IInv, StreamInv
      <4> QED BY <1>3, <2>1, <4>1, <4>2
    <3> QED BY <3>1, <3>2
  <2>4. ASSUME NEW r \in Endpoint, r # p
        PROVE  /\ Len(Accepted(r)') = rxSeq'[r] - 1
               /\ rxSeq'[r] <= txSeq[Peer(r)]
               /\ \A i \in 1 .. rxSeq'[r] - 1 : Accepted(r)'[i] = sent[Peer(r)][i]
    <3>1. Accepted(r)' = Accepted(r) /\ rxSeq'[r] = rxSeq[r]
      BY <1>4, <2>4
    <3> QED BY <3>1 DEF IInv, StreamInv
  <2>5. \A r \in Endpoint : Len(sent[r]) = txSeq[r] - 1
    BY DEF IInv, StreamInv
  <2>6. UNCHANGED <<sent, txSeq>>
    OBVIOUS
  <2> QED BY <2>2, <2>3, <2>4, <2>5, <2>6 DEF StreamInv
<1>8. AckInv'
  <2>1. ASSUME NEW r \in Endpoint
        PROVE  txAcked[r] < rxSeq'[Peer(r)]
    <3>1. txAcked[r] < rxSeq[Peer(r)] /\ Peer(r) \in Endpoint
      BY PeerFacts DEF IInv, AckInv
    <3> QED BY <1>4, <1>5, <3>1
  <2> QED BY <2>1 DEF AckInv
<1>9. \A r \in Endpoint : \A f \in Frame : Genuine(r, f) => Genuine(r, f)'
  <2>1. rxSeq' \in [Endpoint -> Nat] /\ \A r \in Endpoint : rxSeq[r] <= rxSeq'[r]
    BY <1>4, <1>5
  <2>2. \A r \in Endpoint :
            /\ Len(sent'[r]) \in Nat /\ Len(sent[r]) <= Len(sent'[r])
            /\ \A i \in 1 .. Len(sent[r]) : sent'[r][i] = sent[r][i]
    BY DEF IInv, Types, HistoryType
  <2> QED BY <2>1, <2>2, GenuineKept
<1> QED BY <1>4, <1>7, <1>8, <1>9

LEMMA BufferInv ==
    ASSUME IInv, NEW p \in Endpoint, BufferWhileWaiting(p)
    PROVE  IInv'
<1> DEFINE f == Head(chan[p])
<1>1. /\ CurrentData(p) /\ Arrived(p) /\ f.seq = rxSeq[p]
      /\ pc[p] = "waiting" /\ pending[p] = None
      /\ pending' = [pending EXCEPT ![p] = f.body]
      /\ rxSeq' = [rxSeq EXCEPT ![p] = @ + 1]
      /\ MayAck(p, f.seq)
      /\ UNCHANGED <<pc, why, op, left, retries, txSeq, txAcked, lost, errors, history>>
  BY DEF BufferWhileWaiting, CurrentData, Current, MayAck, rdma_send_fixed_ack
<1>2. f.seq \in Nat
  BY <1>1, ArrivedFacts
<1>3. f.body \in Chunk /\ f.body # None
  BY <1>1, NextFrameFacts, ChunkNotNone
<1> HIDE DEF f
<1>4. /\ pending' \in [Endpoint -> Chunk \cup {None}] /\ pending'[p] = f.body
      /\ \A r \in Endpoint \ {p} : pending'[r] = pending[r]
  BY <1>1, <1>3 DEF IInv, Types, ConnType
<1>5. UNCHANGED <<sent, got>>
  BY <1>1 DEF history
<1>6. /\ Accepted(p)' = Append(Accepted(p), f.body)
      /\ \A r \in Endpoint : r # p => Accepted(r)' = Accepted(r)
  BY <1>1, <1>3, <1>4, <1>5 DEF Accepted
<1>7. /\ StreamInv' /\ AckInv'
      /\ rxSeq' \in [Endpoint -> Nat \ {0}] /\ rxSeq'[p] = rxSeq[p] + 1
      /\ \A r \in Endpoint : \A g \in Frame : Genuine(r, g) => Genuine(r, g)'
  BY <1>1, <1>5, <1>6, AcceptInv DEF f
<1>8. f.seq < rxSeq'[p]
  BY <1>1, <1>2, <1>7
<1>9. WireInv' /\ SlotInv'
  BY <1>1, <1>2, <1>7, <1>8, ReplyInv
<1>10. /\ WireType' /\ rxAcked' \in [Endpoint -> Nat]
       /\ slot' \in [Endpoint -> [frame : Frame \cup {None}, ahead : 0 .. TxDepth]]
  BY <1>1, <1>2, ReplyFacts
<1>11. CallType' /\ ConnType' /\ HistoryType'
  BY <1>1, <1>4, <1>5, <1>7, <1>10 DEF IInv, Types, CallType, ConnType, HistoryType
<1>12. CallInv' /\ AheadInv'
  BY <1>1 DEF IInv, CallInv, AheadInv
<1> QED BY <1>7, <1>9, <1>10, <1>11, <1>12 DEF IInv, Types

\* One frame less to read, and the call returns with the last of them.
LEMMA ReadFacts ==
    ASSUME IInv, NEW p \in Endpoint, pc[p] = "receiving",
           left' = [left EXCEPT ![p] = @ - 1],
           Proceed(p, left[p] - 1, "receiving"),
           UNCHANGED <<why, retries, txSeq, txAcked>>,
           slot' \in [Endpoint -> [frame : Frame \cup {None}, ahead : 0 .. TxDepth]]
    PROVE  /\ CallType' /\ CallInv' /\ AheadInv'
           /\ \A r \in Endpoint : pc'[r] = "waiting" => pc[r] = "waiting"
<1>1. left[p] \in Nat /\ left[p] > 0 /\ AckWindow[p] \in Nat
  BY CounterFacts DEF IInv, CallInv
<1>2. /\ pc' = [pc EXCEPT ![p] = IF left[p] - 1 = 0 THEN "idle" ELSE "receiving"]
      /\ op' = [op EXCEPT ![p] = IF left[p] - 1 = 0 THEN @ + 1 ELSE @]
  BY DEF Proceed
<1>3. /\ left' \in [Endpoint -> Nat] /\ left'[p] = left[p] - 1
      /\ \A r \in Endpoint \ {p} : left'[r] = left[r]
  BY <1>1 DEF IInv, Types, CallType
<1>4. /\ pc' \in [Endpoint -> {"idle", "sending", "waiting", "receiving", "failed"}]
      /\ op' \in [Endpoint -> Nat \ {0}]
      /\ pc'[p] = (IF left[p] - 1 = 0 THEN "idle" ELSE "receiving")
      /\ \A r \in Endpoint \ {p} : pc'[r] = pc[r] /\ op'[r] = op[r]
  BY <1>2 DEF IInv, Types, CallType
<1>5. CallType'
  BY <1>3, <1>4 DEF IInv, Types, CallType
<1>6. CallInv'
  <2>1. ASSUME NEW r \in Endpoint, r # p
        PROVE  pc'[r] = pc[r] /\ op'[r] = op[r] /\ left'[r] = left[r]
    BY <1>3, <1>4, <2>1
  <2> QED BY <1>1, <1>3, <1>4, <2>1 DEF IInv, CallInv
<1>7. AheadInv'
  BY <1>1, <1>4 DEF IInv, AheadInv
<1> QED BY <1>4, <1>5, <1>6, <1>7

LEMMA ReadPendingInv ==
    ASSUME IInv, NEW p \in Endpoint, ReadPending(p)
    PROVE  IInv'
<1>1. /\ pc[p] = "receiving" /\ pending[p] # None
      /\ got' = [got EXCEPT ![p] = Append(@, pending[p])]
      /\ pending' = [pending EXCEPT ![p] = None]
      /\ left' = [left EXCEPT ![p] = @ - 1]
      /\ Proceed(p, left[p] - 1, "receiving")
      /\ UNCHANGED <<why, retries, slot, txSeq, txAcked, rxSeq, rxAcked,
                     chan, lost, errors, sent>>
  BY DEF ReadPending
<1>2. got[p] \in Seq(Chunk) /\ pending[p] \in Chunk
  BY <1>1 DEF IInv, Types, HistoryType, ConnType
<1>3. Append(got[p], pending[p]) \in Seq(Chunk)
  BY <1>2
<1>4. /\ HistoryType' /\ got'[p] = Append(got[p], pending[p])
      /\ \A r \in Endpoint \ {p} : got'[r] = got[r]
  BY <1>1, <1>3 DEF IInv, Types, HistoryType
<1>5. /\ ConnType' /\ pending'[p] = None
      /\ \A r \in Endpoint \ {p} : pending'[r] = pending[r]
  BY <1>1 DEF IInv, Types, ConnType
<1>6. /\ CallType' /\ CallInv' /\ AheadInv'
      /\ \A r \in Endpoint : pc'[r] = "waiting" => pc[r] = "waiting"
  <2>1. slot' \in [Endpoint -> [frame : Frame \cup {None}, ahead : 0 .. TxDepth]]
    BY <1>1 DEF IInv, Types, CallType
  <2> QED BY <1>1, <2>1, ReadFacts
<1>7. \A r \in Endpoint : Accepted(r)' = Accepted(r)
  BY <1>1, <1>4, <1>5 DEF Accepted
<1>8. StreamInv' /\ AckInv'
  BY <1>1, <1>7 DEF IInv, StreamInv, AckInv
<1>9. \A r \in Endpoint : \A f : Genuine(r, f) => Genuine(r, f)'
  BY <1>1 DEF Genuine
<1>10. WireInv' /\ SlotInv' /\ WireType'
  <2>1. WireType'
    BY <1>1 DEF IInv, Types, WireType
  <2> QED BY <1>1, <1>6, <1>9, <2>1, WireKept, SlotKept DEF IInv, Types
<1> QED BY <1>4, <1>5, <1>6, <1>8, <1>10 DEF IInv, Types

LEMMA TakeDataInv ==
    ASSUME IInv, NEW p \in Endpoint, TakeData(p)
    PROVE  IInv'
<1> DEFINE f == Head(chan[p])
<1>1. /\ CurrentData(p) /\ Arrived(p) /\ f.seq = rxSeq[p]
      /\ pc[p] = "receiving" /\ pending[p] = None
      /\ got' = [got EXCEPT ![p] = Append(@, f.body)]
      /\ rxSeq' = [rxSeq EXCEPT ![p] = @ + 1]
      /\ left' = [left EXCEPT ![p] = @ - 1]
      /\ Proceed(p, left[p] - 1, "receiving")
      /\ MayAck(p, f.seq)
      /\ UNCHANGED <<why, retries, txSeq, txAcked, pending, lost, errors, sent>>
  BY DEF TakeData, CurrentData, Current, Arrived, Polling, MayAck, rdma_send_fixed_ack
<1>2. f.seq \in Nat
  BY <1>1, ArrivedFacts
<1>3. f.body \in Chunk /\ got[p] \in Seq(Chunk)
  BY <1>1, NextFrameFacts DEF IInv, Types, HistoryType
<1> HIDE DEF f
<1>4. Append(got[p], f.body) \in Seq(Chunk)
  BY <1>3
<1>5. /\ HistoryType' /\ got'[p] = Append(got[p], f.body)
      /\ \A r \in Endpoint \ {p} : got'[r] = got[r]
  BY <1>1, <1>4 DEF IInv, Types, HistoryType
<1>6. /\ Accepted(p)' = Append(Accepted(p), f.body)
      /\ \A r \in Endpoint : r # p => Accepted(r)' = Accepted(r)
  BY <1>1, <1>5 DEF Accepted
<1>7. /\ StreamInv' /\ AckInv'
      /\ rxSeq' \in [Endpoint -> Nat \ {0}] /\ rxSeq'[p] = rxSeq[p] + 1
      /\ \A r \in Endpoint : \A g \in Frame : Genuine(r, g) => Genuine(r, g)'
  BY <1>1, <1>6, AcceptInv DEF f
<1>8. /\ WireType' /\ rxAcked' \in [Endpoint -> Nat]
      /\ slot' \in [Endpoint -> [frame : Frame \cup {None}, ahead : 0 .. TxDepth]]
  BY <1>1, <1>2, ReplyFacts
<1>9. /\ CallType' /\ CallInv' /\ AheadInv'
      /\ \A r \in Endpoint : pc'[r] = "waiting" => pc[r] = "waiting"
  BY <1>1, <1>8, ReadFacts
<1>10. f.seq < rxSeq'[p]
  BY <1>1, <1>2, <1>7
<1>11. WireInv' /\ SlotInv'
  BY <1>1, <1>2, <1>7, <1>9, <1>10, ReplyInv
<1>12. ConnType'
  BY <1>1, <1>7, <1>8 DEF IInv, Types, ConnType
<1> QED BY <1>5, <1>7, <1>8, <1>9, <1>11, <1>12 DEF IInv, Types

-----------------------------------------------------------------------------
LEMMA InitInv ==
    ASSUME Init
    PROVE  IInv
<1>1. /\ pc = [p \in Endpoint |-> "idle"]
      /\ why = [p \in Endpoint |-> "none"]
      /\ op = [p \in Endpoint |-> 1]
      /\ left = [p \in Endpoint |-> 0]
      /\ retries = [p \in Endpoint |-> 0]
      /\ slot = [p \in Endpoint |-> NoSlot]
      /\ txSeq = [p \in Endpoint |-> 1]
      /\ txAcked = [p \in Endpoint |-> 0]
      /\ rxSeq = [p \in Endpoint |-> 1]
      /\ rxAcked = [p \in Endpoint |-> 0]
      /\ pending = [p \in Endpoint |-> None]
      /\ chan \in [Endpoint -> StaleTraffic]
      /\ lost = 0 /\ errors = 0
      /\ sent = [p \in Endpoint |-> <<>>]
      /\ got = [p \in Endpoint |-> <<>>]
  BY DEF Init
<1>2. CallType
  <2>1. NoSlot \in [frame : Frame \cup {None}, ahead : 0 .. TxDepth]
    BY SettingsType DEF NoSlot
  <2> QED BY <1>1, <2>1, SettingsType DEF CallType
<1>3. ConnType /\ HistoryType
  BY <1>1 DEF ConnType, HistoryType
<1>4. \A p \in Endpoint : chan[p] \in Seq({f \in Frame : f.cookie = OldCookie})
  BY <1>1, StaleType
<1>5. WireType
  <2> DEFINE Old == {f \in Frame : f.cookie = OldCookie}
  <2>1. Old \subseteq Frame
    OBVIOUS
  <2>2. \A p \in Endpoint : chan[p] \in Seq(Old)
    BY <1>4
  <2> HIDE DEF Old
  <2>3. \A p \in Endpoint : chan[p] \in Seq(Frame)
    BY <2>1, <2>2
  <2>4. chan \in [Endpoint -> Seq(Frame)]
    BY <1>1, <2>3
  <2> QED BY <1>1, <2>4, BoundsType DEF WireType
<1>6. WireInv
  <2>1. \A p \in Endpoint : Range(chan[p]) \subseteq {f \in Frame : f.cookie = OldCookie}
    BY <1>4, RangeOfSeq
  <2> QED BY <2>1, PeerFacts, EndpointsDiffer DEF WireInv
<1>7. CallInv /\ SlotInv /\ AckInv
  BY <1>1, PeerFacts DEF CallInv, SlotInv, AckInv
<1>8. AheadInv
  BY <1>1, SettingsType DEF AheadInv
<1>9. StreamInv
  <2>1. \A p \in Endpoint : Accepted(p) = <<>>
    BY <1>1 DEF Accepted
  <2> QED BY <1>1, <2>1, PeerFacts DEF StreamInv
<1> QED BY <1>2, <1>3, <1>5, <1>6, <1>7, <1>8, <1>9 DEF IInv, Types

LEMMA NextInv ==
    ASSUME IInv, [Next]_vars
    PROVE  IInv'
<1>1. CASE UNCHANGED vars
  <2>1. UNCHANGED <<call, conn, history, chan, lost, errors>>
    BY <1>1 DEF vars
  <2>2. WireType'
    BY <2>1 DEF IInv, Types, WireType
  <2> QED BY <2>1, <2>2, WireShrinks
<1>2. ASSUME NEW p \in Endpoint, Work(p) \/ QueuePairError(p) \/ Lose(p)
      PROVE  IInv'
  <2>1. CASE BeginCall(p)           BY <2>1, BeginCallInv
  <2>2. CASE AwaitCommand(p)        BY <2>2, AwaitCommandInv
  <2>3. CASE SendFrame(p)           BY <2>3, SendFrameInv
  <2>4. CASE Timeout(p)             BY <2>4, TimeoutInv
  <2>5. CASE ReadPending(p)         BY <2>5, ReadPendingInv
  <2>6. CASE DropStale(p)           BY <2>6, DropStaleInv
  <2>7. CASE TakeAck(p)             BY <2>7, TakeAckInv
  <2>8. CASE TakeDuplicate(p)       BY <2>8, TakeDuplicateInv
  <2>9. CASE RejectFuture(p)        BY <2>9, RejectInv
  <2>10. CASE BufferWhileWaiting(p) BY <2>10, BufferInv
  <2>11. CASE RejectSecondBuffer(p) BY <2>11, RejectInv
  <2>12. CASE TakeData(p)           BY <2>12, TakeDataInv
  <2>13. CASE PeerGone(p)           BY <2>13, PeerGoneInv
  <2>14. CASE QueuePairError(p)     BY <2>14, QueuePairErrorInv
  <2>15. CASE Lose(p)               BY <2>15, LoseInv
  <2> QED BY <1>2, <2>1, <2>2, <2>3, <2>4, <2>5, <2>6, <2>7, <2>8, <2>9,
             <2>10, <2>11, <2>12, <2>13, <2>14, <2>15 DEF Work
<1> QED BY <1>1, <1>2 DEF Next

\* The invariant holds in every reachable state of every instance.
THEOREM Invariance == Spec => []IInv
<1>1. Init => IInv
  BY InitInv
<1>2. IInv /\ [Next]_vars => IInv'
  BY NextInv
<1> QED BY <1>1, <1>2, PTL DEF Spec

\* Every field of struct rdma_conn, of the calls and of the wires always holds
\* a value of its kind.
THEOREM TypeCorrect == Spec => []TypeOK
<1>1. IInv => TypeOK
  BY DEF IInv, Types, CallType, ConnType, WireType, HistoryType, TypeOK
<1> QED BY <1>1, Invariance, PTL

\* rdma_recv and the buffering in rdma_wait_fixed_ack accept every chunk at
\* most once and in the order rdma_send sent them, for every number of lost,
\* repeated and stale frames.
THEOREM AcceptsInOrder == Spec => []ExactlyOnceInOrder
<1>1. ASSUME IInv, NEW p \in Endpoint
      PROVE  /\ Len(Accepted(p)) <= Len(sent[Peer(p)])
             /\ \A i \in 1 .. Len(Accepted(p)) : Accepted(p)[i] = sent[Peer(p)][i]
  <2>1. /\ Len(Accepted(p)) = rxSeq[p] - 1 /\ rxSeq[p] <= txSeq[Peer(p)]
        /\ Len(sent[Peer(p)]) = txSeq[Peer(p)] - 1
        /\ rxSeq[p] \in Nat /\ txSeq[Peer(p)] \in Nat
    BY <1>1, CounterFacts, PeerFacts DEF IInv, StreamInv
  <2>2. \A i \in 1 .. rxSeq[p] - 1 : Accepted(p)[i] = sent[Peer(p)][i]
    BY <1>1 DEF IInv, StreamInv
  <2> QED BY <2>1, <2>2
<1>2. IInv => ExactlyOnceInOrder
  BY <1>1 DEF ExactlyOnceInOrder
<1> QED BY <1>2, Invariance, PTL

\* When rdma_send has returned with every ACK awaited, the peer has accepted
\* all that was sent, whatever the window and the ACK period.
THEOREM SendIsAccepted == Spec => []SendReturnsAccepted
<1>1. ASSUME IInv, NEW p \in Endpoint, WaitAck[p], pc[p] \in {"idle", "receiving"}
      PROVE  rxSeq[Peer(p)] = txSeq[p]
  <2>1. txSeq[p] - 1 <= txAcked[p]
    BY <1>1 DEF IInv, AheadInv
  <2>2. /\ txSeq[p] \in Nat /\ txAcked[p] \in Nat /\ rxSeq[Peer(p)] \in Nat
        /\ txAcked[p] < rxSeq[Peer(p)] /\ rxSeq[Peer(p)] <= txSeq[p]
    BY <1>1, CounterFacts, PeerFacts
  <2> QED BY <2>1, <2>2
<1>2. IInv => SendReturnsAccepted
  BY <1>1 DEF SendReturnsAccepted
<1> QED BY <1>2, Invariance, PTL

\* rdma_send never runs more than ack_window frames ahead of its ACKs.
THEOREM WindowIsRespected == Spec => []WindowRespected
<1>1. IInv => WindowRespected
  BY DEF IInv, AheadInv, WindowRespected
<1> QED BY <1>1, Invariance, PTL
-----------------------------------------------------------------------------
(* The calls of the two ends do not slip against each other.               *)

Sender(c) == Transfers[c[1]].from
Before(c, d) == c[1] < d[1] \/ (c[1] = d[1] /\ c[2] < d[2])

\* The chunk that is next in p's calls, and those it is past.
Place(p) ==
    <<op[p], IF pc[p] = "idle" \/ op[p] \notin DOMAIN Transfers THEN 1
             ELSE Transfers[op[p]].frames - left[p] + 1>>
Behind(p) == {c \in Chunk : Before(c, Place(p))}

\* An end sends in the calls from it and reads in the others.
SideInv ==
    \A p \in Endpoint :
        /\ pc[p] \in {"sending", "waiting"} => Transfers[op[p]].from = p
        /\ pc[p] = "receiving" /\ op[p] \in DOMAIN Transfers =>
             Transfers[op[p]].from # p /\ left[p] <= Transfers[op[p]].frames

\* It has sent and read the chunks it is past, those it sent in their order.
SentInv ==
    \A p \in Endpoint :
        /\ Range(sent[p]) = {c \in Behind(p) : Sender(c) = p}
        /\ \A i, j \in 1 .. Len(sent[p]) : i < j => Before(sent[p][i], sent[p][j])
GotInv ==
    \A p \in Endpoint : Range(got[p]) = {c \in Behind(p) : Sender(c) # p}

CallsInv == SideInv /\ SentInv /\ GotInv

LEMMA ChunkFacts ==
    ASSUME NEW c \in Chunk
    PROVE  /\ c = <<c[1], c[2]>> /\ c[1] \in DOMAIN Transfers /\ c[1] \in Nat
           /\ c[2] \in 1 .. Transfers[c[1]].frames /\ c[2] \in Nat
<1>1. PICK i \in DOMAIN Transfers : c \in {i} \X (1 .. Transfers[i].frames)
  BY DEF Chunk
<1>2. c[1] = i /\ c[2] \in 1 .. Transfers[i].frames /\ c = <<c[1], c[2]>>
  BY <1>1
<1>3. i \in Nat /\ Transfers[i].frames \in Nat
  BY TransferFacts, TransfersType
<1> QED BY <1>2, <1>3

\* Where a call stands after a step that leaves rem of it.
LEMMA ProceedPlace ==
    ASSUME IInv, NEW p \in Endpoint, op[p] \in DOMAIN Transfers,
           NEW rem \in 0 .. Transfers[op[p]].frames, NEW s, s # "idle",
           Proceed(p, rem, s), left'[p] = rem, NEW c \in Chunk
    PROVE  Before(c, Place(p)') <=> Before(c, <<op[p], Transfers[op[p]].frames - rem + 1>>)
<1>1. op[p] \in Nat /\ Transfers[op[p]].frames \in Nat
  BY TransferFacts, CounterFacts
<1>2. /\ pc'[p] = (IF rem = 0 THEN "idle" ELSE s)
      /\ op'[p] = (IF rem = 0 THEN op[p] + 1 ELSE op[p])
  BY DEF Proceed, IInv, Types, CallType
<1>3. CASE rem = 0
  <2>1. Place(p)' = <<op[p] + 1, 1>>  BY <1>2, <1>3 DEF Place
  <2>2. c[1] = op[p] => c[2] < Transfers[op[p]].frames + 1  BY <1>1, ChunkFacts
  <2> QED BY <1>1, <1>3, <2>1, <2>2, ChunkFacts DEF Before
<1>4. CASE rem # 0
  <2>1. Place(p)' = <<op[p], Transfers[op[p]].frames - rem + 1>>
    BY <1>2, <1>4 DEF Place
  <2> QED BY <2>1
<1> QED BY <1>3, <1>4

LEMMA ProceedOthers ==
    ASSUME IInv, NEW p \in Endpoint, NEW rem, NEW s, Proceed(p, rem, s),
           NEW v, left' = [left EXCEPT ![p] = v]
    PROVE  \A r \in Endpoint \ {p} :
             pc'[r] = pc[r] /\ op'[r] = op[r] /\ left'[r] = left[r]
BY DEF Proceed, IInv, Types, CallType

LEMMA BehindKept ==
    ASSUME NEW r, op'[r] = op[r], left'[r] = left[r], pc'[r] = "idle" <=> pc[r] = "idle"
    PROVE  Behind(r)' = Behind(r)
BY DEF Behind, Place

LEMMA CallsKept ==
    ASSUME CallsInv, UNCHANGED <<sent, got>>, SideInv',
           \A r \in Endpoint : Behind(r)' = Behind(r)
    PROVE  CallsInv'
BY DEF CallsInv, SentInv, GotInv

\* A thread that fails stays where it is.
LEMMA FailCalls ==
    ASSUME IInv, CallsInv, NEW p \in Endpoint, NEW reason, Fail(p, reason),
           pc[p] # "idle", UNCHANGED <<sent, got>>
    PROVE  CallsInv'
<1>1. /\ UNCHANGED <<op, left>> /\ pc'[p] = "failed"
      /\ \A r \in Endpoint \ {p} : pc'[r] = pc[r]
  BY DEF Fail, IInv, Types, CallType
<1>2. \A r \in Endpoint : Behind(r)' = Behind(r)  BY <1>1, BehindKept
<1>3. SideInv'
  BY <1>1 DEF CallsInv, SideInv
<1> QED BY <1>2, <1>3, CallsKept

LEMMA BeginCalls ==
    ASSUME IInv, CallsInv, NEW p \in Endpoint, BeginCall(p)
    PROVE  CallsInv'
<1> DEFINE n == Transfers[op[p]].frames
           s == IF Transfers[op[p]].from = p THEN "sending" ELSE "receiving"
<1>1. /\ pc[p] = "idle" /\ op[p] \in DOMAIN Transfers /\ n \in Nat
      /\ left' = [left EXCEPT ![p] = n] /\ Proceed(p, n, s)
      /\ UNCHANGED <<sent, got>>
  BY TransferFacts DEF BeginCall, history
<1>2. /\ left'[p] = n
      /\ pc'[p] = (IF n = 0 THEN "idle" ELSE s)
      /\ op'[p] = (IF n = 0 THEN op[p] + 1 ELSE op[p])
  BY <1>1 DEF Proceed, IInv, Types, CallType
<1>3. \A r \in Endpoint \ {p} : pc'[r] = pc[r] /\ op'[r] = op[r] /\ left'[r] = left[r]
  BY <1>1, ProceedOthers
<1>4. \A c \in Chunk : Before(c, Place(p)') <=> Before(c, Place(p))
  <2>1. Place(p) = <<op[p], n - n + 1>>  BY <1>1 DEF Place
  <2>2. s # "idle" /\ n \in 0 .. n  BY <1>1
  <2> QED BY <1>1, <1>2, <2>1, <2>2, ProceedPlace
<1>5. Behind(p)' = Behind(p)  BY <1>4 DEF Behind
<1>6. \A r \in Endpoint : Behind(r)' = Behind(r)  BY <1>3, <1>5, BehindKept
<1>7. SideInv'
  BY <1>1, <1>2, <1>3 DEF CallsInv, SideInv
<1> QED BY <1>1, <1>6, <1>7, CallsKept

LEMMA AwaitCalls ==
    ASSUME IInv, CallsInv, NEW p \in Endpoint, AwaitCommand(p)
    PROVE  CallsInv'
<1>1. /\ op[p] \notin DOMAIN Transfers /\ UNCHANGED <<op, sent, got>>
      /\ pc'[p] = "receiving"
      /\ \A r \in Endpoint \ {p} : pc'[r] = pc[r] /\ left'[r] = left[r]
  BY DEF AwaitCommand, history, IInv, Types, CallType
<1>2. Behind(p)' = Behind(p)  BY <1>1 DEF Behind, Place
<1>3. \A r \in Endpoint : Behind(r)' = Behind(r)  BY <1>1, <1>2, BehindKept
<1>4. SideInv'
  BY <1>1 DEF CallsInv, SideInv
<1> QED BY <1>1, <1>3, <1>4, CallsKept

\* After one more frame of its call an end is past one more chunk.
LEMMA OneMore ==
    ASSUME IInv, NEW p \in Endpoint, pc[p] # "idle", op[p] \in DOMAIN Transfers,
           left[p] \in 1 .. Transfers[op[p]].frames,
           \A c \in Chunk : Before(c, Place(p)')
             <=> Before(c, <<op[p], Transfers[op[p]].frames - (left[p] - 1) + 1>>)
    PROVE  /\ Place(p) = <<op[p], Transfers[op[p]].frames - left[p] + 1>>
           /\ Place(p) \in Chunk
           /\ Behind(p)' = Behind(p) \cup {Place(p)}
<1> DEFINE n == Transfers[op[p]].frames
<1>1. n \in Nat /\ op[p] \in Nat /\ left[p] \in Nat /\ n - left[p] + 1 \in 1 .. n
  BY TransferFacts, CounterFacts
<1>2. Place(p) = <<op[p], n - left[p] + 1>>  BY DEF Place
<1>3. Place(p) \in Chunk  BY <1>1, <1>2 DEF Chunk
<1>4. ASSUME NEW c \in Chunk
      PROVE  Before(c, <<op[p], n - (left[p] - 1) + 1>>)
                <=> Before(c, <<op[p], n - left[p] + 1>>) \/ c = <<op[p], n - left[p] + 1>>
  <2>1. c = <<c[1], c[2]>> /\ c[1] \in Nat /\ c[2] \in Nat  BY ChunkFacts
  <2>2. c = <<op[p], n - left[p] + 1>> <=> c[1] = op[p] /\ c[2] = n - left[p] + 1
    BY <2>1
  <2>3. n - (left[p] - 1) + 1 = n - left[p] + 1 + 1  BY <1>1
  <2> HIDE DEF n
  <2> DEFINE k == n - left[p] + 1
  <2>4. k \in Nat /\ n - (left[p] - 1) + 1 = k + 1  BY <1>1, <2>3
  <2> HIDE DEF k
  <2>5. Before(c, <<op[p], k + 1>>) <=> Before(c, <<op[p], k>>) \/ (c[1] = op[p] /\ c[2] = k)
    BY <1>1, <2>1, <2>4 DEF Before
  <2> QED BY <2>2, <2>4, <2>5 DEF k
<1>5. Behind(p)' = Behind(p) \cup {Place(p)}
  BY <1>2, <1>3, <1>4 DEF Behind
<1> QED BY <1>2, <1>3, <1>5

LEMMA SendCalls ==
    ASSUME IInv, CallsInv, NEW p \in Endpoint, SendFrame(p)
    PROVE  CallsInv'
<1> DEFINE n == Transfers[op[p]].frames
           chunk == <<op[p], n - left[p] + 1>>
<1>1. /\ pc[p] = "sending" /\ op[p] \in DOMAIN Transfers
      /\ left[p] \in 1 .. n /\ n \in Nat /\ left[p] \in Nat /\ op[p] \in Nat
  BY TransferFacts, CounterFacts DEF SendFrame, IInv, CallInv
<1>2. /\ sent' = [sent EXCEPT ![p] = Append(@, chunk)]
      /\ left' = [left EXCEPT ![p] = @ - 1] /\ UNCHANGED got
      /\ \/ pc' = [pc EXCEPT ![p] = "waiting"] /\ UNCHANGED op
         \/ Proceed(p, left[p] - 1, "sending")
  BY DEF SendFrame
<1>3. /\ left'[p] = left[p] - 1
      /\ pc'[p] \in {"idle", "sending", "waiting"}
      /\ pc'[p] # "idle" => op'[p] = op[p]
      /\ \A r \in Endpoint \ {p} : pc'[r] = pc[r] /\ op'[r] = op[r] /\ left'[r] = left[r]
  BY <1>2 DEF Proceed, IInv, Types, CallType
<1>4. \A c \in Chunk : Before(c, Place(p)') <=> Before(c, <<op[p], n - (left[p] - 1) + 1>>)
  <2>1. CASE pc' = [pc EXCEPT ![p] = "waiting"] /\ UNCHANGED op
    <3>1. pc'[p] = "waiting"  BY <2>1 DEF IInv, Types, CallType
    <3>2. Place(p)' = <<op[p], n - (left[p] - 1) + 1>>
      BY <1>1, <1>3, <2>1, <3>1 DEF Place
    <3> QED BY <3>2
  <2>2. CASE Proceed(p, left[p] - 1, "sending")
    BY <1>1, <1>3, <2>2, ProceedPlace
  <2> QED BY <1>2, <2>1, <2>2
<1>5. chunk \in Chunk /\ chunk = Place(p) /\ Behind(p)' = Behind(p) \cup {chunk}
  BY <1>1, <1>4, OneMore
<1>6. SideInv'
  BY <1>1, <1>3 DEF CallsInv, SideInv
<1> HIDE DEF chunk
<1>7. Sender(chunk) = p
  BY <1>1 DEF CallsInv, SideInv, Sender, chunk
<1>8. /\ sent[p] \in Seq(Chunk) /\ sent'[p] = Append(sent[p], chunk)
      /\ \A r \in Endpoint \ {p} : sent'[r] = sent[r]
  BY <1>2 DEF IInv, Types, HistoryType
<1>9. /\ Range(sent'[p]) = Range(sent[p]) \cup {chunk}
      /\ Len(sent'[p]) = Len(sent[p]) + 1 /\ sent'[p][Len(sent[p]) + 1] = chunk
      /\ \A i \in 1 .. Len(sent[p]) : sent'[p][i] = sent[p][i]
  BY <1>5, <1>8, AppendFacts
<1>10. \A r \in Endpoint \ {p} : Behind(r)' = Behind(r)  BY <1>3, BehindKept
<1>11. \A i \in 1 .. Len(sent[p]) : Before(sent[p][i], chunk)
  <2>1. \A i \in 1 .. Len(sent[p]) : sent[p][i] \in Range(sent[p])  BY <1>8, RangeEquality
  <2> QED BY <1>5, <2>1 DEF CallsInv, SentInv, Behind
<1>12. SentInv'
  <2>1. ASSUME NEW r \in Endpoint
        PROVE  Range(sent'[r]) = {c \in Behind(r)' : Sender(c) = r}
    BY <1>5, <1>7, <1>8, <1>9, <1>10 DEF CallsInv, SentInv
  <2>2. ASSUME NEW r \in Endpoint, NEW i \in 1 .. Len(sent'[r]), NEW j \in 1 .. Len(sent'[r]),
               i < j
        PROVE  Before(sent'[r][i], sent'[r][j])
    <3>1. CASE r # p  BY <1>8, <2>2, <3>1 DEF CallsInv, SentInv
    <3>2. CASE r = p
      <4>1. i \in 1 .. Len(sent[p]) /\ Len(sent[p]) \in Nat  BY <1>8, <1>9, <2>2, <3>2
      <4>2. CASE j \in 1 .. Len(sent[p])
        BY <1>9, <2>2, <3>2, <4>1, <4>2 DEF CallsInv, SentInv
      <4>3. CASE j = Len(sent[p]) + 1
        BY <1>9, <1>11, <3>2, <4>1, <4>3
      <4> QED BY <1>9, <2>2, <3>2, <4>1, <4>2, <4>3
    <3> QED BY <3>1, <3>2
  <2> QED BY <2>1, <2>2 DEF SentInv, Before
<1>13. GotInv'
  <2>1. ASSUME NEW r \in Endpoint
        PROVE  Range(got[r]) = {c \in Behind(r)' : Sender(c) # r}
    BY <1>5, <1>7, <1>10 DEF CallsInv, GotInv
  <2> QED BY <1>2, <2>1 DEF GotInv
<1> QED BY <1>6, <1>12, <1>13 DEF CallsInv

\* What a call reads next from the stream is its own next chunk.
LEMMA NextIsOwn ==
    ASSUME IInv, CallsInv, NEW p \in Endpoint, pc[p] = "receiving",
           Len(got[p]) + 1 \in 1 .. Len(sent[Peer(p)]),
           \A i \in 1 .. Len(got[p]) : got[p][i] = sent[Peer(p)][i]
    PROVE  /\ op[p] \in DOMAIN Transfers
           /\ sent[Peer(p)][Len(got[p]) + 1] = Place(p)
<1> DEFINE q == Peer(p)
           n == Len(got[p]) + 1
           x == sent[q][n]
<1>1. /\ q \in Endpoint /\ q # p
      /\ sent[q] \in Seq(Chunk) /\ got[p] \in Seq(Chunk) /\ n \in 1 .. Len(sent[q])
  BY PeerFacts DEF IInv, Types, HistoryType
<1> HIDE DEF q
<1>2. x \in Range(sent[q]) /\ x \in Chunk
  BY <1>1, RangeEquality
<1>3. Sender(x) = q /\ x \in Behind(q)
  BY <1>1, <1>2 DEF CallsInv, SentInv
<1>4. \A i \in 1 .. Len(sent[q]) : sent[q][i] \in Chunk  BY <1>1
<1>5. /\ \A c \in Chunk : ~Before(c, c)
      /\ \A c, d \in Chunk : c = d \/ Before(c, d) \/ Before(d, c)
      /\ \A c, d \in Chunk : ~(Before(c, d) /\ Before(d, c))
  BY ChunkFacts DEF Before
<1>6. \A i, j \in 1 .. Len(sent[q]) : i < j => Before(sent[q][i], sent[q][j])
  BY <1>1 DEF CallsInv, SentInv
<1> HIDE DEF x
<1>7. x \notin Range(got[p])
  <2> SUFFICES ASSUME NEW i \in 1 .. Len(got[p]), got[p][i] = x PROVE FALSE
    BY <1>1, RangeEquality
  <2>1. i \in 1 .. Len(sent[q]) /\ i < n /\ sent[q][i] = x  BY <1>1 DEF q
  <2> QED BY <1>1, <1>2, <1>5, <1>6, <2>1 DEF x
<1>8. ~Before(x, Place(p))
  BY <1>1, <1>2, <1>3, <1>7 DEF CallsInv, GotInv, Behind
<1>9. op[p] \in DOMAIN Transfers
  <2> SUFFICES ASSUME op[p] \notin DOMAIN Transfers PROVE FALSE
    OBVIOUS
  <2>1. DOMAIN Transfers = 1 .. Len(Transfers) /\ Len(Transfers) \in Nat  BY TransfersType
  <2>2. x[1] \in 1 .. Len(Transfers) /\ op[p] \in Nat \ {0}
    BY <1>2, <2>1, ChunkFacts, CounterFacts
  <2>3. x[1] < op[p]  BY <2>1, <2>2
  <2> QED BY <1>8, <2>3 DEF Before, Place
<1>10. /\ Place(p) = <<op[p], Transfers[op[p]].frames - left[p] + 1>>
       /\ Place(p) \in Chunk
       /\ Sender(Place(p)) = q
  <2> DEFINE m == Transfers[op[p]].frames
  <2>1. left[p] \in 1 .. m /\ m \in Nat /\ Transfers[op[p]].from # p
    BY <1>9, TransferFacts, CounterFacts DEF IInv, CallInv, CallsInv, SideInv
  <2>2. Place(p) = <<op[p], m - left[p] + 1>>  BY <1>9 DEF Place
  <2>3. m - left[p] + 1 \in 1 .. m  BY <2>1
  <2>4. Place(p) \in Chunk  BY <1>9, <2>2, <2>3 DEF Chunk
  <2>5. Transfers[op[p]].from \in Endpoint
    <3> DEFINE T == [from : Endpoint, frames : Nat]
    <3>1. \A t \in T : t.from \in Endpoint  OBVIOUS
    <3>2. Transfers \in Seq(T)  BY TransfersType
    <3> HIDE DEF T
    <3>3. Transfers[op[p]] \in T  BY <1>9, <3>2
    <3> QED BY <3>1, <3>3
  <2>6. Sender(Place(p)) = Transfers[op[p]].from  BY <2>2 DEF Sender
  <2> QED BY <2>1, <2>2, <2>4, <2>5, <2>6 DEF q, Peer, Endpoint
<1> DEFINE c == Place(p)
<1>11. ASSUME c # x PROVE FALSE
  <2>1. Before(c, x)  BY <1>2, <1>5, <1>8, <1>10, <1>11
  <2>2. c \in Range(sent[q])
    <3>1. Before(x, Place(q))  BY <1>3 DEF Behind
    <3>2. /\ c[1] \in Nat /\ c[2] \in Nat /\ x[1] \in Nat /\ x[2] \in Nat
      BY <1>2, <1>10, ChunkFacts
    <3> HIDE DEF c
    <3>3. Place(q)[1] \in Int /\ Place(q)[2] \in Int
      BY <1>1, CounterFacts, TransferFacts DEF Place
    <3>4. Before(c, Place(q))  BY <2>1, <3>1, <3>2, <3>3 DEF Before
    <3>5. c \in Behind(q) /\ Sender(c) = q  BY <1>10, <3>4 DEF Behind, c
    <3> QED BY <1>1, <3>5 DEF CallsInv, SentInv
  <2>3. PICK j \in 1 .. Len(sent[q]) : sent[q][j] = c  BY <1>1, <2>2, RangeEquality
  <2> HIDE DEF c
  <2>4. j < n
    <3>1. ~(n < j)
      <4> SUFFICES ASSUME n < j PROVE FALSE  OBVIOUS
      <4>1. Before(x, c)  BY <1>1, <1>6, <2>3 DEF x
      <4> QED BY <1>8, <4>1 DEF c
    <3>2. j # n  BY <1>11, <2>3 DEF x
    <3> QED BY <1>1, <3>1, <3>2
  <2>5. j \in 1 .. Len(got[p]) /\ got[p][j] = c  BY <1>1, <2>3, <2>4 DEF q
  <2>6. c \in Range(got[p])  BY <1>1, <2>5, RangeEquality
  <2>7. c \in Behind(p)  BY <2>6 DEF CallsInv, GotInv
  <2> QED BY <1>5, <1>10, <2>7 DEF Behind, c
<1> QED BY <1>9, <1>11 DEF x, q

\* A step of a call that reads.
LEMMA ReadCalls ==
    ASSUME IInv, CallsInv, NEW p \in Endpoint, pc[p] = "receiving",
           Len(got[p]) + 1 \in 1 .. Len(sent[Peer(p)]),
           \A i \in 1 .. Len(got[p]) : got[p][i] = sent[Peer(p)][i],
           NEW x, x = sent[Peer(p)][Len(got[p]) + 1],
           got' = [got EXCEPT ![p] = Append(@, x)],
           left' = [left EXCEPT ![p] = @ - 1], Proceed(p, left[p] - 1, "receiving"),
           UNCHANGED sent
    PROVE  /\ CallsInv'
           /\ op[p] \in DOMAIN Transfers
           /\ got'[p] = Append(got[p], <<op[p], Transfers[op[p]].frames - left[p] + 1>>)
           /\ \A r \in Endpoint \ {p} : got'[r] = got[r]
<1> DEFINE n == Transfers[op[p]].frames
<1>1. op[p] \in DOMAIN Transfers /\ x = Place(p)  BY NextIsOwn
<1>2. /\ left[p] \in 1 .. n /\ n \in Nat /\ left[p] \in Nat /\ Transfers[op[p]].from # p
  BY <1>1, TransferFacts, CounterFacts DEF IInv, CallInv, CallsInv, SideInv
<1>3. /\ left'[p] = left[p] - 1
      /\ pc'[p] \in {"idle", "receiving"}
      /\ pc'[p] # "idle" => op'[p] = op[p]
      /\ \A r \in Endpoint \ {p} : pc'[r] = pc[r] /\ op'[r] = op[r] /\ left'[r] = left[r]
  BY DEF Proceed, IInv, Types, CallType
<1>4. \A c \in Chunk : Before(c, Place(p)') <=> Before(c, <<op[p], n - (left[p] - 1) + 1>>)
  <2>1. left[p] - 1 \in 0 .. n /\ "receiving" # "idle"  BY <1>2
  <2> SUFFICES ASSUME NEW c \in Chunk
               PROVE  Before(c, Place(p)') <=> Before(c, <<op[p], n - (left[p] - 1) + 1>>)
    OBVIOUS
  <2> QED BY <1>1, <1>3, <2>1, ProceedPlace
<1>5. /\ Place(p) = <<op[p], n - left[p] + 1>> /\ Place(p) \in Chunk
      /\ Behind(p)' = Behind(p) \cup {Place(p)}
  BY <1>1, <1>2, <1>4, OneMore
<1>6. SideInv'
  BY <1>2, <1>3 DEF CallsInv, SideInv
<1>7. Sender(x) # p  BY <1>1, <1>2, <1>5 DEF Sender
<1>8. /\ got[p] \in Seq(Chunk) /\ got'[p] = Append(got[p], x)
      /\ \A r \in Endpoint \ {p} : got'[r] = got[r]
  BY DEF IInv, Types, HistoryType
<1>9. Range(got'[p]) = Range(got[p]) \cup {x}
  BY <1>1, <1>5, <1>8, AppendFacts
<1>10. \A r \in Endpoint \ {p} : Behind(r)' = Behind(r)  BY <1>3, BehindKept
<1>11. GotInv'
  <2>1. ASSUME NEW r \in Endpoint
        PROVE  Range(got'[r]) = {c \in Behind(r)' : Sender(c) # r}
    BY <1>1, <1>5, <1>7, <1>8, <1>9, <1>10 DEF CallsInv, GotInv
  <2> QED BY <2>1 DEF GotInv
<1>12. SentInv'
  <2>1. ASSUME NEW r \in Endpoint
        PROVE  Range(sent[r]) = {c \in Behind(r)' : Sender(c) = r}
    BY <1>1, <1>5, <1>7, <1>10 DEF CallsInv, SentInv
  <2> QED BY <2>1 DEF CallsInv, SentInv
<1> QED BY <1>1, <1>5, <1>6, <1>8, <1>11, <1>12 DEF CallsInv

\* How much of the peer's stream an end has read.
LEMMA ReadSoFar ==
    ASSUME IInv, NEW p \in Endpoint
    PROVE  /\ pending[p] = None => Len(got[p]) = rxSeq[p] - 1
           /\ pending[p] # None =>
                /\ Len(got[p]) = rxSeq[p] - 2
                /\ Len(got[p]) + 1 \in 1 .. Len(sent[Peer(p)])
                /\ pending[p] = sent[Peer(p)][Len(got[p]) + 1]
           /\ \A i \in 1 .. Len(got[p]) : got[p][i] = sent[Peer(p)][i]
<1> DEFINE q == Peer(p)
<1>1. /\ got[p] \in Seq(Chunk) /\ pending[p] \in Chunk \cup {None}
      /\ Len(Accepted(p)) = rxSeq[p] - 1 /\ rxSeq[p] <= txSeq[q]
      /\ Len(sent[q]) = txSeq[q] - 1 /\ rxSeq[p] \in Nat /\ txSeq[q] \in Nat
      /\ \A i \in 1 .. rxSeq[p] - 1 : Accepted(p)[i] = sent[q][i]
  BY CounterFacts, PeerFacts DEF IInv, Types, HistoryType, ConnType, StreamInv
<1> HIDE DEF q
<1>2. CASE pending[p] = None
  <2>1. Accepted(p) = got[p]  BY <1>2 DEF Accepted
  <2> QED BY <1>1, <1>2, <2>1 DEF q
<1>3. CASE pending[p] # None
  <2> DEFINE c == pending[p]
             g == got[p]
  <2>1. Accepted(p) = Append(g, c) /\ c \in Chunk /\ g \in Seq(Chunk)
    BY <1>1, <1>3 DEF Accepted
  <2> HIDE DEF c, g
  <2>2. /\ Len(Accepted(p)) = Len(g) + 1 /\ Accepted(p)[Len(g) + 1] = c
        /\ \A i \in 1 .. Len(g) : Accepted(p)[i] = g[i]
        /\ Len(g) \in Nat
    BY <2>1, AppendFacts
  <2>3. Len(g) + 1 = rxSeq[p] - 1 /\ Len(g) + 1 \in 1 .. Len(sent[q])
    BY <1>1, <2>2
  <2>4. c = sent[q][Len(g) + 1]
    <3>1. Len(g) + 1 \in 1 .. rxSeq[p] - 1
      BY <1>1, <2>2, <2>3
    <3>2. Accepted(p)[Len(g) + 1] = sent[q][Len(g) + 1]
      BY <1>1, <3>1
    <3> QED BY <2>2, <3>2
  <2>5. \A i \in 1 .. Len(g) : i \in 1 .. rxSeq[p] - 1
    BY <1>1, <2>2, <2>3
  <2>6. \A i \in 1 .. Len(g) : g[i] = sent[q][i]
    BY <1>1, <2>2, <2>5
  <2>7. Len(g) = rxSeq[p] - 2
    BY <1>1, <2>2, <2>3
  <2> QED BY <1>3, <2>3, <2>4, <2>6, <2>7 DEF c, g, q
<1> QED BY <1>2, <1>3

LEMMA TakeAckCalls ==
    ASSUME IInv, CallsInv, NEW p \in Endpoint, TakeAck(p)
    PROVE  CallsInv'
<1>1. /\ UNCHANGED <<left, sent, got>>
      /\ \/ UNCHANGED <<pc, op>>
         \/ pc[p] = "waiting" /\ Proceed(p, left[p], "sending")
  BY DEF TakeAck, history
<1>2. CASE UNCHANGED <<pc, op>>
  BY <1>1, <1>2, BehindKept, CallsKept DEF CallsInv, SideInv
<1>3. CASE pc[p] = "waiting" /\ Proceed(p, left[p], "sending")
  <2> DEFINE n == Transfers[op[p]].frames
  <2>1. /\ op[p] \in DOMAIN Transfers /\ n \in Nat /\ left[p] \in 0 .. n
        /\ Transfers[op[p]].from = p
    BY <1>3, TransferFacts, CounterFacts DEF IInv, CallInv, CallsInv, SideInv
  <2>2. /\ pc'[p] \in {"idle", "sending"} /\ (pc'[p] # "idle" => op'[p] = op[p])
        /\ \A r \in Endpoint \ {p} : pc'[r] = pc[r] /\ op'[r] = op[r]
    BY <1>3 DEF Proceed, IInv, Types, CallType
  <2>3. \A c \in Chunk : Before(c, Place(p)') <=> Before(c, Place(p))
    <3>1. Place(p) = <<op[p], n - left[p] + 1>>  BY <1>3, <2>1 DEF Place
    <3> QED BY <1>1, <1>3, <2>1, <3>1, ProceedPlace
  <2>4. Behind(p)' = Behind(p)  BY <2>3 DEF Behind
  <2>5. \A r \in Endpoint : Behind(r)' = Behind(r)  BY <1>1, <2>2, <2>4, BehindKept
  <2>6. SideInv'
    BY <1>1, <2>1, <2>2 DEF CallsInv, SideInv
  <2> QED BY <1>1, <2>5, <2>6, CallsKept
<1> QED BY <1>1, <1>2, <1>3

\* Whatever chunk a step hands to a call is the call's own.
ReadsOwn ==
    \A p \in Endpoint :
        got'[p] # got[p] =>
            /\ op[p] \in DOMAIN Transfers
            /\ got'[p] = Append(got[p], <<op[p], Transfers[op[p]].frames - left[p] + 1>>)

LEMMA CallsStep ==
    ASSUME IInv, CallsInv, [Next]_vars
    PROVE  CallsInv' /\ ReadsOwn
<1>1. ASSUME UNCHANGED <<pc, op, left, sent, got>> PROVE CallsInv' /\ ReadsOwn
  BY <1>1, BehindKept, CallsKept DEF CallsInv, SideInv, ReadsOwn
<1>2. ASSUME CallsInv', UNCHANGED got PROVE CallsInv' /\ ReadsOwn
  BY <1>2 DEF ReadsOwn
<1>3. CASE UNCHANGED vars
  BY <1>1, <1>3 DEF vars, call, history
<1>4. ASSUME NEW p \in Endpoint, Work(p) \/ QueuePairError(p) \/ Lose(p)
      PROVE  CallsInv' /\ ReadsOwn
  <2>1. CASE BeginCall(p)     BY <1>2, <2>1, BeginCalls DEF BeginCall, history
  <2>2. CASE AwaitCommand(p)  BY <1>2, <2>2, AwaitCalls DEF AwaitCommand, history
  <2>3. CASE SendFrame(p)     BY <1>2, <2>3, SendCalls DEF SendFrame
  <2>4. CASE Timeout(p)
    <3>1. pc[p] = "waiting" /\ UNCHANGED <<sent, got>>  BY <2>4 DEF Timeout, history
    <3>2. Fail(p, "timeout") \/ UNCHANGED <<pc, op, left>>  BY <2>4 DEF Timeout
    <3> QED BY <1>1, <1>2, <3>1, <3>2, FailCalls
  <2>5. CASE TakeAck(p)       BY <1>2, <2>5, TakeAckCalls DEF TakeAck, history
  <2>6. CASE ReadPending(p)
    <3>1. /\ pc[p] = "receiving" /\ pending[p] # None
          /\ got' = [got EXCEPT ![p] = Append(@, pending[p])]
          /\ left' = [left EXCEPT ![p] = @ - 1]
          /\ Proceed(p, left[p] - 1, "receiving") /\ UNCHANGED sent
      BY <2>6 DEF ReadPending
    <3> QED BY <3>1, ReadSoFar, ReadCalls DEF ReadsOwn
  <2>7. CASE TakeData(p)
    <3>1. /\ CurrentData(p) /\ Head(chan[p]).seq = rxSeq[p]
          /\ pc[p] = "receiving" /\ pending[p] = None
          /\ got' = [got EXCEPT ![p] = Append(@, Head(chan[p]).body)]
          /\ left' = [left EXCEPT ![p] = @ - 1]
          /\ Proceed(p, left[p] - 1, "receiving") /\ UNCHANGED sent
      BY <2>7 DEF TakeData, CurrentData, Current, Arrived, Polling
    <3>2. /\ rxSeq[p] < txSeq[Peer(p)] /\ Head(chan[p]).body = sent[Peer(p)][rxSeq[p]]
          /\ rxSeq[p] \in Nat \ {0} /\ Len(sent[Peer(p)]) = txSeq[Peer(p)] - 1
          /\ txSeq[Peer(p)] \in Nat
      BY <3>1, NextFrameFacts, CounterFacts, PeerFacts DEF IInv, StreamInv
    <3>3. /\ Len(got[p]) = rxSeq[p] - 1
          /\ \A i \in 1 .. Len(got[p]) : got[p][i] = sent[Peer(p)][i]
      BY <3>1, ReadSoFar
    <3>4. /\ Len(got[p]) + 1 \in 1 .. Len(sent[Peer(p)])
          /\ Head(chan[p]).body = sent[Peer(p)][Len(got[p]) + 1]
      BY <3>2, <3>3
    <3> QED BY <3>1, <3>3, <3>4, ReadCalls DEF ReadsOwn
  <2>8. CASE RejectFuture(p) \/ RejectSecondBuffer(p)
    <3>1. /\ pc[p] # "idle" /\ UNCHANGED <<sent, got>>
          /\ Fail(p, "order") \/ Fail(p, "pending")
      BY <2>8 DEF RejectFuture, RejectSecondBuffer, CurrentData, Current, Arrived, Polling, history
    <3> QED BY <1>2, <3>1, FailCalls
  <2>9. CASE PeerGone(p) \/ QueuePairError(p)
    <3>1. /\ pc[p] # "idle" /\ UNCHANGED <<sent, got>>
          /\ Fail(p, "gone") \/ Fail(p, "error")
      BY <2>9 DEF PeerGone, QueuePairError, Active, history
    <3> QED BY <1>2, <3>1, FailCalls
  <2>10. CASE DropStale(p) \/ Lose(p)
    BY <1>1, <2>10 DEF DropStale, Lose, call, history
  <2>11. CASE TakeDuplicate(p) \/ BufferWhileWaiting(p)
    BY <1>1, <2>11 DEF TakeDuplicate, BufferWhileWaiting, history
  <2> QED BY <1>4, <2>1, <2>2, <2>3, <2>4, <2>5, <2>6, <2>7, <2>8, <2>9, <2>10, <2>11 DEF Work
<1> QED BY <1>3, <1>4 DEF Next

\* Every chunk that rdma_recv returns is the one its call asked for, at its
\* place in the call, however the frames of the two ends were lost, repeated
\* and buffered.
THEOREM CallsKeepTheirPlace == Spec => CallsReadTheirOwn
<1>1. Init => CallsInv
  <2> SUFFICES ASSUME Init PROVE CallsInv
    OBVIOUS
  <2>1. \A p \in Endpoint : pc[p] = "idle" /\ op[p] = 1 /\ sent[p] = <<>> /\ got[p] = <<>>
    BY DEF Init
  <2>2. \A p \in Endpoint : Behind(p) = {}
    <3>1. \A p \in Endpoint : Place(p) = <<1, 1>>  BY <2>1 DEF Place
    <3>2. \A c \in Chunk : ~Before(c, <<1, 1>>)
      <4> SUFFICES ASSUME NEW c \in Chunk PROVE ~Before(c, <<1, 1>>)  OBVIOUS
      <4>1. c[1] \in 1 .. Len(Transfers) /\ c[2] \in Nat \ {0}
        BY ChunkFacts, TransferFacts, TransfersType
      <4> QED BY <4>1 DEF Before
    <3> QED BY <3>1, <3>2 DEF Behind
  <2>3. Range(<<>>) = {} /\ Len(<<>>) = 0  BY DEF Range
  <2> QED BY <2>1, <2>2, <2>3 DEF CallsInv, SideInv, SentInv, GotInv
<1>2. IInv /\ CallsInv /\ [Next]_vars => CallsInv' /\ ReadsOwn
  BY CallsStep
<1>3. IInv /\ CallsInv /\ [Next]_vars => [ReadsOwn]_vars
  BY <1>2
<1>4. Spec => [][ReadsOwn]_vars
  BY <1>1, <1>2, <1>3, Invariance, PTL DEF Spec
<1> QED BY <1>4 DEF CallsReadTheirOwn, ReadsOwn

\* With a window of one frame and every ACK awaited no frame can overtake a
\* missing one: rdma_recv never sees a sequence number of the future.
THEOREM OneFrameStaysInOrder ==
    ASSUME \A p \in Endpoint : WaitAck[p] /\ AckWindow[p] = 1
    PROVE  Spec => []NeverOutOfOrder
<1>1. ASSUME IInv, NEW p \in Endpoint, RejectFuture(p) PROVE FALSE
  <2> DEFINE q == Peer(p)
             f == Head(chan[p])
  <2>1. q \in Endpoint /\ Genuine(q, f) /\ f.kind = "data" /\ f.seq > rxSeq[p] /\ f.seq \in Nat
    BY <1>1, PeerFacts, ArrivedFacts DEF RejectFuture, CurrentData, Current
  <2>2. f.seq <= Len(sent[q]) /\ Len(sent[q]) = txSeq[q] - 1
    BY <1>1, <2>1 DEF Genuine, IInv, StreamInv
  <2>3. txSeq[q] - 1 <= txAcked[q] + 1
    BY <1>1, <2>1 DEF IInv, AheadInv
  <2>4. /\ txAcked[q] < rxSeq[p] /\ rxSeq[p] \in Nat /\ txAcked[q] \in Nat /\ txSeq[q] \in Nat
    BY <1>1, <2>1, PeerFacts, CounterFacts
  <2> HIDE DEF f, q
  <2> QED BY <2>1, <2>2, <2>3, <2>4
<1>2. Init => NeverOutOfOrder  BY DEF Init, NeverOutOfOrder
<1>3. IInv /\ NeverOutOfOrder /\ [Next]_vars => NeverOutOfOrder'
  <2> SUFFICES ASSUME IInv, NeverOutOfOrder, [Next]_vars PROVE NeverOutOfOrder'
    OBVIOUS
  <2>1. ASSUME NEW p \in Endpoint, NEW reason, reason # "order", Fail(p, reason)
        PROVE  NeverOutOfOrder'
    BY <2>1 DEF Fail, NeverOutOfOrder, IInv, Types, CallType
  <2>2. ASSUME UNCHANGED why PROVE NeverOutOfOrder'
    BY <2>2 DEF NeverOutOfOrder
  <2>3. CASE UNCHANGED vars  BY <2>2, <2>3 DEF vars, call
  <2>4. ASSUME NEW p \in Endpoint, Work(p) \/ QueuePairError(p) \/ Lose(p)
        PROVE  NeverOutOfOrder'
    <3>1. CASE BeginCall(p) \/ AwaitCommand(p) \/ SendFrame(p) \/ ReadPending(p) \/ TakeAck(p)
      BY <2>2, <3>1 DEF BeginCall, AwaitCommand, SendFrame, ReadPending, TakeAck
    <3>2. CASE DropStale(p) \/ Lose(p)
      BY <2>2, <3>2 DEF DropStale, Lose, call
    <3>3. CASE TakeDuplicate(p) \/ BufferWhileWaiting(p) \/ TakeData(p)
      BY <2>2, <3>3 DEF TakeDuplicate, BufferWhileWaiting, TakeData
    <3>4. CASE Timeout(p)  BY <2>1, <2>2, <3>4 DEF Timeout
    <3>5. CASE RejectFuture(p)  BY <1>1, <3>5
    <3>6. CASE RejectSecondBuffer(p)  BY <2>1, <3>6 DEF RejectSecondBuffer
    <3>7. CASE PeerGone(p) \/ QueuePairError(p)
      BY <2>1, <3>7 DEF PeerGone, QueuePairError
    <3> QED BY <2>4, <3>1, <3>2, <3>3, <3>4, <3>5, <3>6, <3>7 DEF Work
  <2> QED BY <2>3, <2>4 DEF Next
<1> QED BY <1>2, <1>3, Invariance, PTL DEF Spec
-----------------------------------------------------------------------------
(* The link implements the reliable stream.                                *)

LEMMA StreamStutter ==
    ASSUME UNCHANGED <<sent, txAcked>>,
           \A r \in Endpoint : Accepted(r)' = Accepted(r)
    PROVE  UNCHANGED Stream!vars
BY DEF Stream!vars

LEMMA QuietStutter ==
    ASSUME UNCHANGED <<sent, txAcked, pending, got>>
    PROVE  UNCHANGED Stream!vars
BY StreamStutter DEF Accepted

LEMMA SubmitStep ==
    ASSUME IInv, NEW p \in Endpoint, SendFrame(p)
    PROVE  Stream!Submit(p)
<1> DEFINE chunk == <<op[p], Transfers[op[p]].frames - left[p] + 1>>
<1>1. /\ pc[p] = "sending" /\ op[p] \in DOMAIN Transfers
      /\ Transfers[op[p]].frames \in Nat
      /\ left[p] \in 1 .. Transfers[op[p]].frames
  BY TransferFacts DEF SendFrame, IInv, CallInv
<1>2. chunk \in Chunk
  <2>1. Transfers[op[p]].frames - left[p] + 1 \in 1 .. Transfers[op[p]].frames
    BY <1>1
  <2> QED BY <1>1, <2>1 DEF Chunk
<1>3. sent' = [sent EXCEPT ![p] = Append(@, chunk)] /\ UNCHANGED <<txAcked, pending, got>>
  BY DEF SendFrame
<1> HIDE DEF chunk
<1>4. \E x \in Chunk : sent' = [sent EXCEPT ![p] = Append(@, x)]
  BY <1>2, <1>3
<1>5. \A r \in Endpoint : Accepted(r)' = Accepted(r)
  BY <1>3 DEF Accepted
<1> QED BY <1>3, <1>4, <1>5 DEF Stream!Submit

LEMMA AcceptStep ==
    ASSUME IInv, NEW p \in Endpoint, CurrentData(p), Head(chan[p]).seq = rxSeq[p],
           Accepted(p)' = Append(Accepted(p), Head(chan[p]).body),
           \A r \in Endpoint : r # p => Accepted(r)' = Accepted(r),
           UNCHANGED <<sent, txAcked>>
    PROVE  Stream!Accept(p)
<1> DEFINE next == Len(Accepted(p)) + 1
<1>1. /\ rxSeq[p] < txSeq[Peer(p)]
      /\ Head(chan[p]).body = sent[Peer(p)][rxSeq[p]]
  BY NextFrameFacts
<1>2. /\ Len(Accepted(p)) = rxSeq[p] - 1 /\ Len(sent[Peer(p)]) = txSeq[Peer(p)] - 1
      /\ rxSeq[p] \in Nat /\ txSeq[Peer(p)] \in Nat
  BY CounterFacts, PeerFacts DEF IInv, StreamInv
<1>3. next = rxSeq[p] /\ next <= Len(sent[Peer(p)])
  BY <1>1, <1>2
<1>4. Accepted(p)' = Append(Accepted(p), sent[Peer(p)][next])
  BY <1>1, <1>3
<1>5. [r \in Endpoint |-> Accepted(r)']
        = [[r \in Endpoint |-> Accepted(r)] EXCEPT
              ![p] = Append(@, sent[Peer(p)][next])]
  BY <1>4
<1>6. [r \in Endpoint |-> Accepted(r)][p] = Accepted(p)
  OBVIOUS
<1>7. Stream!Peer(p) = Peer(p)
  BY DEF Stream!Peer, Peer
<1> QED BY <1>3, <1>5, <1>6, <1>7 DEF Stream!Accept

LEMMA ConfirmStep ==
    ASSUME IInv, NEW p \in Endpoint, TakeAck(p)
    PROVE  Stream!Confirm(p) \/ UNCHANGED Stream!vars
<1> DEFINE acked == Larger(Head(chan[p]).seq, txAcked[p])
           q == Peer(p)
<1>1. /\ Current(p) /\ Head(chan[p]).kind = "ack"
      /\ txAcked' = [txAcked EXCEPT ![p] = acked]
      /\ UNCHANGED <<sent, got, pending>>
  BY DEF TakeAck, history
<1>2. acked \in Nat /\ acked >= txAcked[p] /\ acked < rxSeq[q]
  BY <1>1, AckFacts, CounterFacts, PeerFacts DEF Larger
<1>3. /\ q \in Endpoint /\ Len(Accepted(q)) = rxSeq[q] - 1
      /\ rxSeq[q] \in Nat /\ txAcked[p] \in Nat
  BY CounterFacts, PeerFacts DEF IInv, StreamInv
<1> HIDE DEF acked
<1>4. \A r \in Endpoint : Accepted(r)' = Accepted(r)
  BY <1>1 DEF Accepted
<1>5. CASE acked = txAcked[p]
  <2>1. txAcked' = txAcked
    BY <1>1, <1>5 DEF IInv, Types, ConnType
  <2> QED BY <1>1, <1>4, <2>1, StreamStutter
<1>6. CASE acked # txAcked[p]
  <2>1. acked \in txAcked[p] + 1 .. Len(Accepted(q))
    BY <1>2, <1>3, <1>6
  <2>2. [r \in Endpoint |-> Accepted(r)][Stream!Peer(p)] = Accepted(q)
    BY <1>3 DEF Stream!Peer, Peer
  <2>3. \E n \in txAcked[p] + 1 .. Len([r \in Endpoint |-> Accepted(r)][Stream!Peer(p)]) :
            txAcked' = [txAcked EXCEPT ![p] = n]
    BY <1>1, <2>1, <2>2
  <2> QED BY <1>1, <1>4, <2>3 DEF Stream!Confirm
<1> QED BY <1>5, <1>6

LEMMA LinkStep ==
    ASSUME IInv, [Next]_vars
    PROVE  [Stream!Next]_(Stream!vars)
<1>1. CASE UNCHANGED vars
  BY <1>1, QuietStutter DEF vars, conn, history
<1>2. ASSUME NEW p \in Endpoint, Work(p) \/ QueuePairError(p) \/ Lose(p)
      PROVE  \/ Stream!Submit(p) \/ Stream!Accept(p) \/ Stream!Confirm(p)
             \/ UNCHANGED Stream!vars
  <2>1. CASE SendFrame(p)
    BY <2>1, SubmitStep
  <2>2. CASE TakeAck(p)
    BY <2>2, ConfirmStep
  <2>3. CASE BufferWhileWaiting(p)
    <3>1. /\ CurrentData(p) /\ Head(chan[p]).seq = rxSeq[p] /\ pending[p] = None
          /\ pending' = [pending EXCEPT ![p] = Head(chan[p]).body]
          /\ UNCHANGED <<sent, got, txAcked>>
      BY <2>3 DEF BufferWhileWaiting, history
    <3>2. Head(chan[p]).body # None
      BY <3>1, NextFrameFacts, ChunkNotNone
    <3>3. /\ pending'[p] = Head(chan[p]).body
          /\ \A r \in Endpoint \ {p} : pending'[r] = pending[r]
      BY <3>1 DEF IInv, Types, ConnType
    <3>4. /\ Accepted(p)' = Append(Accepted(p), Head(chan[p]).body)
          /\ \A r \in Endpoint : r # p => Accepted(r)' = Accepted(r)
      BY <3>1, <3>2, <3>3 DEF Accepted
    <3> QED BY <3>1, <3>4, AcceptStep
  <2>4. CASE TakeData(p)
    <3>1. /\ CurrentData(p) /\ Head(chan[p]).seq = rxSeq[p] /\ pending[p] = None
          /\ got' = [got EXCEPT ![p] = Append(@, Head(chan[p]).body)]
          /\ UNCHANGED <<sent, pending, txAcked>>
      BY <2>4 DEF TakeData, CurrentData, Current, Arrived, Polling
    <3>2. /\ got'[p] = Append(got[p], Head(chan[p]).body)
          /\ \A r \in Endpoint \ {p} : got'[r] = got[r]
      BY <3>1 DEF IInv, Types, HistoryType
    <3>3. /\ Accepted(p)' = Append(Accepted(p), Head(chan[p]).body)
          /\ \A r \in Endpoint : r # p => Accepted(r)' = Accepted(r)
      BY <3>1, <3>2 DEF Accepted
    <3> QED BY <3>1, <3>3, AcceptStep
  <2>5. CASE ReadPending(p)
    <3>1. /\ pending[p] # None
          /\ got' = [got EXCEPT ![p] = Append(@, pending[p])]
          /\ pending' = [pending EXCEPT ![p] = None]
          /\ UNCHANGED <<sent, txAcked>>
      BY <2>5 DEF ReadPending
    <3>2. /\ got'[p] = Append(got[p], pending[p]) /\ pending'[p] = None
          /\ \A r \in Endpoint \ {p} : got'[r] = got[r] /\ pending'[r] = pending[r]
      BY <3>1 DEF IInv, Types, ConnType, HistoryType
    <3>3. \A r \in Endpoint : Accepted(r)' = Accepted(r)
      BY <3>1, <3>2 DEF Accepted
    <3> QED BY <3>1, <3>3, StreamStutter
  <2>6. CASE BeginCall(p) \/ AwaitCommand(p) \/ Timeout(p) \/ DropStale(p)
    BY <2>6, QuietStutter DEF BeginCall, AwaitCommand, Timeout, DropStale, conn, history
  <2>7. CASE TakeDuplicate(p) \/ RejectFuture(p) \/ RejectSecondBuffer(p)
    BY <2>7, QuietStutter
       DEF TakeDuplicate, RejectFuture, RejectSecondBuffer, conn, history
  <2>8. CASE PeerGone(p) \/ QueuePairError(p) \/ Lose(p)
    BY <2>8, QuietStutter DEF PeerGone, QueuePairError, Lose, conn, history
  <2> QED BY <1>2, <2>1, <2>2, <2>3, <2>4, <2>5, <2>6, <2>7, <2>8 DEF Work
<1>3. Stream!Endpoint = Endpoint
  BY DEF Stream!Endpoint, Endpoint
<1> QED BY <1>1, <1>2, <1>3 DEF Next, Stream!Next

\* The frame link, with its losses, retries and buffered frames, implements
\* the stream that the RPC layer relies on.
THEOREM LinkImplementsStream == Spec => ImplementsStream
<1>1. Init => Stream!Init
  <2> SUFFICES ASSUME Init PROVE Stream!Init
    OBVIOUS
  <2>1. \A p \in Endpoint : Accepted(p) = <<>>
    BY DEF Init, Accepted
  <2>2. [p \in Endpoint |-> Accepted(p)] = [p \in Endpoint |-> <<>>]
    BY <2>1
  <2>3. Stream!Endpoint = Endpoint
    BY DEF Stream!Endpoint, Endpoint
  <2> QED BY <2>2, <2>3 DEF Init, Stream!Init
<1>2. IInv /\ [Next]_vars => [Stream!Next]_(Stream!vars)
  BY LinkStep
<1> QED BY <1>1, <1>2, Invariance, PTL DEF Spec, Stream!Spec, ImplementsStream
-----------------------------------------------------------------------------
(* The awaited frame stays in its transmit slot.                           *)

\* How many frames of F a wire carries.
Places(w, F) == {i \in DOMAIN w : w[i] \in F}
Count(w, F) == Cardinality(Places(w, F))

LEMMA CountType ==
    ASSUME NEW w \in Seq(Frame), NEW F
    PROVE  /\ IsFiniteSet(Places(w, F)) /\ Count(w, F) \in Nat
           /\ (\A i \in DOMAIN w : w[i] \notin F) => Count(w, F) = 0
           /\ (\E i \in DOMAIN w : w[i] \in F) => Count(w, F) > 0
<1>1. DOMAIN w = 1 .. Len(w) /\ Len(w) \in Nat  OBVIOUS
<1>2. IsFiniteSet(DOMAIN w)  BY <1>1, FS_Interval
<1>3. Places(w, F) \in SUBSET DOMAIN w  BY DEF Places
<1>4. IsFiniteSet(Places(w, F))  BY <1>2, <1>3, FS_Subset
<1>5. Count(w, F) \in Nat /\ (Count(w, F) = 0 <=> Places(w, F) = {})
  BY <1>4, FS_CardinalityType, FS_EmptySet DEF Count
<1>6. (\A i \in DOMAIN w : w[i] \notin F) => Places(w, F) = {}  BY DEF Places
<1>7. (\E i \in DOMAIN w : w[i] \in F) => Places(w, F) # {}  BY DEF Places
<1> QED BY <1>4, <1>5, <1>6, <1>7

LEMMA CountAppend ==
    ASSUME NEW w \in Seq(Frame), NEW f \in Frame, NEW F
    PROVE  Count(Append(w, f), F) = Count(w, F) + (IF f \in F THEN 1 ELSE 0)
<1> DEFINE v == Append(w, f)
           n == Len(w)
<1>1. /\ v \in Seq(Frame) /\ Len(v) = n + 1 /\ v[n + 1] = f /\ n \in Nat
      /\ \A i \in 1 .. n : v[i] = w[i]
  BY AppendFacts
<1> HIDE DEF v
<1>2. DOMAIN v = 1 .. n + 1 /\ DOMAIN w = 1 .. n  BY <1>1
<1>3. n + 1 \notin Places(w, F)  BY <1>1, <1>2 DEF Places
<1>4. \A i \in DOMAIN v : i \in DOMAIN w \/ i = n + 1  BY <1>1, <1>2
<1>5. CASE f \in F
  <2>1. Places(v, F) = Places(w, F) \cup {n + 1}
    BY <1>1, <1>2, <1>4, <1>5 DEF Places
  <2> QED BY <1>3, <1>5, <2>1, CountType, FS_AddElement DEF Count, v
<1>6. CASE f \notin F
  <2>1. Places(v, F) = Places(w, F)
    BY <1>1, <1>2, <1>4, <1>6 DEF Places
  <2> QED BY <1>6, <2>1, CountType DEF Count, v
<1> QED BY <1>5, <1>6

LEMMA TailPlaces ==
    ASSUME NEW w \in Seq(Frame), w # <<>>
    PROVE  /\ Tail(w) \in Seq(Frame) /\ Len(Tail(w)) = Len(w) - 1
           /\ Len(w) \in Nat \ {0} /\ Head(w) = w[1]
           /\ \A i \in 1 .. Len(w) - 1 : Tail(w)[i] = w[i + 1]
OBVIOUS

LEMMA CountTail ==
    ASSUME NEW w \in Seq(Frame), w # <<>>, NEW F
    PROVE  Count(Tail(w), F) = Count(w, F) - (IF Head(w) \in F THEN 1 ELSE 0)
<1> DEFINE v == Tail(w)
           n == Len(w)
           S == Places(w, F) \ {1}
           T == Places(v, F)
           g == [i \in S |-> i - 1]
<1>1. /\ v \in Seq(Frame) /\ Len(v) = n - 1 /\ n \in Nat \ {0} /\ Head(w) = w[1]
      /\ \A i \in 1 .. n - 1 : v[i] = w[i + 1]
  BY TailPlaces
<1> HIDE DEF v, n
<1>2. DOMAIN v = 1 .. n - 1 /\ DOMAIN w = 1 .. n  BY <1>1 DEF n
<1>3. \A i \in S : i \in 2 .. n /\ w[i] \in F /\ i - 1 \in 1 .. n - 1 /\ v[i - 1] = w[i]
  BY <1>1, <1>2 DEF Places
<1>4. \A i \in S : i - 1 \in T  BY <1>2, <1>3 DEF Places
<1>5. \A j \in T : j + 1 \in S /\ j \in Int
  BY <1>1, <1>2 DEF Places
<1>6. \A i \in S : i \in Int  BY <1>3
<1> HIDE DEF S, T
<1>7. g \in [S -> T]  BY <1>4
<1>8. g \in Surjection(S, T)
  <2>1. ASSUME NEW j \in T PROVE \E i \in S : g[i] = j
    <3>1. j + 1 \in S /\ g[j + 1] = j  BY <1>5
    <3> QED BY <3>1
  <2> HIDE DEF g
  <2> QED BY <1>7, <2>1 DEF Surjection
<1>9. g \in Injection(S, T)
  <2>1. \A a, b \in S : g[a] = g[b] => a = b  BY <1>6
  <2> HIDE DEF g
  <2> QED BY <1>7, <2>1 DEF Injection, IsInjective
<1>10. IsFiniteSet(S)  BY CountType, FS_RemoveElement DEF S
<1>11. Cardinality(T) = Cardinality(S)
  <2> HIDE DEF g
  <2> QED BY <1>8, <1>9, <1>10, FS_Surjection
<1>12. Cardinality(S) = Count(w, F) - (IF 1 \in Places(w, F) THEN 1 ELSE 0)
  <2> DEFINE P == Places(w, F)
  <2>1. Cardinality(P) \in Nat /\ IsFiniteSet(P)  BY CountType DEF Count
  <2> HIDE DEF P
  <2>2. Cardinality(P \ {1}) = IF 1 \in P THEN Cardinality(P) - 1 ELSE Cardinality(P)
    BY <2>1, FS_RemoveElement
  <2>3. Cardinality(P \ {1}) = Cardinality(P) - (IF 1 \in P THEN 1 ELSE 0)
    BY <2>1, <2>2
  <2> QED BY <2>3 DEF S, P, Count
<1>13. 1 \in Places(w, F) <=> Head(w) \in F  BY <1>1, <1>2 DEF Places
<1> QED BY <1>11, <1>12, <1>13 DEF T, Count, v

\* Removing a frame moves the later ones up by one.
LEMMA RemovePlaces ==
    ASSUME NEW w \in Seq(Frame), NEW k \in 1 .. Len(w)
    PROVE  /\ RemoveAt(w, k) \in Seq(Frame)
           /\ Len(RemoveAt(w, k)) = Len(w) - 1
           /\ \A i \in 1 .. Len(w) - 1 :
                RemoveAt(w, k)[i] = IF i < k THEN w[i] ELSE w[i + 1]
<1> DEFINE a == SubSeq(w, 1, k - 1)
           b == SubSeq(w, k + 1, Len(w))
<1>1. Len(w) \in Nat /\ \A i \in 1 .. Len(w) : w[i] \in Frame  OBVIOUS
<1>2. /\ a \in Seq(Frame) /\ Len(a) = k - 1
      /\ \A i \in 1 .. k - 1 : a[i] = w[i]
  <2>1. \A i \in 1 .. k - 1 : w[i] \in Frame  BY <1>1
  <2> QED BY <1>1, <2>1, SubSeqProperties
<1>3. /\ b \in Seq(Frame) /\ Len(b) = Len(w) - k
      /\ \A i \in 1 .. Len(w) - k : b[i] = w[k + i]
  <2>1. \A i \in k + 1 .. Len(w) : w[i] \in Frame  BY <1>1
  <2>2. /\ b \in Seq(Frame)
        /\ Len(b) = IF k + 1 <= Len(w) THEN Len(w) - (k + 1) + 1 ELSE 0
        /\ \A i \in 1 .. Len(w) - (k + 1) + 1 : b[i] = w[k + 1 + i - 1]
    BY <1>1, <2>1, SubSeqProperties
  <2>3. \A i \in 1 .. Len(w) - k : k + 1 + i - 1 = k + i  BY <1>1
  <2>4. Len(w) - (k + 1) + 1 = Len(w) - k  BY <1>1
  <2>5. Len(b) = Len(w) - k  BY <1>1, <2>2
  <2> HIDE DEF b
  <2> QED BY <2>2, <2>3, <2>4, <2>5
<1> HIDE DEF a, b
<1>4. RemoveAt(w, k) = a \o b  BY DEF RemoveAt, a, b
<1>5. /\ a \o b \in Seq(Frame) /\ Len(a \o b) = Len(w) - 1
      /\ \A i \in 1 .. Len(a) + Len(b) :
           (a \o b)[i] = IF i <= Len(a) THEN a[i] ELSE b[i - Len(a)]
  BY <1>1, <1>2, <1>3, ConcatProperties
<1>6. ASSUME NEW i \in 1 .. Len(w) - 1
      PROVE  (a \o b)[i] = IF i < k THEN w[i] ELSE w[i + 1]
  <2>1. CASE i < k
    <3>1. i \in 1 .. k - 1 /\ i <= Len(a) /\ i \in 1 .. Len(a) + Len(b)
      BY <1>1, <1>2, <1>3, <2>1
    <3> QED BY <1>2, <1>5, <2>1, <3>1
  <2>2. CASE ~(i < k)
    <3>1. /\ i - (k - 1) \in 1 .. Len(w) - k /\ ~(i <= Len(a))
          /\ i \in 1 .. Len(a) + Len(b) /\ k + (i - (k - 1)) = i + 1
      BY <1>1, <1>2, <1>3, <2>2
    <3> QED BY <1>2, <1>3, <1>5, <2>2, <3>1
  <2> QED BY <2>1, <2>2
<1> QED BY <1>4, <1>5, <1>6

LEMMA CountRemove ==
    ASSUME NEW w \in Seq(Frame), NEW k \in 1 .. Len(w), NEW F
    PROVE  Count(RemoveAt(w, k), F) <= Count(w, F)
<1> DEFINE v == RemoveAt(w, k)
           n == Len(w)
           S == Places(v, F)
           T == Places(w, F)
           g == [i \in S |-> IF i < k THEN i ELSE i + 1]
<1>1. /\ v \in Seq(Frame) /\ Len(v) = n - 1 /\ n \in Nat /\ k \in 1 .. n
      /\ \A i \in 1 .. n - 1 : v[i] = IF i < k THEN w[i] ELSE w[i + 1]
  BY RemovePlaces
<1> HIDE DEF v, n
<1>2. DOMAIN v = 1 .. n - 1 /\ DOMAIN w = 1 .. n  BY <1>1 DEF n
<1>3. \A i \in S : i \in Int /\ (IF i < k THEN i ELSE i + 1) \in T
  BY <1>1, <1>2 DEF Places
<1>4. IsFiniteSet(T) /\ IsFiniteSet(S)  BY <1>1, CountType
<1> HIDE DEF S, T
<1>5. g \in [S -> T]  BY <1>3
<1>6. \A a, b \in S : g[a] = g[b] => a = b
  BY <1>1, <1>3
<1> HIDE DEF g
<1>7. g \in Injection(S, T)  BY <1>5, <1>6 DEF Injection, IsInjective
<1> QED BY <1>4, <1>7, FS_Injection DEF S, T, v, Count

\* The data frames of the peer that carry the number s, how many of them are on
\* their way to p, and how often q may still repeat its awaited frame.
FromPeer(p, f) == f.kind = "data" /\ f.cookie = Peer(p)
DataOf(p, s) == {f \in Frame : FromPeer(p, f) /\ f.seq = s}
Copies(p, s) == Count(chan[p], DataOf(p, s))
Repeats(q, s) ==
    IF pc[q] = "waiting" /\ s = txSeq[q] - 1 THEN MaxRetries - retries[q] ELSE 0

\* Data frames arrive in the order of their numbers, and none is older than
\* the last that was accepted.
InOrder(p) ==
    /\ \A i, j \in DOMAIN chan[p] :
         i < j /\ FromPeer(p, chan[p][i]) /\ FromPeer(p, chan[p][j]) =>
            chan[p][i].seq <= chan[p][j].seq
    /\ \A i \in DOMAIN chan[p] : FromPeer(p, chan[p][i]) => chan[p][i].seq >= rxSeq[p] - 1

\* Of one frame there is the first copy, while it is not accepted, and a repeat
\* for every retry.
CopiesBound(p) ==
    \A s \in Nat : Copies(p, s) + Repeats(Peer(p), s)
                      <= MaxRetries + (IF s < rxSeq[p] THEN 0 ELSE 1)

\* The ACKs that a wait has sent, and those it may still have to send: for the
\* repeats of the last frame, and for one more frame with its repeats while
\* there is room to buffer it.
SlotBound(p) ==
    pc[p] = "waiting" =>
        slot[p].ahead + Copies(p, rxSeq[p] - 1) + Repeats(Peer(p), rxSeq[p] - 1)
          + (IF pending[p] = None THEN MaxRetries + 1 ELSE 0) <= 2 * MaxRetries + 2

Awaits(p) ==
    pc[p] = "waiting" =>
        slot[p].frame = DataFrame(p, txSeq[p] - 1, sent[p][txSeq[p] - 1])

RingInv ==
    \A p \in Endpoint : InOrder(p) /\ CopiesBound(p) /\ SlotBound(p) /\ Awaits(p)

LEMMA RingTypes ==
    ASSUME IInv, NEW p \in Endpoint
    PROVE  /\ chan[p] \in Seq(Frame) /\ MaxRetries \in Nat
           /\ rxSeq[p] \in Nat \ {0} /\ rxSeq[p] - 1 \in Nat /\ txSeq[p] \in Nat \ {0}
           /\ slot[p].ahead \in Nat
           /\ retries[p] \in Nat /\ retries[p] <= MaxRetries
           /\ \A s \in Nat : Copies(p, s) \in Nat
           /\ \A s \in Nat : Repeats(p, s) \in Nat
<1>1. /\ chan[p] \in Seq(Frame) /\ MaxRetries \in Nat /\ TxDepth \in Nat
      /\ rxSeq[p] \in Nat \ {0} /\ rxSeq[p] - 1 \in Nat /\ txSeq[p] \in Nat \ {0}
  BY SettingsType DEF IInv, Types, WireType, ConnType
<1>2. slot[p].ahead \in Nat /\ retries[p] \in Nat /\ retries[p] <= MaxRetries
  <2>1. /\ slot[p] \in [frame : Frame \cup {None}, ahead : 0 .. TxDepth]
        /\ retries[p] \in 0 .. MaxRetries
    BY DEF IInv, Types, CallType
  <2> QED BY <1>1, <2>1
<1>3. \A s \in Nat : Copies(p, s) \in Nat  BY <1>1, CountType DEF Copies
<1>4. \A s \in Nat : Repeats(p, s) \in Nat  BY <1>1, <1>2 DEF Repeats
<1> QED BY <1>1, <1>2, <1>3, <1>4

LEMMA PrimedTypes ==
    ASSUME IInv', NEW p \in Endpoint
    PROVE  \A s \in Nat : Copies(p, s)' \in Nat /\ Repeats(p, s)' \in Nat
<1>1. chan'[p] \in Seq(Frame)  BY DEF IInv, Types, WireType
<1>2. \A s \in Nat : Copies(p, s)' \in Nat  BY <1>1, CountType DEF Copies
<1>3. retries'[p] \in 0 .. MaxRetries  BY DEF IInv, Types, CallType
<1>4. MaxRetries - retries'[p] \in Nat  BY <1>3, SettingsType
<1>5. \A s \in Nat : Repeats(p, s)' \in Nat  BY <1>4 DEF Repeats
<1> QED BY <1>2, <1>5

\* No more copies and repeats, and nothing new accepted.
LEMMA CopiesKept ==
    ASSUME IInv, IInv', NEW r \in Endpoint, CopiesBound(r),
           \A s \in Nat : Copies(r, s)' + Repeats(Peer(r), s)'
                             <= Copies(r, s) + Repeats(Peer(r), s),
           rxSeq'[r] = rxSeq[r]
    PROVE  CopiesBound(r)'
<1>1. /\ \A s \in Nat : Copies(r, s) \in Nat /\ Repeats(Peer(r), s) \in Nat
      /\ MaxRetries \in Nat /\ rxSeq[r] \in Nat
  BY RingTypes, PeerFacts
<1>2. \A s \in Nat : Copies(r, s)' \in Nat /\ Repeats(Peer(r), s)' \in Nat
  BY PrimedTypes, PeerFacts
<1> SUFFICES ASSUME NEW s \in Nat
             PROVE  Copies(r, s)' + Repeats(Peer(r), s)'
                      <= MaxRetries + (IF s < rxSeq'[r] THEN 0 ELSE 1)
  BY DEF CopiesBound
<1>3. Copies(r, s) + Repeats(Peer(r), s) <= MaxRetries + (IF s < rxSeq[r] THEN 0 ELSE 1)
  BY DEF CopiesBound
<1> QED BY <1>1, <1>2, <1>3

\* What SlotBound counts, with the last accepted number named.
LEMMA SlotBoundAt ==
    ASSUME NEW r, NEW s, s = rxSeq[r] - 1
    PROVE  SlotBound(r) <=>
             (pc[r] = "waiting" =>
                slot[r].ahead + Copies(r, s) + Repeats(Peer(r), s)
                  + (IF pending[r] = None THEN MaxRetries + 1 ELSE 0) <= 2 * MaxRetries + 2)
BY DEF SlotBound

LEMMA SlotBoundNext ==
    ASSUME NEW r, NEW s, s = rxSeq'[r] - 1,
           pc'[r] = "waiting" =>
                slot'[r].ahead + Copies(r, s)' + Repeats(Peer(r), s)'
                  + (IF pending'[r] = None THEN MaxRetries + 1 ELSE 0) <= 2 * MaxRetries + 2
    PROVE  SlotBound(r)'
BY DEF SlotBound, Copies, Repeats, Peer

LEMMA SlotBoundKept ==
    ASSUME IInv, IInv', NEW r \in Endpoint, SlotBound(r), NEW s, s = rxSeq[r] - 1,
           Copies(r, s)' + Repeats(Peer(r), s)' <= Copies(r, s) + Repeats(Peer(r), s),
           rxSeq'[r] = rxSeq[r],
           pc'[r] = "waiting" =>
               pc[r] = "waiting" /\ slot'[r] = slot[r] /\ pending'[r] = pending[r]
    PROVE  SlotBound(r)'
<1> DEFINE room == IF pending[r] = None THEN MaxRetries + 1 ELSE 0
           c == Copies(r, s)
           cc == Copies(r, s)'
           b == Repeats(Peer(r), s)
           bb == Repeats(Peer(r), s)'
<1>1. CASE pc'[r] # "waiting"  BY <1>1 DEF SlotBound
<1>2. CASE pc'[r] = "waiting"
  <2>1. slot[r].ahead + c + b + room <= 2 * MaxRetries + 2
    BY <1>2, SlotBoundAt
  <2>2. s \in Nat /\ MaxRetries \in Nat /\ slot[r].ahead \in Nat
    BY RingTypes
  <2>3. c \in Nat /\ cc \in Nat /\ b \in Nat /\ bb \in Nat /\ cc + bb <= c + b
    BY <2>2, RingTypes, PrimedTypes, PeerFacts
  <2>4. room \in Nat  BY <2>2
  <2> HIDE DEF c, cc, b, bb, room
  <2>5. slot[r].ahead + cc + bb + room <= 2 * MaxRetries + 2
    BY <2>1, <2>2, <2>3, <2>4
  <2> QED BY <1>2, <2>5, SlotBoundNext DEF room, cc, bb
<1> QED BY <1>1, <1>2

LEMMA RepeatsLess ==
    ASSUME IInv, NEW q \in Endpoint, NEW s \in Nat,
           pc'[q] = "waiting" =>
               pc[q] = "waiting" /\ retries'[q] = retries[q] /\ txSeq'[q] = txSeq[q]
    PROVE  Repeats(q, s)' <= Repeats(q, s)
<1>1. Repeats(q, s) \in Nat  BY RingTypes
<1>2. CASE pc'[q] = "waiting"  BY <1>1, <1>2 DEF Repeats
<1>3. CASE pc'[q] # "waiting"  BY <1>1, <1>3 DEF Repeats
<1> QED BY <1>2, <1>3

LEMMA AwaitsKept ==
    ASSUME NEW p, Awaits(p),
           pc'[p] = "waiting" => pc[p] = "waiting" /\ slot'[p].frame = slot[p].frame,
           txSeq'[p] = txSeq[p], sent'[p] = sent[p]
    PROVE  Awaits(p)'
BY DEF Awaits

\* What a step may do to the wire towards r.
LEMMA SameWire ==
    ASSUME NEW r, InOrder(r), chan'[r] = chan[r], rxSeq'[r] = rxSeq[r]
    PROVE  InOrder(r)' /\ \A s : Copies(r, s)' = Copies(r, s)
BY DEF InOrder, Copies

LEMMA AckAdded ==
    ASSUME IInv, NEW r \in Endpoint, InOrder(r), NEW t, NEW n \in Nat, t \in Endpoint,
           chan'[r] = Append(chan[r], AckFrame(t, n)), rxSeq'[r] = rxSeq[r]
    PROVE  InOrder(r)' /\ \A s \in Nat : Copies(r, s)' = Copies(r, s)
<1> DEFINE w == chan[r]
           f == AckFrame(t, n)
           v == chan'[r]
<1>1. w \in Seq(Frame) /\ v = Append(w, f)  BY RingTypes
<1>2. f \in Frame /\ f.kind = "ack"  BY DEF AckFrame, Frame
<1> HIDE DEF w, f, v
<1>3. /\ Len(v) = Len(w) + 1 /\ v[Len(w) + 1] = f /\ v \in Seq(Frame) /\ Len(w) \in Nat
      /\ \A i \in 1 .. Len(w) : v[i] = w[i]
  BY <1>1, <1>2, AppendFacts
<1>4. ~FromPeer(r, f)  BY <1>2 DEF FromPeer
<1>5. \A i \in DOMAIN v : FromPeer(r, v[i]) => i \in DOMAIN w /\ v[i] = w[i]
  BY <1>1, <1>3, <1>4
<1>6. InOrder(r)'  BY <1>5 DEF InOrder, w, v
<1>7. ASSUME NEW s \in Nat PROVE Copies(r, s)' = Copies(r, s)
  <2>1. f \notin DataOf(r, s)  BY <1>4 DEF DataOf
  <2>2. Count(v, DataOf(r, s)) = Count(w, DataOf(r, s)) + 0
    BY <1>1, <1>2, <2>1, CountAppend
  <2>3. Count(w, DataOf(r, s)) \in Nat  BY <1>1, CountType
  <2> QED BY <2>2, <2>3 DEF Copies, w, v
<1> QED BY <1>6, <1>7

LEMMA FrameRemoved ==
    ASSUME IInv, NEW r \in Endpoint, InOrder(r), NEW k \in 1 .. Len(chan[r]),
           chan'[r] = RemoveAt(chan[r], k), rxSeq'[r] = rxSeq[r]
    PROVE  InOrder(r)' /\ \A s \in Nat : Copies(r, s)' <= Copies(r, s)
<1> DEFINE w == chan[r]
           v == chan'[r]
<1>1. w \in Seq(Frame)  BY RingTypes
<1>2. v = RemoveAt(w, k) /\ k \in 1 .. Len(w) /\ Len(w) \in Nat  BY <1>1
<1> HIDE DEF w, v
<1>3. /\ Len(v) = Len(w) - 1 /\ v \in Seq(Frame)
      /\ \A i \in 1 .. Len(w) - 1 : v[i] = IF i < k THEN w[i] ELSE w[i + 1]
  BY <1>1, <1>2, RemovePlaces
<1>4. /\ \A i \in DOMAIN v : i \in Nat
      /\ \A i \in DOMAIN v : (IF i < k THEN i ELSE i + 1) \in DOMAIN w
      /\ \A i \in DOMAIN v : v[i] = w[IF i < k THEN i ELSE i + 1]
  BY <1>1, <1>2, <1>3
<1>5. \A i, j \in DOMAIN v : i < j =>
         (IF i < k THEN i ELSE i + 1) < (IF j < k THEN j ELSE j + 1)
  BY <1>1, <1>2, <1>4
<1>6. InOrder(r)'  BY <1>4, <1>5 DEF InOrder, w, v
<1>7. \A s \in Nat : Copies(r, s)' <= Copies(r, s)
  BY <1>1, <1>2, CountRemove DEF Copies, w, v
<1> QED BY <1>6, <1>7

LEMMA HeadTaken ==
    ASSUME IInv, IInv', NEW r \in Endpoint, InOrder(r), Arrived(r), chan'[r] = Tail(chan[r]),
           \/ rxSeq'[r] = rxSeq[r]
           \/ /\ FromPeer(r, Head(chan[r])) /\ Head(chan[r]).seq = rxSeq[r]
              /\ rxSeq'[r] = rxSeq[r] + 1
    PROVE  /\ InOrder(r)'
           /\ \A s \in Nat : Copies(r, s)' = Copies(r, s)
                 - (IF FromPeer(r, Head(chan[r])) /\ Head(chan[r]).seq = s THEN 1 ELSE 0)
<1> DEFINE w == chan[r]
           v == chan'[r]
<1>1. w \in Seq(Frame) /\ w # <<>> /\ v = Tail(w) /\ rxSeq[r] \in Nat
  BY RingTypes DEF Arrived
<1> HIDE DEF w, v
<1>2. /\ Len(v) = Len(w) - 1 /\ v \in Seq(Frame) /\ Len(w) \in Nat \ {0}
      /\ Head(w) = w[1] /\ Head(w) \in Frame
      /\ \A i \in 1 .. Len(w) - 1 : v[i] = w[i + 1]
  BY <1>1, TailPlaces
<1>3. \A i \in DOMAIN v : i \in Nat /\ i + 1 \in DOMAIN w /\ v[i] = w[i + 1] /\ 1 < i + 1
  BY <1>1, <1>2
<1>4. \A i \in DOMAIN v : FromPeer(r, v[i]) => v[i].seq \in Nat
  <2>1. \A i \in DOMAIN v : v[i] \in Frame  BY <1>2
  <2> QED BY <2>1 DEF Frame
<1>5. 1 \in DOMAIN w  BY <1>1, <1>2
<1>6. \A i \in DOMAIN v : FromPeer(r, v[i]) => v[i].seq >= rxSeq'[r] - 1
  <2> SUFFICES ASSUME NEW i \in DOMAIN v, FromPeer(r, v[i]) PROVE v[i].seq >= rxSeq'[r] - 1
    OBVIOUS
  <2>1. CASE rxSeq'[r] = rxSeq[r]  BY <1>3, <2>1 DEF InOrder, w
  <2>2. CASE /\ FromPeer(r, Head(w)) /\ Head(w).seq = rxSeq[r]
             /\ rxSeq'[r] = rxSeq[r] + 1
    <3>1. w[1].seq <= w[i + 1].seq  BY <1>2, <1>3, <1>5, <2>2 DEF InOrder, w
    <3> QED BY <1>1, <1>2, <1>3, <1>4, <2>2, <3>1
  <2> QED BY <2>1, <2>2 DEF w
<1>7. \A i, j \in DOMAIN v : i < j => i + 1 < j + 1  BY <1>3
<1>8. \A i, j \in DOMAIN v : i < j /\ FromPeer(r, v[i]) /\ FromPeer(r, v[j]) =>
         v[i].seq <= v[j].seq
  BY <1>3, <1>7 DEF InOrder, w
<1>9. InOrder(r)'  BY <1>6, <1>8 DEF InOrder, v
<1>10. ASSUME NEW s \in Nat
       PROVE  Copies(r, s)' = Copies(r, s)
                 - (IF FromPeer(r, Head(w)) /\ Head(w).seq = s THEN 1 ELSE 0)
  <2>1. Head(w) \in DataOf(r, s) <=> FromPeer(r, Head(w)) /\ Head(w).seq = s
    BY <1>2 DEF DataOf
  <2>2. Count(v, DataOf(r, s)) = Count(w, DataOf(r, s)) - (IF Head(w) \in DataOf(r, s) THEN 1 ELSE 0)
    BY <1>1, CountTail
  <2> QED BY <2>1, <2>2 DEF Copies, w, v
<1> QED BY <1>9, <1>10 DEF w

\* No data frame on a wire has a number its sender has not reached.
LEMMA NoneAhead ==
    ASSUME IInv, NEW r \in Endpoint, NEW i \in DOMAIN chan[r], FromPeer(r, chan[r][i])
    PROVE  chan[r][i].seq \in Nat /\ chan[r][i].seq <= txSeq[Peer(r)] - 1
<1> DEFINE f == chan[r][i]
<1>1. chan[r] \in Seq(Frame)  BY RingTypes
<1>2. f \in Frame /\ f \in Range(chan[r])  BY <1>1 DEF Range
<1>3. f.seq \in Nat  BY <1>2 DEF Frame
<1>4. Genuine(Peer(r), f)  BY <1>2 DEF IInv, WireInv, FromPeer
<1>5. f.seq \in 1 .. Len(sent[Peer(r)])  BY <1>4 DEF Genuine, FromPeer
<1>6. Len(sent[Peer(r)]) = txSeq[Peer(r)] - 1 /\ txSeq[Peer(r)] \in Nat
  BY PeerFacts, RingTypes DEF IInv, StreamInv
<1> HIDE DEF f
<1>7. f.seq <= txSeq[Peer(r)] - 1  BY <1>5, <1>6
<1> QED BY <1>3, <1>7 DEF f

LEMMA DataAdded ==
    ASSUME IInv, NEW r \in Endpoint, InOrder(r), NEW f \in Frame, FromPeer(r, f),
           f.seq >= txSeq[Peer(r)] - 1, f.seq >= rxSeq[r] - 1,
           chan'[r] = Append(chan[r], f), rxSeq'[r] = rxSeq[r]
    PROVE  /\ InOrder(r)'
           /\ \A s \in Nat : Copies(r, s)' = Copies(r, s) + (IF f.seq = s THEN 1 ELSE 0)
<1> DEFINE w == chan[r]
           v == chan'[r]
<1>1. /\ w \in Seq(Frame) /\ v = Append(w, f) /\ f.seq \in Nat
      /\ txSeq[Peer(r)] \in Nat
  BY RingTypes, PeerFacts DEF Frame
<1>2. \A i \in DOMAIN w : FromPeer(r, w[i]) => w[i].seq \in Nat /\ w[i].seq <= f.seq
  BY <1>1, NoneAhead
<1> HIDE DEF w, v
<1>3. /\ Len(v) = Len(w) + 1 /\ v[Len(w) + 1] = f /\ v \in Seq(Frame) /\ Len(w) \in Nat
      /\ \A i \in 1 .. Len(w) : v[i] = w[i]
  BY <1>1, AppendFacts
<1>4. DOMAIN v = 1 .. Len(w) + 1 /\ DOMAIN w = 1 .. Len(w)  BY <1>1, <1>3
<1>5. \A i \in DOMAIN v : (i \in DOMAIN w /\ v[i] = w[i]) \/ (i = Len(w) + 1 /\ v[i] = f)
  BY <1>3, <1>4
<1>6. ASSUME NEW i \in DOMAIN v, NEW j \in DOMAIN v, i < j,
             FromPeer(r, v[i]), FromPeer(r, v[j])
      PROVE  v[i].seq <= v[j].seq
  <2>1. i \in DOMAIN w /\ v[i] = w[i]  BY <1>3, <1>4, <1>6
  <2>2. CASE j \in DOMAIN w /\ v[j] = w[j]  BY <1>6, <2>1, <2>2 DEF InOrder, w
  <2>3. CASE v[j] = f  BY <1>2, <1>6, <2>1, <2>3
  <2> QED BY <1>5, <2>2, <2>3
<1>7. \A i \in DOMAIN v : FromPeer(r, v[i]) => v[i].seq >= rxSeq[r] - 1
  BY <1>5 DEF InOrder, w
<1>8. InOrder(r)'  BY <1>6, <1>7 DEF InOrder, v
<1>9. ASSUME NEW s \in Nat
      PROVE  Copies(r, s)' = Copies(r, s) + (IF f.seq = s THEN 1 ELSE 0)
  <2>1. f \in DataOf(r, s) <=> f.seq = s  BY DEF DataOf
  <2>2. Count(v, DataOf(r, s)) = Count(w, DataOf(r, s)) + (IF f \in DataOf(r, s) THEN 1 ELSE 0)
    BY <1>1, CountAppend
  <2> QED BY <2>1, <2>2 DEF Copies, w, v
<1> QED BY <1>8, <1>9

\* Copies become fewer or come out of the retries that are left, and a wait
\* that goes on is as it was.
LEMMA CalmRing ==
    ASSUME IInv, IInv', RingInv, UNCHANGED <<txSeq, rxSeq, sent>>,
           \A r \in Endpoint : InOrder(r)',
           \A r \in Endpoint : \A s \in Nat :
               Copies(r, s)' + Repeats(Peer(r), s)' <= Copies(r, s) + Repeats(Peer(r), s),
           \A r \in Endpoint : pc'[r] = "waiting" =>
               pc[r] = "waiting" /\ slot'[r] = slot[r] /\ pending'[r] = pending[r]
    PROVE  RingInv'
<1> SUFFICES ASSUME NEW r \in Endpoint
             PROVE  CopiesBound(r)' /\ SlotBound(r)' /\ Awaits(r)'
  BY DEF RingInv
<1>1. rxSeq'[r] = rxSeq[r] /\ CopiesBound(r) /\ SlotBound(r) /\ Awaits(r)
  BY DEF RingInv
<1>2. CopiesBound(r)'  BY <1>1, CopiesKept
<1>3. SlotBound(r)'
  <2>1. rxSeq[r] - 1 \in Nat  BY RingTypes
  <2>2. PICK s \in Nat : s = rxSeq[r] - 1  BY <2>1
  <2> QED BY <1>1, <2>2, SlotBoundKept
<1>4. Awaits(r)'  BY <1>1, AwaitsKept
<1> QED BY <1>2, <1>3, <1>4

\* Frames leave the wires, and a wait that goes on is as it was.
LEMMA QuietRing ==
    ASSUME IInv, IInv', RingInv, UNCHANGED <<txSeq, rxSeq, sent>>,
           \A r \in Endpoint : InOrder(r)' /\ \A s \in Nat : Copies(r, s)' <= Copies(r, s),
           \A r \in Endpoint : pc'[r] = "waiting" =>
               /\ pc[r] = "waiting" /\ slot'[r] = slot[r] /\ pending'[r] = pending[r]
               /\ retries'[r] = retries[r]
    PROVE  RingInv'
<1>1. ASSUME NEW r \in Endpoint, NEW s \in Nat
      PROVE  Copies(r, s)' + Repeats(Peer(r), s)' <= Copies(r, s) + Repeats(Peer(r), s)
  <2>1. Copies(r, s)' <= Copies(r, s)  OBVIOUS
  <2>2. Peer(r) \in Endpoint  BY PeerFacts
  <2>3. Repeats(Peer(r), s)' <= Repeats(Peer(r), s)  BY <2>2, RepeatsLess
  <2>4. /\ Copies(r, s)' \in Nat /\ Copies(r, s) \in Nat
        /\ Repeats(Peer(r), s)' \in Nat /\ Repeats(Peer(r), s) \in Nat
    BY <2>2, RingTypes, PrimedTypes
  <2> QED BY <2>1, <2>3, <2>4
<1> QED BY <1>1, CalmRing

LEMMA StillRing ==
    ASSUME IInv, IInv', RingInv, UNCHANGED <<chan, txSeq, rxSeq, sent>>,
           \A r \in Endpoint : pc'[r] = "waiting" =>
               /\ pc[r] = "waiting" /\ slot'[r] = slot[r] /\ pending'[r] = pending[r]
               /\ retries'[r] = retries[r]
    PROVE  RingInv'
<1>1. ASSUME NEW r \in Endpoint
      PROVE  InOrder(r)' /\ \A s \in Nat : Copies(r, s)' <= Copies(r, s)
  <2>1. InOrder(r)' /\ \A s : Copies(r, s)' = Copies(r, s)
    BY SameWire DEF RingInv
  <2>2. \A s \in Nat : Copies(r, s) \in Nat  BY RingTypes
  <2> QED BY <2>1, <2>2
<1> QED BY <1>1, QuietRing

\* p takes the frame at the head of its wire and accepts nothing.
LEMMA ConsumeRing ==
    ASSUME IInv, IInv', RingInv, NEW p \in Endpoint, Arrived(p), Consume(p),
           UNCHANGED <<txSeq, rxSeq, sent>>,
           \A r \in Endpoint : pc'[r] = "waiting" =>
               /\ pc[r] = "waiting" /\ slot'[r] = slot[r] /\ pending'[r] = pending[r]
               /\ retries'[r] = retries[r]
    PROVE  RingInv'
<1>1. chan'[p] = Tail(chan[p]) /\ \A r \in Endpoint \ {p} : chan'[r] = chan[r]
  BY DEF Consume, IInv, Types, WireType
<1>2. ASSUME NEW r \in Endpoint
      PROVE  InOrder(r)' /\ \A s \in Nat : Copies(r, s)' <= Copies(r, s)
  <2>1. \A s \in Nat : Copies(r, s) \in Nat  BY RingTypes
  <2>2. CASE r = p
    <3>1. /\ InOrder(p)'
          /\ \A s \in Nat : Copies(p, s)' = Copies(p, s)
               - (IF FromPeer(p, Head(chan[p])) /\ Head(chan[p]).seq = s THEN 1 ELSE 0)
      BY <1>1, HeadTaken DEF RingInv
    <3> QED BY <2>1, <2>2, <3>1
  <2>3. CASE r # p
    <3>1. InOrder(r)' /\ \A s : Copies(r, s)' = Copies(r, s)
      BY <1>1, <2>3, SameWire DEF RingInv
    <3> QED BY <2>1, <3>1
  <2> QED BY <2>2, <2>3
<1> QED BY <1>2, QuietRing

LEMMA LoseRing ==
    ASSUME IInv, IInv', RingInv, NEW p \in Endpoint, Lose(p)
    PROVE  RingInv'
<1>1. PICK k \in 1 .. Len(chan[p]) : chan' = [chan EXCEPT ![p] = RemoveAt(chan[p], k)]
  BY DEF Lose
<1>2. UNCHANGED <<pc, slot, retries, txSeq, rxSeq, pending, sent>>
  BY DEF Lose, call, conn, history
<1>3. chan'[p] = RemoveAt(chan[p], k) /\ \A r \in Endpoint \ {p} : chan'[r] = chan[r]
  BY <1>1 DEF IInv, Types, WireType
<1>4. ASSUME NEW r \in Endpoint
      PROVE  InOrder(r)' /\ \A s \in Nat : Copies(r, s)' <= Copies(r, s)
  <2>1. \A s \in Nat : Copies(r, s) \in Nat  BY RingTypes
  <2>2. CASE r = p  BY <1>2, <1>3, <2>2, FrameRemoved DEF RingInv
  <2>3. CASE r # p
    <3>1. InOrder(r)' /\ \A s : Copies(r, s)' = Copies(r, s)
      BY <1>2, <1>3, <2>3, SameWire DEF RingInv
    <3> QED BY <2>1, <3>1
  <2> QED BY <2>2, <2>3
<1> QED BY <1>2, <1>4, QuietRing

LEMMA SendRing ==
    ASSUME IInv, IInv', RingInv, NEW p \in Endpoint, SendFrame(p)
    PROVE  RingInv'
<1> DEFINE n == txSeq[p]
           q == Peer(p)
           chunk == <<op[p], Transfers[op[p]].frames - left[p] + 1>>
           frame == DataFrame(p, n, chunk)
<1>1. q \in Endpoint /\ q # p /\ Peer(q) = p /\ \A r \in Endpoint : r = p \/ r = q
  BY PeerFacts DEF Endpoint, Peer
<1>2. chunk \in Chunk
  <2>1. /\ op[p] \in DOMAIN Transfers /\ Transfers[op[p]].frames \in Nat
        /\ left[p] \in 1 .. Transfers[op[p]].frames
    BY TransferFacts DEF SendFrame, IInv, CallInv
  <2>2. Transfers[op[p]].frames - left[p] + 1 \in 1 .. Transfers[op[p]].frames
    BY <2>1
  <2> QED BY <2>1, <2>2 DEF Chunk
<1>3. /\ pc[p] = "sending"
      /\ chan' = [chan EXCEPT ![q] = Append(@, frame)]
      /\ sent' = [sent EXCEPT ![p] = Append(@, chunk)]
      /\ txSeq' = [txSeq EXCEPT ![p] = n + 1]
      /\ UNCHANGED <<rxSeq, pending>>
      /\ \/ /\ pc' = [pc EXCEPT ![p] = "waiting"]
            /\ retries' = [retries EXCEPT ![p] = 0]
            /\ slot' = [slot EXCEPT ![p] = [frame |-> frame, ahead |-> 1]]
         \/ Proceed(p, left[p] - 1, "sending") /\ UNCHANGED <<retries, slot>>
  BY DEF SendFrame
<1> HIDE DEF chunk
<1>4. /\ frame \in Frame /\ frame.kind = "data" /\ frame.seq = n /\ frame.cookie = p
      /\ n \in Nat \ {0} /\ rxSeq[q] \in Nat \ {0} /\ rxSeq[q] <= n
      /\ MaxRetries \in Nat
  <2>1. n \in Nat \ {0} /\ rxSeq[q] \in Nat \ {0} /\ rxSeq[q] <= n
    BY <1>1, CounterFacts, RingTypes
  <2> QED BY <1>2, <2>1, SettingsType DEF Frame, DataFrame
<1> HIDE DEF frame
<1>5. /\ chan'[q] = Append(chan[q], frame) /\ chan'[p] = chan[p]
      /\ txSeq'[p] = n + 1 /\ txSeq'[q] = txSeq[q]
      /\ sent'[p] = Append(sent[p], chunk) /\ sent'[q] = sent[q]
      /\ pc'[q] = pc[q] /\ retries'[q] = retries[q] /\ slot'[q] = slot[q]
  <2>1. chan'[q] = Append(chan[q], frame) /\ chan'[p] = chan[p]
    BY <1>1, <1>3 DEF IInv, Types, WireType
  <2>2. /\ txSeq'[p] = n + 1 /\ txSeq'[q] = txSeq[q]
        /\ sent'[p] = Append(sent[p], chunk) /\ sent'[q] = sent[q]
    BY <1>1, <1>3 DEF IInv, Types, ConnType, HistoryType
  <2>3. pc'[q] = pc[q] /\ retries'[q] = retries[q] /\ slot'[q] = slot[q]
    BY <1>1, <1>3 DEF IInv, Types, CallType, Proceed
  <2> QED BY <2>1, <2>2, <2>3
<1>6. pc'[p] = "waiting" =>
          retries'[p] = 0 /\ slot'[p] = [frame |-> frame, ahead |-> 1]
  <2>1. CASE /\ pc' = [pc EXCEPT ![p] = "waiting"]
             /\ retries' = [retries EXCEPT ![p] = 0]
             /\ slot' = [slot EXCEPT ![p] = [frame |-> frame, ahead |-> 1]]
    BY <2>1 DEF IInv, Types, CallType
  <2>2. CASE Proceed(p, left[p] - 1, "sending")
    BY <2>2 DEF IInv, Types, CallType, Proceed
  <2> QED BY <1>3, <2>1, <2>2
<1>7. /\ InOrder(q)'
      /\ \A s \in Nat : Copies(q, s)' = Copies(q, s) + (IF n = s THEN 1 ELSE 0)
  <2>1. FromPeer(q, frame)  BY <1>1, <1>4 DEF FromPeer
  <2>2. InOrder(q) /\ rxSeq'[q] = rxSeq[q]  BY <1>1, <1>3 DEF RingInv
  <2>3. frame.seq >= txSeq[Peer(q)] - 1 /\ frame.seq >= rxSeq[q] - 1  BY <1>1, <1>4
  <2>4. frame.seq = n  BY <1>4
  <2> HIDE DEF n, q
  <2> QED BY <1>1, <1>4, <1>5, <2>1, <2>2, <2>3, <2>4, DataAdded
<1>8. InOrder(p)' /\ \A s : Copies(p, s)' = Copies(p, s)
  BY <1>3, <1>5, SameWire DEF RingInv
<1>9. /\ \A s : Repeats(p, s) = 0
      /\ \A s : Repeats(p, s)' = IF pc'[p] = "waiting" /\ s = n THEN MaxRetries ELSE 0
      /\ \A s : Repeats(q, s)' = Repeats(q, s)
  <2>1. \A s : Repeats(p, s) = 0  BY <1>3 DEF Repeats
  <2>2. n + 1 - 1 = n /\ MaxRetries - 0 = MaxRetries  BY <1>4
  <2>3. \A s : Repeats(p, s)' = IF pc'[p] = "waiting" /\ s = n THEN MaxRetries ELSE 0
    <3>1. txSeq'[p] - 1 = n  BY <1>4, <1>5
    <3>2. pc'[p] = "waiting" => MaxRetries - retries'[p] = MaxRetries  BY <1>4, <1>6
    <3>3. CASE pc'[p] = "waiting"
      <4> HIDE DEF n
      <4> QED BY <3>1, <3>2, <3>3 DEF Repeats
    <3>4. CASE pc'[p] # "waiting"  BY <3>4 DEF Repeats
    <3> QED BY <3>3, <3>4
  <2>4. \A s : Repeats(q, s)' = Repeats(q, s)  BY <1>5 DEF Repeats
  <2> QED BY <2>1, <2>3, <2>4
<1>10. /\ CopiesBound(p) /\ SlotBound(p) /\ CopiesBound(q) /\ SlotBound(q) /\ Awaits(q)
       /\ rxSeq'[p] = rxSeq[p] /\ rxSeq'[q] = rxSeq[q] /\ pending'[q] = pending[q]
  BY <1>1, <1>3 DEF RingInv
<1>11. Copies(q, n) = 0
  <2>1. \A i \in DOMAIN chan[q] : FromPeer(q, chan[q][i]) => chan[q][i].seq < n
    <3> SUFFICES ASSUME NEW i \in DOMAIN chan[q], FromPeer(q, chan[q][i])
                 PROVE  chan[q][i].seq < n
      OBVIOUS
    <3>1. chan[q][i].seq \in Nat /\ chan[q][i].seq <= txSeq[Peer(q)] - 1
      BY <1>1, NoneAhead
    <3> QED BY <1>1, <1>4, <3>1
  <2>2. \A i \in DOMAIN chan[q] : chan[q][i] \notin DataOf(q, n)
    BY <1>4, <2>1 DEF DataOf
  <2>3. chan[q] \in Seq(Frame)  BY <1>1, RingTypes
  <2> QED BY <2>2, <2>3, CountType DEF Copies
<1>12. CopiesBound(q)'
  <2> SUFFICES ASSUME NEW s \in Nat
               PROVE  Copies(q, s)' + Repeats(p, s)'
                        <= MaxRetries + (IF s < rxSeq[q] THEN 0 ELSE 1)
    BY <1>1, <1>10 DEF CopiesBound
  <2>1. Copies(q, s) + Repeats(p, s) <= MaxRetries + (IF s < rxSeq[q] THEN 0 ELSE 1)
    BY <1>1, <1>10 DEF CopiesBound
  <2>2. Copies(q, s) \in Nat  BY <1>1, RingTypes
  <2>3. CASE s = n  BY <1>4, <1>7, <1>9, <1>11, <2>3
  <2>4. CASE s # n  BY <1>4, <1>7, <1>9, <2>1, <2>2, <2>4
  <2> QED BY <2>3, <2>4
<1>13. SlotBound(q)'
  <2>1. PICK s \in Nat : s = rxSeq[q] - 1  BY <1>4
  <2>2. s # n  BY <1>4, <2>1
  <2>3. Copies(q, s) \in Nat  BY <1>1, RingTypes
  <2>4. Copies(q, s)' + Repeats(Peer(q), s)' <= Copies(q, s) + Repeats(Peer(q), s)
    BY <1>1, <1>7, <1>9, <2>2, <2>3
  <2> QED BY <1>1, <1>5, <1>10, <2>1, <2>4, SlotBoundKept
<1>14. CopiesBound(p)'
  <2>1. \A s \in Nat : Copies(p, s) \in Nat /\ Repeats(q, s) \in Nat  BY <1>1, RingTypes
  <2> QED BY <1>8, <1>9, <1>10, <2>1, CopiesKept
<1>15. SlotBound(p)'
  <2>1. rxSeq[p] \in Nat \ {0} /\ rxSeq[p] - 1 \in Nat  BY RingTypes
  <2>2. PICK s \in Nat : s = rxSeq[p] - 1  BY <2>1
  <2>3. Copies(p, s) + Repeats(q, s) <= MaxRetries
    <3>1. s < rxSeq[p]  BY <2>1, <2>2
    <3>2. Copies(p, s) + Repeats(q, s) <= MaxRetries + 0  BY <1>10, <3>1 DEF CopiesBound
    <3> QED BY <1>4, <3>2
  <2>4. Copies(p, s) \in Nat /\ Repeats(q, s) \in Nat  BY <1>1, RingTypes
  <2>5. ASSUME pc'[p] = "waiting"
        PROVE  slot'[p].ahead + Copies(p, s)' + Repeats(q, s)'
                  + (IF pending'[p] = None THEN MaxRetries + 1 ELSE 0) <= 2 * MaxRetries + 2
    <3>1. slot'[p].ahead = 1  BY <1>6, <2>5
    <3>2. Copies(p, s)' = Copies(p, s) /\ Repeats(q, s)' = Repeats(q, s)  BY <1>8, <1>9
    <3> QED BY <1>4, <2>3, <2>4, <3>1, <3>2
  <2> QED BY <1>10, <2>2, <2>5, SlotBoundNext
<1>16. Awaits(q)'  BY <1>5, <1>10, AwaitsKept
<1>17. Awaits(p)'
  <2>1. sent[p] \in Seq(Chunk) /\ Len(sent[p]) = n - 1
    BY DEF IInv, Types, HistoryType, StreamInv
  <2>2. sent'[p][n] = chunk
    <3>1. Append(sent[p], chunk)[Len(sent[p]) + 1] = chunk  BY <1>2, <2>1, AppendFacts
    <3>2. Len(sent[p]) + 1 = n  BY <1>4, <2>1
    <3> QED BY <1>5, <3>1, <3>2
  <2>3. txSeq'[p] - 1 = n  BY <1>4, <1>5
  <2> QED BY <1>6, <2>2, <2>3 DEF Awaits, frame
<1> QED BY <1>1, <1>7, <1>8, <1>12, <1>13, <1>14, <1>15, <1>16, <1>17 DEF RingInv

LEMMA TimeoutRing ==
    ASSUME IInv, IInv', RingInv, NEW p \in Endpoint, Timeout(p)
    PROVE  RingInv'
<1> DEFINE q == Peer(p)
           n == txSeq[p] - 1
           frame == slot[p].frame
<1>1. q \in Endpoint /\ q # p /\ Peer(q) = p /\ \A r \in Endpoint : r = p \/ r = q
  BY PeerFacts DEF Endpoint, Peer
<1>2. pc[p] = "waiting" /\ UNCHANGED <<txSeq, rxSeq, pending, sent>>
  BY DEF Timeout, conn, history
<1>3. CASE /\ retries[p] < MaxRetries
           /\ retries' = [retries EXCEPT ![p] = @ + 1]
           /\ chan' = [chan EXCEPT ![q] = Append(@, frame)]
           /\ UNCHANGED <<pc, slot>>
  <2>1. /\ frame \in Frame /\ FromPeer(q, frame) /\ frame.seq = n
    <3>1. frame \in Frame  BY <1>2 DEF IInv, SlotInv
    <3>2. frame = DataFrame(p, n, sent[p][n])  BY <1>2 DEF RingInv, Awaits
    <3>3. frame.kind = "data" /\ frame.cookie = p /\ frame.seq = n
      BY <3>2 DEF DataFrame
    <3> QED BY <1>1, <3>1, <3>3 DEF FromPeer
  <2>2. /\ txSeq[p] \in Nat \ {0} /\ rxSeq[q] \in Nat \ {0} /\ rxSeq[q] <= txSeq[p]
        /\ n \in Nat /\ retries[p] \in Nat /\ MaxRetries \in Nat
    <3>1. /\ txSeq[p] \in Nat \ {0} /\ retries[p] \in Nat /\ MaxRetries \in Nat
      BY RingTypes
    <3>2. rxSeq[q] \in Nat \ {0} /\ rxSeq[q] <= txSeq[p]
      BY <1>1, CounterFacts, RingTypes
    <3> QED BY <3>1, <3>2
  <2> HIDE DEF frame, n
  <2>3. chan'[q] = Append(chan[q], frame) /\ chan'[p] = chan[p] /\ retries'[q] = retries[q]
        /\ retries'[p] = retries[p] + 1
    BY <1>1, <1>3 DEF IInv, Types, WireType, CallType
  <2>4. frame.seq >= txSeq[Peer(q)] - 1 /\ frame.seq >= rxSeq[q] - 1
    BY <1>1, <2>1, <2>2 DEF n
  <2>5. /\ InOrder(q)'
        /\ \A s \in Nat : Copies(q, s)' = Copies(q, s) + (IF n = s THEN 1 ELSE 0)
    <3>1. InOrder(q) /\ rxSeq'[q] = rxSeq[q]  BY <1>1, <1>2 DEF RingInv
    <3> HIDE DEF q
    <3> QED BY <1>1, <2>1, <2>3, <2>4, <3>1, DataAdded
  <2>6. InOrder(p)' /\ \A s : Copies(p, s)' = Copies(p, s)
    BY <1>2, <2>3, SameWire DEF RingInv
  <2>7. ASSUME NEW s \in Nat
        PROVE  /\ Repeats(q, s)' = Repeats(q, s)
               /\ Repeats(p, s)' = Repeats(p, s) - (IF n = s THEN 1 ELSE 0)
    <3>1. Repeats(q, s)' = Repeats(q, s)  BY <1>2, <1>3, <2>3 DEF Repeats
    <3>2. CASE s = n  BY <1>2, <1>3, <2>2, <2>3, <3>2 DEF Repeats, n
    <3>3. CASE s # n  BY <1>2, <1>3, <2>2, <2>3, <3>3 DEF Repeats, n
    <3> QED BY <3>1, <3>2, <3>3
  <2>8. ASSUME NEW r \in Endpoint, NEW s \in Nat
        PROVE  Copies(r, s)' + Repeats(Peer(r), s)' <= Copies(r, s) + Repeats(Peer(r), s)
    <3>1. Copies(r, s) \in Nat /\ Repeats(Peer(r), s) \in Nat
      BY PeerFacts, RingTypes
    <3>2. CASE r = p  BY <2>6, <2>7, <3>1, <3>2
    <3>3. CASE r = q  BY <1>1, <2>5, <2>7, <3>1, <3>3
    <3> QED BY <1>1, <3>2, <3>3
  <2>9. \A r \in Endpoint : InOrder(r)'  BY <1>1, <2>5, <2>6
  <2> QED BY <1>2, <1>3, <2>8, <2>9, CalmRing
<1>4. CASE Fail(p, "timeout") /\ UNCHANGED chan
  <2>1. \A r \in Endpoint : pc'[r] = "waiting" => pc[r] = "waiting"
    BY <1>4 DEF Fail, IInv, Types, CallType
  <2> QED BY <1>2, <1>4, <2>1, StillRing DEF Fail
<1> QED BY <1>3, <1>4 DEF Timeout

LEMMA TakeAckRing ==
    ASSUME IInv, IInv', RingInv, NEW p \in Endpoint, TakeAck(p)
    PROVE  RingInv'
<1>1. /\ Arrived(p) /\ Consume(p) /\ UNCHANGED <<retries, txSeq, rxSeq, pending, sent>>
      /\ \/ Proceed(p, left[p], "sending") /\ slot' = [slot EXCEPT ![p] = NoSlot]
         \/ UNCHANGED <<pc, slot>>
  BY DEF TakeAck, Current, history
<1>2. ASSUME NEW r \in Endpoint, pc'[r] = "waiting"
      PROVE  pc[r] = "waiting" /\ slot'[r] = slot[r]
  <2>1. CASE Proceed(p, left[p], "sending") /\ slot' = [slot EXCEPT ![p] = NoSlot]
    BY <1>2, <2>1 DEF Proceed, IInv, Types, CallType
  <2>2. CASE UNCHANGED <<pc, slot>>  BY <1>2, <2>2
  <2> QED BY <1>1, <2>1, <2>2
<1> QED BY <1>1, <1>2, ConsumeRing

\* A frame is dropped, or refused and the call fails.
LEMMA DropRing ==
    ASSUME IInv, IInv', RingInv, NEW p \in Endpoint,
           DropStale(p) \/ RejectFuture(p) \/ RejectSecondBuffer(p)
    PROVE  RingInv'
<1>1. Arrived(p) /\ Consume(p) /\ UNCHANGED <<conn, history>>
  BY DEF DropStale, RejectFuture, RejectSecondBuffer, CurrentData, Current
<1>2. UNCHANGED <<pc, retries, slot>> \/ \E reason : Fail(p, reason)
  BY DEF DropStale, RejectFuture, RejectSecondBuffer, call
<1>3. /\ UNCHANGED <<retries, slot>>
      /\ \A r \in Endpoint : pc'[r] = "waiting" => pc[r] = "waiting"
  <2>1. CASE UNCHANGED <<pc, retries, slot>>  BY <2>1
  <2>2. CASE \E reason : Fail(p, reason)
    BY <2>2 DEF Fail, IInv, Types, CallType
  <2> QED BY <1>2, <2>1, <2>2
<1> QED BY <1>1, <1>3, ConsumeRing DEF conn, history

\* The wires, and what the calls of an end wait for, stay as they are.
LEMMA IdleRing ==
    ASSUME IInv, IInv', RingInv, NEW p \in Endpoint,
           \/ BeginCall(p) \/ AwaitCommand(p) \/ ReadPending(p)
           \/ PeerGone(p) \/ QueuePairError(p)
    PROVE  RingInv'
<1>1. UNCHANGED <<chan, txSeq, rxSeq, sent, retries, slot>>
  BY DEF BeginCall, AwaitCommand, ReadPending, PeerGone, QueuePairError, Fail,
         conn, history
<1>2. ASSUME NEW r \in Endpoint, pc'[r] = "waiting"
      PROVE  pc[r] = "waiting" /\ pending'[r] = pending[r]
  <2>1. CASE BeginCall(p)
    BY <1>2, <2>1 DEF BeginCall, Proceed, conn, IInv, Types, CallType
  <2>2. CASE AwaitCommand(p)
    BY <1>2, <2>2 DEF AwaitCommand, conn, IInv, Types, CallType
  <2>3. CASE ReadPending(p)
    BY <1>2, <2>3 DEF ReadPending, Proceed, IInv, Types, CallType, ConnType
  <2>4. CASE PeerGone(p)
    BY <1>2, <2>4 DEF PeerGone, Fail, conn, IInv, Types, CallType
  <2>5. CASE QueuePairError(p)
    BY <1>2, <2>5 DEF QueuePairError, Fail, conn, IInv, Types, CallType
  <2> QED BY <2>1, <2>2, <2>3, <2>4, <2>5
<1> QED BY <1>1, <1>2, StillRing

\* What consuming a frame, and possibly acknowledging n, does to the wires and
\* to the slots.
LEMMA ReplyPlaces ==
    ASSUME IInv, NEW p \in Endpoint, NEW n \in Nat, MayAck(p, n)
    PROVE  /\ chan'[p] = Tail(chan[p])
           /\ \/ chan'[Peer(p)] = chan[Peer(p)]
              \/ chan'[Peer(p)] = Append(chan[Peer(p)], AckFrame(p, n))
           /\ slot'[Peer(p)] = slot[Peer(p)]
           /\ slot'[p] = slot[p] \/ slot'[p] = TakeSlot(p, AckFrame(p, n))
<1> DEFINE q == Peer(p)
           ack == AckFrame(p, n)
           taken == TakeSlot(p, ack)
<1>1. q \in Endpoint /\ q # p  BY PeerFacts
<1>2. /\ chan \in [Endpoint -> Seq(Frame)] /\ DOMAIN slot = Endpoint
  BY DEF IInv, Types, WireType, CallType
<1>3. CASE rdma_send_fixed_ack(p, n, FALSE)
  BY <1>1, <1>2, <1>3 DEF rdma_send_fixed_ack, Consume
<1>4. CASE rdma_send_fixed_ack(p, n, TRUE)
  <2>1. /\ chan' = [chan EXCEPT ![p] = Tail(@), ![q] = Append(@, ack)]
        /\ slot' = [slot EXCEPT ![p] = taken]
    BY <1>4 DEF rdma_send_fixed_ack
  <2> HIDE DEF q, ack, taken
  <2>2. chan'[p] = Tail(chan[p]) /\ chan'[q] = Append(chan[q], ack)
    BY <1>1, <1>2, <2>1
  <2>3. slot'[q] = slot[q] /\ slot'[p] = taken
    BY <1>1, <1>2, <2>1
  <2> QED BY <2>2, <2>3 DEF q, ack, taken
<1> QED BY <1>3, <1>4 DEF MayAck

\* The other end, when p takes a frame.
LEMMA OtherEnd ==
    ASSUME IInv, IInv', RingInv, NEW p \in Endpoint, NEW q, q = Peer(p),
           NEW n \in Nat, MayAck(p, n), UNCHANGED <<retries, txSeq, sent>>,
           pc'[p] = "waiting" => pc[p] = "waiting",
           pc'[q] = pc[q], rxSeq'[q] = rxSeq[q], pending'[q] = pending[q]
    PROVE  InOrder(q)' /\ CopiesBound(q)' /\ SlotBound(q)' /\ Awaits(q)'
<1>1. q \in Endpoint /\ Peer(q) = p  BY PeerFacts
<1>2. InOrder(q) /\ CopiesBound(q) /\ SlotBound(q) /\ Awaits(q)  BY <1>1 DEF RingInv
<1>3. slot'[q] = slot[q]  BY ReplyPlaces
<1>4. InOrder(q)' /\ \A s \in Nat : Copies(q, s)' = Copies(q, s)
  <2>1. CASE chan'[q] = chan[q]  BY <1>2, <2>1, SameWire
  <2>2. CASE chan'[q] = Append(chan[q], AckFrame(p, n))
    BY <1>1, <1>2, <2>2, AckAdded
  <2> QED BY <2>1, <2>2, ReplyPlaces
<1>5. ASSUME NEW s \in Nat
      PROVE  Copies(q, s)' + Repeats(Peer(q), s)' <= Copies(q, s) + Repeats(Peer(q), s)
  <2>1. Copies(q, s)' = Copies(q, s) /\ Copies(q, s) \in Nat  BY <1>1, <1>4, RingTypes
  <2>2. Repeats(p, s)' <= Repeats(p, s)  BY RepeatsLess
  <2>3. Repeats(p, s)' \in Nat /\ Repeats(p, s) \in Nat  BY RingTypes, PrimedTypes
  <2> QED BY <1>1, <2>1, <2>2, <2>3
<1>6. CopiesBound(q)'  BY <1>1, <1>2, <1>5, CopiesKept
<1>7. SlotBound(q)'
  <2>1. rxSeq[q] - 1 \in Nat  BY <1>1, RingTypes
  <2>2. PICK s \in Nat : s = rxSeq[q] - 1  BY <2>1
  <2> QED BY <1>1, <1>2, <1>3, <1>5, <2>2, SlotBoundKept
<1>8. Awaits(q)'  BY <1>2, <1>3, AwaitsKept
<1> QED BY <1>4, <1>6, <1>7, <1>8

\* A slot that the ring has not gone round to is still the awaited frame's.
LEMMA SlotSurvives ==
    ASSUME IInv, TxDepth >= 2 * MaxRetries + 2, NEW p \in Endpoint, NEW n \in Nat,
           MayAck(p, n), pc[p] = "waiting", slot[p].ahead + 1 <= 2 * MaxRetries + 2
    PROVE  slot'[p].frame = slot[p].frame /\ slot'[p].ahead <= slot[p].ahead + 1
           /\ slot'[p].ahead \in Nat
<1>1. /\ slot[p] \in [frame : Frame \cup {None}, ahead : 0 .. TxDepth]
      /\ slot[p].ahead \in Nat /\ MaxRetries \in Nat /\ TxDepth \in Nat
  BY RingTypes, SettingsType DEF IInv, Types, CallType
<1>2. CASE slot'[p] = slot[p]  BY <1>1, <1>2
<1>3. CASE slot'[p] = TakeSlot(p, AckFrame(p, n))
  <2>1. slot[p].ahead # TxDepth  BY <1>1
  <2>2. slot'[p] = [slot[p] EXCEPT !.ahead = @ + 1]  BY <1>3, <2>1 DEF TakeSlot
  <2> QED BY <1>1, <2>2
<1> QED BY <1>2, <1>3, ReplyPlaces

LEMMA DuplicateRing ==
    ASSUME IInv, IInv', RingInv, TxDepth >= 2 * MaxRetries + 2,
           NEW p \in Endpoint, TakeDuplicate(p)
    PROVE  RingInv'
<1> DEFINE q == Peer(p)
           f == Head(chan[p])
<1>1. q \in Endpoint /\ q # p /\ \A r \in Endpoint : r = p \/ r = q
  BY PeerFacts DEF Endpoint, Peer
<1>2. /\ Arrived(p) /\ FromPeer(p, f) /\ f.seq < rxSeq[p] /\ f.seq \in Nat
      /\ UNCHANGED <<pc, retries, txSeq, rxSeq, pending, sent>>
  BY ArrivedFacts DEF TakeDuplicate, CurrentData, Current, FromPeer, history
<1>3. MayAck(p, f.seq)
  BY SettingsType DEF TakeDuplicate, MayAck
<1>4. InOrder(q)' /\ CopiesBound(q)' /\ SlotBound(q)' /\ Awaits(q)'
  BY <1>2, <1>3, OtherEnd
<1>5. /\ chan[p] \in Seq(Frame) /\ chan[p] # <<>> /\ rxSeq[p] \in Nat \ {0}
      /\ MaxRetries \in Nat /\ chan'[p] = Tail(chan[p])
  BY <1>2, <1>3, RingTypes, ReplyPlaces DEF Arrived
<1>6. f.seq = rxSeq[p] - 1
  <2>1. 1 \in DOMAIN chan[p] /\ f = chan[p][1]  BY <1>5
  <2>2. f.seq >= rxSeq[p] - 1  BY <1>2, <2>1 DEF RingInv, InOrder
  <2> QED BY <1>2, <1>5, <2>2
<1>7. PICK s \in Nat : s = f.seq  BY <1>2
<1>8. /\ InOrder(p)'
      /\ \A t \in Nat : Copies(p, t)' = Copies(p, t) - (IF s = t THEN 1 ELSE 0)
  <2>1. /\ InOrder(p)'
        /\ \A t \in Nat : Copies(p, t)' = Copies(p, t)
              - (IF FromPeer(p, f) /\ f.seq = t THEN 1 ELSE 0)
    BY <1>2, <1>5, HeadTaken DEF RingInv
  <2> QED BY <1>2, <1>7, <2>1
<1> HIDE DEF f
<1>9. \A t \in Nat : /\ Copies(p, t) \in Nat /\ Copies(p, t)' \in Nat
                     /\ Repeats(q, t) \in Nat /\ Repeats(q, t)' = Repeats(q, t)
  <2>1. \A t : Repeats(q, t)' = Repeats(q, t)  BY <1>2 DEF Repeats
  <2> QED BY <1>1, <2>1, RingTypes, PrimedTypes
<1>10. CopiesBound(p)'
  <2>1. \A t \in Nat : Copies(p, t)' + Repeats(q, t)' <= Copies(p, t) + Repeats(q, t)
    BY <1>8, <1>9
  <2> QED BY <1>2, <2>1, CopiesKept DEF RingInv
<1>11. ASSUME pc[p] = "waiting"
       PROVE  /\ slot'[p].frame = slot[p].frame
              /\ slot'[p].ahead + Copies(p, s)' + Repeats(q, s)'
                   + (IF pending'[p] = None THEN MaxRetries + 1 ELSE 0) <= 2 * MaxRetries + 2
  <2> DEFINE room == IF pending[p] = None THEN MaxRetries + 1 ELSE 0
             c == Copies(p, s)
             cc == Copies(p, s)'
             b == Repeats(q, s)
  <2>1. slot[p].ahead + c + b + room <= 2 * MaxRetries + 2
    BY <1>6, <1>7, <1>11, SlotBoundAt DEF RingInv
  <2>2. c \in Nat /\ cc \in Nat /\ b \in Nat /\ cc = c - 1 /\ Repeats(q, s)' = b
    BY <1>8, <1>9
  <2>3. room \in Nat /\ slot[p].ahead \in Nat /\ MaxRetries \in Nat  BY <1>5, RingTypes
  <2>4. pending'[p] = pending[p]  BY <1>2
  <2> HIDE DEF c, cc, b, room
  <2>5. slot[p].ahead + 1 <= 2 * MaxRetries + 2  BY <2>1, <2>2, <2>3
  <2>6. /\ slot'[p].frame = slot[p].frame /\ slot'[p].ahead <= slot[p].ahead + 1
        /\ slot'[p].ahead \in Nat
    BY <1>2, <1>3, <1>11, <2>5, SlotSurvives
  <2>7. slot'[p].ahead + cc + b + room <= 2 * MaxRetries + 2
    BY <2>1, <2>2, <2>3, <2>6
  <2> QED BY <2>2, <2>4, <2>6, <2>7 DEF cc, room
<1>12. SlotBound(p)'  BY <1>2, <1>6, <1>7, <1>11, SlotBoundNext
<1>13. Awaits(p)'  BY <1>2, <1>11, AwaitsKept DEF RingInv
<1> QED BY <1>1, <1>4, <1>8, <1>10, <1>12, <1>13 DEF RingInv

\* p accepts the next frame: its number is the last accepted one from now on,
\* and only repeats of it can still come.
LEMMA AcceptRing ==
    ASSUME IInv, IInv', RingInv, NEW p \in Endpoint, NEW q, q = Peer(p),
           CurrentData(p), Head(chan[p]).seq = rxSeq[p], rxSeq' = [rxSeq EXCEPT ![p] = @ + 1],
           NEW n \in Nat, MayAck(p, n), UNCHANGED <<retries, txSeq, sent>>,
           pc'[p] = "waiting" => pc[p] = "waiting",
           pc'[q] = pc[q], pending'[q] = pending[q]
    PROVE  /\ InOrder(q)' /\ CopiesBound(q)' /\ SlotBound(q)' /\ Awaits(q)'
           /\ InOrder(p)' /\ CopiesBound(p)'
           /\ rxSeq'[p] = rxSeq[p] + 1
<1> DEFINE f == Head(chan[p])
<1>1. q \in Endpoint /\ q # p  BY PeerFacts
<1>2. Arrived(p) /\ FromPeer(p, f) /\ f.seq = rxSeq[p]
  BY DEF CurrentData, Current, FromPeer
<1>3. rxSeq'[p] = rxSeq[p] + 1 /\ rxSeq'[q] = rxSeq[q]
  BY <1>1 DEF IInv, Types, ConnType
<1>4. InOrder(q)' /\ CopiesBound(q)' /\ SlotBound(q)' /\ Awaits(q)'
  BY <1>3, OtherEnd
<1>5. /\ rxSeq[p] \in Nat \ {0} /\ MaxRetries \in Nat /\ chan'[p] = Tail(chan[p])
  BY RingTypes, ReplyPlaces
<1>6. /\ InOrder(p)'
      /\ \A t \in Nat : Copies(p, t)' = Copies(p, t) - (IF rxSeq[p] = t THEN 1 ELSE 0)
  <2>1. /\ InOrder(p)'
        /\ \A t \in Nat : Copies(p, t)' = Copies(p, t)
              - (IF FromPeer(p, f) /\ f.seq = t THEN 1 ELSE 0)
    BY <1>2, <1>3, <1>5, HeadTaken DEF RingInv
  <2> QED BY <1>2, <2>1
<1>7. \A t \in Nat : /\ Copies(p, t) \in Nat /\ Copies(p, t)' \in Nat
                     /\ Repeats(q, t) \in Nat /\ Repeats(q, t)' = Repeats(q, t)
  <2>1. \A t : Repeats(q, t)' = Repeats(q, t)  BY DEF Repeats
  <2> QED BY <1>1, <2>1, RingTypes, PrimedTypes
<1>8. CopiesBound(p)'
  <2> SUFFICES ASSUME NEW t \in Nat
               PROVE  Copies(p, t)' + Repeats(q, t)'
                        <= MaxRetries + (IF t < rxSeq'[p] THEN 0 ELSE 1)
    BY DEF CopiesBound
  <2>1. Copies(p, t) + Repeats(q, t) <= MaxRetries + (IF t < rxSeq[p] THEN 0 ELSE 1)
    BY DEF RingInv, CopiesBound
  <2>2. /\ Copies(p, t) \in Nat /\ Copies(p, t)' \in Nat
        /\ Repeats(q, t) \in Nat /\ Repeats(q, t)' = Repeats(q, t)
    BY <1>7
  <2>3. CASE t = rxSeq[p]
    <3>1. Copies(p, t)' = Copies(p, t) - 1  BY <1>6, <2>3
    <3> QED BY <1>3, <1>5, <2>1, <2>2, <2>3, <3>1
  <2>4. CASE t # rxSeq[p]
    <3>1. Copies(p, t)' = Copies(p, t)  BY <1>6, <2>2, <2>4
    <3>2. t < rxSeq'[p] <=> t < rxSeq[p]  BY <1>3, <1>5, <2>4
    <3> QED BY <2>1, <2>2, <3>1, <3>2
  <2> QED BY <2>3, <2>4
<1> QED BY <1>3, <1>4, <1>6, <1>8

LEMMA BufferRing ==
    ASSUME IInv, IInv', RingInv, TxDepth >= 2 * MaxRetries + 2,
           NEW p \in Endpoint, BufferWhileWaiting(p)
    PROVE  RingInv'
<1> DEFINE q == Peer(p)
           f == Head(chan[p])
           s == rxSeq[p]
<1>1. q \in Endpoint /\ q # p /\ \A r \in Endpoint : r = p \/ r = q
  BY PeerFacts DEF Endpoint, Peer
<1>2. /\ CurrentData(p) /\ f.seq = s /\ pc[p] = "waiting" /\ pending[p] = None
      /\ pending' = [pending EXCEPT ![p] = f.body]
      /\ rxSeq' = [rxSeq EXCEPT ![p] = @ + 1]
      /\ UNCHANGED <<pc, retries, txSeq, sent>>
  BY DEF BufferWhileWaiting, history
<1>3. s \in Nat \ {0} /\ s - 1 \in Nat /\ MaxRetries \in Nat /\ slot[p].ahead \in Nat
  BY RingTypes
<1>4. MayAck(p, s)
  BY <1>2, SettingsType DEF BufferWhileWaiting, MayAck
<1>5. pending'[p] # None /\ pending'[q] = pending[q]
  <2>1. f.body \in Chunk  BY <1>2, NextFrameFacts
  <2> QED BY <1>1, <1>2, <2>1, ChunkNotNone DEF IInv, Types, ConnType
<1>6. /\ InOrder(q)' /\ CopiesBound(q)' /\ SlotBound(q)' /\ Awaits(q)'
      /\ InOrder(p)' /\ CopiesBound(p)' /\ rxSeq'[p] = rxSeq[p] + 1
  BY <1>2, <1>3, <1>4, <1>5, AcceptRing
<1>7. slot[p].ahead <= MaxRetries + 1
  <2>1. PICK t \in Nat : t = s - 1  BY <1>3
  <2>2. slot[p].ahead + Copies(p, t) + Repeats(q, t) + (MaxRetries + 1) <= 2 * MaxRetries + 2
    BY <1>2, <2>1, SlotBoundAt DEF RingInv
  <2>3. Copies(p, t) \in Nat /\ Repeats(q, t) \in Nat  BY <1>1, RingTypes
  <2> QED BY <1>3, <2>2, <2>3
<1>8. /\ slot'[p].frame = slot[p].frame /\ slot'[p].ahead <= slot[p].ahead + 1
      /\ slot'[p].ahead \in Nat
  <2>1. slot[p].ahead + 1 <= 2 * MaxRetries + 2  BY <1>3, <1>7
  <2> QED BY <1>2, <1>3, <1>4, <2>1, SlotSurvives
<1>9. SlotBound(p)'
  <2>1. PICK t \in Nat : t = s  BY <1>3
  <2>2. t < rxSeq'[p] /\ t = rxSeq'[p] - 1  BY <1>3, <1>6, <2>1
  <2>3. Copies(p, t)' + Repeats(q, t)' <= MaxRetries + 0
    BY <1>6, <2>2 DEF CopiesBound
  <2>4. Copies(p, t)' \in Nat /\ Repeats(q, t)' \in Nat  BY <1>1, PrimedTypes
  <2>5. slot'[p].ahead + Copies(p, t)' + Repeats(q, t)' + 0 <= 2 * MaxRetries + 2
    BY <1>3, <1>7, <1>8, <2>3, <2>4
  <2> QED BY <1>5, <2>2, <2>5, SlotBoundNext
<1>10. Awaits(p)'  BY <1>2, <1>8, AwaitsKept DEF RingInv
<1> QED BY <1>1, <1>6, <1>9, <1>10 DEF RingInv

LEMMA TakeDataRing ==
    ASSUME IInv, IInv', RingInv, NEW p \in Endpoint, TakeData(p)
    PROVE  RingInv'
<1> DEFINE q == Peer(p)
           f == Head(chan[p])
<1>1. q \in Endpoint /\ q # p /\ \A r \in Endpoint : r = p \/ r = q
  BY PeerFacts DEF Endpoint, Peer
<1>2. /\ CurrentData(p) /\ f.seq = rxSeq[p] /\ rxSeq' = [rxSeq EXCEPT ![p] = @ + 1]
      /\ Proceed(p, left[p] - 1, "receiving")
      /\ UNCHANGED <<retries, txSeq, pending, sent>>
  BY DEF TakeData
<1>3. pc'[p] # "waiting" /\ pc'[q] = pc[q]
  BY <1>1, <1>2 DEF Proceed, IInv, Types, CallType
<1>4. f.seq \in Nat /\ MayAck(p, f.seq)
  <2>1. f.seq \in Nat  BY <1>2, RingTypes
  <2>2. rdma_send_fixed_ack(p, f.seq, AckDue(p, f.seq)) /\ AckDue(p, f.seq) \in BOOLEAN
    BY SettingsType DEF TakeData, AckDue
  <2> QED BY <2>1, <2>2 DEF MayAck
<1>5. /\ InOrder(q)' /\ CopiesBound(q)' /\ SlotBound(q)' /\ Awaits(q)'
      /\ InOrder(p)' /\ CopiesBound(p)'
  BY <1>2, <1>3, <1>4, AcceptRing
<1>6. SlotBound(p)' /\ Awaits(p)'  BY <1>3 DEF SlotBound, Awaits
<1> QED BY <1>1, <1>5, <1>6 DEF RingInv

LEMMA InitRing ==
    ASSUME Init PROVE RingInv
<1> SUFFICES ASSUME NEW p \in Endpoint
             PROVE  InOrder(p) /\ CopiesBound(p) /\ SlotBound(p) /\ Awaits(p)
  BY DEF RingInv
<1>1. /\ pc[p] = "idle" /\ pc[Peer(p)] = "idle" /\ rxSeq[p] = 1 /\ MaxRetries \in Nat
  BY PeerFacts, SettingsType DEF Init
<1>2. chan[p] \in Seq(Frame) /\ \A i \in DOMAIN chan[p] : ~FromPeer(p, chan[p][i])
  <2>1. chan[p] \in Seq({f \in Frame : f.cookie = OldCookie})
    BY StaleType DEF Init
  <2>2. \A i \in DOMAIN chan[p] : chan[p][i] \in Frame /\ chan[p][i].cookie = OldCookie
    BY <2>1
  <2>3. chan[p] \in Seq(Frame)  BY <2>1
  <2> QED BY <2>2, <2>3, PeerFacts, EndpointsDiffer DEF FromPeer
<1>3. \A s \in Nat : Copies(p, s) = 0 /\ Repeats(Peer(p), s) = 0
  <2>1. \A s \in Nat : \A i \in DOMAIN chan[p] : chan[p][i] \notin DataOf(p, s)
    BY <1>2 DEF DataOf
  <2>2. \A s \in Nat : Copies(p, s) = 0  BY <1>2, <2>1, CountType DEF Copies
  <2> QED BY <1>1, <2>2 DEF Repeats
<1>4. InOrder(p)  BY <1>2 DEF InOrder
<1>5. CopiesBound(p)  BY <1>1, <1>3 DEF CopiesBound
<1> QED BY <1>1, <1>4, <1>5 DEF SlotBound, Awaits

LEMMA RingStep ==
    ASSUME IInv, RingInv, TxDepth >= 2 * MaxRetries + 2, [Next]_vars
    PROVE  RingInv'
<1>1. IInv'  BY NextInv
<1>2. CASE UNCHANGED vars
  <2>1. UNCHANGED <<chan, txSeq, rxSeq, sent, pc, slot, pending, retries>>
    BY <1>2 DEF vars, call, conn, history
  <2> QED BY <1>1, <2>1, StillRing
<1>3. ASSUME NEW p \in Endpoint, Work(p) \/ QueuePairError(p) \/ Lose(p)
      PROVE  RingInv'
  <2>1. CASE \/ BeginCall(p) \/ AwaitCommand(p) \/ ReadPending(p)
             \/ PeerGone(p) \/ QueuePairError(p)
    BY <1>1, <2>1, IdleRing
  <2>2. CASE SendFrame(p)           BY <1>1, <2>2, SendRing
  <2>3. CASE Timeout(p)             BY <1>1, <2>3, TimeoutRing
  <2>4. CASE DropStale(p) \/ RejectFuture(p) \/ RejectSecondBuffer(p)
    BY <1>1, <2>4, DropRing
  <2>5. CASE TakeAck(p)             BY <1>1, <2>5, TakeAckRing
  <2>6. CASE TakeDuplicate(p)       BY <1>1, <2>6, DuplicateRing
  <2>7. CASE BufferWhileWaiting(p)  BY <1>1, <2>7, BufferRing
  <2>8. CASE TakeData(p)            BY <1>1, <2>8, TakeDataRing
  <2>9. CASE Lose(p)                BY <1>1, <2>9, LoseRing
  <2> QED BY <1>3, <2>1, <2>2, <2>3, <2>4, <2>5, <2>6, <2>7, <2>8, <2>9 DEF Work
<1> QED BY <1>2, <1>3 DEF Next

\* With 2 * retries + 2 slots in the transmit ring or more, a timeout of
\* rdma_wait_fixed_ack always finds the awaited frame in its slot: for every
\* window, ACK mode, session and loss, the ACKs sent during one wait do not go
\* round the ring.
THEOREM RingHoldsAwaited ==
    ASSUME TxDepth >= 2 * MaxRetries + 2
    PROVE  Spec => []RetransmitsAwaited
<1>1. Init => RingInv  BY InitRing
<1>2. IInv /\ RingInv /\ [Next]_vars => RingInv'  BY RingStep
<1>3. RingInv => RetransmitsAwaited  BY DEF RingInv, Awaits, RetransmitsAwaited
<1> QED BY <1>1, <1>2, <1>3, Invariance, PTL DEF Spec
=============================================================================
