--------------------------- MODULE ReliableStream ---------------------------
(***************************************************************************)
(* What the RDMA frame link promises to the two ends of one RPC            *)
(* connection, without frames, acknowledgements, timeouts or loss.  Each   *)
(* end submits items; the other end accepts them exactly once and in the   *)
(* order they were submitted; an item is confirmed to its sender only once *)
(* the other end has accepted it.                                          *)
(***************************************************************************)
EXTENDS Naturals, Sequences

CONSTANTS
    Client, Server,   \* the two ends of the connection
    Item              \* what is submitted: the payload of one frame

Endpoint == {Client, Server}
Peer(p) == IF p = Client THEN Server ELSE Client

VARIABLES
    sent,       \* sent[p]: everything p has submitted, in order
    accepted,   \* accepted[p]: everything p has accepted from its peer
    confirmed   \* confirmed[p]: how many of p's items p knows to be accepted

vars == <<sent, accepted, confirmed>>

Init ==
    /\ sent = [p \in Endpoint |-> <<>>]
    /\ accepted = [p \in Endpoint |-> <<>>]
    /\ confirmed = [p \in Endpoint |-> 0]

Submit(p) ==
    /\ \E x \in Item : sent' = [sent EXCEPT ![p] = Append(@, x)]
    /\ UNCHANGED <<accepted, confirmed>>

Accept(p) ==
    LET next == Len(accepted[p]) + 1
    IN  /\ next <= Len(sent[Peer(p)])
        /\ accepted' = [accepted EXCEPT ![p] = Append(@, sent[Peer(p)][next])]
        /\ UNCHANGED <<sent, confirmed>>

Confirm(p) ==
    /\ \E n \in confirmed[p] + 1 .. Len(accepted[Peer(p)]) :
          confirmed' = [confirmed EXCEPT ![p] = n]
    /\ UNCHANGED <<sent, accepted>>

Next == \E p \in Endpoint : Submit(p) \/ Accept(p) \/ Confirm(p)

Spec == Init /\ [][Next]_vars
=============================================================================
