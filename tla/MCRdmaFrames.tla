---------------------------- MODULE MCRdmaFrames ----------------------------
(***************************************************************************)
(* Instances of RdmaFrames for TLC.                                        *)
(***************************************************************************)
EXTENDS RdmaFrames

FromClient(n) == [from |-> Client, frames |-> n]
FromServer(n) == [from |-> Server, frames |-> n]

\* A command with its input, a two-part response (size, data), a next command.
Exchange == <<FromClient(2), FromServer(1), FromServer(1), FromClient(1)>>
\* Requests without a response, as a model upload makes them.
Upload == <<FromClient(3), FromClient(0), FromClient(2)>>
Windowed == <<FromClient(5), FromServer(1), FromServer(2), FromClient(2)>>

Each(v) == [p \in Endpoint |-> v]
Each1 == Each(1)
Each2 == Each(2)
Each4 == Each(4)
EachTrue == Each(TRUE)

\* An ACK and a data frame of an earlier connection whose sequence numbers
\* this connection also uses.
StaleAck == [kind |-> "ack", seq |-> 2, cookie |-> OldCookie, body |-> None]
StaleData == [kind |-> "data", seq |-> 1, cookie |-> OldCookie, body |-> <<1, 2>>]
Clean == {<<>>}
Leftovers == {<<>>, <<StaleAck>>, <<StaleData, StaleAck>>}
=============================================================================
