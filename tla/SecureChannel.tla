--------------------------- MODULE SecureChannel ---------------------------
(***************************************************************************)
(* What the SSH packet layer promises to the code above it: each direction *)
(* of a connection is a channel that hands the reader the packets the      *)
(* writer started, in the order written, each once and unaltered, and      *)
(* decrypted with the keys it was encrypted with: a packet read with other *)
(* keys, or out of its place in the stream, is not the packet that was     *)
(* written.  The channel may stop at any point (a socket is closed, a call *)
(* fails), but it never hands out a packet out of turn.                    *)
(***************************************************************************)
LOCAL INSTANCE Naturals
LOCAL INSTANCE Sequences

CONSTANTS
    Peers,   \* the two ends of the connection
    Msgs     \* the message types a packet may carry

ASSUME Peers # {}

VARIABLES
    sent,    \* [Peers -> Seq(Msgs)]: the packets each end has started to write
    recvd    \* [Peers -> Seq(Msgs)]: the packets each end has read

vars == <<sent, recvd>>

\* The other end of a two-ended connection.
Peer(p) == CHOOSE q \in Peers : q # p

Init == /\ sent = [p \in Peers |-> <<>>]
        /\ recvd = [p \in Peers |-> <<>>]

\* End p starts writing packet m.
Send(p, m) == /\ sent' = [sent EXCEPT ![p] = Append(@, m)]
              /\ UNCHANGED recvd

\* End p reads the oldest packet of the other end that it has not read.
Deliver(p) ==
    LET n == Len(recvd[p]) IN
    /\ n < Len(sent[Peer(p)])
    /\ recvd' = [recvd EXCEPT ![p] = Append(@, sent[Peer(p)][n + 1])]
    /\ UNCHANGED sent

Next == \E p \in Peers : Deliver(p) \/ \E m \in Msgs : Send(p, m)

Spec == Init /\ [][Next]_vars

====
