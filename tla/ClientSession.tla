--------------------------- MODULE ClientSession ---------------------------
(***************************************************************************)
(* The client's steady state: CClientTransport::mainTask after the         *)
(* service is accepted (ClientTask.cpp:52-106), with a key re-exchange the *)
(* server starts (handleTransportPacket, performKeyExchange(false, false)).*)
(* The server is any implementation that follows RFC 4253: it may send     *)
(* service data, and may start one re-exchange by sending KEXINIT; it then *)
(* expects the client's KEXINIT, KEXDH_INIT and NEWKEYS, in that order.    *)
(*                                                                         *)
(* The client's packets are two units, its first block and the rest, and   *)
(* sendPacketNonblock writes any number of the units left (as in           *)
(* SSHTransport).  The server's packets arrive whole.                      *)
(***************************************************************************)
EXTENDS Integers, Sequences

CONSTANTS
    MaxData     \* service packets each side sends

Units == 2
NoPacket == [state |-> "NO_PACKET", type |-> "NONE", seq |-> 0, sent |-> 0]

VARIABLES
    cpc,       \* the client thread's location
    abort,     \* the client's abort event
    snd,       \* the client's sendState: the packet in the buffer, units written
    cseq,      \* the client's send sequence number
    cdata,     \* service packets the client has queued
    ckeys,     \* the client's keys: the number of exchanges it completed
    remoteKex, \* the generation of the server KEXINIT in m_remoteKex
    c2s,       \* the client-to-server stream, in units
    s2c,       \* the server-to-client stream, in whole packets
    spc,       \* the server's key-exchange state
    sdata,     \* service packets the server has sent
    skeys,     \* the server's keys
    rejected   \* what the server rejected, or "NONE"

vars == <<cpc, abort, snd, cseq, cdata, ckeys, remoteKex, c2s, s2c, spc, sdata, skeys, rejected>>
client == <<cpc, snd, cseq, cdata, ckeys, remoteKex>>
server == <<spc, sdata, skeys, rejected>>

Unit(p, i) == [type |-> p.type, seq |-> p.seq, idx |-> i, keys |-> ckeys]
Packet(t)  == [state |-> "SENDING", type |-> t, seq |-> cseq, sent |-> 0]

\* sendPacketNonblock (send.cpp:31-78): any number of the units left; a
\* packet fully written returns to NO_PACKET.
Write(k) ==
    /\ c2s' = c2s \o [i \in 1..k |-> Unit(snd, snd.sent + i)]
    /\ snd' = IF snd.sent + k = Units THEN NoPacket ELSE [snd EXCEPT !.sent = @ + k]

\* newPacket (packets.cpp:77-81) and a message written into the buffer.
NewPacket(t) == snd' = Packet(t) /\ cseq' = cseq + 1

\* The first packet in the server-to-client stream, as readPacketNonblock
\* returns it (read.cpp:27-194).
Front == Head(s2c)

(***************************************************************************)
(* The client thread.                                                      *)
(***************************************************************************)
\* The abort check at the top of the loop (ClientTask.cpp:54-58):
\* disconnect, which closes the socket without sending (CTransport.cpp:155).
ClientAbort ==
    /\ cpc = "Main" /\ abort
    /\ cpc' = "Done"
    /\ UNCHANGED <<abort, snd, cseq, cdata, ckeys, remoteKex, c2s, s2c, server>>

\* Output (ClientTask.cpp:61-81): the packet being sent, or the service's
\* next packet.  PENDING and OK both go on to the input step.
ClientOutput ==
    /\ cpc = "Main" /\ ~abort
    /\ cpc' = "Input"
    /\ \/ /\ snd.state # "NO_PACKET"
          /\ \E k \in 0..Units - snd.sent : Write(k)
          /\ UNCHANGED <<cseq, cdata>>
       \/ /\ snd.state = "NO_PACKET" /\ cdata < MaxData
          /\ cseq' = cseq + 1 /\ cdata' = cdata + 1
          /\ \E k \in 0..Units : LET p == Packet("DATA")
                                 IN /\ c2s' = c2s \o [i \in 1..k |-> Unit(p, i)]
                                    /\ snd' = IF k = Units THEN NoPacket ELSE [p EXCEPT !.sent = k]
       \/ /\ snd.state = "NO_PACKET" /\ cdata = MaxData
          /\ UNCHANGED <<snd, cseq, cdata, c2s>>
    /\ UNCHANGED <<abort, ckeys, remoteKex, s2c, server>>

\* A send on the socket the server has closed fails, whether it continues a
\* packet (disconnect, then return) or starts the service's next one
\* (return): either way mainTask ends (ClientTask.cpp:61-81).
ClientOutputFails ==
    /\ cpc = "Main" /\ ~abort /\ spc = "Closed"
    /\ snd.state # "NO_PACKET" \/ cdata < MaxData
    /\ cpc' = "Done"
    /\ UNCHANGED <<abort, snd, cseq, cdata, ckeys, remoteKex, c2s, s2c, server>>

\* isTransportPacket (CTransport.cpp:239-258).
TransportTypes == {"DISCONNECT", "IGNORE", "UNIMPLEMENTED", "DEBUG", "SERVICE_REQUEST",
                   "SERVICE_ACCEPT", "KEXINIT", "NEWKEYS"}

\* handleTransportPacket (ClientTask.cpp:280-303): KEXINIT starts
\* performKeyExchange(false, false); any other message ends mainTask.
HandleTransportPacket(t) == IF t = "KEXINIT" THEN "Kex" ELSE "Done"

\* readPacketNonblock consumes IGNORE and DEBUG and returns NO_PACKET for
\* them (read.cpp:186-190).
Swallowed == {"IGNORE", "DEBUG"}

\* Input (ClientTask.cpp:83-105): no packet yet, a transport message, or a
\* message for the service (whose handler accepts the server's data).  A
\* read on a socket the server closed fails (ClientReadFails).
ClientInput ==
    /\ cpc = "Input"
    /\ \/ /\ s2c = <<>> /\ spc # "Closed" /\ cpc' = "Main" /\ UNCHANGED s2c
       \/ /\ s2c # <<>> /\ s2c' = Tail(s2c)
          /\ cpc' = IF Front.type \in TransportTypes \ Swallowed
                     THEN HandleTransportPacket(Front.type)
                     ELSE "Main"
    /\ UNCHANGED <<abort, snd, cseq, cdata, ckeys, remoteKex, c2s, server>>

\* performKeyExchange (CClientTransport.cpp:192-231) up to the DH request:
\* exchangeKeyExchanges (exchange.cpp:122-192) writes the client's KEXINIT
\* after newPacket, which drops whatever was being sent; neither sends it
\* nor reads the server's KEXINIT, whose parse is left in m_remoteKex; the
\* lists still match; ClientKeyExchange (diffie-client.cpp:19-32) starts a
\* new packet with KEXDH_INIT in place of the KEXINIT.
ClientKexStart ==
    /\ cpc = "Kex"
    /\ NewPacket("KEXDH_INIT")
    /\ cpc' = "SendDhInit"
    /\ UNCHANGED <<abort, cdata, ckeys, remoteKex, c2s, s2c, server>>

\* The blocking sendPacket of exchangeAndExpect (exchange.cpp:197-204).
ClientSend(next) ==
    /\ snd.state # "NO_PACKET"
    /\ \E k \in 1..Units - snd.sent : Write(k)
    /\ cpc' = IF snd'.state = "NO_PACKET" THEN next ELSE cpc
    /\ UNCHANGED <<abort, cseq, cdata, ckeys, remoteKex, s2c, server>>

\* The blocking readPacket of exchangeAndExpect (exchange.cpp:206-214) and
\* the reply's checks: KEXDH_REPLY, and the server's signature over an
\* exchange hash the client computed from m_remoteKex
\* (diffie-client.cpp:35-64).  A failure disconnects (cleanup,
\* CClientTransport.cpp:271-277).
ClientReadDhReply ==
    /\ cpc = "ReadDhReply" /\ s2c # <<>>
    /\ s2c' = Tail(s2c)
    /\ IF Front.type = "KEXDH_REPLY" /\ Front.kexinit = remoteKex
       THEN /\ snd' = Packet("NEWKEYS") /\ cseq' = cseq + 1 /\ cpc' = "SendNewKeys"
       ELSE /\ cpc' = "Done" /\ UNCHANGED <<snd, cseq>>
    /\ UNCHANGED <<abort, cdata, ckeys, remoteKex, c2s, server>>

\* TakeKeysIntoUse (keys.cpp:153-163): NEWKEYS expected, then the new keys.
ClientReadNewKeys ==
    /\ cpc = "ReadNewKeys" /\ s2c # <<>>
    /\ s2c' = Tail(s2c)
    /\ IF Front.type = "NEWKEYS"
       THEN cpc' = "Main" /\ ckeys' = ckeys + 1
       ELSE cpc' = "Done" /\ UNCHANGED ckeys
    /\ UNCHANGED <<abort, snd, cseq, cdata, remoteKex, c2s, server>>

\* readPacket's abort check after each poll (read.cpp:27-37), and a read on
\* a socket the server has closed: the key exchange fails, or mainTask
\* returns ("Failed to read packet").
ClientReadFails ==
    /\ cpc \in {"Input", "ReadDhReply", "ReadNewKeys"} /\ s2c = <<>>
    /\ \/ abort /\ cpc # "Input"
       \/ spc = "Closed"
    /\ cpc' = "Done"
    /\ UNCHANGED <<abort, snd, cseq, cdata, ckeys, remoteKex, c2s, s2c, server>>

(***************************************************************************)
(* The server, RFC 4253 sections 7 and 8.                                  *)
(***************************************************************************)
SPacket(t, k) == [type |-> t, kexinit |-> k]

\* Service data, or an IGNORE message (which RFC 4253 section 11.2 lets
\* either side send at any time), while no exchange is under way.
ServerData ==
    /\ spc = "Steady" /\ sdata < MaxData
    /\ \E t \in {"DATA", "IGNORE"} : s2c' = Append(s2c, SPacket(t, 0))
    /\ sdata' = sdata + 1
    /\ UNCHANGED <<client, abort, c2s, spc, skeys, rejected>>

\* The server starts the one re-exchange: its KEXINIT, generation 1.
ServerStartKex ==
    /\ spc = "Steady" /\ skeys = 0
    /\ s2c' = Append(s2c, SPacket("KEXINIT", 1)) /\ spc' = "WaitKexInit"
    /\ UNCHANGED <<client, abort, c2s, sdata, skeys, rejected>>

\* A whole packet from the client: its units in order, under the keys the
\* server uses.  Which messages are allowed depends on the exchange state.
Expected == [Steady |-> {"DATA"}, WaitKexInit |-> {"DATA", "KEXINIT"},
             WaitDhInit |-> {"KEXDH_INIT"}, WaitNewKeys |-> {"NEWKEYS"}]
NextState == [DATA |-> spc, KEXINIT |-> "WaitDhInit", KEXDH_INIT |-> "WaitNewKeys",
              NEWKEYS |-> "Steady"]
Reply == [DATA |-> <<>>, KEXINIT |-> <<>>,
          KEXDH_INIT |-> <<SPacket("KEXDH_REPLY", 1), SPacket("NEWKEYS", 0)>>,
          NEWKEYS |-> <<>>]

ServerReceive ==
    /\ spc \in DOMAIN Expected /\ Len(c2s) >= Units
    /\ LET u1 == c2s[1]
           u2 == c2s[2]
           framed == u1.idx = 1 /\ u2.idx = 2 /\ u1.seq = u2.seq /\ u1.keys = skeys
       IN \/ /\ framed /\ u1.type \in Expected[spc]
             /\ spc' = NextState[u1.type]
             /\ s2c' = s2c \o Reply[u1.type]
             /\ skeys' = IF u1.type = "NEWKEYS" THEN skeys + 1 ELSE skeys
             /\ UNCHANGED rejected
          \/ /\ ~(framed /\ u1.type \in Expected[spc])
             /\ rejected' = IF framed THEN u1.type ELSE "FRAMING"
             /\ spc' = "Closed" /\ UNCHANGED <<s2c, skeys>>
    /\ c2s' = SubSeq(c2s, Units + 1, Len(c2s))
    /\ UNCHANGED <<client, abort, sdata>>

RequestAbort == ~abort /\ cpc # "Done" /\ abort' = TRUE /\ UNCHANGED <<client, c2s, s2c, server>>

\* The client has returned, or both sides wait with nothing left to do.
Terminated ==
    /\ \/ cpc = "Done"
       \/ /\ cpc \in {"Main", "Input"} /\ snd = NoPacket /\ cdata = MaxData
          /\ spc = "Steady" /\ sdata = MaxData /\ skeys = 1
          /\ s2c = <<>> /\ c2s = <<>>
    /\ UNCHANGED vars

Init ==
    /\ cpc = "Main" /\ abort = FALSE /\ snd = NoPacket /\ cseq = 0 /\ cdata = 0
    /\ ckeys = 0 /\ remoteKex = 0 /\ c2s = <<>> /\ s2c = <<>>
    /\ spc = "Steady" /\ sdata = 0 /\ skeys = 0 /\ rejected = "NONE"

Next ==
    \/ ClientAbort \/ ClientOutput \/ ClientOutputFails \/ ClientInput \/ ClientKexStart
    \/ cpc = "SendDhInit" /\ ClientSend("ReadDhReply")
    \/ ClientReadDhReply
    \/ cpc = "SendNewKeys" /\ ClientSend("ReadNewKeys")
    \/ ClientReadNewKeys \/ ClientReadFails
    \/ ServerData \/ ServerStartKex \/ ServerReceive
    \/ RequestAbort \/ Terminated

Spec == Init /\ [][Next]_vars

\* The server never rejects what the client sends: RFC 4253 section 7.1
\* requires a party that receives KEXINIT to answer with its own before any
\* other key exchange message, and section 6 requires packets to be sent
\* whole and in order.
ServerAcceptsClient == rejected = "NONE"

====
