---------------------------- MODULE SSHTransport ----------------------------
(***************************************************************************)
(* One SSH connection between a CClientTransport and a CServerTransport of *)
(* this repository, each run by its own thread (the Task() methods), from  *)
(* the TCP connect to the first user-authentication message.              *)
(*                                                                         *)
(* The byte stream of each direction is a sequence of units.  A line       *)
(* (MOTD or version string) is one unit.  A binary packet is two units:    *)
(* its first cipher block, and the rest of it with its MAC.  send() may    *)
(* accept any number of the units still to be written, and units arrive at *)
(* the receiving socket one at a time, so packets are split both when      *)
(* written and when read, as TCP may split them.  A unit carries the       *)
(* packet's type, its header snapshot (sender, sequence number), its       *)
(* position in the packet and the keys it was encrypted with; this is all  *)
(* the receiver's checks (size, padding, block alignment, HMAC) can tell   *)
(* apart.  Keys are the pair (exchange hash, session id) they are derived  *)
(* from; the exchange hash is the pair of KEXINIT header snapshots that    *)
(* enter it.                                                               *)
(***************************************************************************)
EXTENDS Integers, Sequences, FiniteSets, Services

CONSTANTS
    MaxMotdComments,  \* the client's SSHD_SETTING_MAX_MOTD_COMMENTS
    Configs,          \* the settings and files a run may start with
    AuthSvcName       \* the authentication service the client's IAuthenticate names

\* algsMatch: the two KEXINITs have a common algorithm in every category;
\* authServices: sshd's m_regAuthServices, the authentication services
\* registered with the server before it starts; keyLoaded: the server's host key pair loads; motd: the lines of the
\* MOTD file (0 when the MOTD is disabled).
ASSUME MaxMotdComments \in Nat
ASSUME Configs \subseteq [algsMatch : BOOLEAN, authServices : Seq([name : STRING, creates : SUBSET BOOLEAN]),
                          keyLoaded : BOOLEAN, motd : Nat]

Client == "client"
Server == "server"
Peers  == {Client, Server}
Other(p) == IF p = Client THEN Server ELSE Client

UnitsPerPacket == 2       \* the first cipher block; the rest of the packet and its MAC
NoId   == <<"none", 0>>                 \* header snapshot of no packet
NoHash == [ic |-> NoId, is |-> NoId]    \* no exchange hash / empty m_sessionIdent
NoKeys == [h |-> NoHash, sid |-> NoHash] \* sendState/readState without cipher and hmac

\* The result codes of errors.h that the modelled calls return.
Results == {"OK", "ERROR", "PACKET_PENDING", "NO_PACKET", "PROTOCOL_ERROR",
            "DISCONNECTED", "CONNECTION_ABORTED"}

\* Where a thread is.  A location of SendLocs is a blocking sendPacket() and
\* one of ReadLocs a blocking readPacket(); ret is the result it returned.
SendLocs == {"KexInitSend", "DhInitSend", "DhReplySend", "NewKeysSend",
             "SvcReqSend", "AcceptSend", "Flush"}
ReadLocs == {"KexInitRead", "DhReplyRead", "DhInitRead", "NewKeysRead",
             "SvcAcceptRead"}
\* Locations after ds->setBlockingMode(false), where every wait polls.
PacketModeLocs == SendLocs \cup ReadLocs \cup {"Auth", "AuthOut", "Disconnect"}

VARIABLES
    pc,          \* [Peers -> location]
    ret,         \* [Peers -> result of the blocking call at pc, or "NONE"]
    polled,      \* [Peers -> BOOLEAN]: readPacket() is past its first call
    abort,       \* [Peers -> BOOLEAN]: the thread's abort event is set
    connected,   \* the client's TCP connection is established (accept backlog)
    accepted,    \* the listener accepted it and runs a CServerTransport thread
    listener,    \* where sshd::Task is: "Bind", "Listen", "Wait" (performShutdown), "Done"
    stop,        \* sshd's m_abortEvent: the application asked the server to stop
    open,        \* [Peers -> BOOLEAN]: the socket is not closed (ds->disconnect)
    pipe,        \* [Peers -> Seq(unit)]: units written by p not yet read
    arrived,     \* [Peers -> Nat]: how many of them reached the reader
    snd,         \* [Peers -> sendState with m_writePos's payload]
    rcv,         \* [Peers -> readState with the payload buffer's contents]
    kex,         \* [Peers -> m_localKex/m_remoteKex headers, hash, session id]
    lineCount,   \* [Peers -> MOTD lines written (server) or skipped (client)]
    status,      \* the client's m_status
    authState,   \* the server's m_authState
    authOut,     \* messages the client's IAuthenticate still has to send
    conf,        \* the settings of this run
    rlog,        \* history: [Peers -> Seq of packets the peer decoded]
    sentLog,     \* history: [Peers -> Seq of the types of the packets it started]
    discCalled,  \* history: [Peers -> BOOLEAN]: CTransport::disconnect was called
    fault        \* history: [Peers -> errors of recv() the reader turned fatal]

listening == <<connected, listener, stop>>
net     == <<accepted, listening, pipe, arrived>>
thread  == <<pc, ret, polled>>
session == <<kex, lineCount, authState, authOut>>
ghost   == <<rlog, sentLog, discCalled, fault>>
vars    == <<thread, abort, net, open, snd, rcv, session, status, conf, ghost>>

Line(t) == [type |-> t, idx |-> 0, id |-> NoId, keys |-> NoKeys]

(***************************************************************************)
(* Thread control helpers.                                                 *)
(***************************************************************************)
Goto(p, l) == /\ pc' = [pc EXCEPT ![p] = l]
              /\ ret' = [ret EXCEPT ![p] = "NONE"]
              /\ polled' = [polled EXCEPT ![p] = FALSE]

\* Moves the thread to location l; closes its socket (ds->disconnect) when
\* close, records a call of CTransport::disconnect when disc, and sets the
\* client's m_status to st unless st is "".
Move(p, l, close, disc, st) ==
    /\ Goto(p, l)
    /\ open' = IF close THEN [open EXCEPT ![p] = FALSE] ELSE open
    /\ discCalled' = IF disc THEN [discCalled EXCEPT ![p] = TRUE] ELSE discCalled
    /\ status' = IF p = Client /\ st # "" THEN st ELSE status

Jump(p, l) == Move(p, l, FALSE, FALSE, "")
\* A call of CTransport::disconnect(reason) (CTransport.cpp:140).
StartDisconnect(p) == Move(p, "Disconnect", FALSE, TRUE, "")
\* establishConnection failed: Task() closes the socket and returns
\* (CClientTransport.cpp:125-133, ServerTask.cpp:37-41, 47).
CloseAndExit(p) == Move(p, "Done", TRUE, FALSE, "FAILURE")
\* The client's mainTask() failed: m_status becomes FAILURE, then Task()
\* sets CLOSED; the socket is left open (ClientTask.cpp:28-31,
\* CClientTransport.cpp:138-143).
ExitMain(p) == Move(p, "Done", FALSE, FALSE, "CLOSED")

\* CTransport::newPacket (packets.cpp:77-81) followed by the writes of a
\* message of type t into the payload.
NewPacket(p, t) == snd' = [snd EXCEPT ![p].st = "NO_PACKET", ![p].msg = t]

(***************************************************************************)
(* The send side of the packet engine.                                     *)
(***************************************************************************)
\* initSendState, sendCalcDigest and sendEncryptData (send.cpp:36-46,
\* 84-152): take the next sequence number, keep a copy of the header,
\* encrypt and MAC the packet with the keys in use now.
\* Mutant: the sequence number is not advanced per packet.
InitSendStateNoSeq(p, s) ==
    [s EXCEPT !.hdr = <<p, s.seq>>, !.enc = s.keys, !.count = 0, !.st = "SENDING_PACKET"]

InitSendState(p, s) ==
    [s EXCEPT !.seq = @ + 1, !.hdr = <<p, s.seq>>,
              !.enc = s.keys, !.count = 0, !.st = "SENDING_PACKET"]

SendState(p, s) == IF s.st = "NO_PACKET" THEN InitSendState(p, s) ELSE s

\* sendPacketNonblock (send.cpp:31-78) from sendState s0, when send()
\* accepts k > 0 units, or fails because the peer has closed its socket.
\* Mutant: the bytes still to write are computed one too many.
SendOutcomesOffByOne(p, s0) ==
    LET s == SendState(p, s0)
        Wrote(k) ==
            LET n == s.count + k
            IN [snd   |-> [s EXCEPT !.count = n,
                                    !.st = IF n = UnitsPerPacket THEN "NO_PACKET" ELSE @],
                units |-> [i \in 1..k |-> [type |-> s.msg, idx |-> s.count + i,
                                           id |-> s.hdr, keys |-> s.enc]],
                res   |-> IF n = UnitsPerPacket THEN "OK" ELSE "PACKET_PENDING"]
    IN IF open[Other(p)]
         THEN {Wrote(k) : k \in 1..(UnitsPerPacket - s.count + 1)}
         ELSE {[snd |-> s, units |-> <<>>, res |-> "ERROR"]}

SendOutcomes(p, s0) ==
    LET s == SendState(p, s0)
        Wrote(k) ==
            LET n == s.count + k
            IN [snd   |-> [s EXCEPT !.count = n,
                                    !.st = IF n = UnitsPerPacket THEN "NO_PACKET" ELSE @],
                units |-> [i \in 1..k |-> [type |-> s.msg, idx |-> s.count + i,
                                           id |-> s.hdr, keys |-> s.enc]],
                res   |-> IF n = UnitsPerPacket THEN "OK" ELSE "PACKET_PENDING"]
    IN IF open[Other(p)]
         THEN {Wrote(k) : k \in 1..(UnitsPerPacket - s.count)}
         ELSE {[snd |-> s, units |-> <<>>, res |-> "ERROR"]}

\* sendPacketNonblock when writePossible() is false (send.cpp:50-51).
NotWritable(p, s0) == [snd |-> SendState(p, s0), units |-> <<>>, res |-> "PACKET_PENDING"]

\* The effect of one sendPacketNonblock call with outcome o.
Transmit(p, o) ==
    /\ snd' = [snd EXCEPT ![p] = o.snd]
    /\ pipe' = [pipe EXCEPT ![p] = @ \o o.units]
    /\ sentLog' = [sentLog EXCEPT ![p] =
                        IF o.units # <<>> /\ Head(o.units).idx = 1
                          THEN Append(@, o.snd.msg) ELSE @]

(***************************************************************************)
(* The receive side: readPacketNonblock (read.cpp:42-197) as a function    *)
(* of the state, returning the result, the new readState, the number of    *)
(* units taken from the socket and what was decoded.                      *)
(***************************************************************************)
Decoded(u, r) == [type |-> u.type, id |-> u.id, enc |-> u.keys, dec |-> r.keys,
                  framed |-> u.idx = 1, seqOK |-> u.id[2] = r.seq]

\* FINALIZE (read.cpp:147-194): bump the sequence number, decrypt, check the
\* HMAC when one is in use, hand out the packet unless IGNORE or DEBUG.
Finalize(r, got, take) ==
    LET u      == got[1]
        framed == \A i \in 1..UnitsPerPacket : got[i].id = u.id /\ got[i].idx = i
        keysOK == \A i \in 1..UnitsPerPacket : got[i].keys = r.keys
        macOK  == r.keys = NoKeys \/ (framed /\ keysOK /\ u.id[2] = r.seq)
        type   == IF framed /\ keysOK THEN u.type ELSE "GARBAGE"
    IN [res   |-> IF ~macOK THEN "ERROR"
                  ELSE IF type \in {"IGNORE", "DEBUG"} THEN "NO_PACKET" ELSE "OK",
        rcv   |-> [r EXCEPT !.seq = @ + 1, !.buf = type, !.got = got,
                            !.st = IF macOK THEN "NO_PACKET" ELSE "FINALIZE"],
        take  |-> take,
        log   |-> <<[Decoded(u, r) EXCEPT !.framed = framed]>>,
        fault |-> {}]

\* READING_PACKET (read.cpp:130-145): recv() of the rest of the packet after
\* `taken` units were taken by this call.  recv() returning 0 (peer closed)
\* and failing with WSAEWOULDBLOCK (nothing arrived yet) are both sshd_ERROR
\* (CNetwork.cpp:165-171).
ReadBody(p, r, taken) ==
    LET q     == Other(p)
        avail == arrived[q] - taken
        need  == UnitsPerPacket - Len(r.got)
        k     == IF avail < need THEN avail ELSE need
        got   == r.got \o SubSeq(pipe[q], taken + 1, taken + k)
    IN IF k = 0
         THEN [res |-> "ERROR", rcv |-> r, take |-> taken, log |-> <<>>,
               fault |-> IF ~open[q] /\ Len(pipe[q]) = taken THEN {} ELSE {"WOULDBLOCK"}]
       ELSE IF Len(got) < UnitsPerPacket
         THEN [res |-> "PACKET_PENDING", rcv |-> [r EXCEPT !.got = got],
               take |-> taken + k, log |-> <<>>, fault |-> {}]
       ELSE Finalize(r, got, taken + k)

\* FIRST_BLOCK (read.cpp:58-128): read and decrypt the first block, check
\* size, padding and alignment, keep the header, then fall through into
\* READING_PACKET in the same call.
ReadFirstBlock(p) ==
    LET q  == Other(p)
        r0 == [rcv[p] EXCEPT !.st = "FIRST_BLOCK", !.got = <<>>]
        u  == Head(pipe[q])
    IN IF arrived[q] = 0
         THEN [res |-> "DISCONNECTED", rcv |-> r0, take |-> 0, log |-> <<>>, fault |-> {}]
       ELSE IF u.idx # 1 \/ u.keys # r0.keys
         THEN [res |-> "PROTOCOL_ERROR", rcv |-> [r0 EXCEPT !.buf = "GARBAGE"],
               take |-> 1, log |-> <<Decoded(u, r0)>>, fault |-> {}]
       ELSE ReadBody(p, [r0 EXCEPT !.st = "READING_PACKET", !.got = <<u>>,
                                   !.hdr = u.id, !.buf = "GARBAGE"], 1)

ReadNonblock(p) ==
    LET q  == Other(p)
        r  == rcv[p]
        ready == arrived[q] > 0 \/ (~open[q] /\ pipe[q] = <<>>)
    IN IF ~ready
         THEN [res |-> IF r.st = "NO_PACKET" THEN "NO_PACKET" ELSE "PACKET_PENDING",
               rcv |-> r, take |-> 0, log |-> <<>>, fault |-> {}]
       ELSE IF r.st \in {"NO_PACKET", "FIRST_BLOCK"} THEN ReadFirstBlock(p)
       ELSE ReadBody(p, r, 0)

\* The effect of one readPacketNonblock call with outcome o.
Receive(p, o) ==
    LET q == Other(p) IN
    /\ rcv' = [rcv EXCEPT ![p] = o.rcv]
    /\ pipe' = [pipe EXCEPT ![q] = SubSeq(@, o.take + 1, Len(@))]
    /\ arrived' = [arrived EXCEPT ![q] = @ - o.take]
    /\ rlog' = [rlog EXCEPT ![p] = @ \o o.log]
    /\ fault' = [fault EXCEPT ![p] = @ \cup o.fault]

Pending == {"PACKET_PENDING", "NO_PACKET"}

(***************************************************************************)
(* Blocking calls.  sendPacket() (send.cpp:18-26) loops on                 *)
(* sendPacketNonblock while it is pending and never checks the abort       *)
(* event; readPacket() (read.cpp:27-37) loops on readPacketNonblock and    *)
(* checks the abort event after every call but the first.                 *)
(***************************************************************************)
SendStep(p) ==
    /\ pc[p] \in SendLocs /\ ret[p] = "NONE"
    /\ \E o \in SendOutcomes(p, snd[p]) :
          /\ Transmit(p, o)
          /\ ret' = [ret EXCEPT ![p] = IF o.res = "PACKET_PENDING" THEN "NONE" ELSE o.res]
    /\ UNCHANGED <<pc, polled, open, discCalled, status, abort, accepted, listening, arrived,
                   rcv, kex, lineCount, authState, authOut, conf, rlog, fault>>

SendBlocked(p) ==
    /\ pc[p] \in SendLocs /\ ret[p] = "NONE"
    /\ Transmit(p, NotWritable(p, snd[p]))
    /\ UNCHANGED <<pc, ret, polled, open, discCalled, status, abort, accepted, listening, arrived,
                   rcv, kex, lineCount, authState, authOut, conf, rlog, fault>>

ReadStep(p) ==
    /\ pc[p] \in ReadLocs /\ ret[p] = "NONE"
    /\ LET o   == ReadNonblock(p)
           res == IF polled[p] /\ abort[p] THEN "CONNECTION_ABORTED" ELSE o.res
       IN /\ Receive(p, o)
          /\ IF res \in Pending
               THEN polled' = [polled EXCEPT ![p] = TRUE] /\ UNCHANGED ret
               ELSE ret' = [ret EXCEPT ![p] = res] /\ UNCHANGED polled
    /\ UNCHANGED <<pc, open, discCalled, status, abort, accepted, listening, snd, kex,
                   lineCount, authState, authOut, conf, sentLog>>

(***************************************************************************)
(* Connection set-up and version exchange (blocking socket).               *)
(***************************************************************************)
\* The server's port accepts connections between the bind and the end of
\* sshd::Task.
Listening == listener \in {"Listen", "Wait"}

\* CClientTransport::Task (CClientTransport.cpp:94-124): the connect
\* completes while the server's socket listens; the connection waits in the
\* backlog until the listener accepts it.
ClientConnect ==
    /\ pc[Client] = "Connect" /\ Listening
    /\ connected' = TRUE
    /\ Jump(Client, "WriteVersion")
    /\ UNCHANGED <<abort, accepted, listener, stop, pipe, arrived, snd, rcv, kex,
                   lineCount, authState, authOut, conf, rlog, sentLog, fault>>

\* The connect to a port where no socket listens (before sshd::Task has
\* bound it, when the bind failed, or after Task returned).  The socket is
\* non-blocking, so ::connect returns WSAEWOULDBLOCK (CNetwork.cpp:82-87);
\* CNetwork::poll (CNetwork.cpp:98-112) passes the socket as select's write
\* set only, and Winsock reports a failed connect in the except set, so
\* every poll returns PENDING and the loop goes on until the abort event.
ClientConnectRefused ==
    /\ pc[Client] = "Connect" /\ ~Listening
    /\ Jump(Client, "ConnectRefused")
    /\ UNCHANGED <<abort, net, snd, rcv, kex, lineCount, authState, authOut, conf,
                   ghost>>

\* The connect fails at once: socket() or getaddrinfo fails for the address
\* the application gave (CNetwork.cpp:59-80), and Task returns FAILURE
\* (CClientTransport.cpp:113-120).
ClientConnectFailed ==
    /\ pc[Client] = "Connect"
    /\ Move(Client, "Done", FALSE, FALSE, "FAILURE")
    /\ UNCHANGED <<abort, net, snd, rcv, kex, lineCount, authState, authOut, conf,
                   ghost>>

\* The abort event seen while the connect is pending (CClientTransport.cpp:
\* 96-108): the thread returns without closing the socket, whose connect
\* may have completed already.
ClientConnectAborted ==
    /\ pc[Client] \in {"Connect", "ConnectRefused"} /\ abort[Client]
    /\ connected' \in IF pc[Client] = "Connect" /\ Listening THEN BOOLEAN ELSE {FALSE}
    /\ Move(Client, "Done", FALSE, FALSE, "FAILURE")
    /\ UNCHANGED <<abort, accepted, listener, stop, pipe, arrived, snd, rcv, kex,
                   lineCount, authState, authOut, conf, rlog, sentLog, fault>>

\* CServerTransport::Task (ServerTask.cpp:29-36): the abort check, then
\* establishConnection with the MOTD enabled (CServerTransport.cpp:103-110).
ServerStart ==
    /\ pc[Server] = "Start" /\ accepted
    /\ \/ abort[Server] /\ CloseAndExit(Server)
       \/ ~abort[Server] /\ Jump(Server, "Motd")
    /\ UNCHANGED <<abort, accepted, listening, pipe, arrived, snd, rcv, kex, lineCount,
                   authState, authOut, conf, rlog, sentLog, fault>>

\* displayMotd (CServerTransport.cpp:57-83): one blocking writeLine per line
\* of the MOTD file; a failed write fails establishConnection.
WriteMotd ==
    /\ pc[Server] = "Motd"
    /\ \/ /\ lineCount[Server] < conf.motd /\ open[Client]
          /\ pipe' = [pipe EXCEPT ![Server] = Append(@, Line("MOTD"))]
          /\ lineCount' = [lineCount EXCEPT ![Server] = @ + 1]
          /\ UNCHANGED <<pc, ret, polled, open, discCalled, status>>
       \/ /\ lineCount[Server] < conf.motd /\ ~open[Client]
          /\ CloseAndExit(Server)
          /\ UNCHANGED <<pipe, lineCount>>
       \/ /\ lineCount[Server] = conf.motd
          /\ Jump(Server, "WriteVersion")
          /\ UNCHANGED <<pipe, lineCount>>
    /\ UNCHANGED <<abort, accepted, listening, arrived, snd, rcv, kex, authState, authOut,
                   conf, rlog, sentLog, fault>>

\* exchangeProtocolVersions (exchange.cpp:20-26): writeLine of the version
\* string.  On failure the client calls disconnect(PROTOCOL_ERROR)
\* (CClientTransport.cpp:158-168) and the server's Task() closes the socket.
WriteVersion(p) ==
    /\ pc[p] = "WriteVersion"
    /\ \/ /\ open[Other(p)]
          /\ pipe' = [pipe EXCEPT ![p] = Append(@, Line("VERSION"))]
          /\ Jump(p, "ReadVersion")
       \/ /\ ~open[Other(p)] /\ p = Client
          /\ StartDisconnect(p) /\ UNCHANGED pipe
       \/ /\ ~open[Other(p)] /\ p = Server
          /\ CloseAndExit(p) /\ UNCHANGED pipe
    /\ UNCHANGED <<abort, accepted, listening, arrived, snd, rcv, kex, lineCount, authState,
                   authOut, conf, rlog, sentLog, fault>>

\* A blocking readLine() (CNetwork.cpp:338-382) can return: a line arrived,
\* or the peer closed and everything it wrote was read.
LineReady(p) == arrived[Other(p)] > 0 \/ (~open[Other(p)] /\ pipe[Other(p)] = <<>>)
TakeLine(p) == /\ pipe' = [pipe EXCEPT ![Other(p)] = Tail(@)]
               /\ arrived' = [arrived EXCEPT ![Other(p)] = @ - 1]

\* The client's side of exchangeProtocolVersions (exchange.cpp:37-83): it
\* skips lines not starting with "SSH-", at most MaxMotdComments of them,
\* then parses the version (both sides send "SSH-2.0-..."); then
\* establishConnection checks the abort event and starts the key exchange
\* with a KEXINIT (CClientTransport.cpp:158-176, exchange.cpp:130-134).
ClientReadVersion ==
    LET u == Head(pipe[Server]) IN
    /\ pc[Client] = "ReadVersion" /\ LineReady(Client)
    /\ \/ /\ arrived[Server] = 0
          /\ StartDisconnect(Client)
          /\ UNCHANGED <<pipe, arrived, lineCount, snd>>
       \/ /\ arrived[Server] > 0 /\ u.type = "MOTD"
          /\ lineCount[Client] + 1 > MaxMotdComments
          /\ TakeLine(Client) /\ StartDisconnect(Client)
          /\ UNCHANGED <<lineCount, snd>>
       \/ /\ arrived[Server] > 0 /\ u.type = "MOTD"
          /\ lineCount[Client] + 1 <= MaxMotdComments
          /\ TakeLine(Client)
          /\ lineCount' = [lineCount EXCEPT ![Client] = @ + 1]
          /\ UNCHANGED <<pc, ret, polled, open, discCalled, status, snd>>
       \/ /\ arrived[Server] > 0 /\ u.type = "VERSION" /\ abort[Client]
          /\ TakeLine(Client) /\ CloseAndExit(Client)
          /\ UNCHANGED <<lineCount, snd>>
       \/ /\ arrived[Server] > 0 /\ u.type = "VERSION" /\ ~abort[Client]
          /\ TakeLine(Client) /\ Jump(Client, "KexInitSend")
          /\ NewPacket(Client, "KEXINIT")
          /\ UNCHANGED lineCount
    /\ UNCHANGED <<abort, accepted, listening, rcv, kex, authState, authOut, conf, rlog,
                   sentLog, fault>>

\* The server's side (exchange.cpp:31-35, 70-83): one blocking readLine(),
\* no abort check; then the key exchange starts (CServerTransport.cpp:
\* 112-120, exchange.cpp:130-134).
ServerReadVersion ==
    LET u == Head(pipe[Client]) IN
    /\ pc[Server] = "ReadVersion" /\ LineReady(Server)
    /\ \/ /\ arrived[Client] = 0 \/ u.type # "VERSION"
          /\ CloseAndExit(Server)
          /\ IF arrived[Client] = 0 THEN UNCHANGED <<pipe, arrived>> ELSE TakeLine(Server)
          /\ UNCHANGED snd
       \/ /\ arrived[Client] > 0 /\ u.type = "VERSION"
          /\ TakeLine(Server) /\ Jump(Server, "KexInitSend")
          /\ NewPacket(Server, "KEXINIT")
    /\ UNCHANGED <<abort, accepted, listening, rcv, kex, lineCount, authState, authOut, conf,
                   rlog, sentLog, fault>>

(***************************************************************************)
(* The initial key exchange (exchangeKeyExchanges, performKeyExchange and  *)
(* TakeKeysIntoUse of both sides).  Every blocking call ends at a location *)
(* of SendLocs or ReadLocs; the actions below continue from its result.   *)
(***************************************************************************)
Failed(p) == ret[p] \notin {"NONE", "OK"}
Returned(p) == ret[p] # "NONE"
Got(p, t) == ret[p] = "OK" /\ rcv[p].buf = t

\* A failure inside performKeyExchange: the client's cleanup and the
\* server's checks after exchangeKeyExchanges call disconnect(KEX_FAILED)
\* (CClientTransport.cpp:271-277, CServerTransport.cpp:149-153, 177-183);
\* the server returns without it when exchangeKeyExchanges itself fails
\* (CServerTransport.cpp:144-146) or its key pair does not load (172-175).
KexFail(p) == IF p = Client THEN StartDisconnect(p) ELSE CloseAndExit(p)

\* exchangeAndExpect(SSH_MSG_KEXINIT) (exchange.cpp:139, 197-215): the
\* sendPacket of the KEXINIT, then readPacket when it succeeded.  Its result
\* is ignored.
KexInitSent(p) ==
    /\ pc[p] = "KexInitSend" /\ Returned(p)
    /\ Jump(p, IF ret[p] = "OK" THEN "KexInitRead" ELSE "ReadKex")
    /\ UNCHANGED <<abort, net, snd, rcv, session, conf, rlog, sentLog, fault>>

KexInitGot(p) ==
    /\ pc[p] = "KexInitRead" /\ Returned(p)
    /\ Jump(p, "ReadKex")
    /\ UNCHANGED <<abort, net, snd, rcv, session, conf, rlog, sentLog, fault>>

\* readKex parses whatever the payload buffer holds (exchange.cpp:140-141,
\* CStream.cpp:139-160); then the KEXINIT header copies (exchange.cpp:
\* 186-189), DecideAlgorithms, and the first step of the DH exchange: the
\* client sends KEXDH_INIT (diffie-client.cpp:27-32); the server loads its
\* key pair and waits for KEXDH_INIT.
ReadKex(p) ==
    /\ pc[p] = "ReadKex"
    /\ \/ /\ rcv[p].buf # "KEXINIT"
          /\ KexFail(p) /\ UNCHANGED <<kex, snd>>
       \/ /\ rcv[p].buf = "KEXINIT"
          /\ kex' = [kex EXCEPT ![p].local = snd[p].hdr, ![p].remote = rcv[p].hdr]
          /\ \/ ~conf.algsMatch /\ StartDisconnect(p) /\ UNCHANGED snd
             \/ conf.algsMatch /\ p = Client
                /\ NewPacket(p, "KEXDH_INIT") /\ Jump(p, "DhInitSend")
             \/ conf.algsMatch /\ p = Server /\ ~conf.keyLoaded
                /\ CloseAndExit(p) /\ UNCHANGED snd
             \/ conf.algsMatch /\ p = Server /\ conf.keyLoaded
                /\ Jump(p, "DhInitRead") /\ UNCHANGED snd
    /\ UNCHANGED <<abort, net, rcv, lineCount, authState, authOut, conf, rlog,
                   sentLog, fault>>

\* After the DH exchange: m_exchangeHash, m_sessionIdent when empty, the
\* derived keys (CClientTransport.cpp:241-255, CServerTransport.cpp:186-204),
\* then TakeKeysIntoUse sends NEWKEYS (keys.cpp:139-157).
DeriveAndSendNewKeys(p) ==
    \* I_C is the client's m_localKex and the server's m_remoteKex
    \* (getClientKex in both headers).
    LET h   == [ic |-> kex[p].local, is |-> kex[p].remote]
        H   == IF p = Client THEN h ELSE [ic |-> h.is, is |-> h.ic]
        sid == IF kex[p].sid = NoHash THEN H ELSE kex[p].sid
    IN /\ kex' = [kex EXCEPT ![p].hash = H, ![p].sid = sid,
                             ![p].next = [h |-> H, sid |-> sid]]
       /\ NewPacket(p, "NEWKEYS")
       /\ Jump(p, "NewKeysSend")

DhInitSent(p) ==
    /\ pc[p] = "DhInitSend" /\ Returned(p)
    /\ \/ ret[p] = "OK" /\ Jump(p, "DhReplyRead")
       \/ Failed(p) /\ KexFail(p)
    /\ UNCHANGED <<abort, net, snd, rcv, session, conf, rlog, sentLog, fault>>

\* ClientKeyExchange after exchangeAndExpect(KEXDH_REPLY) (diffie-client.cpp:
\* 35-64): with honest peers the reply parses and the signature verifies.
DhReplyGot ==
    /\ pc[Client] = "DhReplyRead" /\ Returned(Client)
    /\ \/ Got(Client, "KEXDH_REPLY") /\ DeriveAndSendNewKeys(Client)
       \/ ~Got(Client, "KEXDH_REPLY") /\ KexFail(Client) /\ UNCHANGED <<kex, snd>>
    /\ UNCHANGED <<abort, net, rcv, lineCount, status, authState, authOut, conf,
                   rlog, sentLog, fault>>

\* The server role of the DH exchange (ServerKeyExchange is declared in
\* CDiffieHellman.h and not implemented under src/): read KEXDH_INIT, compute
\* the secret and the hash, sign it, send KEXDH_REPLY.
DhInitGot ==
    /\ pc[Server] = "DhInitRead" /\ Returned(Server)
    /\ \/ /\ Got(Server, "KEXDH_INIT")
          /\ NewPacket(Server, "KEXDH_REPLY") /\ Jump(Server, "DhReplySend")
       \/ /\ ~Got(Server, "KEXDH_INIT")
          /\ StartDisconnect(Server) /\ UNCHANGED snd
    /\ UNCHANGED <<abort, net, rcv, session, conf, rlog, sentLog, fault>>

DhReplySent ==
    /\ pc[Server] = "DhReplySend" /\ Returned(Server)
    /\ \/ ret[Server] = "OK" /\ DeriveAndSendNewKeys(Server)
       \/ Failed(Server) /\ StartDisconnect(Server) /\ UNCHANGED <<kex, snd>>
    /\ UNCHANGED <<abort, net, rcv, lineCount, status, authState, authOut, conf,
                   rlog, sentLog, fault>>

\* Mutant: the new keys are taken into use as soon as NEWKEYS is sent.
NewKeysSentEarlyInstall(p) ==
    /\ pc[p] = "NewKeysSend" /\ Returned(p)
    /\ \/ /\ ret[p] = "OK" /\ Jump(p, "NewKeysRead")
          /\ snd' = [snd EXCEPT ![p].keys = kex[p].next]
          /\ rcv' = [rcv EXCEPT ![p].keys = kex[p].next]
       \/ Failed(p) /\ StartDisconnect(p) /\ UNCHANGED <<snd, rcv>>
    /\ UNCHANGED <<abort, net, session, conf, rlog, sentLog, fault>>

NewKeysSent(p) ==
    /\ pc[p] = "NewKeysSend" /\ Returned(p)
    /\ \/ ret[p] = "OK" /\ Jump(p, "NewKeysRead")
       \/ Failed(p) /\ StartDisconnect(p)
    /\ UNCHANGED <<abort, net, snd, rcv, session, conf, rlog, sentLog, fault>>

\* TakeAlgorithmsInUse (CClientTransport.cpp:303-318, CServerTransport.cpp:
\* 238-253) installs both directions' new keys once NEWKEYS was received.
\* The client's establishConnection then checks the abort event
\* (CClientTransport.cpp:183) and mainTask requests the authentication
\* service (ClientTask.cpp:114-120, 228-241); the server's mainTask enters
\* performAuthentication (ServerTask.cpp:127, ServerAuthentication.cpp:27).
NewKeysGot(p) ==
    /\ pc[p] = "NewKeysRead" /\ Returned(p)
    /\ \/ /\ ~Got(p, "NEWKEYS")
          /\ StartDisconnect(p) /\ UNCHANGED <<snd, rcv, authState>>
       \/ /\ Got(p, "NEWKEYS")
          /\ rcv' = [rcv EXCEPT ![p].keys = kex[p].next]
          /\ \/ p = Client /\ abort[p]
                /\ CloseAndExit(p) /\ UNCHANGED authState
                /\ snd' = [snd EXCEPT ![p].keys = kex[p].next]
             \/ p = Client /\ ~abort[p]
                /\ snd' = [snd EXCEPT ![p].keys = kex[p].next, ![p].st = "NO_PACKET",
                                      ![p].msg = "SERVICE_REQUEST"]
                /\ Jump(p, "SvcReqSend") /\ UNCHANGED authState
             \/ p = Server
                /\ snd' = [snd EXCEPT ![p].keys = kex[p].next]
                /\ authState' = "WAIT_SERVICE_REQUEST"
                /\ Jump(p, "Auth")
    /\ UNCHANGED <<abort, net, kex, lineCount, authOut, conf, rlog, sentLog, fault>>

(***************************************************************************)
(* User authentication, up to the first user-authentication message.       *)
(***************************************************************************)
\* requestService (ClientTask.cpp:228-275): sendPacket of SERVICE_REQUEST,
\* then readPacket expecting SERVICE_ACCEPT; any failure fails
\* performAuthentication, and mainTask returns (ClientTask.cpp:28-31).
SvcReqSent ==
    /\ pc[Client] = "SvcReqSend" /\ Returned(Client)
    /\ \/ ret[Client] = "OK" /\ Jump(Client, "SvcAcceptRead")
       \/ Failed(Client) /\ ExitMain(Client)
    /\ UNCHANGED <<abort, net, snd, rcv, session, conf, rlog, sentLog, fault>>

SvcAcceptGot ==
    /\ pc[Client] = "SvcAcceptRead" /\ Returned(Client)
    /\ \/ Got(Client, "SERVICE_ACCEPT") /\ Jump(Client, "Auth")
       \/ ~Got(Client, "SERVICE_ACCEPT") /\ ExitMain(Client)
    /\ UNCHANGED <<abort, net, snd, rcv, session, conf, rlog, sentLog, fault>>

\* The input half of the client's authentication loop (ClientTask.cpp:
\* 122-149): the abort check, then one readPacketNonblock.  This server
\* sends no packet after SERVICE_ACCEPT before it has handled a request, so
\* the call returns pending or an error; a packet (res = OK) would be
\* dispatched by handleTransportPacket/handleAuthPacket, not modelled here.
ClientAuthInput ==
    /\ pc[Client] = "Auth"
    /\ \/ /\ abort[Client]
          /\ ExitMain(Client) /\ UNCHANGED <<pipe, arrived, rcv, rlog, fault>>
       \/ /\ ~abort[Client]
          /\ LET o == ReadNonblock(Client) IN
                /\ o.res # "OK"
                /\ Receive(Client, o)
                /\ IF o.res \in Pending THEN Jump(Client, "AuthOut")
                                        ELSE ExitMain(Client)
    /\ UNCHANGED <<abort, accepted, listening, snd, session, conf, sentLog>>

\* The output half (ClientTask.cpp:151-177): continue a packet being sent,
\* or take the next message of the IAuthenticate into a new packet; one
\* sendPacketNonblock either way, here when send() takes some units.
ClientAuthOutput ==
    LET Send(s0) == \E o \in SendOutcomes(Client, s0) :
                       /\ Transmit(Client, o)
                       /\ IF o.res = "ERROR" THEN ExitMain(Client) ELSE Jump(Client, "Auth")
    IN
    /\ pc[Client] = "AuthOut"
    /\ \/ /\ snd[Client].st # "NO_PACKET"
          /\ Send(snd[Client]) /\ UNCHANGED authOut
       \/ /\ snd[Client].st = "NO_PACKET" /\ authOut > 0
          /\ authOut' = authOut - 1
          /\ Send([snd[Client] EXCEPT !.msg = "USERAUTH_REQUEST"])
       \/ /\ snd[Client].st = "NO_PACKET" /\ authOut = 0
          /\ Jump(Client, "Auth") /\ UNCHANGED <<snd, pipe, sentLog, authOut>>
    /\ UNCHANGED <<abort, accepted, listening, arrived, rcv, kex, lineCount, authState, conf,
                   rlog, fault>>

\* The same call when writePossible() is false (send.cpp:50-51).
ClientAuthOutputBlocked ==
    LET s0 == IF snd[Client].st = "NO_PACKET" /\ authOut > 0
                THEN [snd[Client] EXCEPT !.msg = "USERAUTH_REQUEST"] ELSE snd[Client]
    IN
    /\ pc[Client] = "AuthOut"
    /\ snd[Client].st # "NO_PACKET" \/ authOut > 0
    /\ authOut' = IF snd[Client].st = "NO_PACKET" THEN authOut - 1 ELSE authOut
    /\ Transmit(Client, NotWritable(Client, s0))
    /\ Jump(Client, "Auth")
    /\ UNCHANGED <<abort, accepted, listening, arrived, rcv, kex, lineCount, authState, conf,
                   rlog, fault>>

\* Messages 60..79, which handleAuthPacket hands to the authentication
\* service (ServerAuthentication.cpp:116).
AuthMethodTypes == {"USERAUTH_PK_OK"}

\* The server's performAuthentication loop (ServerAuthentication.cpp:27-84)
\* with handleAuthPacket (91-150) and tryHandleAuthServiceRequest (155-199).
\* Its output half has nothing to do: the SERVICE_ACCEPT is sent by a
\* blocking sendPacket, and the authentication service has nothing to send
\* before it has handled a packet.  Every failure returns out of mainTask,
\* and Task() closes the socket (ServerTask.cpp:127-129, 47).
\* tryHandleAuthServiceRequest (ServerAuthentication.cpp:155-199) for a
\* SERVICE_REQUEST, with the fail that handleAuthPacket's error return
\* leads to: the service created, SERVICE_ACCEPT goes into the buffer; no
\* service of the name calls disconnect(); a factory that returns NULL
\* makes the call fail without a DISCONNECT.  A factory may do either on
\* any call, so the result is any that CreateAuthService allows.
AuthServiceRequest(fail) ==
    \E res \in CreateAuthService(conf.authServices, AuthSvcName) :
        \/ res = "OK" /\ NewPacket(Server, "SERVICE_ACCEPT") /\ Jump(Server, "AcceptSend")
        \/ res = "NO_SUCH_SERVICE" /\ StartDisconnect(Server) /\ UNCHANGED snd
        \/ res = "ERROR" /\ fail /\ UNCHANGED snd

\* Mutant: the loop does not check the abort event.
ServerAuthInputNoAbort ==
    LET o == ReadNonblock(Server)
        t == o.rcv.buf
    IN
    /\ pc[Server] = "Auth"
    /\ Receive(Server, o)
    /\ \/ /\ o.res \in Pending
          /\ UNCHANGED <<pc, ret, polled, open, discCalled, status, snd>>
       \/ /\ o.res \notin Pending \cup {"OK"}
          /\ CloseAndExit(Server) /\ UNCHANGED snd
       \/ /\ o.res = "OK" /\ authState = "WAIT_SERVICE_REQUEST"
          /\ t = "SERVICE_REQUEST" /\ AuthServiceRequest(CloseAndExit(Server))
       \/ /\ o.res = "OK"
          /\ \/ authState = "WAIT_SERVICE_REQUEST" /\ t # "SERVICE_REQUEST"
             \/ authState = "SERVICE_ACCEPT" /\ t \notin AuthMethodTypes
          /\ CloseAndExit(Server) /\ UNCHANGED snd
    /\ UNCHANGED <<abort, accepted, listening, kex, lineCount, authState, authOut, conf, sentLog>>

\* Mutant: a failed authentication leaves the socket open.
ServerAuthInputNoClose ==
    LET o == ReadNonblock(Server)
        t == o.rcv.buf
        Exit == Move(Server, "Done", FALSE, FALSE, "")
    IN
    /\ pc[Server] = "Auth"
    /\ \/ /\ abort[Server]
          /\ Exit
          /\ UNCHANGED <<pipe, arrived, rcv, rlog, fault, snd>>
       \/ /\ ~abort[Server] /\ Receive(Server, o)
          /\ \/ /\ o.res \in Pending
                /\ UNCHANGED <<pc, ret, polled, open, discCalled, status, snd>>
             \/ /\ o.res \notin Pending \cup {"OK"}
                /\ Exit /\ UNCHANGED snd
             \/ /\ o.res = "OK" /\ authState = "WAIT_SERVICE_REQUEST"
                /\ t = "SERVICE_REQUEST" /\ AuthServiceRequest(Exit)
             \/ /\ o.res = "OK"
                /\ \/ authState = "WAIT_SERVICE_REQUEST" /\ t # "SERVICE_REQUEST"
                   \/ authState = "SERVICE_ACCEPT" /\ t \notin AuthMethodTypes
                /\ Exit /\ UNCHANGED snd
    /\ UNCHANGED <<abort, accepted, listening, kex, lineCount, authState, authOut, conf, sentLog>>

ServerAuthInput ==
    LET o == ReadNonblock(Server)
        t == o.rcv.buf
    IN
    /\ pc[Server] = "Auth"
    /\ \/ /\ abort[Server]
          /\ CloseAndExit(Server)
          /\ UNCHANGED <<pipe, arrived, rcv, rlog, fault, snd>>
       \/ /\ ~abort[Server] /\ Receive(Server, o)
          /\ \/ /\ o.res \in Pending
                /\ UNCHANGED <<pc, ret, polled, open, discCalled, status, snd>>
             \/ /\ o.res \notin Pending \cup {"OK"}
                /\ CloseAndExit(Server) /\ UNCHANGED snd
             \/ /\ o.res = "OK" /\ authState = "WAIT_SERVICE_REQUEST"
                /\ t = "SERVICE_REQUEST" /\ AuthServiceRequest(CloseAndExit(Server))
             \/ /\ o.res = "OK"
                /\ \/ authState = "WAIT_SERVICE_REQUEST" /\ t # "SERVICE_REQUEST"
                   \/ authState = "SERVICE_ACCEPT" /\ t \notin AuthMethodTypes
                /\ CloseAndExit(Server) /\ UNCHANGED snd
    /\ UNCHANGED <<abort, accepted, listening, kex, lineCount, authState, authOut, conf, sentLog>>

\* The end of tryHandleAuthServiceRequest (ServerAuthentication.cpp:176-185).
AcceptSent ==
    /\ pc[Server] = "AcceptSend" /\ Returned(Server)
    /\ \/ /\ ret[Server] = "OK"
          /\ authState' = "SERVICE_ACCEPT" /\ Jump(Server, "Auth")
       \/ /\ Failed(Server)
          /\ CloseAndExit(Server) /\ UNCHANGED authState
    /\ UNCHANGED <<abort, net, snd, rcv, kex, lineCount, authOut, conf, rlog,
                   sentLog, fault>>

(***************************************************************************)
(* CTransport::disconnect (CTransport.cpp:140-166) and the socket close    *)
(* of the caller that follows it.  The packet being sent is flushed by a   *)
(* blocking sendPacket.  The DISCONNECT message is then never sent: a      *)
(* successful writeInt32(0)/writeString makes the condition at line 155    *)
(* true, and the socket is closed at once.                                 *)
(***************************************************************************)
DisconnectBegin(p) ==
    /\ pc[p] = "Disconnect"
    /\ \/ snd[p].st # "NO_PACKET" /\ Jump(p, "Flush") /\ UNCHANGED snd
       \/ snd[p].st = "NO_PACKET" /\ NewPacket(p, "DISCONNECT") /\ CloseAndExit(p)
    /\ UNCHANGED <<abort, accepted, listening, pipe, arrived, rcv, session, conf, rlog,
                   sentLog, fault>>

Flushed(p) ==
    /\ pc[p] = "Flush" /\ Returned(p)
    /\ \/ ret[p] = "OK" /\ NewPacket(p, "DISCONNECT") /\ CloseAndExit(p)
       \/ Failed(p) /\ CloseAndExit(p) /\ UNCHANGED snd
    /\ UNCHANGED <<abort, accepted, listening, pipe, arrived, rcv, session, conf, rlog,
                   sentLog, fault>>

(***************************************************************************)
(* The listener thread, sshd::Task (sshd.cpp:38-101), on a non-blocking    *)
(* listening socket polled every 250 ms.                                   *)
(***************************************************************************)
\* sshd::Task creates its socket, makes it non-blocking and binds it to the
\* port (sshd.cpp:38-57, CNetwork.cpp:254-288); when the port is taken, Task
\* returns at once.  A stop already requested ends Task after the bind:
\* the loop is not entered and m_clients is empty.
ListenerBind ==
    /\ listener = "Bind"
    /\ listener' \in IF stop THEN {"Done"} ELSE {"Listen", "Done"}
    /\ UNCHANGED <<thread, abort, accepted, connected, stop, pipe, arrived, open, snd,
                   rcv, session, status, conf, ghost>>

\* waitForConnections (CNetwork.cpp:208-254): select() reports a connection
\* waiting in the backlog, and accept() takes it.
WaitForConnections == connected /\ ~accepted

\* The CNetwork destructor closes the listening socket (CNetwork.cpp:36-42),
\* which resets a connection still waiting in the backlog: the client sees
\* its peer closed.
CloseListeningSocket ==
    open' = IF connected /\ ~accepted THEN [open EXCEPT ![Server] = FALSE] ELSE open

\* waitForConnections returns the connection; the listener creates a CServerTransport for it, appends it to m_clients and
\* spawns its thread (sshd.cpp:61-76).  The loop tests m_abortEvent only
\* before it waits, so a connection can still be accepted after the stop.
ListenerAccept ==
    /\ listener = "Listen" /\ WaitForConnections
    /\ accepted' = TRUE
    /\ UNCHANGED <<thread, abort, listening, pipe, arrived, open, snd, rcv, session,
                   status, conf, ghost>>

\* The application stops the server (sets sshd's m_abortEvent through its
\* Util::CThread).  The loop sees it at its next turn, and performShutdown
\* calls shutdown() on every transport of m_clients, which sets its abort
\* event (sshd.cpp:61, 84, 90-95).  A connection accepted in between is in
\* m_clients and gets the same abort, so the stop and the first loop of
\* performShutdown are one step here.
Shutdown ==
    /\ ~stop
    /\ stop' = TRUE
    /\ listener' = IF listener = "Listen" THEN "Wait" ELSE listener
    /\ abort' = IF listener = "Listen" /\ accepted
                 THEN [abort EXCEPT ![Server] = TRUE] ELSE abort
    /\ UNCHANGED <<thread, accepted, connected, pipe, arrived, open, snd, rcv,
                   session, status, conf, ghost>>

\* performShutdown waits for every connection thread (sshd.cpp:97-100);
\* then Task returns and its listening socket is closed.
ListenerJoin ==
    /\ listener = "Wait" /\ (accepted => pc[Server] = "Done")
    /\ listener' = "Done"
    /\ CloseListeningSocket
    /\ UNCHANGED <<thread, abort, accepted, connected, stop, pipe, arrived, snd, rcv,
                   session, status, conf, ghost>>

ListenerStep == ListenerBind \/ ListenerAccept \/ ListenerJoin

(***************************************************************************)
(* The environment: the application sets the client thread's abort event   *)
(* (m_abortEvent of its Util::CThread), and TCP delivers the written units *)
(* one at a time.                                                          *)
(***************************************************************************)
RequestAbort ==
    /\ ~abort[Client] /\ pc[Client] # "Done"
    /\ abort' = [abort EXCEPT ![Client] = TRUE]
    /\ UNCHANGED <<thread, net, open, snd, rcv, session, status, conf, ghost>>

Arrive(p) ==
    /\ arrived[p] < Len(pipe[p])
    /\ arrived' = [arrived EXCEPT ![p] = @ + 1]
    /\ UNCHANGED <<thread, abort, accepted, listening, open, pipe, snd, rcv, session, status, conf,
                   ghost>>

\* Both threads have returned, or the server never got the connection, or
\* its blocking readLine waits for a client that will never write again;
\* the listener has returned, polls with no connection to accept, or waits
\* for that blocked thread.
Terminated ==
    /\ pc[Client] = "Done"
    /\ \/ pc[Server] = "Done"
       \/ pc[Server] = "Start" /\ ~accepted
       \/ pc[Server] = "ReadVersion" /\ ~LineReady(Server)
    /\ \/ listener = "Done"
       \/ listener = "Listen" /\ (connected => accepted)
       \/ listener = "Wait" /\ accepted /\ pc[Server] # "Done"
    /\ \A p \in Peers : arrived[p] = Len(pipe[p])
    /\ UNCHANGED vars

Init ==
    /\ pc = [p \in Peers |-> IF p = Client THEN "Connect" ELSE "Start"]
    /\ ret = [p \in Peers |-> "NONE"]
    /\ polled = [p \in Peers |-> FALSE]
    /\ abort = [p \in Peers |-> FALSE]
    /\ connected = FALSE
    /\ accepted = FALSE
    /\ listener = "Bind"
    /\ stop = FALSE
    /\ open = [p \in Peers |-> TRUE]
    /\ pipe = [p \in Peers |-> <<>>]
    /\ arrived = [p \in Peers |-> 0]
    /\ snd = [p \in Peers |-> [st |-> "NO_PACKET", count |-> 0, seq |-> 0, keys |-> NoKeys,
                               msg |-> "NONE", hdr |-> NoId, enc |-> NoKeys]]
    /\ rcv = [p \in Peers |-> [st |-> "NO_PACKET", got |-> <<>>, seq |-> 0, keys |-> NoKeys,
                               hdr |-> NoId, buf |-> "NONE"]]
    /\ kex = [p \in Peers |-> [local |-> NoId, remote |-> NoId, hash |-> NoHash,
                               sid |-> NoHash, next |-> NoKeys]]
    /\ lineCount = [p \in Peers |-> 0]
    /\ status = "CONNECTING"
    /\ authState = "NONE"
    /\ authOut = 1
    /\ conf \in Configs
    /\ rlog = [p \in Peers |-> <<>>]
    /\ sentLog = [p \in Peers |-> <<>>]
    /\ discCalled = [p \in Peers |-> FALSE]
    /\ fault = [p \in Peers |-> {}]

\* The steps common to both threads.
Thread(p) ==
    \/ SendStep(p) \/ ReadStep(p) \/ WriteVersion(p)
    \/ KexInitSent(p) \/ KexInitGot(p) \/ ReadKex(p) \/ DhInitSent(p)
    \/ NewKeysSent(p) \/ NewKeysGot(p) \/ DisconnectBegin(p) \/ Flushed(p)

\* One step of the client's thread (CClientTransport::Task).
ClientStep ==
    \/ Thread(Client)
    \/ ClientConnect \/ ClientConnectRefused \/ ClientConnectFailed \/ ClientConnectAborted \/ ClientReadVersion \/ DhReplyGot
    \/ SvcReqSent \/ SvcAcceptGot \/ ClientAuthInput \/ ClientAuthOutput

\* One step of the server's connection thread (CServerTransport::Task).
ServerStep ==
    \/ Thread(Server)
    \/ ServerStart \/ WriteMotd \/ ServerReadVersion \/ DhInitGot \/ DhReplySent
    \/ ServerAuthInput \/ AcceptSent

Next ==
    \/ ClientStep \/ ServerStep
    \/ ListenerStep \/ ClientAuthOutputBlocked \/ RequestAbort \/ Shutdown
    \/ \E p \in Peers : SendBlocked(p) \/ Arrive(p)
    \/ Terminated

\* Each thread runs whenever it can (the OS schedules every thread), and
\* TCP delivers what was written.  Aborts and a full send buffer are up to
\* the environment, but a send buffer does not stay full for ever: a
\* client that keeps polling it in its authentication loop eventually
\* writes.
Spec == /\ Init /\ [][Next]_vars
        /\ WF_vars(ClientStep) /\ WF_vars(ServerStep) /\ WF_vars(ListenerStep)
        /\ SF_vars(ClientAuthOutput)
        /\ \A p \in Peers : WF_vars(Arrive(p))

(***************************************************************************)
(* Properties.                                                             *)
(***************************************************************************)
Locations == SendLocs \cup ReadLocs \cup
             {"Connect", "ConnectRefused", "Start", "Motd", "WriteVersion", "ReadVersion", "ReadKex",
              "Auth", "AuthOut", "Disconnect", "Done"}
MsgTypes == {"NONE", "KEXINIT", "KEXDH_INIT", "KEXDH_REPLY", "NEWKEYS", "SERVICE_REQUEST",
             "SERVICE_ACCEPT", "USERAUTH_REQUEST", "DISCONNECT"}
Ids   == ({"none"} \cup Peers) \X Nat
Hash  == [ic : Ids, is : Ids]
Keys  == [h : Hash, sid : Hash]
Unit  == [type : MsgTypes \cup {"MOTD", "VERSION"}, idx : 0..UnitsPerPacket,
          id : Ids, keys : Keys]
Entry == [type : MsgTypes, id : Ids, enc : Keys, dec : Keys, framed : BOOLEAN, seqOK : BOOLEAN]

\* Every variable holds a value of its type; the send state never counts
\* more units than a packet has.
TypeOK ==
    /\ pc \in [Peers -> Locations]
    /\ ret \in [Peers -> Results \cup {"NONE"}]
    /\ polled \in [Peers -> BOOLEAN] /\ abort \in [Peers -> BOOLEAN]
    /\ connected \in BOOLEAN /\ accepted \in BOOLEAN /\ open \in [Peers -> BOOLEAN]
    /\ listener \in {"Bind", "Listen", "Wait", "Done"} /\ stop \in BOOLEAN
    /\ pipe \in [Peers -> Seq(Unit)]
    /\ \A p \in Peers : arrived[p] \in 0..Len(pipe[p])
    /\ snd \in [Peers -> [st : {"NO_PACKET", "SENDING_PACKET"}, count : 0..UnitsPerPacket,
                          seq : Nat, keys : Keys, msg : MsgTypes, hdr : Ids, enc : Keys]]
    /\ rcv \in [Peers -> [st : {"NO_PACKET", "FIRST_BLOCK", "READING_PACKET", "FINALIZE"},
                          got : Seq(Unit), seq : Nat, keys : Keys, hdr : Ids,
                          buf : MsgTypes \cup {"GARBAGE"}]]
    /\ \A p \in Peers : Len(rcv[p].got) <= UnitsPerPacket
    /\ kex \in [Peers -> [local : Ids, remote : Ids, hash : Hash, sid : Hash, next : Keys]]
    /\ lineCount \in [Peers -> Nat]
    /\ status \in {"CONNECTING", "FAILURE", "CLOSED"}
    /\ authState \in {"NONE", "WAIT_SERVICE_REQUEST", "SERVICE_ACCEPT"}
    /\ authOut \in Nat /\ conf \in Configs
    /\ rlog \in [Peers -> Seq(Entry)]
    /\ sentLog \in [Peers -> Seq(MsgTypes)]
    /\ discCalled \in [Peers -> BOOLEAN]
    /\ fault \in [Peers -> SUBSET {"WOULDBLOCK"}]

(***************************************************************************)
(* The packet layer implements SecureChannel.  A peer has sent a packet    *)
(* once it wrote the packet's first unit; it has read one once its reader  *)
(* decoded it, or gave up on it, whatever readPacketNonblock returned.  A  *)
(* packet decoded at another place of the stream than it was written at   *)
(* (a unit of another packet, another sequence number) or with other keys *)
(* than it was encrypted with is read as CORRUPT, which no peer sends.     *)
(***************************************************************************)
Read(e) == IF e.framed /\ e.seqOK /\ e.enc = e.dec THEN e.type ELSE "CORRUPT"

Channel == INSTANCE SecureChannel
               WITH Msgs  <- MsgTypes \cup {"CORRUPT"},
                    sent  <- sentLog,
                    recvd <- [p \in Peers |-> [i \in DOMAIN rlog[p] |-> Read(rlog[p][i])]]

\* Each direction of the connection is a secure channel: whatever way send()
\* and recv() split the stream, every packet a peer decodes is the next one
\* the other peer started, at the sequence number it was sent with
\* (send.cpp:89, read.cpp:150) and with the keys it was encrypted with.
\* NEWKEYS makes both sides switch keys at the same point of each direction
\* (TakeKeysIntoUse, keys.cpp:139-175), and both derive the same keys from
\* the exchange hash over the two KEXINIT packets (exchange.cpp:186-189).
SecureChannelRefined == Channel!Spec

\* Once the sockets are non-blocking, a set abort event ends the thread: the
\* polling loops (readPacket, the authentication loops) check it, and the
\* blocking sends complete.
AbortHonouredInPacketMode ==
    \A p \in Peers : (abort[p] /\ pc[p] \in PacketModeLocs) ~> pc[p] = "Done"

\* Every connection of the client whose connect completed ends: whatever
\* the server does, it closes the socket or sends what the client waits
\* for.  A refused connect is left out: its loop ends only on the user's
\* abort (ClientConnectRefused).
ClientTerminates == connected ~> pc[Client] = "Done"

\* CTransport::disconnect announces itself: a peer that called it and closed
\* its socket while the other side was still connected has begun to write a
\* DISCONNECT message (its comment: "Writes a disconnect message and the
\* closes the socket").
DisconnectAnnounced ==
    \A p \in Peers : discCalled[p] /\ ~open[p] /\ open[Other(p)]
                        => \E i \in DOMAIN sentLog[p] : sentLog[p][i] = "DISCONNECT"

\* recv() failing because nothing has arrived yet (WSAEWOULDBLOCK on the
\* non-blocking socket) never ends a connection.
NoSpuriousReadError == \A p \in Peers : fault[p] = {}

\* sshd::Task returns once the application stops the server: performShutdown
\* sets the abort event of every connection thread and each of them
\* returns, so the wait for it ends.
ShutdownCompletes == stop ~> listener = "Done"

\* A user-authentication request that the server reads after it accepted
\* the authentication service is handed to that service, not rejected.
UserauthRequestHandled ==
    ~(/\ pc[Server] = "Done" /\ authState = "SERVICE_ACCEPT"
      /\ rcv[Server].buf = "USERAUTH_REQUEST")

====
