------------------------------ MODULE Session ------------------------------
(***************************************************************************)
(* The connection after the key exchange, between this repository's client *)
(* (CClientTransport) and its server (CServerTransport): the two           *)
(* user-authentication loops after the authentication service was         *)
(* accepted, the client's request of its connection service, and the two  *)
(* mainTask loops.                                                         *)
(*                                                                         *)
(* The plug-ins are the environment: the client's IAuthenticate writes     *)
(* messages of AuthMsgs; the server's authentication service handles the   *)
(* messages 60..79 (AUTH_METHOD here) and may answer, authenticate or     *)
(* fail; each side's connection service may have service packets to send. *)
(*                                                                         *)
(* As in SSHTransport a packet is two units, its first cipher block and    *)
(* the rest, and send() takes any number of the units left.  A reader that *)
(* finds only the first unit fails (read.cpp:135, see the wouldblock_read  *)
(* run); two units that are not the two halves of one packet fail the MAC. *)
(***************************************************************************)
EXTENDS Integers, Sequences, Services

CONSTANTS
    AuthMsgs,       \* the messages the client's IAuthenticate may write
    MaxAuth,        \* the authentication messages it writes at most
    MaxData,        \* the service packets each side's service sends at most
    Registries,     \* the service registries the application may build
    SvcName         \* the name of the service the client requests

ASSUME AuthMsgs \subseteq {"USERAUTH_REQUEST", "AUTH_METHOD"}
ASSUME MaxAuth \in Nat \ {0} /\ MaxData \in Nat

Client == "client"
Server == "server"
Peers  == {Client, Server}
Other(p) == IF p = Client THEN Server ELSE Client

Units    == 2
NoPacket == [st |-> "NO_PACKET", type |-> "NONE", sent |-> 0]

VARIABLES
    pc,        \* [Peers -> location of the thread]
    abort,     \* [Peers -> BOOLEAN]: the thread's abort event is set
    open,      \* [Peers -> BOOLEAN]: the socket is not closed
    pipe,      \* [Peers -> Seq(unit)]: units written by p not yet read
    snd,       \* [Peers -> sendState: the packet in the buffer, units written]
    authOut,   \* messages the client's IAuthenticate has ready to write
    authSent,  \* messages it has written
    authData,  \* the reply the server's authentication service has, or "NONE"
    service,   \* the server's m_pService: "NONE" or "CREATED"
    registry,  \* sshd's m_regServices, registered before the server starts
    data       \* [Peers -> service packets sent]

plugins == <<authOut, authSent, authData, service, registry, data>>
vars    == <<pc, abort, open, pipe, snd, plugins>>

Goto(p, l) == pc' = [pc EXCEPT ![p] = l]

\* A packet of type t in the send buffer: newPacket (packets.cpp:77-81) and
\* the message written, or a service's read() into an idle buffer.
Packet(t) == [st |-> "SENDING", type |-> t, sent |-> 0]

\* sendPacketNonblock (send.cpp:31-78) from sendState s when send() takes
\* k units: the units written and the new sendState.
Wrote(s, k) ==
    [snd   |-> IF s.sent + k = Units THEN NoPacket ELSE [s EXCEPT !.sent = @ + k],
     units |-> [i \in 1..k |-> [type |-> s.type, idx |-> s.sent + i]]]

Emit(p, w) == /\ snd' = [snd EXCEPT ![p] = w.snd]
              /\ pipe' = [pipe EXCEPT ![p] = @ \o w.units]

\* One sendPacketNonblock from sendState s: send() takes some units, or none
\* (writePossible() false), and the loop goes on at next; a send to a peer
\* that closed its socket fails, and Fail is what the caller then does.
SendNonblock(p, s, next, Fail) ==
    \/ /\ open[Other(p)]
       /\ \E k \in 0..(Units - s.sent) : Emit(p, Wrote(s, k))
       /\ Goto(p, next) /\ UNCHANGED open
    \/ /\ ~open[Other(p)]
       /\ snd' = [snd EXCEPT ![p] = s] /\ UNCHANGED pipe
       /\ Fail

\* One turn of the blocking sendPacket (send.cpp:18-26): it loops while the
\* packet is pending and goes on at next once it is written.
SendBlocking(p, next, Fail) ==
    \/ /\ open[Other(p)]
       /\ \E k \in 1..(Units - snd[p].sent) :
             /\ Emit(p, Wrote(snd[p], k))
             /\ IF snd[p].sent + k = Units THEN Goto(p, next) ELSE UNCHANGED pc
       /\ UNCHANGED open
    \/ /\ ~open[Other(p)]
       /\ UNCHANGED <<snd, pipe>>
       /\ Fail

\* readPacketNonblock (read.cpp:42-197): a packet when both its units are
\* there, a failure when only the first one is or the two do not belong
\* together, nothing yet, or a failure on a socket the peer closed.
ReadNonblock(p) ==
    LET s == pipe[Other(p)] IN
    IF Len(s) >= Units
      THEN IF s[1].idx = 1 /\ s[2].idx = 2
             THEN [res |-> "OK", type |-> s[1].type, take |-> Units]
             ELSE [res |-> "ERROR", type |-> "NONE", take |-> Units]
    ELSE IF Len(s) = 1 THEN [res |-> "ERROR", type |-> "NONE", take |-> 1]
    ELSE IF open[Other(p)] THEN [res |-> "NO_PACKET", type |-> "NONE", take |-> 0]
    ELSE [res |-> "DISCONNECTED", type |-> "NONE", take |-> 0]

Take(p, o) == pipe' = [pipe EXCEPT ![Other(p)] = SubSeq(@, o.take + 1, Len(@))]

Pending == {"NO_PACKET", "PACKET_PENDING"}

\* The client's mainTask returns: Task() sets m_status to CLOSED and leaves
\* the socket open (CClientTransport.cpp:136-143).
ClientExit == Goto(Client, "Done") /\ UNCHANGED open
\* The server's mainTask returns and Task() closes the socket
\* (ServerTask.cpp:44-47).
ServerExit == Goto(Server, "Done") /\ open' = [open EXCEPT ![Server] = FALSE]
\* A call of CTransport::disconnect (CTransport.cpp:140-166).
Disconnect(p) == Goto(p, "Disconnect") /\ UNCHANGED open

\* CTransport::disconnect (CTransport.cpp:140-166): flushPacket sends the
\* packet in the buffer with a blocking sendPacket (packets.cpp:66-71);
\* then, as in SSHTransport, the DISCONNECT is built but not sent and the
\* socket is closed.  The caller's mainTask then returns.
Close(p) == Goto(p, "Done") /\ open' = [open EXCEPT ![p] = FALSE]

DisconnectStep(p) ==
    /\ pc[p] = "Disconnect"
    /\ \/ snd[p].st # "NO_PACKET" /\ Goto(p, "Flush") /\ UNCHANGED open
       \/ snd[p].st = "NO_PACKET" /\ Close(p)
    /\ UNCHANGED <<abort, pipe, snd, plugins>>

Flush(p) ==
    /\ pc[p] = "Flush"
    /\ SendBlocking(p, "Disconnect", Close(p))
    /\ UNCHANGED <<abort, plugins>>

(***************************************************************************)
(* The client thread.                                                      *)
(***************************************************************************)
\* isTransportPacket (CTransport.cpp:240-259).
TransportTypes == {"DISCONNECT", "IGNORE", "UNIMPLEMENTED", "DEBUG", "SERVICE_REQUEST",
                   "SERVICE_ACCEPT", "KEXINIT", "NEWKEYS"}

\* The messages handleAuthPacket (ClientTask.cpp:184-222) takes: BANNER and
\* FAILURE go to the IAuthenticate's callbacks, 60..79 to authWritePacket.
AuthReplies == {"USERAUTH_BANNER", "USERAUTH_FAILURE", "AUTH_METHOD"}

\* A callback of the IAuthenticate may make it ready to write one more
\* message, up to MaxAuth in all.
NextAuth == authOut' \in IF authSent + authOut < MaxAuth THEN {authOut, authOut + 1}
                                                         ELSE {authOut}

\* The input half of performAuthentication's loop (ClientTask.cpp:122-149):
\* the abort check, one readPacketNonblock and the dispatch.  A transport
\* message goes to handleTransportPacket, which fails for all but KEXINIT;
\* this server sends no KEXINIT.  USERAUTH_SUCCESS ends the loop and
\* mainTask requests the connection service (ClientTask.cpp:36-47,
\* 228-245): newPacket, the SERVICE_REQUEST, a blocking sendPacket.
ClientAuthInput ==
    LET o == ReadNonblock(Client) IN
    /\ pc[Client] = "Auth"
    /\ \/ /\ abort[Client]
          /\ ClientExit /\ UNCHANGED <<pipe, snd, authOut>>
       \/ /\ ~abort[Client] /\ Take(Client, o)
          /\ \/ /\ o.res \in Pending
                /\ Goto(Client, "AuthOut") /\ UNCHANGED <<open, snd, authOut>>
             \/ /\ o.res = "OK" /\ o.type = "USERAUTH_SUCCESS"
                /\ snd' = [snd EXCEPT ![Client] = Packet("SERVICE_REQUEST")]
                /\ Goto(Client, "SvcReqSend") /\ UNCHANGED <<open, authOut>>
             \/ /\ o.res = "OK" /\ o.type \in AuthReplies
                /\ NextAuth
                /\ Goto(Client, "AuthOut") /\ UNCHANGED <<open, snd>>
             \/ /\ o.res \notin Pending
                /\ o.res = "OK" => o.type \notin AuthReplies \cup {"USERAUTH_SUCCESS"}
                /\ ClientExit /\ UNCHANGED <<snd, authOut>>
    /\ UNCHANGED <<abort, authSent, authData, service, registry, data>>

\* The output half (ClientTask.cpp:151-177): continue the packet being
\* sent, or take the IAuthenticate's next message into a new packet.
ClientAuthOutput ==
    /\ pc[Client] = "AuthOut"
    /\ \/ /\ snd[Client].st # "NO_PACKET"
          /\ SendNonblock(Client, snd[Client], "Auth", ClientExit)
          /\ UNCHANGED <<authOut, authSent>>
       \/ /\ snd[Client].st = "NO_PACKET" /\ authOut > 0
          /\ authOut' = authOut - 1 /\ authSent' = authSent + 1
          /\ \E m \in AuthMsgs : SendNonblock(Client, Packet(m), "Auth", ClientExit)
       \/ /\ snd[Client].st = "NO_PACKET" /\ authOut = 0
          /\ Goto(Client, "Auth") /\ UNCHANGED <<open, pipe, snd, authOut, authSent>>
    /\ UNCHANGED <<abort, authData, service, registry, data>>

\* requestService's sendPacket; a failure fails mainTask.
ClientSvcReqSend ==
    /\ pc[Client] = "SvcReqSend"
    /\ SendBlocking(Client, "SvcWait", ClientExit)
    /\ UNCHANGED <<abort, plugins>>

\* requestService's readPacket loop (ClientTask.cpp:247-274, read.cpp:
\* 27-37): a pending poll returns CONNECTION_ABORTED once the abort event is
\* set, and is a stutter otherwise; a packet other than SERVICE_ACCEPT, or a
\* failed read, fails mainTask.  SERVICE_ACCEPT starts the service
\* (OnAccept, m_status CONNECTED) and the main loop.
ClientSvcWait ==
    LET o == ReadNonblock(Client) IN
    /\ pc[Client] = "SvcWait"
    /\ \/ /\ o.res \in Pending /\ abort[Client]
          /\ ClientExit /\ UNCHANGED pipe
       \/ /\ o.res \notin Pending /\ Take(Client, o)
          /\ IF o.res = "OK" /\ o.type = "SERVICE_ACCEPT"
               THEN Goto(Client, "Main") /\ UNCHANGED open
               ELSE ClientExit
    /\ UNCHANGED <<abort, snd, plugins>>

\* The output half of the client's mainTask loop (ClientTask.cpp:52-81):
\* the abort check, then the packet being sent, or the service's next
\* packet read into the idle buffer.
ClientMain ==
    /\ pc[Client] = "Main"
    /\ \/ /\ abort[Client]
          /\ Disconnect(Client) /\ UNCHANGED <<pipe, snd, data>>
       \/ /\ ~abort[Client] /\ snd[Client].st # "NO_PACKET"
          /\ SendNonblock(Client, snd[Client], "MainIn", Disconnect(Client))
          /\ UNCHANGED data
       \/ /\ ~abort[Client] /\ snd[Client].st = "NO_PACKET" /\ data[Client] < MaxData
          /\ data' = [data EXCEPT ![Client] = @ + 1]
          /\ SendNonblock(Client, Packet("DATA"), "MainIn", ClientExit)
       \/ /\ ~abort[Client] /\ snd[Client].st = "NO_PACKET"
          /\ Goto(Client, "MainIn") /\ UNCHANGED <<open, pipe, snd, data>>
    /\ UNCHANGED <<abort, authOut, authSent, authData, service, registry>>

\* The input half (ClientTask.cpp:83-105): a service message goes to the
\* service's handle; a transport message to handleTransportPacket, which
\* fails for all but KEXINIT.
ClientMainIn ==
    LET o == ReadNonblock(Client) IN
    /\ pc[Client] = "MainIn" /\ Take(Client, o)
    /\ IF o.res \in Pending \/ (o.res = "OK" /\ o.type \notin TransportTypes)
         THEN Goto(Client, "Main") /\ UNCHANGED open
         ELSE ClientExit
    /\ UNCHANGED <<abort, snd, plugins>>
(***************************************************************************)
(* The server's connection thread.                                         *)
(***************************************************************************)
\* The input half of performAuthentication's loop (ServerAuthentication.cpp:
\* 27-47) in the SERVICE_ACCEPT state of handleAuthPacket (110-143): the
\* messages 60..79 go to the authentication service, anything else fails.
\* The service answers OK, possibly with a reply to send; or
\* CLIENT_AUTHENTICATED, and the service is deleted and USERAUTH_SUCCESS
\* written after newPacket, whatever the buffer held, and sent with a
\* blocking sendPacket; or fails.  Every failure returns out of mainTask.
ServerAuthInput ==
    LET o == ReadNonblock(Server) IN
    /\ pc[Server] = "Auth"
    /\ \/ /\ abort[Server]
          /\ ServerExit /\ UNCHANGED <<pipe, snd, authData>>
       \/ /\ ~abort[Server] /\ Take(Server, o)
          /\ \/ /\ o.res \in Pending
                /\ Goto(Server, "AuthOut") /\ UNCHANGED <<open, snd, authData>>
             \/ /\ o.res = "OK" /\ o.type = "AUTH_METHOD"
                /\ authData' \in {authData, "USERAUTH_FAILURE", "AUTH_METHOD"}
                /\ Goto(Server, "AuthOut") /\ UNCHANGED <<open, snd>>
             \/ /\ o.res = "OK" /\ o.type = "AUTH_METHOD"
                /\ authData' = "NONE"
                /\ snd' = [snd EXCEPT ![Server] = Packet("USERAUTH_SUCCESS")]
                /\ Goto(Server, "SendSuccess") /\ UNCHANGED open
             \/ /\ o.res \notin Pending
                /\ ServerExit /\ UNCHANGED <<snd, authData>>
    /\ UNCHANGED <<abort, authOut, authSent, service, registry, data>>

\* The output half (ServerAuthentication.cpp:48-84): continue the packet
\* being sent, or send the authentication service's reply from the idle
\* buffer; a failure of the latter calls disconnect.
ServerAuthOutput ==
    /\ pc[Server] = "AuthOut"
    /\ \/ /\ snd[Server].st # "NO_PACKET"
          /\ SendNonblock(Server, snd[Server], "Auth", ServerExit)
          /\ UNCHANGED authData
       \/ /\ snd[Server].st = "NO_PACKET" /\ authData # "NONE"
          /\ authData' = "NONE"
          /\ SendNonblock(Server, Packet(authData), "Auth", Disconnect(Server))
       \/ /\ snd[Server].st = "NO_PACKET" /\ authData = "NONE"
          /\ Goto(Server, "Auth") /\ UNCHANGED <<open, pipe, snd, authData>>
    /\ UNCHANGED <<abort, authOut, authSent, service, registry, data>>

\* The blocking sendPacket of USERAUTH_SUCCESS (ServerAuthentication.cpp:
\* 125-131); performAuthentication then returns OK and mainTask's loop
\* starts (ServerTask.cpp:127-135).
ServerSendSuccess ==
    /\ pc[Server] = "SendSuccess"
    /\ SendBlocking(Server, "Main", ServerExit)
    /\ UNCHANGED <<abort, plugins>>

\* The output half of mainTask's loop (ServerTask.cpp:135-175): the abort
\* check, then the packet being sent (a failure returns), or the service's
\* next packet read into the idle buffer (a failure disconnects).
ServerMain ==
    /\ pc[Server] = "Main"
    /\ \/ /\ abort[Server]
          /\ Disconnect(Server) /\ UNCHANGED <<pipe, snd, data>>
       \/ /\ ~abort[Server] /\ snd[Server].st # "NO_PACKET"
          /\ SendNonblock(Server, snd[Server], "MainIn", ServerExit)
          /\ UNCHANGED data
       \/ /\ ~abort[Server] /\ snd[Server].st = "NO_PACKET"
          /\ service = "CREATED" /\ data[Server] < MaxData
          /\ data' = [data EXCEPT ![Server] = @ + 1]
          /\ SendNonblock(Server, Packet("DATA"), "MainIn", Disconnect(Server))
       \/ /\ ~abort[Server] /\ snd[Server].st = "NO_PACKET"
          /\ Goto(Server, "MainIn") /\ UNCHANGED <<open, pipe, snd, data>>
    /\ UNCHANGED <<abort, authOut, authSent, authData, service, registry>>

\* handlePacket (ServerTask.cpp:54-116) for a packet of type t.  A second
\* SERVICE_REQUEST disconnects.  The first creates the service and returns
\* OK without any reply; when sshd::createService finds no factory of the
\* name or the factory returns NULL it disconnects.  KEXINIT would start a re-exchange, but the client never
\* sends one; every other message, the service's own included, fails.
HandlePacket(t) ==
    \/ /\ t = "SERVICE_REQUEST" /\ service = "CREATED"
       /\ Disconnect(Server) /\ UNCHANGED service
    \/ /\ t = "SERVICE_REQUEST" /\ service = "NONE" /\ "OK" \in CreateService(registry, SvcName)
       /\ service' = "CREATED"
       /\ Goto(Server, "Main") /\ UNCHANGED open
    \/ /\ t = "SERVICE_REQUEST" /\ service = "NONE"
       /\ CreateService(registry, SvcName) \ {"OK"} # {}
       /\ Disconnect(Server) /\ UNCHANGED service
    \/ /\ t \notin {"SERVICE_REQUEST", "KEXINIT"}
       /\ ServerExit /\ UNCHANGED service

\* The input half (ServerTask.cpp:177-189).
ServerMainIn ==
    LET o == ReadNonblock(Server) IN
    /\ pc[Server] = "MainIn" /\ Take(Server, o)
    /\ \/ o.res \in Pending /\ Goto(Server, "Main") /\ UNCHANGED <<open, service>>
       \/ o.res = "OK" /\ HandlePacket(o.type)
       \/ o.res \notin Pending \cup {"OK"} /\ ServerExit /\ UNCHANGED service
    /\ UNCHANGED <<abort, snd, authOut, authSent, authData, registry, data>>

(***************************************************************************)
(* The environment and the specification.                                  *)
(***************************************************************************)
RequestAbort(p) ==
    /\ ~abort[p] /\ pc[p] # "Done"
    /\ abort' = [abort EXCEPT ![p] = TRUE]
    /\ UNCHANGED <<pc, open, pipe, snd, plugins>>

\* Both threads have returned.
Terminated == \A p \in Peers : pc[p] = "Done" /\ UNCHANGED vars

\* The server has sent SERVICE_ACCEPT for the authentication service and
\* the client has read it (SSHTransport ends here); each plug-in's first
\* message is still to come.
Init ==
    /\ pc = [p \in Peers |-> "Auth"]
    /\ abort = [p \in Peers |-> FALSE]
    /\ open = [p \in Peers |-> TRUE]
    /\ pipe = [p \in Peers |-> <<>>]
    /\ snd = [p \in Peers |-> NoPacket]
    /\ authOut = 1 /\ authSent = 0 /\ authData = "NONE"
    /\ service = "NONE" /\ registry \in Registries
    /\ data = [p \in Peers |-> 0]

ClientStep ==
    \/ ClientAuthInput \/ ClientAuthOutput \/ ClientSvcReqSend \/ ClientSvcWait
    \/ ClientMain \/ ClientMainIn \/ DisconnectStep(Client) \/ Flush(Client)

ServerStep ==
    \/ ServerAuthInput \/ ServerAuthOutput \/ ServerSendSuccess
    \/ ServerMain \/ ServerMainIn \/ DisconnectStep(Server) \/ Flush(Server)

Next == ClientStep \/ ServerStep \/ \E p \in Peers : RequestAbort(p) \/ Terminated

\* Each thread runs whenever it can; aborts are up to the user.
Spec == Init /\ [][Next]_vars /\ WF_vars(ClientStep) /\ WF_vars(ServerStep)

(***************************************************************************)
(* Properties.                                                             *)
(***************************************************************************)
\* The client's requestService (ClientTask.cpp:228-275) returns: once the
\* client has sent its SERVICE_REQUEST and waits for the reply, the server
\* accepts the service or the connection ends.
ServiceRequestAnswered == (pc[Client] = "SvcWait") ~> (pc[Client] # "SvcWait")
====
