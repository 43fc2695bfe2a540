# TLA+ models of the sshd SSH transport

This directory holds TLA+ models of the C++ SSH transport in `src/src/`. The
TLC configurations check them. `PROJECT.json` lists:
- the components;
- the runs, mutants and findings;
- the hazards;
- the map from every modelled definition to the source lines it translates.

## The system

| Part | Source | What it does |
|---|---|---|
| Packet engine | `send.cpp`, `read.cpp`, `packets.cpp` | Frames, encrypts, MACs and numbers packets. `sendPacketNonblock` and `readPacketNonblock` are state machines (`NO_PACKET`, `SENDING_PACKET`; `FIRST_BLOCK`, `READING_PACKET`, `FINALIZE`). The blocking `sendPacket` and `readPacket` loop over them. |
| Socket wrapper | `CNetwork.cpp` | `readBytes`, `writeBytes`, `readLine`, `writeLine`, `dataAvailable`, `writePossible`, `disconnect`. The socket is blocking during the version exchange and non-blocking afterwards. |
| Version exchange | `exchange.cpp` | Each side writes its version line. The server reads one line. The client skips up to `SSHD_SETTING_MAX_MOTD_COMMENTS` non-`SSH-` lines. |
| KEXINIT exchange, negotiation | `exchange.cpp`, `keyexchange.cpp` | `exchangeKeyExchanges` sends and reads KEXINIT and copies both headers for the exchange hash. `DecideAlgorithms` matches the name lists. |
| Diffie-Hellman | `diffie-client.cpp`, `CDiffieHellman.cpp` | The client sends KEXDH_INIT and verifies KEXDH_REPLY. The server role (`ServerKeyExchange`) is declared in the header but not implemented under `src/`. |
| Key derivation, key switch | `keys.cpp` | `DeriveKeys`; `TakeKeysIntoUse` sends and expects NEWKEYS, then switches both directions. |
| Client orchestrator | `CClientTransport.cpp`, `ClientTask.cpp` | `Task`: connect, `establishConnection`, key exchange, then `mainTask`: request the authentication service, then the authentication loop, `requestService` and the main loop (`Session`). |
| Server orchestrator | `CServerTransport.cpp`, `ServerTask.cpp`, `ServerAuthentication.cpp` | `Task`: MOTD, versions, key exchange, then `mainTask`: the authentication loop, which handles the service request and hands messages 60..79 to the authentication service; after USERAUTH_SUCCESS, the main loop and `handlePacket` (`Session`). |
| Listener | `sshd.cpp` | Accepts connections, runs one `CServerTransport` thread per connection, and on shutdown aborts and waits for every connection thread. |
| Crypto, streams, settings | `aes.cpp`, `rsa.cpp`, `CBigInt.cpp`, `CStream.cpp`, … | Pure computation and encoding. |

The client and the server are two threads. They interact only through the TCP
byte stream and through the abort event the application or
`sshd::performShutdown` sets.

## Modules

### `SSHTransport.tla`: one connection, client and server threads

This module models one connection from the TCP connect to the client's first
user-authentication message.

**State.**
- `pc`: where each thread is. Each location is a point in the code.
- `ret` and `polled`: the result of the blocking call at that location, and
  whether `readPacket` is past its first poll.
- `snd` and `rcv`: `sendState` and `readState`.
- `kex`: the KEXINIT headers, the exchange hash and `m_sessionIdent`.
- `authState`: the server's `m_authState`.
- `status`: the client's `m_status`.
- `open`: whether each socket is still open.
- `connected`, `accepted`, `listener` and `stop`: the client's TCP connection
  exists, the listener has accepted it, where `sshd::Task` is, and whether
  the server was asked to stop.
- `pipe` and `arrived`: the stream in each direction, and how much of it has
  reached the reader.

**Data abstractions.**
- A packet is two *units*: its first cipher block, and the rest with the MAC.
  `send()` may take any number of the units left, and units arrive one at a
  time. This covers every way TCP can split a packet that the reader's state
  machine can tell apart.
- A unit carries its type, the sender's header snapshot (sender, sequence
  number), its position and the keys it was encrypted with.
- Keys are the pair (exchange hash, session id) they derive from.
- The exchange hash is the pair (I_C, I_S) of KEXINIT headers each side
  copied.

**Actions.** Each blocking call is a location in `SendLocs` or `ReadLocs`:
- `SendStep` is one `sendPacketNonblock` call that writes.
- `SendBlocked` is a call made while `writePossible` is false.
- `ReadStep` is one `readPacketNonblock` call, including the abort check that
  `readPacket` makes after each poll.
- The continuation actions (`KexInitSent`, `ReadKex`, `DhReplyGot`,
  `NewKeysGot`, `SvcAcceptGot`, `AcceptSent`, …) branch on the result the way
  the caller does.
- `ClientConnect`, `ClientConnectRefused`, `ClientConnectFailed` and
  `ClientConnectAborted` are the client's connect loop
  (`CClientTransport.cpp:96-121`). A connect to a port where no socket
  listens pends for ever: `CNetwork::poll` hands the socket to `select` as
  its write set only, and Winsock reports a refused connect in the except
  set. Only the user's abort ends that loop. `ClientConnectFailed` is
  `socket` or `getaddrinfo` failing.
- `DisconnectBegin` and `Flushed` are `CTransport::disconnect`, followed by the
  socket close of whoever called it.
- `ListenerBind`, `ListenerAccept` and `ListenerJoin` are the listener thread,
  `sshd::Task`: the bind (which may fail), the accept of the client's
  connection from the backlog, and `performShutdown`'s wait for the
  connection thread followed by the close of the listening socket. That close
  resets a connection the listener never accepted.
- `Shutdown` is the application stopping the server. The loop notices the
  stop and `performShutdown` sets the connection thread's abort event. A
  connection accepted in between gets the same abort, so the two are one step.
- `RequestAbort` (the client's abort event) and `Arrive` are the environment.

`Configs` chooses, per run, the paths that depend on settings and files:
- whether the algorithm lists match;
- the authentication services registered with sshd (`authServices`). The
  server's `tryHandleAuthServiceRequest` (`AuthServiceRequest`) looks the
  client's service up with `CreateAuthService` of `Services.tla`. A service
  that is found is accepted. A missing one gets `disconnect()`. A factory that
  returns NULL makes the server close the socket without a DISCONNECT;
- whether the host key pair loads;
- how many MOTD lines there are.

`DhInitGot` is the only definition modelled from `spec.md`: the server's DH
step has no implementation under `src/`.

**Not modelled here.**
- The server's authentication output. The repository's only authentication
  service, `ssh_userauth`, has no data to send: `isDataAvailable` returns
  false.
- The client's dispatch of a packet in its authentication loop. This server
  sends none: a packet there would leave the client with no enabled step, and
  TLC would report a deadlock.

`MC_SSHTransport.tla` sets the constants:
- `MaxMotdComments = 1`;
- five settings (`MC_Configs`): the good path with a MOTD of exactly one line
  (on the client's limit), and one failure of each kind: no common algorithm,
  no authentication service of the client's name, no host key, and a MOTD of
  two lines (beyond the limit). With two failures the first one decides the
  path, so the five cover every combination. On the good path the
  authentication factory may return NULL on the call. The failure then
  branches off at the lookup and does not need a setting of its own.

### `SecureChannel.tla`: what the packet layer promises

This is the abstract specification of one connection's packet layer. Each
end has two variables:
- `sent`: the packets it has started to write;
- `recvd`: the packets it has read.

`Deliver(p)` hands end `p` the oldest packet of the other end that it has not
read. So every packet is read at most once, in the order written and
unaltered. The channel may stop at any point; it has no liveness.

`SSHTransport` is shown to implement it. The instance `Channel` maps:
- `sent` to the history `sentLog`: the types of the packets whose first unit
  each peer wrote;
- `recvd` to the reader's history `rlog`, through `Read`.

`Read` maps a packet to `CORRUPT` when the reader decoded it at the wrong
place of the stream, with a wrong sequence number, or with keys other than
the ones it was encrypted with. No peer sends `CORRUPT`. `Read` counts a
packet whatever `readPacketNonblock` returned: a failed decode is still a
packet out of turn. `SecureChannelRefined` (`Channel!Spec`) is checked as a
property of the `handshake` run.

### `Negotiation.tla`: algorithm negotiation

This module models `DecideAlgorithm` and `DecideAlgorithms`
(`keyexchange.cpp`) and the `SplitString` and `Trim` they rely on
(`StringUtil.cpp`). They are pure operators:
- `SplitString` is RECURSIVE, one call per turn of its do-while loop.
- `DecideAlgorithm` returns `[ok, match]`.

A string is a sequence over a four-character alphabet: the letters `r` and
`d` (standing for `ssh-rsa` and `ssh-dss`), the comma and the space. The
variables `client` and `server` are the two name-lists of one category.
`Init` takes every pair of strings of up to three characters, plus the
repository's default host-key list `"ssh-rsa, ssh-dss"` as the server's list.
Nothing changes after that.

The reference (`RfcNames`, `RfcNameList`, `RfcChoice`) is RFC 4253 section
7.1, written independently of the code:
- cut at every comma;
- no empty names and no spaces;
- the first client name that the server also offers.

### `KeyDerivation.tla`: key derivation and taking the keys into use

This module models `DeriveKeys` and `DeriveKey` (`keys.cpp`). `Extend` is the
while loop, RECURSIVE: each round hashes K, H and every byte derived so far.

The hash is a free function. The digest of an input is 20 bytes (sha1, the
only hash the repository's key exchange names), and byte i is the pair
<<input, i>>. Two digests are therefore equal exactly when their inputs are,
which is all a derivation can be checked for without computing SHA-1.

The reference `RfcKey` is written from RFC 4253 section 7.2. The variable
`unique` is the letter of the key being derived: the index of `DeriveKeys`'s
loop.

`TakeKeysIntoUse` (`keys.cpp:136-175`) follows the code's steps, one
operator each:
- `createAlgorithmInstances` makes no object for "none". A name that
  `CCipher::CreateInstance` or `CHmac::CreateInstance` does not know makes
  it fail.
- Each side's `InitializeKeys` keys each object from a `KeyVector` slot
  (`KeySlot`, the enum of `CTransport.h`). The client decrypts the server's
  direction; the server encrypts it.
- Each side's `TakeAlgorithmsInUse` makes the block's objects its send and
  read algorithms.

An object is its name, its operation and its key and IV. The NEWKEYS exchange
between the steps is `SSHTransport`'s. The variable `matches` holds the
negotiated names of the four categories with keys. Both sides hold the same
names, as `NegotiationMatchesRfc` shows.

`KeysTakenIntoUseMatchRfc` compares both sides with RFC 4253 section 7.2. In
each direction, the sender's cipher and MAC and the receiver's must be the
same algorithm, with opposite operations. They must use the IV, encryption
key and integrity key of that direction's letters: A, C and E from client to
server, and B, D and F back. The two `InitializeKeys` are mirrored copies.
A swap made the same way in both would pass a test of this client against
this server, but not this comparison.

`MC_Negotiation` checks the pure computations together: `MC_Spec` chooses
the name-lists, the key letter and the negotiated names, then holds them
fixed. Each cipher category is "none", one of the two AES names or
`3des-cbc`, which the factory does not know. Each MAC category is "none",
`hmac-sha1` or `hmac-md5`.

### `PacketCodec.tla`: packet sizes

This module models the byte arithmetic of one direction of the packet
protocol:
- `writeBytes`, with its 32000-byte and buffer checks;
- `initSendState`'s padding and lengths;
- the header checks and size computations in `readPacketNonblock`'s
  `FIRST_BLOCK` state;
- `readBytes`, which handlers use to parse a payload.

A packet is a record of sizes. The peer is either this code (`Send`) or any
implementation (`Forge`). Any implementation holds the session keys, so it can
put any header on the wire that passes the reader's checks.

TLC's integers are 32-bit signed. A `uint32` is therefore kept as the int32
with the same bits, and `ULe` compares two of them unsigned, as the C++
comparison in `readBytes` does. Forged lengths of 2^31 or more fail the
reader's first check, so they are not enumerated.

`MC_PacketCodec.tla`:
- block sizes 8 (no cipher) and 16 (AES);
- MAC lengths 0 and 20;
- message builders write chunks of 1, 7, 15000 and 16000 bytes, three times;
- handlers read 1 or 4096 bytes (`MAX_STRING_LENGTH`), nine times. Nine reads
  of 4096 are enough to pass the end of the 36 KiB buffer.

### `ClientSession.tla`: the client's steady state and a server-started rekey

This module models `CClientTransport::mainTask` after the service is accepted
(`ClientTask.cpp:52-106`):
- the abort check;
- sending a queued packet or a service packet;
- reading an input packet and dispatching it.

`handleTransportPacket` (`ClientTask.cpp:280-303`) runs
`performKeyExchange(false, false)` on a KEXINIT. The module follows that call
through `exchangeKeyExchanges`, `ClientKeyExchange` and `TakeKeysIntoUse`.
`ClientSend(next)` is the blocking `sendPacket` loop. It continues at `next`.

`readPacketNonblock` consumes IGNORE and DEBUG messages and returns NO_PACKET
for them (`read.cpp:186-190`), so `mainTask` goes on (`Swallowed`). A send
that fails on the socket the server closed ends `mainTask`
(`ClientOutputFails`).

The server is any RFC 4253 implementation. It sends DATA or IGNORE packets,
may start one re-exchange by sending KEXINIT, and then expects the client's
KEXINIT, KEXDH_INIT and NEWKEYS in that order. Anything else is recorded in
`rejected`.

Packets are two units, as in `SSHTransport`. `remoteKex` is the generation of
the server KEXINIT held in `m_remoteKex`.

### `Services.tla`: sshd's service registries

This module holds pure operators, with no state, over a registry: a sequence
of registrations. Each registration is a name and what its factory may do
on a call: create an object or return NULL. The factory is application code,
and it may do either on any call.
- `RegisterService` is `sshd::registerService` and `registerAuthService`.
  Each appends to the list and does not check for an earlier entry of the
  same name.
- `CreateService` and `CreateAuthService` are the two lookups
  (`sshd.cpp:124-165`). They give the set of results one call may return.
  The first entry of the name decides the result:
  - OK when its factory creates an object;
  - ERROR when the factory returns NULL;
  - NO_SUCH_SERVICE when there is no entry of that name.

The application registers before the server starts. The MC modules therefore
build the registries a run starts from with `RegisterService`. Session's
`handlePacket` and SSHTransport's `tryHandleAuthServiceRequest` call the
lookups.

### `Session.tla`: authentication, the service request and the main loops

This module composes this repository's client and server after the key
exchange. It starts where `SSHTransport` ends: the server has accepted the
authentication service. It models:
- both authentication loops: each thread's input half, then its output half
  (`ClientTask.cpp:122-177`, `ServerAuthentication.cpp:27-84`);
- the dispatch of each loop (`handleAuthPacket` of both sides);
- the server's USERAUTH_SUCCESS, written after `newPacket` and sent by a
  blocking `sendPacket`;
- the client's `requestService` for its connection service
  (`ClientTask.cpp:36-47`, `228-275`);
- both `mainTask` loops and the server's `handlePacket`
  (`ClientTask.cpp:52-106`, `ServerTask.cpp:54-190`);
- `CTransport::disconnect` and the end of each `Task()`. The client leaves
  its socket open when it returns; the server closes its socket.

The plug-ins are the environment:
- the client's `IAuthenticate` writes messages of `AuthMsgs`;
- the server's authentication service handles messages 60..79 (`AUTH_METHOD`)
  and answers, authenticates or fails;
- each connection service may have service packets to send.

The repository's own authentication plug-in, `ssh_userauth`, does not
implement `CService`'s pure virtual methods. It cannot be instantiated, so
the model does not use it.

Packets are two units, as in `SSHTransport`. Two simplifications:
- A reader sees a unit as soon as it is written.
- A reader that finds only the first unit fails. This is the behaviour that
  the run `wouldblock_read` establishes for `read.cpp:135`.

`SendNonblock(p, s, next, Fail)` is one `sendPacketNonblock`. `SendBlocking`
is one turn of `sendPacket`. In both, `Fail` is what the caller does when the
send fails.

### `KexEncoding.tla`: the bytes of a key exchange

This module holds `CStream`'s writers and readers as operators over byte
sequences:
- uint32, string (with `readString`'s quirk for a length of 0 or above 4096);
- KEXINIT and mpint (`CBigInt::write`);
- `rsa`'s key blob and signature;
- `CNetwork`'s `writeLine` and `readLine`;
- `parseProtocolVersion`, the client's MOTD-skipping loop and the server's
  `displayMotd`;
- `validPublicKey`.

A reader returns `[ok, val, pos]`. `Then` chains readers, as each
`if( !read...() ) return false;` of the code does.

`ClientHash` and `ServerHash` follow one key exchange as each side computes
its exchange hash input (`ComputeExchangeHash`):
- each side reads the other's version line;
- each side parses the other's KEXINIT into a fresh `KeyExchangeInfo`;
- the client parses KEXDH_REPLY (key blob, f, signature) and checks f.

The server's side of Diffie-Hellman (`ServerKeyExchange`) is not under
`src/`. It is taken to read e with `readBigInt` and to send its own key blob
and a fixed signature. The reference `RfcHashInput` is written from RFC 4251
section 5 and RFC 4253 section 8.

### Fairness (SSHTransport)

- `WF` on each thread's steps, the listener's included: the OS schedules
  every runnable thread, and the accept loop polls every 250 ms.
- `WF` on `Arrive`: TCP delivers what was written.
- `SF` on `ClientAuthOutput`: a send buffer polled for ever by the client's
  authentication loop is eventually writable. This holds because the server
  keeps reading.

Aborts, the stop and a full send buffer (`SendBlocked`, `ClientAuthOutputBlocked`) get no
fairness: they are up to the environment.

### Deadlock

`Terminated` lets the system stop only where the program stops:
- both threads have returned;
- the server never accepted the connection;
- the listener has returned, waits in `Listen` with nothing to accept, or waits
  for a connection thread that is blocked;
- the server is blocked in `readLine` waiting for a client that has returned
  without writing.

## Runs

| Run | Expect | What it shows |
|---|---|---|
| `handshake` | pass | Checks `TypeOK` and `SecureChannelRefined` over every interleaving, every split of the streams, every abort point and every path through the handshake. `SecureChannelRefined` says that each direction refines the abstract channel of `SecureChannel.tla`: every packet a peer decodes is the next one the other peer started, at a packet boundary, with the sequence number the sender used, and with the keys it was encrypted with. In other words, NEWKEYS and the copied KEXINIT headers keep the two sides in step. Under the threads' weak fairness it also checks `AbortHonouredInPacketMode` (once the sockets are non-blocking, a set abort event ends the thread) and `ClientTerminates` (a client whose connect completed ends). The refused connect is left out of that property on purpose: its loop ends only on the user's abort, which gets no fairness. It is recorded as a hazard at `CNetwork.cpp:105`. |
| `disconnect_message` | violation | `DisconnectAnnounced`: `CTransport::disconnect` never sends its DISCONNECT (`CTransport.cpp:155`). |
| `wouldblock_read` | violation | `NoSpuriousReadError`: a packet whose rest arrives after its first block fails the connection (`read.cpp:135`). |
| `abort_blocking_read` | violation | `ShutdownCompletes`: once the application stops the server, `sshd::Task` returns. TLC finds it violated: a client aborts its pending connect without closing its socket, and the listener accepts the connection. The server thread then blocks in `readLine` for the client's version and never sees the abort event that `performShutdown` sets. `performShutdown` waits for that thread for ever (`exchange.cpp:32`, `sshd.cpp:96-99`). |
| `userauth_rejected` | violation | `UserauthRequestHandled`: the server closes the connection on USERAUTH_REQUEST (`ServerAuthentication.cpp:116`, `139-142`). |
| `kex_algorithms` | pass | `NegotiationMatchesRfc`: for every pair of well-formed name-lists of up to three characters, the code picks the RFC's algorithm, or fails exactly when the lists share none. `KeyDerivationMatchesRfc`: each of the six keys is the RFC 4253 key for its letter. `ExchangeHashAgrees`: for every software name, MOTD file and mpint boundary value, client and server hash the same bytes, the bytes RFC 4253 defines; the client accepts exactly the f that are not powers of two, and checks the signature the server sent. `KeysTakenIntoUseMatchRfc`: for every choice of negotiated ciphers and MACs, both sides key each direction with the RFC's letters, or both fail on a name the factories do not know. |
| `default_hostkey` | violation | `DefaultHostkeyNegotiates`: with the default `"ssh-rsa, ssh-dss"`, the second name is `" ssh-dss"`, so a client offering only `ssh-dss` fails (`CTransport.cpp:23`). |
| `codec` | pass | `TypeOK`, `HonestPacketFramed` and `ReadWithinBuffer`, for every payload `writeBytes` accepts. Whenever the reader's size limit lets a packet this code sends in, its padding and length pass the reader's checks, the reader frames it at its exact length and hands over its exact payload. Handlers stay inside the buffer. Where the size limit itself rejects the packet is the `codec_size_limit` run. |
| `codec_forged_header` | violation | `ReadWithinBuffer`: a header with `padding >= packetSize` makes `payloadSize` wrap to 2^32-1, and handlers read past the 36 KiB buffer (`read.cpp:122`, `packets.cpp:46`). |
| `client_rekey` | violation | `ServerAcceptsClient`: when the server starts a re-exchange, the client sends KEXDH_INIT without its KEXINIT, because `ClientKeyExchange`'s `newPacket` (`diffie-client.cpp:27`) discards the KEXINIT that `exchangeKeyExchanges` only wrote (`ClientTask.cpp:291`, `exchange.cpp:130`). |
| `codec_size_limit` | violation | `HonestPacketDelivered`: a payload that `writeBytes` accepts (up to 32000 bytes) makes a packet that the reader rejects as longer than 32000 (`packets.cpp:27`, `read.cpp:95`). |
| `service_request` | violation | `ServiceRequestAnswered`: after authentication, the client requests its connection service and waits for SERVICE_ACCEPT. The server creates the service and returns without a reply (`ServerTask.cpp:91`), so both loops poll for ever and the client never reaches its main loop. |

Each property of a passing run has a mutant in `PROJECT.json`: a plausible bug
in the mapped code that TLC then catches. The mutants are:
- an off-by-one in the units `send()` may take;
- keys installed when NEWKEYS is sent rather than received;
- a sequence number that does not advance;
- the server's authentication loop without its abort check;
- a failed authentication that leaves the socket open;
- later rounds of key derivation that leave out the shared secret;
- the server's preference in place of the client's (the two loops of
  `DecideAlgorithm` swapped);
- `writeBytes` without its size checks;
- padding computed without the 5 header bytes;
- `readBytes` without its bound check;
- an mpint written without its sign byte;
- a client that takes the first MOTD line as the server's version;
- a `validPublicKey` that accepts a key with one bit set.

## Bounds

- **One connection.** The threads of different connections share nothing but
  the listener's list. With one connection the listener still meets every
  case of its own: the bind fails, the stop comes before the connect, between
  the connect and the accept, or after the accept.
- **Two units per packet.** This is enough to split a packet between its first
  block and the rest, which is where the reader's state machine branches.
- **One user-authentication message.** The server rejects the first one.
- **MOTD of 1 or 2 lines against a limit of 1.** The good path runs with
  exactly the limit, and one setting goes one line beyond it. This covers both
  branches of the limit check at its boundary.

- **Negotiation: strings of up to three characters over four symbols.** This
  gives every list of one or two one-letter names, and every place a comma,
  an empty name or a space can go.
- **PacketCodec: chunks of 1, 7, 15000 and 16000 bytes, up to three per
  packet.** The sums cross every residue modulo both block sizes and reach
  `writeBytes`'s limit of 32000 bytes. The run `codec_size_limit` uses chunks
  of 1 and 16000 bytes only, so that TLC finds the shortest trace.

- **KexEncoding: mpint values 1, 127, 128, 255, 256, 32767, 32768, 65535.**
  These are each byte length and each top-bit boundary, where the sign byte
  and `BitsSet` change. The software names are the default, an empty one and
  one with a space. The MOTD files are none, an empty line, two lines, and one
  that begins with `SSH-`. Each input ranges while the others keep their
  default, so the state space is the sum of the inputs.
- **ClientSession: one service packet each way and one re-exchange.** The
  violation needs only the re-exchange.
- **Session: up to two messages of the client's `IAuthenticate`, standard
  requests or method messages; one service packet each way; three service
  registries: empty; the client's service; and a factory that may return
  NULL, registered before a working one of the same name. With these,
  `createService` returns each of its results.** Two messages let an authentication reply be in flight
  while the next request arrives. The violation needs one method message.

The `handshake` run has about 48,000 distinct states and takes about two
minutes, most of it in the liveness check.
The `kex_algorithms` run has 8,996 states (about 25 seconds with coverage) and the `codec` run about 654,000 (10 seconds).

## Plan for the following sittings

`PacketCodec`, `Negotiation`, `KeyDerivation`, `KexEncoding`,
`ClientSession`, `Session` and the `SecureChannel` refinement are done. All twelve runs are in use, so a new
question must replace a weaker one or join an existing run.

1. A truncated KEXDH_REPLY: `readVector` ignores the result of `readBytes`
   (`CStream.cpp:41`).

## Not modelled, and why

- **Cryptographic primitives, big-number arithmetic and hashing.** These are
  pure computation beyond TLC's reach. Keys are values that either match or do
  not.
- **`ArrayStream`, `FileStream`, `CSettings`, and `CStream`'s UTF-8 and
  64-bit helpers.** These are unused by the key exchange, or are
  configuration whose values appear as `Configs` and constants.
- **The re-exchange branches of `exchangeKeyExchanges`
  (`exchange.cpp:146-189`).** These are dead code. Because the two
  parameters are swapped, the branches run only for a call
  `performKeyExchange(true, false)`, and nothing in the repository makes that
  call. The server passes `(true, true)` and the client `(false, false)`.
- **`services.cpp`.** `CServerTransport`'s own registries are never called:
  the transports use sshd's registries, which `Services.tla` models.
- **`sshd::init` and `sshd::shutdown`.** `init` only loads settings.
  `shutdown` is declared in `sshd.h` but never defined.
- **`dmx.cpp` (the demultiplexer).** Nothing uses it; only
  `CChannelManager.h` declares it. It has defects of its own:
  - `AllocateRangeFilter` assigns `high` twice and leaves `low` unset;
  - the section filter's `match` is never set;
  - `AllocateSectionFilter` is not defined.
- **The server's version check.** The server does not check that the
  client's line begins with `SSH-` (`exchange.cpp:31`). The model has the
  missing check, but the client in this code always sends such a line. The
  gap is listed as a hazard.
- **`handlePacket`'s KEXINIT branch (`ServerTask.cpp:96-110`).** This
  repository's client never starts a re-exchange, and a foreign client is not
  modelled. The branch's defect is listed as a hazard.
- **`authentication.cpp`.** An unfinished second definition of the server's
  authentication loop.
- **The `m_status` data race in `getStatus`.** It is listed as a hazard.
