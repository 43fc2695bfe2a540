---------------------------- MODULE PacketCodec ----------------------------
(***************************************************************************)
(* The size arithmetic of the binary packet protocol: how the sender       *)
(* builds a packet from the payload it wrote (CTransport::writeBytes,      *)
(* initSendState), how the reader frames it from the header in its first   *)
(* block (readPacketNonblock) and how a handler reads the payload back     *)
(* (CTransport::readBytes).  Sizes are numbers of bytes, kept in uint32    *)
(* where the code computes in uint32.  The bytes themselves, their         *)
(* encryption and the MAC, and the split of the stream into reads are      *)
(* SSHTransport's concern; here a packet is read in three steps.           *)
(*                                                                         *)
(* The peer is either this code (Send) or any SSH implementation, which    *)
(* holds the session keys and so may put any header it likes on the wire  *)
(* (Forge).                                                                *)
(***************************************************************************)
EXTENDS Integers

CONSTANTS
    BlockSizes,   \* cipher block sizes: 8 without a cipher, 16 for AES
    MacLengths,   \* digest lengths: 0 without a MAC, 20 for hmac-sha1
    Chunks,       \* the sizes a message builder passes to writeBytes
    MaxWrites,    \* writeBytes calls per packet
    ReadCounts,   \* the sizes a handler passes to readBytes
    MaxReads,     \* readBytes calls per packet
    Forged        \* the headers a peer may send: [packetSize, padding]

\* TLC's integers are 32-bit, so a uint32 is kept as the int32 with the same
\* bits, and ULe compares two of them as unsigned.  A forged packetSize of
\* 2^31 or more fails the reader's first check like any above 32000.
MaxInt32 == 2147483647
ULe(a, b) == IF (a < 0) = (b < 0) THEN a <= b ELSE b < 0

ASSUME Forged \subseteq [packetSize : 0..MaxInt32, padding : 0..255]

HdrSize  == 5                 \* sizeof(ssh_hdr): uint32 length, byte padding
BufSize  == 1024 * 36         \* CTransport::init (CTransport.cpp:79)
MinPacketSize == 8            \* read.cpp:18
MaxPacketSize == 32000        \* read.cpp:19
NoPacket == [honest |-> FALSE, packetSize |-> 0, padding |-> 0, dataSize |-> 0, payload |-> 0]

VARIABLES
    blockSize, macLen,           \* the algorithms in use, the same on both sides
    writePos, writes, sendOK,    \* m_writePos; calls so far; last writeBytes result
    wire,                        \* the packet in flight, or NoPacket
    rstate,                      \* readState.state, PAYLOAD when handed to a handler
    rhdr, rdataSize, payloadSize,\* readState.hdr, .dataSize, .payloadSize
    readPos, reads, readOK       \* m_readPos; calls so far; last readBytes result

vars == <<blockSize, macLen, writePos, writes, sendOK, wire, rstate, rhdr,
          rdataSize, payloadSize, readPos, reads, readOK>>
\* m_writePos (CTransport.h:196) and readState with m_readPos (TransferState,
\* CTransport.h:67-88).
sender == <<writePos, writes, sendOK>>
reader == <<rstate, rhdr, rdataSize, payloadSize, readPos, reads, readOK>>

\* Mutant: the padding computed without the 5 header bytes.
InitSendStateNoHdr(payload) ==
    LET mod == (payload + 4) % blockSize
        padding == IF mod # 0 THEN 4 + blockSize - mod ELSE 4
    IN [honest |-> TRUE, packetSize |-> payload + 1 + padding, padding |-> padding,
        dataSize |-> payload + HdrSize + padding + macLen, payload |-> payload]

\* initSendState (send.cpp:84-121) with the digest length sendCalcDigest
\* adds (send.cpp:137): at least 4 bytes of padding, and header, payload
\* and padding a multiple of the block size.
InitSendState(payload) ==
    LET mod == (payload + 4 + HdrSize) % blockSize
        padding == IF mod # 0 THEN 4 + blockSize - mod ELSE 4
    IN [honest |-> TRUE, packetSize |-> payload + 1 + padding, padding |-> padding,
        dataSize |-> payload + HdrSize + padding + macLen, payload |-> payload]

\* Mutant: writeBytes without its size checks.
WriteBytesUnbounded(count) ==
    /\ wire = NoPacket /\ writes < MaxWrites
    /\ sendOK' = TRUE /\ writePos' = writePos + count /\ writes' = writes + 1
    /\ UNCHANGED <<blockSize, macLen, wire, reader>>

\* writeBytes (packets.cpp:22-39): refused past 32000 bytes or the buffer.
WriteBytes(count) ==
    /\ wire = NoPacket /\ writes < MaxWrites
    /\ sendOK' = (writePos + count <= 32000 /\ writePos + count <= BufSize)
    /\ writePos' = IF sendOK' THEN writePos + count ELSE writePos
    /\ writes' = writes + 1
    /\ UNCHANGED <<blockSize, macLen, wire, reader>>

\* sendPacket of the payload written so far (send.cpp:18-78), then
\* newPacket (packets.cpp:77-81) for the next one.
Send ==
    /\ wire = NoPacket /\ writePos > 0
    /\ wire' = InitSendState(writePos)
    /\ writePos' = 0 /\ writes' = 0 /\ sendOK' = TRUE
    /\ UNCHANGED <<blockSize, macLen, reader>>

\* A peer's packet with a header of its choosing, followed by as many bytes
\* as the reader asks for.
Forge ==
    /\ wire = NoPacket
    /\ \E f \in Forged : wire' = [honest |-> FALSE, packetSize |-> f.packetSize,
                                  padding |-> f.padding, dataSize |-> 0, payload |-> 0]
    /\ UNCHANGED <<blockSize, macLen, sender, reader>>

\* The FIRST_BLOCK state of readPacketNonblock (read.cpp:58-128) once the
\* block is in: the header checks, then the sizes of the rest.
ReadFirstBlock ==
    /\ rstate = "NO_PACKET" /\ wire # NoPacket
    /\ rhdr' = [packetSize |-> wire.packetSize, padding |-> wire.padding]
    /\ readPos' = 0
    /\ LET ps == wire.packetSize
           ds == ps + 4
       IN \/ /\ \/ ps < MinPacketSize \/ ps > MaxPacketSize
                \/ wire.padding < 4
                \/ ds % blockSize # 0
             /\ rstate' = "ERROR"
             /\ UNCHANGED <<rdataSize, payloadSize>>
          \/ /\ MinPacketSize <= ps /\ ps <= MaxPacketSize
             /\ wire.padding >= 4 /\ ds % blockSize = 0
             /\ rdataSize' = ds + macLen
             /\ payloadSize' = ps - wire.padding - 1
             /\ rstate' = "READING_PACKET"
    /\ UNCHANGED <<blockSize, macLen, sender, wire, reads, readOK>>

\* READING_PACKET and FINALIZE (read.cpp:130-193): the rest of the packet
\* and its MAC.  This code's packet has exactly dataSize bytes; a forged one
\* has as many as asked for.
ReadRest ==
    /\ rstate = "READING_PACKET"
    /\ wire.honest => rdataSize <= wire.dataSize
    /\ rstate' = "PAYLOAD"
    /\ UNCHANGED <<blockSize, macLen, sender, wire, rhdr, rdataSize, payloadSize,
                   readPos, reads, readOK>>

\* Mutant: readBytes without its bound check.
ReadBytesUnchecked(count) ==
    /\ rstate = "PAYLOAD" /\ reads < MaxReads
    /\ readOK' = TRUE /\ readPos' = readPos + count /\ reads' = reads + 1
    /\ UNCHANGED <<blockSize, macLen, sender, wire, rstate, rhdr, rdataSize, payloadSize>>

\* readBytes (packets.cpp:44-52).  The int sum is compared with the uint32
\* payloadSize, so as unsigned.
ReadBytes(count) ==
    /\ rstate = "PAYLOAD" /\ reads < MaxReads
    /\ readOK' = ULe(readPos + count, payloadSize)
    /\ readPos' = IF readOK' THEN readPos + count ELSE readPos
    /\ reads' = reads + 1
    /\ UNCHANGED <<blockSize, macLen, sender, wire, rstate, rhdr, rdataSize, payloadSize>>

\* The handler is done; the next readPacketNonblock starts a new packet.
Consume ==
    /\ rstate = "PAYLOAD"
    /\ rstate' = "NO_PACKET" /\ wire' = NoPacket /\ reads' = 0 /\ readOK' = TRUE
    /\ UNCHANGED <<blockSize, macLen, sender, rhdr, rdataSize, payloadSize, readPos>>

\* A PROTOCOL_ERROR ends the connection.
Failed == rstate = "ERROR" /\ UNCHANGED vars

Init ==
    /\ blockSize \in BlockSizes /\ macLen \in MacLengths
    /\ writePos = 0 /\ writes = 0 /\ sendOK = TRUE
    /\ wire = NoPacket
    /\ rstate = "NO_PACKET" /\ rhdr = [packetSize |-> 0, padding |-> 0]
    /\ rdataSize = 0 /\ payloadSize = 0 /\ readPos = 0 /\ reads = 0 /\ readOK = TRUE

Next ==
    \/ \E c \in Chunks : WriteBytes(c)
    \/ Send \/ Forge
    \/ ReadFirstBlock \/ ReadRest
    \/ \E c \in ReadCounts : ReadBytes(c)
    \/ Consume \/ Failed

Spec == Init /\ [][Next]_vars

Header == [packetSize : 0..MaxInt32, padding : 0..255]
TypeOK ==
    /\ blockSize \in BlockSizes /\ macLen \in MacLengths
    /\ writePos \in 0..BufSize /\ writes \in 0..MaxWrites /\ sendOK \in BOOLEAN
    /\ wire.honest \in BOOLEAN /\ [packetSize |-> wire.packetSize, padding |-> wire.padding] \in Header
    /\ rstate \in {"NO_PACKET", "READING_PACKET", "PAYLOAD", "ERROR"}
    /\ rhdr \in Header /\ rdataSize \in Nat /\ payloadSize \in Int
    /\ readPos \in Nat /\ reads \in 0..MaxReads /\ readOK \in BOOLEAN

\* A packet this code sends is accepted by this code's reader, which reads
\* exactly the bytes that were sent (so the next packet starts where this
\* one ends) and hands the handler exactly the payload that was written.
HonestPacketDelivered ==
    wire.honest /\ rstate # "NO_PACKET"
        => /\ rstate # "ERROR"
           /\ rstate = "PAYLOAD" => rdataSize = wire.dataSize /\ payloadSize = wire.payload

\* The framing of a packet this code sends: whenever the reader's size
\* limit lets it in, its padding and length pass the reader's checks for
\* every payload length, block size and MAC, the reader reads exactly the
\* bytes that were sent and hands over exactly the payload written.  (The
\* limit itself is HonestPacketDelivered's concern.)
HonestPacketFramed ==
    wire.honest /\ rstate # "NO_PACKET" /\ rhdr.packetSize <= MaxPacketSize
        => /\ rstate # "ERROR"
           /\ rstate = "PAYLOAD" => rdataSize = wire.dataSize /\ payloadSize = wire.payload

\* However the peer frames its packets, the handlers' readBytes calls never
\* read past the end of the 36 KiB receive buffer.
ReadWithinBuffer == HdrSize + readPos <= BufSize

====
