---------------------------- MODULE MC_PacketCodec ----------------------------
(* No cipher or AES, no MAC or hmac-sha1.  Message builders write a type   *)
(* byte, short fields and one large block; handlers read 1 or 4096 bytes   *)
(* (a string of MAX_STRING_LENGTH, CStream.cpp:21), nine times: enough to  *)
(* pass the end of the receive buffer.                                     *)
EXTENDS PacketCodec

MC_BlockSizes == {8, 16}
MC_MacLengths == {0, 20}
MC_MaxWrites  == 3
MC_ReadCounts == {1, 4096}
MC_MaxReads   == 9
\* Payloads of every residue class the padding meets, up to the 32000
\* bytes writeBytes allows (and past the reader's limit).
MC_Chunks     == {1, 7, 15000, 16000}
\* Payloads up to 32000 bytes, the limit of writeBytes.
MC_ChunksToLimit == {1, 16000}
\* A well-formed header, and headers failing the padding, block-size and
\* length checks.
MC_Forged == {[packetSize |-> 12, padding |-> 4], [packetSize |-> 12, padding |-> 3],
              [packetSize |-> 13, padding |-> 4], [packetSize |-> 40000, padding |-> 4]}
\* The same, and one that passes every check with more padding than packet.
MC_ForgedOverlap == MC_Forged \cup {[packetSize |-> 12, padding |-> 12]}
====
