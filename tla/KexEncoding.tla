---------------------------- MODULE KexEncoding ----------------------------
(***************************************************************************)
(* The wire encodings the key exchange depends on: CStream's uint32,       *)
(* string and KEXINIT writers and readers, the mpint writer (CBigInt and   *)
(* CStream::writeBigInt) and reader, the RSA host-key blob (rsa.cpp), the  *)
(* identification line (CNetwork::writeLine / readLine and                 *)
(* buildLocalVersionString), and the input of the exchange hash           *)
(* (CDiffieHellman::ComputeExchangeHash).                                  *)
(*                                                                         *)
(* A byte string is a sequence of numbers in 0..255; the characters of a   *)
(* name-list or a version line become their ASCII codes.  A reader takes a *)
(* byte string (the packet payload, beyond which CTransport::readBytes     *)
(* refuses to read) and a position, and returns [ok, val, pos].            *)
(***************************************************************************)
EXTENDS Negotiation

CONSTANTS
    Numbers,     \* values of the DH public keys e, f and the secret K
    Names        \* software names the server's settings may give (as bytes)

ASSUME Numbers \subseteq 1..65535

Ascii == ("r" :> 114) @@ ("d" :> 100) @@ ("," :> 44) @@ (" " :> 32) @@ ("S" :> 83)
         @@ ("H" :> 72) @@ ("-" :> 45) @@ ("2" :> 50) @@ ("." :> 46) @@ ("0" :> 48)
         @@ ("1" :> 49) @@ ("_" :> 95) @@ ("l" :> 108) @@ ("w" :> 119) @@ ("s" :> 115)
         @@ ("h" :> 104) @@ ("a" :> 97) @@ ("n" :> 110) @@ ("o" :> 111) @@ ("e" :> 101)
         @@ ("9" :> 57)
ToAscii(str) == [i \in DOMAIN str |-> Ascii[str[i]]]

\* The byte strings of a sequence of them, one after the other.
RECURSIVE Concat(_)
Concat(parts) == IF parts = <<>> THEN <<>> ELSE Head(parts) \o Concat(Tail(parts))

Fail == [ok |-> FALSE, val |-> <<>>, pos |-> 0]
Ok(v, p) == [ok |-> TRUE, val |-> v, pos |-> p]

\* The next step of a reader, taken only when the step before succeeded
\* (each `if( !read...(...) ) return false;' of the code).
Then(r, Step(_)) == IF r.ok THEN Step(r) ELSE Fail

\* writeInt32 (CStream.cpp:60-67): Swap32 puts the value in network order.
WriteInt32(v) == <<(v \div 16777216) % 256, (v \div 65536) % 256, (v \div 256) % 256, v % 256>>

\* readInt32 (CStream.cpp:104-114).
ReadInt32(b, p) ==
    IF p + 3 > Len(b) THEN Fail
    ELSE Ok(((b[p] * 256 + b[p + 1]) * 256 + b[p + 2]) * 256 + b[p + 3], p + 4)

\* writeString (CStream.cpp:166-185).
WriteString(str) == WriteInt32(Len(str)) \o str

MaxStringLength == 4096   \* CStream.cpp:21

\* `str = dst' copies the char buffer up to its first NUL.
CString(bytes) ==
    LET z == SelectInSeq(bytes, LAMBDA c : c = 0)
    IN IF z = 0 THEN bytes ELSE SubSeq(bytes, 1, z - 1)

\* readString (CStream.cpp:190-213): a length of 0 or above 4096 is taken
\* as the empty string without touching `str', whose old value is `old',
\* and without reading the bytes that follow.
ReadString(b, p, old) ==
    Then(ReadInt32(b, p), LAMBDA n :
        IF n.val = 0 \/ n.val > MaxStringLength THEN Ok(old, n.pos)
        ELSE IF n.pos + n.val - 1 > Len(b) THEN Fail
        ELSE Ok(CString(SubSeq(b, n.pos, n.pos + n.val - 1)), n.pos + n.val))

KexInitMsg  == 20            \* SSH_MSG_KEXINIT
AlgCount    == 10            \* MAX_ALGORITHM_COUNT
Cookie      == [i \in 1..16 |-> 0]

\* writeKex (CStream.cpp:82-99).
WriteKex(info) ==
    <<KexInitMsg>> \o info.cookie
    \o Concat([i \in 1..AlgCount |-> WriteString(info.algorithms[i])])
    \o <<info.follows>> \o WriteInt32(0)

\* The loop over the name-lists of readKex: lists k.. into `olds', after
\* the lists `done' already read.
RECURSIVE ReadLists(_, _, _, _)
ReadLists(b, p, olds, done) ==
    IF Len(done) = Len(olds) THEN Ok(done, p)
    ELSE Then(ReadString(b, p, olds[Len(done) + 1]), LAMBDA s :
             ReadLists(b, s.pos, olds, Append(done, s.val)))

\* readByte (CStream.cpp:128-135) of the packet's payload.
ReadByte(b, p) == IF p <= Len(b) THEN Ok(b[p], p + 1) ELSE Fail

\* readKex (CStream.cpp:139-161) into the KeyExchangeInfo `old'.
ReadKex(b, old) ==
    Then(ReadByte(b, 1), LAMBDA id :
        IF id.val # KexInitMsg \/ Len(b) < 17 THEN Fail
        ELSE Then(ReadLists(b, 18, old.algorithms, <<>>), LAMBDA lists :
                 Then(ReadByte(b, lists.pos), LAMBDA follows :
                      Then(ReadInt32(b, follows.pos), LAMBDA rsv :
                           IF rsv.val # 0 THEN Fail
                           ELSE Ok([old EXCEPT !.cookie = SubSeq(b, 2, 17), !.algorithms = lists.val,
                                               !.follows = follows.val], rsv.pos)))))

\* BN_bn2bin: the magnitude in the fewest big-endian bytes.
RECURSIVE BnBytes(_)
BnBytes(n) == IF n = 0 THEN <<>> ELSE BnBytes(n \div 256) \o <<n % 256>>

\* Mutant: the magnitude written without the sign byte.
MpintNoSignByte(n) ==
    IF n = 0 THEN WriteInt32(0) ELSE WriteInt32(Len(BnBytes(n))) \o BnBytes(n)

\* CBigInt::write (CBigInt.cpp:15-54): a 0 byte is put before the magnitude
\* and written only when the magnitude's top bit is set.
Mpint(n) ==
    IF n = 0 THEN WriteInt32(0)
    ELSE LET data      == <<0>> \o BnBytes(n)
             nohighbit == IF data[2] >= 128 THEN 0 ELSE 1
         IN WriteInt32(Len(data) - nohighbit) \o SubSeq(data, 1 + nohighbit, Len(data))

\* CStream::writeBigInt (CStream.cpp:312-345), the same encoding.
WriteBigInt(n) == Mpint(n)

\* BN_bin2bn: the value of big-endian bytes.
RECURSIVE Magnitude(_)
Magnitude(bs) == IF bs = <<>> THEN 0 ELSE Magnitude(Tail(bs)) + Head(bs) * 256 ^ (Len(bs) - 1)

\* CStream::readBigInt (CStream.cpp:287-309): BN_bin2bn reads the bytes as
\* an unsigned magnitude.
ReadBigInt(b, p) ==
    Then(ReadInt32(b, p), LAMBDA n :
        IF n.val > 4096 \/ n.pos + n.val - 1 > Len(b) THEN Fail
        ELSE Ok(Magnitude(SubSeq(b, n.pos, n.pos + n.val - 1)), n.pos + n.val))

SshRsa  == ToAscii(<<"s", "s", "h", "-", "r", "s", "a">>)
HostE   == 65537            \* the host key's public exponent
HostN   == 49153            \* and modulus (top bit set, so a 0 byte is needed)

\* rsa::WriteKeyblob (rsa.cpp:175-194): the blob, preceded by its length.
WriteKeyblob(ke, kn) ==
    LET blob == WriteString(SshRsa) \o WriteBigInt(ke) \o WriteBigInt(kn)
    IN WriteInt32(Len(blob)) \o blob

\* rsa::ParseKeyblob (rsa.cpp:149-170).
ParseKeyblob(b, p) ==
    Then(ReadInt32(b, p), LAMBDA len :
        IF len.val = 0 \/ len.val > 4096 THEN Fail
        ELSE Then(ReadString(b, len.pos, <<>>), LAMBDA ident :
                 IF ident.val # SshRsa THEN Fail
                 ELSE Then(ReadBigInt(b, ident.pos), LAMBDA ke :
                          Then(ReadBigInt(b, ke.pos), LAMBDA kn :
                               Ok([e |-> ke.val, n |-> kn.val], kn.pos)))))

\* readVector (CStream.cpp:38-44): the result of readBytes is ignored, so
\* past the end of the payload the vector is `length' zero bytes and the
\* position does not move.
ReadVector(b, p, length) ==
    IF p + length - 1 <= Len(b) THEN Ok(SubSeq(b, p, p + length - 1), p + length)
    ELSE Ok([i \in 1..length |-> 0], p)

Signature == <<7, 0, 200, 1>>   \* the RSA signature's bytes

\* rsa::WriteSignature (rsa.cpp:249-263).
WriteSignature(sig) ==
    WriteInt32(Len(sig) + 4 + Len(SshRsa) + 4) \o WriteString(SshRsa)
    \o WriteInt32(Len(sig)) \o sig

\* rsa::ParseSignature (rsa.cpp:200-219): MIN_KEYBLOB_SIZE is 0, the other
\* limits 4096.
ParseSignature(b, p) ==
    Then(ReadInt32(b, p), LAMBDA len :
        IF len.val > 4096 THEN Fail
        ELSE Then(ReadString(b, len.pos, <<>>), LAMBDA ident :
                 IF ident.val # SshRsa THEN Fail
                 ELSE Then(ReadInt32(b, ident.pos), LAMBDA slen :
                          IF slen.val = 0 \/ slen.val > 4096 THEN Fail
                          ELSE ReadVector(b, slen.pos, slen.val))))

KexdhReplyMsg == 31   \* SSH_MSG_KEXDH_REPLY

\* The server's KEXDH_REPLY (RFC 4253 section 8): K_S, f and the signature.
KexdhReply(vf) == <<KexdhReplyMsg>> \o WriteKeyblob(HostE, HostN) \o Mpint(vf) \o WriteSignature(Signature)

\* parseKexdhReply (diffie-client.cpp:74-97).
ParseKexdhReply(b) ==
    Then(ReadByte(b, 1), LAMBDA type :
        IF type.val # KexdhReplyMsg THEN Fail
        ELSE Then(ParseKeyblob(b, type.pos), LAMBDA blob :
                 Then(ReadBigInt(b, blob.pos), LAMBDA vf :
                      Then(ParseSignature(b, vf.pos), LAMBDA sig :
                           Ok([e |-> blob.val.e, n |-> blob.val.n, f |-> vf.val, sig |-> sig.val],
                              sig.pos)))))

\* writeLine (CNetwork.cpp:303-330): the line and CR LF.
WriteLine(line) == line \o <<13, 10>>

\* readLine (CNetwork.cpp:338-382): characters up to CR LF, at most 1024 of
\* them; NUL, or a lone LF, fails.  `c > 127' never holds for the signed
\* char of the Windows build, so other bytes are kept.
ReadLine(b) ==
    LET stop == SelectInSeq(b, LAMBDA c : c \in {0, 10, 13})
    IN IF stop # 0 /\ stop - 1 < 1024 /\ b[stop] = 13 /\ stop < Len(b) /\ b[stop + 1] = 10
       THEN Ok(SubSeq(b, 1, stop - 1), stop + 2)
       ELSE Fail

DefaultName    == ToAscii(<<"l", "w", "S", "S", "H">>)
DefaultVersion == ToAscii(<<"0", ".", "0", "1">>)

\* buildLocalVersionString (CTransport.cpp:171-188).
LocalVersion(name, version) ==
    ToAscii(<<"S", "S", "H", "-", "2", ".", "0", "-">>) \o name \o <<Ascii["_"]>> \o version

\* ComputeExchangeHash (CDiffieHellman.cpp:155-188): what is written to the
\* hash.  Each KEXINIT is written as its length, taken from the header of
\* the packet that carried it (exchange.cpp:186-189), and its re-encoding.
HashInput(vc, vs, ck, sk, keyblob, ve, vf, vk) ==
    WriteString(vc) \o WriteString(vs)
    \o WriteInt32(ck.packetSize - ck.paddingSize - 1) \o WriteKex(ck)
    \o WriteInt32(sk.packetSize - sk.paddingSize - 1) \o WriteKex(sk)
    \o keyblob \o Mpint(ve) \o Mpint(vf) \o Mpint(vk)

SshDash == ToAscii(<<"S", "S", "H", "-">>)
IsDash(c) == c = Ascii["-"]

\* displayMotd (CServerTransport.cpp:57-83), before the server's version
\* line: the file's lines, each with CR LF, up to the first that begins
\* with "SSH-".
RECURSIVE DisplayMotd(_)
DisplayMotd(lines) ==
    IF lines = <<>> \/ IsPrefix(SshDash, Head(lines)) THEN <<>>
    ELSE WriteLine(Head(lines)) \o DisplayMotd(Tail(lines))

ReadLineFrom(b, p) == Then(ReadLine(SubSeq(b, p, Len(b))), LAMBDA l : Ok(l.val, l.pos + p - 1))

MaxMotdComments == 250   \* the default limitValue (exchange.cpp:44-45)

\* Mutant: the client takes the first line as the version line.
SkipMotdFirstLine(b, p, count) == ReadLineFrom(b, p)

\* The client's loop of exchangeProtocolVersions (exchange.cpp:41-66):
\* lines that do not begin with "SSH-" are skipped, up to the limit.
RECURSIVE SkipMotd(_, _, _)
SkipMotd(b, p, count) ==
    Then(ReadLineFrom(b, p), LAMBDA line :
        IF IsPrefix(SshDash, line.val) THEN line
        ELSE IF count + 1 > MaxMotdComments THEN Fail
        ELSE SkipMotd(b, line.pos, count + 1))

\* parseProtocolVersion (exchange.cpp:87-116), positions 1-based: the first
\* '-' must be the fourth character, and a second must follow with a
\* character after it.  The software version and comment it extracts are
\* never used.
ProtocolVersionTo(str, protoEnd) ==
    IF protoEnd = 0 \/ Len(str) <= protoEnd THEN Fail ELSE Ok(SubSeq(str, 5, protoEnd - 1), protoEnd)
ParseProtocolVersion(str) ==
    IF SelectInSeq(str, IsDash) # 4 \/ Len(str) <= 4 THEN Fail
    ELSE ProtocolVersionTo(str, LET k == SelectInSeq(SubSeq(str, 5, Len(str)), IsDash)
                                IN IF k = 0 THEN 0 ELSE 4 + k)

SupportedVersions == {ToAscii(<<"2", ".", "0">>), ToAscii(<<"1", ".", "9", "9">>)}

\* exchangeProtocolVersions (exchange.cpp:15-83) once the local line is
\* written: the server reads one line, the client skips the MOTD; the line
\* must parse and name protocol version 2.0 or 1.99.
ExchangeProtocolVersions(isServer, b) ==
    Then(IF isServer THEN ReadLine(b) ELSE SkipMotd(b, 1, 0), LAMBDA remote :
        Then(ParseProtocolVersion(remote.val), LAMBDA pv :
            IF pv.val \notin SupportedVersions THEN Fail ELSE remote))

(***************************************************************************)
(* One key exchange, as each side computes the hash.  Each side sends its  *)
(* KEXINIT (the ten name-lists are one category's list, client or server,  *)
(* of Negotiation) in a packet with 4 bytes of padding and parses the      *)
(* other's into a fresh KeyExchangeInfo; each reads the other's version    *)
(* line; the client parses the KEXDH_REPLY: host-key blob, f, signature.   *)
(* The server's side of the DH exchange is not under src/: it is taken to  *)
(* read e with readBigInt and to send its own WriteKeyblob.                *)
(***************************************************************************)
VARIABLES
    sname,      \* the server's software name, from its settings
    e, f,       \* the DH public keys m_e and m_f
    secret,     \* the shared secret K
    motd        \* the lines of the server's MOTD file

encVars == <<sname, e, f, secret, motd>>

PadLen == 4
\* A KeyExchangeInfo (KeyExchange.h:30-36) before anything is read into it.
Fresh  == [cookie |-> <<>>, algorithms |-> [i \in 1..AlgCount |-> <<>>], follows |-> 0,
           packetSize |-> 0, paddingSize |-> 0]

\* buildLocalKex (CTransport.cpp:193-220), with `list' for each of the six
\* categories the settings name, "none" for compression and the language
\* lists left empty; and the header sendPacket gives its packet.
LocalKex(list) ==
    LET None == ToAscii(<<"n", "o", "n", "e">>)
        info == [Fresh EXCEPT !.cookie = Cookie,
                    !.algorithms = [i \in 1..AlgCount |-> IF i <= 6 THEN ToAscii(list)
                                                          ELSE IF i <= 8 THEN None ELSE <<>>]]
    IN [info EXCEPT !.packetSize = Len(WriteKex(info)) + 1 + PadLen, !.paddingSize = PadLen]

\* readKex of the peer's packet, then the header copy of exchange.cpp:188-189.
RemoteKex(peer) ==
    Then(ReadKex(WriteKex(peer), Fresh), LAMBDA r :
        Ok([r.val EXCEPT !.packetSize = peer.packetSize, !.paddingSize = peer.paddingSize], r.pos))

\* Mutant: a key with one bit set accepted.
ValidPublicKeyAnyBit(n) == n > 0

RECURSIVE BitsSet(_)
BitsSet(n) == IF n = 0 THEN 0 ELSE (n % 2) + BitsSet(n \div 2)

\* validPublicKey (CDiffieHellman.cpp:224-242): more than one bit set, and
\* below the prime.  Every value of Numbers is far below the 1024-bit prime
\* of group 1, so the comparison always holds and is left out.
ValidPublicKey(n) == BitsSet(n) > 1

ClientVersion == LocalVersion(DefaultName, DefaultVersion)
ServerVersion == LocalVersion(sname, DefaultVersion)

\* What each side writes to the hash, once its reads have succeeded; the
\* client first checks the server's f (ClientKeyExchange,
\* diffie-client.cpp:40-56).
ClientHash ==
    Then(ExchangeProtocolVersions(FALSE, DisplayMotd(motd) \o WriteLine(ServerVersion)), LAMBDA vs :
        Then(RemoteKex(LocalKex(server)), LAMBDA sk :
            Then(ParseKexdhReply(KexdhReply(f)), LAMBDA reply :
                IF ~ValidPublicKey(reply.val.f) THEN Fail
                ELSE Ok(HashInput(ClientVersion, vs.val, LocalKex(client), sk.val,
                                  WriteKeyblob(reply.val.e, reply.val.n), e, reply.val.f, secret),
                        reply.val.sig))))

ServerHash ==
    Then(ExchangeProtocolVersions(TRUE, WriteLine(ClientVersion)), LAMBDA vc :
        Then(RemoteKex(LocalKex(client)), LAMBDA ck :
            Then(ReadBigInt(Mpint(e), 1), LAMBDA ve :
                Ok(HashInput(vc.val, ServerVersion, ck.val, LocalKex(server),
                             WriteKeyblob(HostE, HostN), ve.val, f, secret), <<>>))))

\* No MOTD, an empty line, two lines, and a file whose first line begins
\* with "SSH-".
MotdFiles == {<<>>, <<<<>>>>, <<DefaultName, <<>>>>, <<ClientVersion, DefaultName>>}

EncodingInit ==
    /\ sname \in Names
    /\ e \in Numbers /\ f \in Numbers /\ secret \in Numbers
    /\ motd \in MotdFiles

(***************************************************************************)
(* The reference: RFC 4251 section 5 (uint32, string, mpint, name-list),   *)
(* RFC 4253 sections 4.2, 6.6, 7.1 and 8.                                  *)
(***************************************************************************)
RfcUint32(v) == [i \in 1..4 |-> (v \div 256 ^ (4 - i)) % 256]
RfcString(bs) == RfcUint32(Len(bs)) \o bs
RfcMpint(n) ==
    LET k == CHOOSE k \in 1..3 : n < 2 ^ (8 * k - 1) /\ (k = 1 \/ n >= 2 ^ (8 * k - 9))
    IN RfcString([i \in 1..k |-> (n \div 256 ^ (k - i)) % 256])
RfcKexInit(list) ==
    LET lists == <<list, list, list, list, list, list, <<"n", "o", "n", "e">>,
                   <<"n", "o", "n", "e">>, <<>>, <<>>>>
    IN <<KexInitMsg>> \o Cookie \o Concat([i \in 1..AlgCount |-> RfcString(ToAscii(lists[i]))])
    \o <<0>> \o RfcUint32(0)
WeakKeys == {2 ^ k : k \in 0..16}
RfcHashInput ==
    RfcString(ClientVersion) \o RfcString(ServerVersion)
    \o RfcString(RfcKexInit(client)) \o RfcString(RfcKexInit(server))
    \o RfcString(RfcString(SshRsa) \o RfcMpint(HostE) \o RfcMpint(HostN))
    \o RfcMpint(e) \o RfcMpint(f) \o RfcMpint(secret)

\* Client and server put the same bytes into the exchange hash, and they
\* are the bytes RFC 4253 section 8 defines, although each side writes the
\* other's KEXINIT, version line, e or f and host key from what it parsed
\* (readKex, readLine, readBigInt, ParseKeyblob) and not from the bytes it
\* received; and the signature the client checks is the one the server
\* sent in its KEXDH_REPLY.  The client refuses exactly the f that are
\* powers of two, the keys OpenSSH's check (which validPublicKey copies)
\* refuses below the prime.
ExchangeHashAgrees ==
    \E c \in {ClientHash}, s \in {ServerHash} :
        /\ s.ok
        /\ c.ok <=> f \notin WeakKeys
        /\ c.ok => c.val = s.val /\ c.val = RfcHashInput /\ c.pos = Signature

====
