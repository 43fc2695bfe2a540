--------------------------- MODULE KeyDerivation ---------------------------
(***************************************************************************)
(* Key derivation: CTransport::DeriveKeys and DeriveKey (keys.cpp),        *)
(* checked against RFC 4253 section 7.2.                                   *)
(*                                                                         *)
(* A byte string is a sequence.  The hash is a free function: the digest   *)
(* of an input is DigestLen bytes, byte i being the pair <<input, i>>, so  *)
(* two digests are equal exactly when their inputs are.  The shared secret *)
(* K (as the mpint CBigInt::write produces), the exchange hash H and the   *)
(* session identifier are opaque strings.                                  *)
(***************************************************************************)
EXTENDS Integers, Sequences

CONSTANTS
    DigestLen,   \* bytes of the key exchange's hash (sha1: 20, CDiffieHellman.h:30)
    K, H,        \* the shared secret and the exchange hash
    SessionId    \* the exchange hash of the first key exchange

MaxKeys      == 6            \* CTransport.h:31, keys 'A'..'F'
MaxKeyLength == 64           \* CTransport.h:32
KeyBytes     == 32           \* sizeof KeyElement::key (CTransport.h:91)
KeyLetters   == <<"A", "B", "C", "D", "E", "F">>

Digest(input) == [i \in 1..DigestLen |-> <<input, i>>]

\* Mutant: the later rounds without the shared secret.
ExtendNoSecret(buf, length) ==
    IF Len(buf) >= length THEN buf
    ELSE LET next == buf \o Digest(H \o buf)
         IN IF Len(next) >= length THEN next ELSE next \o Digest(H \o next)

\* The while loop of DeriveKey (keys.cpp:78-89): each round hashes K, H and
\* all the bytes derived so far, and appends the digest, until there are at
\* least `length` bytes.
RECURSIVE Extend(_, _)
Extend(buf, length) ==
    IF Len(buf) >= length THEN buf
    ELSE Extend(buf \o Digest(K \o H \o buf), length)

\* DeriveKey (keys.cpp:48-93): the first round hashes K, H, the letter and
\* the session identifier; the key is the first 32 bytes.
DeriveKey(unique, length) ==
    SubSeq(Extend(Digest(K \o H \o <<unique>> \o SessionId), length), 1, KeyBytes)

VARIABLE unique   \* the letter of the key DeriveKeys is deriving

\* DeriveKeys (keys.cpp:27-43): keys 'A' to 'F' in turn, each derived to
\* MAX_KEY_LENGTH bytes.
DeriveInit == unique \in {KeyLetters[i] : i \in 1..MaxKeys}
DeriveKeys == DeriveKey(unique, MaxKeyLength)

(***************************************************************************)
(* Taking the keys into use: TakeKeysIntoUse (keys.cpp:136-175) on each    *)
(* side.  createAlgorithmInstances makes a cipher and an integrity object  *)
(* for each direction from the negotiated names, each side's               *)
(* InitializeKeys gives them their keys from the KeyVector, and each side's *)
(* TakeAlgorithmsInUse makes them the send and read state's algorithms.    *)
(* The NEWKEYS exchange between the two is SSHTransport's; here it         *)
(* succeeds.  An object is its name and how it was initialised; NULL is a  *)
(* category whose name is "none".                                          *)
(***************************************************************************)
VARIABLE matches   \* the negotiated names, by category (both sides agree on them)

\* The KeyVector slots (CTransport.h:34-41), numbered from 1.
KeySlot == [INITIAL_IV_CLIENT_TO_SERVER |-> 1, INITIAL_IV_SERVER_TO_CLIENT |-> 2,
            CIPHER_KEY_CLIENT_TO_SERVER |-> 3, CIPHER_KEY_SERVER_TO_CLIENT |-> 4,
            INTEGRITY_KEY_CLIENT_TO_SERVER |-> 5, INTEGRITY_KEY_SERVER_TO_CLIENT |-> 6]

\* The categories of a KEXINIT that carry algorithms with keys
\* (KeyExchange.h:10-23), numbered from 1.
Category == [ENCRYPTION_CLIENT_TO_SERVER |-> 3, ENCRYPTION_SERVER_TO_CLIENT |-> 4,
             MAC_CLIENT_TO_SERVER |-> 5, MAC_SERVER_TO_CLIENT |-> 6]

\* The names CCipher::CreateInstance (CCipher.cpp:17-26) and
\* CHmac::CreateInstance (CHmac.cpp:10-16) make an object for; any other
\* name gives NULL.
CipherNames == {"aes128-cbc", "aes256-cbc"}
HmacNames   == {"hmac-sha1"}

NULL == "NULL"

\* DeriveKeys fills slot i with the key of letter 'A' + i (keys.cpp:37-41).
KeyVector == [i \in 1..MaxKeys |-> DeriveKey(KeyLetters[i], MaxKeyLength)]

\* createAlgorithmInstances (keys.cpp:98-132): no object for "none"; a name
\* the factory does not know makes the call fail.
CreateAlgorithmInstances(names) ==
    LET Make(cat) == IF names[cat] = "none" THEN NULL ELSE names[cat]
        Known(cat, known) == names[cat] \in known \cup {"none"}
    IN [ok |-> /\ Known(Category.ENCRYPTION_CLIENT_TO_SERVER, CipherNames)
               /\ Known(Category.ENCRYPTION_SERVER_TO_CLIENT, CipherNames)
               /\ Known(Category.MAC_CLIENT_TO_SERVER, HmacNames)
               /\ Known(Category.MAC_SERVER_TO_CLIENT, HmacNames),
        block |-> [enc_client_to_server  |-> Make(Category.ENCRYPTION_CLIENT_TO_SERVER),
                   enc_server_to_client  |-> Make(Category.ENCRYPTION_SERVER_TO_CLIENT),
                   hmac_client_to_server |-> Make(Category.MAC_CLIENT_TO_SERVER),
                   hmac_server_to_client |-> Make(Category.MAC_SERVER_TO_CLIENT)]]

\* CCipher::EncryptInit or DecryptInit, and CHmac::Init, of an object
\* that exists (the `if( block.x )' tests).
CipherInit(alg, op, vec, key, iv) ==
    IF alg = NULL THEN NULL ELSE [alg |-> alg, op |-> op, key |-> vec[key], iv |-> vec[iv]]
HmacInit(alg, vec, key) ==
    IF alg = NULL THEN NULL ELSE [alg |-> alg, op |-> "Mac", key |-> vec[key], iv |-> <<>>]

\* CClientTransport::InitializeKeys (CClientTransport.cpp:283-298): the
\* client decrypts what the server sends and encrypts what it sends.
ClientInitializeKeys(block, vec) ==
    [enc_server_to_client  |-> CipherInit(block.enc_server_to_client, "Decrypt", vec,
                                   KeySlot.CIPHER_KEY_SERVER_TO_CLIENT, KeySlot.INITIAL_IV_SERVER_TO_CLIENT),
     enc_client_to_server  |-> CipherInit(block.enc_client_to_server, "Encrypt", vec,
                                   KeySlot.CIPHER_KEY_CLIENT_TO_SERVER, KeySlot.INITIAL_IV_CLIENT_TO_SERVER),
     hmac_client_to_server |-> HmacInit(block.hmac_client_to_server, vec, KeySlot.INTEGRITY_KEY_CLIENT_TO_SERVER),
     hmac_server_to_client |-> HmacInit(block.hmac_server_to_client, vec, KeySlot.INTEGRITY_KEY_SERVER_TO_CLIENT)]

\* Mutant: the server's ciphers take each other's IV.
ServerInitializeKeysSwappedIv(block, vec) ==
    [enc_server_to_client  |-> CipherInit(block.enc_server_to_client, "Encrypt", vec,
                                   KeySlot.CIPHER_KEY_SERVER_TO_CLIENT, KeySlot.INITIAL_IV_CLIENT_TO_SERVER),
     enc_client_to_server  |-> CipherInit(block.enc_client_to_server, "Decrypt", vec,
                                   KeySlot.CIPHER_KEY_CLIENT_TO_SERVER, KeySlot.INITIAL_IV_SERVER_TO_CLIENT),
     hmac_client_to_server |-> HmacInit(block.hmac_client_to_server, vec, KeySlot.INTEGRITY_KEY_CLIENT_TO_SERVER),
     hmac_server_to_client |-> HmacInit(block.hmac_server_to_client, vec, KeySlot.INTEGRITY_KEY_SERVER_TO_CLIENT)]

\* CServerTransport::InitializeKeys (CServerTransport.cpp:218-233).
ServerInitializeKeys(block, vec) ==
    [enc_server_to_client  |-> CipherInit(block.enc_server_to_client, "Encrypt", vec,
                                   KeySlot.CIPHER_KEY_SERVER_TO_CLIENT, KeySlot.INITIAL_IV_SERVER_TO_CLIENT),
     enc_client_to_server  |-> CipherInit(block.enc_client_to_server, "Decrypt", vec,
                                   KeySlot.CIPHER_KEY_CLIENT_TO_SERVER, KeySlot.INITIAL_IV_CLIENT_TO_SERVER),
     hmac_client_to_server |-> HmacInit(block.hmac_client_to_server, vec, KeySlot.INTEGRITY_KEY_CLIENT_TO_SERVER),
     hmac_server_to_client |-> HmacInit(block.hmac_server_to_client, vec, KeySlot.INTEGRITY_KEY_SERVER_TO_CLIENT)]

\* CClientTransport::TakeAlgorithmsInUse (CClientTransport.cpp:303-318):
\* the old objects are deleted and the block's become the send and read
\* state's cipher and hmac.
ClientTakeAlgorithmsInUse(block) ==
    [send |-> [cipher |-> block.enc_client_to_server, hmac |-> block.hmac_client_to_server],
     read |-> [cipher |-> block.enc_server_to_client, hmac |-> block.hmac_server_to_client]]

\* CServerTransport::TakeAlgorithmsInUse (CServerTransport.cpp:238-253).
ServerTakeAlgorithmsInUse(block) ==
    [send |-> [cipher |-> block.enc_server_to_client, hmac |-> block.hmac_server_to_client],
     read |-> [cipher |-> block.enc_client_to_server, hmac |-> block.hmac_client_to_server]]

\* TakeKeysIntoUse (keys.cpp:139-175) on the client or the server: the
\* instances, their keys, then (after NEWKEYS) the switch.
TakeKeysIntoUse(isServer, vec, names) ==
    LET made == CreateAlgorithmInstances(names)
        init == IF isServer THEN ServerInitializeKeys(made.block, vec)
                ELSE ClientInitializeKeys(made.block, vec)
    IN [ok |-> made.ok,
        use |-> IF isServer THEN ServerTakeAlgorithmsInUse(init) ELSE ClientTakeAlgorithmsInUse(init)]

(***************************************************************************)
(* RFC 4253 section 7.2: K1 = HASH(K || H || X || session_id),             *)
(* Kn = HASH(K || H || K1 || ... || K(n-1)); the key is the first bytes    *)
(* of K1 || K2 || ....                                                     *)
(***************************************************************************)
RECURSIVE RfcBlocks(_, _)
RfcBlocks(x, n) ==
    IF n = 1 THEN Digest(K \o H \o <<x>> \o SessionId)
    ELSE LET prior == RfcBlocks(x, n - 1) IN prior \o Digest(K \o H \o prior)

RfcKey(x, bytes) ==
    SubSeq(RfcBlocks(x, (bytes + DigestLen - 1) \div DigestLen), 1, bytes)

\* Each of the six keys DeriveKeys produces is the key RFC 4253 defines for
\* its letter, to the 32 bytes a KeyElement holds.
KeyDerivationMatchesRfc == DeriveKeys = RfcKey(unique, KeyBytes)

\* RFC 4253 section 7.2: the letters of each direction's initial IV,
\* encryption key and integrity key.
RfcLetters == [c2s |-> [iv |-> "A", enc |-> "C", mac |-> "E"],
               s2c |-> [iv |-> "B", enc |-> "D", mac |-> "F"]]

\* After both sides take the negotiated algorithms into use, the sender's
\* cipher and MAC of each direction and the receiver's are the same
\* algorithm, one encrypting and one decrypting, and both are keyed with
\* the IV, encryption key and integrity key RFC 4253 assigns to that
\* direction; a name the factories do not know fails on both sides.  Each
\* side's InitializeKeys and TakeAlgorithmsInUse pick the KeyVector slots
\* and block fields by hand, and a mistake mirrored on both sides would
\* still let this client talk to this server.
KeysTakenIntoUseMatchRfc ==
    LET c == TakeKeysIntoUse(FALSE, KeyVector, matches)
        s == TakeKeysIntoUse(TRUE, KeyVector, matches)
        Rfc(x) == RfcKey(x, KeyBytes)
        Cipher(name, d, op) ==
            IF name = "none" THEN NULL
            ELSE [alg |-> name, op |-> op, key |-> Rfc(RfcLetters[d].enc), iv |-> Rfc(RfcLetters[d].iv)]
        Mac(name, d) ==
            IF name = "none" THEN NULL
            ELSE [alg |-> name, op |-> "Mac", key |-> Rfc(RfcLetters[d].mac), iv |-> <<>>]
        Known == /\ matches[Category.ENCRYPTION_CLIENT_TO_SERVER] \in CipherNames \cup {"none"}
                 /\ matches[Category.ENCRYPTION_SERVER_TO_CLIENT] \in CipherNames \cup {"none"}
                 /\ matches[Category.MAC_CLIENT_TO_SERVER] \in HmacNames \cup {"none"}
                 /\ matches[Category.MAC_SERVER_TO_CLIENT] \in HmacNames \cup {"none"}
    IN /\ c.ok = Known /\ s.ok = Known
       /\ Known =>
            /\ c.use.send.cipher = Cipher(matches[Category.ENCRYPTION_CLIENT_TO_SERVER], "c2s", "Encrypt")
            /\ s.use.read.cipher = Cipher(matches[Category.ENCRYPTION_CLIENT_TO_SERVER], "c2s", "Decrypt")
            /\ s.use.send.cipher = Cipher(matches[Category.ENCRYPTION_SERVER_TO_CLIENT], "s2c", "Encrypt")
            /\ c.use.read.cipher = Cipher(matches[Category.ENCRYPTION_SERVER_TO_CLIENT], "s2c", "Decrypt")
            /\ c.use.send.hmac = Mac(matches[Category.MAC_CLIENT_TO_SERVER], "c2s")
            /\ s.use.read.hmac = c.use.send.hmac
            /\ s.use.send.hmac = Mac(matches[Category.MAC_SERVER_TO_CLIENT], "s2c")
            /\ c.use.read.hmac = s.use.send.hmac

====
