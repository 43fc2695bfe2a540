---------------------------- MODULE MC_Negotiation ----------------------------
(* Negotiation: names of the letters r and d, every string of up to three  *)
(* characters.  Key derivation: sha1's 20-byte digests, with the secret,   *)
(* the exchange hash and the session identifier as one-byte strings; each *)
(* cipher and MAC category none, a known name or an unknown one.          *)
(* Encoding: mpint values at every byte-length and top-bit boundary, and   *)
(* the default software name, an empty one and one with a space.          *)
EXTENDS KexEncoding, KeyDerivation

MC_Letters == {"r", "d"}
MC_MaxLen  == 3
MC_DigestLen == 20
MC_K         == <<"k">>
MC_H         == <<"h">>
MC_SessionId == <<"s">>
MC_Numbers   == {1, 127, 128, 255, 256, 32767, 32768, 65535}
MC_Names     == {DefaultName, <<>>, ToAscii(<<"l", " ", "w">>)}

\* The pure computations side by side, each input ranging while the others
\* keep one value, so that the state space is their sum and not their
\* product.  Everything is fixed once chosen.
DefaultEnc == sname = DefaultName /\ e = 128 /\ f = 32767 /\ secret = 255
\* Negotiated names: each cipher category "none", a name the factory knows
\* or one it does not, and the same for each MAC category.
MC_Matches ==
    [c \in {Category.ENCRYPTION_CLIENT_TO_SERVER, Category.ENCRYPTION_SERVER_TO_CLIENT,
            Category.MAC_CLIENT_TO_SERVER, Category.MAC_SERVER_TO_CLIENT} |->
        IF c <= Category.ENCRYPTION_SERVER_TO_CLIENT THEN {"none", "aes128-cbc", "aes256-cbc", "3des-cbc"}
        ELSE {"none", "hmac-sha1", "hmac-md5"}]
DefaultMatches ==
    [c \in DOMAIN MC_Matches |-> IF c <= 4 THEN "aes128-cbc" ELSE "hmac-sha1"]
AnyMatches ==
    /\ matches \in [DOMAIN MC_Matches -> UNION {MC_Matches[c] : c \in DOMAIN MC_Matches}]
    /\ \A c \in DOMAIN MC_Matches : matches[c] \in MC_Matches[c]
DefaultKeys == unique = "A" /\ matches = DefaultMatches
MC_Init ==
    \/ Init /\ DefaultKeys /\ DefaultEnc /\ motd = <<>>
    \/ client = <<"r">> /\ server = <<"r">> /\ DeriveInit /\ matches = DefaultMatches
       /\ DefaultEnc /\ motd = <<>>
    \/ client = <<"r">> /\ server = <<"r">> /\ unique = "A" /\ AnyMatches
       /\ DefaultEnc /\ motd = <<>>
    \/ client = <<"r">> /\ server = <<"r">> /\ DefaultKeys /\ EncodingInit /\ motd = <<>>
    \/ client = <<"r">> /\ server = <<"r">> /\ DefaultKeys /\ DefaultEnc /\ EncodingInit
MC_Spec == MC_Init /\ [][Next /\ UNCHANGED <<unique, matches, encVars>>]_<<vars, unique, matches, encVars>>
====
