---------------------------- MODULE Negotiation ----------------------------
(***************************************************************************)
(* Algorithm negotiation: CTransport::DecideAlgorithm (keyexchange.cpp)    *)
(* over the name-lists of two KEXINIT messages, with the SplitString and   *)
(* Trim it relies on (StringUtil.cpp), checked against the rule of RFC     *)
(* 4253 section 7.1 for every pair of short strings.                       *)
(*                                                                         *)
(* A string is a sequence of characters from a small alphabet: two letters *)
(* ("r", "d"), the comma that separates names and the space.               *)
(***************************************************************************)
EXTENDS Integers, Sequences, SequencesExt

CONSTANTS
    Letters,    \* the letters names are made of
    MaxLen      \* the longest string enumerated

Comma == ","
Space == " "
Chars == Letters \cup {Comma, Space}
Str   == SeqOf(Chars, MaxLen)

\* Trim (StringUtil.cpp:14-26): the string without its leading and trailing
\* spaces; empty when it has nothing else.
Trim(str) ==
    LET keep  == {i \in 1..Len(str) : str[i] # Space}
        first == CHOOSE i \in keep : \A j \in keep : i <= j
        end   == CHOOSE i \in keep : \A j \in keep : i >= j
    IN IF keep = {} THEN <<>> ELSE SubSeq(str, first, end)

\* The do-while loop of SplitString: cut at the first delimiter until there
\* is none, then add the rest (which may be empty).
RECURSIVE SplitLoop(_, _)
SplitLoop(tstr, delim) ==
    LET pos == SelectInSeq(tstr, LAMBDA c : c = delim)
    IN IF pos = 0 THEN <<tstr>>
       ELSE <<SubSeq(tstr, 1, pos - 1)>> \o SplitLoop(SubSeq(tstr, pos + 1, Len(tstr)), delim)

\* SplitString (StringUtil.cpp:31-47).
SplitString(str, delim) == SplitLoop(Trim(str), delim)

\* Mutant: the server's preference decides (the two loops swapped).
DecideAlgorithmServerFirst(client, server) ==
    LET cVec == SplitString(client, Comma)
        sVec == SplitString(server, Comma)
        j    == SelectInSeq(sVec, LAMBDA n : \E i \in DOMAIN cVec : cVec[i] = n)
    IN IF j = 0 THEN [ok |-> FALSE, match |-> <<>>] ELSE [ok |-> TRUE, match |-> sVec[j]]

\* DecideAlgorithm (keyexchange.cpp:45-73): the first name of the client's
\* list that is also on the server's list.  On a mismatch `match` is not
\* written; <<>> stands for its old value.
DecideAlgorithm(client, server) ==
    LET cVec == SplitString(client, Comma)
        sVec == SplitString(server, Comma)
        i    == SelectInSeq(cVec, LAMBDA n : \E j \in DOMAIN sVec : sVec[j] = n)
    IN IF i = 0 THEN [ok |-> FALSE, match |-> <<>>] ELSE [ok |-> TRUE, match |-> cVec[i]]

\* DecideAlgorithms (keyexchange.cpp:26-39): every category must match.
\* The client passes (local, remote) and the server (remote, local)
\* (CClientTransport.cpp:215, CServerTransport.cpp:149), so both put the
\* client's lists first.
DecideAlgorithms(client, server) ==
    \A i \in DOMAIN client : DecideAlgorithm(client[i], server[i]).ok

\* The host-key list this repository offers when the settings name none
\* (CTransport.cpp:23: "ssh-rsa, ssh-dss"), with r for ssh-rsa and d for
\* ssh-dss.
DefaultHostkey == <<"r", Comma, Space, "d">>

(***************************************************************************)
(* The reference: RFC 4253 section 7.1.  A name-list is the comma-         *)
(* separated names, none of them empty or holding a space; the chosen      *)
(* algorithm is the first name on the client's list that is on the        *)
(* server's.                                                               *)
(***************************************************************************)
RfcNames(s) ==
    LET cuts == <<0>> \o SelectSeq([i \in 1..Len(s) |-> IF s[i] = Comma THEN i ELSE 0],
                                   LAMBDA i : i > 0) \o <<Len(s) + 1>>
    IN [k \in 1..Len(cuts) - 1 |-> SubSeq(s, cuts[k] + 1, cuts[k + 1] - 1)]

RfcNameList(s) ==
    /\ Len(s) > 0
    /\ \A k \in DOMAIN RfcNames(s) : RfcNames(s)[k] # <<>> /\ Space \notin ToSet(RfcNames(s)[k])

RfcChoice(c, s) ==
    LET cn == RfcNames(c)
        k  == SelectInSeq(cn, LAMBDA n : n \in ToSet(RfcNames(s)))
    IN IF k = 0 THEN [ok |-> FALSE, match |-> <<>>] ELSE [ok |-> TRUE, match |-> cn[k]]

VARIABLES client, server   \* the name-lists of one category in the two KEXINITs
vars == <<client, server>>

Init == /\ client \in Str
        /\ server \in Str \cup {DefaultHostkey}

\* The lists do not change once the KEXINITs are exchanged.
Next == UNCHANGED vars

Spec == Init /\ [][Next]_vars

\* For two well-formed name-lists, DecideAlgorithm chooses what RFC 4253
\* prescribes, or fails exactly when the lists share no name.
NegotiationMatchesRfc ==
    RfcNameList(client) /\ RfcNameList(server)
        => DecideAlgorithm(client, server) = RfcChoice(client, server)

\* The default host-key list negotiates with every well-formed client list
\* that names one of the algorithms it offers.
DefaultHostkeyNegotiates ==
    LET offered == {Trim(n) : n \in ToSet(SplitString(DefaultHostkey, Comma))}
    IN server = DefaultHostkey /\ RfcNameList(client)
          => (DecideAlgorithm(client, server).ok <=> \E n \in offered : n \in ToSet(RfcNames(client)))

====
