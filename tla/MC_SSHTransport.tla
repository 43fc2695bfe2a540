--------------------------- MODULE MC_SSHTransport ---------------------------
(***************************************************************************)
(* The model of one connection instantiated for TLC: the client skips at   *)
(* most one MOTD line, and the server's MOTD file has no line, one (on the *)
(* client's limit) or two (beyond it).                                     *)
(***************************************************************************)
EXTENDS SSHTransport

MC_MaxMotdComments == 1

MC_AuthSvcName == "ssh-userauth"

\* The registries of authentication services: the client's service, whose
\* factory may return NULL on the call; and none of the client's name.
Good    == RegisterService(<<>>, MC_AuthSvcName, BOOLEAN)
Missing == RegisterService(<<>>, "other", {TRUE})

\* One run per path through the handshake: the good path with a MOTD at the
\* client's limit, and one failure of each kind.  A run with two failures
\* takes the path of the first, so these cover every combination.
MC_Configs ==
    {[algsMatch |-> TRUE,  authServices |-> Good,    keyLoaded |-> TRUE,  motd |-> 1],
     [algsMatch |-> FALSE, authServices |-> Good,    keyLoaded |-> TRUE,  motd |-> 0],
     [algsMatch |-> TRUE,  authServices |-> Missing, keyLoaded |-> TRUE,  motd |-> 0],
     [algsMatch |-> TRUE,  authServices |-> Good,    keyLoaded |-> FALSE, motd |-> 0],
     [algsMatch |-> TRUE,  authServices |-> Good,    keyLoaded |-> TRUE,  motd |-> 2]}
====
