------------------------------ MODULE MC_Session ------------------------------
(***************************************************************************)
(* Client plug-ins that write standard requests or method messages, up to  *)
(* two; one service packet each way; every result of createService.        *)
(***************************************************************************)
EXTENDS Session

MC_AuthMsgs == {"USERAUTH_REQUEST", "AUTH_METHOD"}
MC_MaxAuth == 2
MC_MaxData == 1
MC_SvcName == "ssh-connection"
\* An empty registry, the connection service, and a factory that may
\* return NULL registered before a working one of the same name.
MC_Registries ==
    {<<>>,
     RegisterService(<<>>, MC_SvcName, {TRUE}),
     RegisterService(RegisterService(<<>>, MC_SvcName, BOOLEAN), MC_SvcName, {TRUE})}
====
