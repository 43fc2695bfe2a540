--------------------------- MODULE MC_ClientSession ---------------------------
(* One service packet each way, so that one can be in flight when the      *)
(* server's KEXINIT arrives.                                               *)
EXTENDS ClientSession

MC_MaxData == 1
====
