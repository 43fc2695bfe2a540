------------------------------ MODULE Services ------------------------------
(***************************************************************************)
(* sshd's two service registries (sshd.cpp:103-165).  The application     *)
(* registers factories by name before the server starts; a transport then *)
(* asks sshd to create the service a client requested by name.  A         *)
(* registration is the name and what its factory may do when called: the *)
(* factory is application code, and each call may create an object (TRUE) *)
(* or return NULL (FALSE).  Names are strings.                             *)
(*                                                                         *)
(* registerService does not look for an earlier registration of the same   *)
(* name, and the lookup takes the first match: a name registered twice is *)
(* served by its first factory only, whether or not that one fails.       *)
(***************************************************************************)
LOCAL INSTANCE Sequences
LOCAL INSTANCE SequencesExt

\* sshd::registerService and sshd::registerAuthService: push_back of the
\* entry onto the list, always sshd_OK.
RegisterService(reg, name, creates) ==
    Append(reg, [name |-> name, creates |-> creates])

\* sshd::createService: the first entry of the given name decides; its
\* factory returning NULL is sshd_ERROR, no entry is sshd_NO_SUCH_SERVICE.
\* The results one call may return.
CreateService(reg, name) ==
    LET i == SelectInSeq(reg, LAMBDA e : e.name = name) IN
    IF i = 0 THEN {"NO_SUCH_SERVICE"}
    ELSE {IF made THEN "OK" ELSE "ERROR" : made \in reg[i].creates}

\* sshd::createAuthService walks its own list with the same loop; it only
\* also logs the failures.
CreateAuthService(reg, name) == CreateService(reg, name)

====
