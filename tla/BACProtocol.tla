---------------------------- MODULE BACProtocol ----------------------------
(***************************************************************************)
(* The wire protocol that BAC-Base and BAC-Server share: a 16-byte header  *)
(* {data_len, cmd, status}, optionally followed by data_len payload bytes. *)
(* Enumerators keep the names of BACProtocol.h; Garbage stands for every   *)
(* 4-byte value that is no enumerator the code compares with.              *)
(***************************************************************************)

LOGIN == "BAC_CLIENT_LOGIN"
MACHINE_INFO == "BAC_CLIENT_MACHINE_INFO"
GAME_ABNORMAL_DATA == "BAC_CLIENT_GAME_ABNORMAL_DATA"
UNKNOWN == "BAC_UNKNOWN"
Garbage == "Garbage"

\* The commands DispatchTcpMessage has a case for.
HandledCommand == {LOGIN, MACHINE_INFO, GAME_ABNORMAL_DATA}

Command == HandledCommand \cup {UNKNOWN, Garbage}

\* BACStatus.  No code path sends None, Response or Transfer, and every
\* comparison is with Request (server) or Success (client): those three and
\* UNKNOWN behave as Garbage does.
Status == {"Request", "Success", "Error", Garbage}

Header == [cmd : Command, status : Status]

Hdr(cmd, status) == [cmd |-> cmd, status |-> status]

\* The header the server sends back for a chunk that starts with header h.
Reply(h) ==
  IF h.cmd \notin HandledCommand THEN Hdr(UNKNOWN, "Error")
  ELSE Hdr(h.cmd, IF h.status = "Request" THEN "Success" ELSE "Error")

\* The handler ran to its end: the request was taken as one.
Accepted(h) == h.cmd \in HandledCommand /\ h.status = "Request"

\* Mutant: only the login handler sends its reply.
RepliesTo_LoginOnly(h, short) == IF h.cmd # LOGIN THEN <<>> ELSE <<Reply(h)>>

\* What one OnReceive call sends.  buffer.substr(16, ..) throws out_of_range
\* when the chunk is shorter than a header, after the handler has already
\* taken the request, so the reply is skipped.
RepliesTo(h, short) == IF short /\ Accepted(h) THEN <<>> ELSE <<Reply(h)>>
=============================================================================
