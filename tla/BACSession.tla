----------------------------- MODULE BACSession -----------------------------
(***************************************************************************)
(* The session of one protected process with BAC-Server.  The thread that  *)
(* runs BACBaseInitialize (main) creates the global client, connects, logs *)
(* in and sends the machine info; the thread BAC::LoopEvent (loop) reports *)
(* every anomaly it finds.  Both call the same BACClient, whose calls are  *)
(* a send, a blocking recv of 16 bytes and a check of the header, with no  *)
(* lock and no timeout.  The server end is one connection of HP-Socket,    *)
(* which hands OnReceive whatever bytes have arrived: DispatchTcpMessage   *)
(* takes each chunk for one packet.                                        *)
(*                                                                         *)
(* BACBaseInitialize is called by DllMain alone: the loader lock keeps the *)
(* loop thread, although created before the client, from starting until    *)
(* main is done.                                                           *)
(***************************************************************************)
EXTENDS BACProtocol, Naturals, Sequences

CONSTANTS MaySplit,    \* TCP may cut a packet or a reply into pieces
          StaleHeader, \* what the bytes past the end of a short string read as
          MaxBacklog   \* bound: no report starts behind more unread pieces

ASSUME ModeAssumption == MaySplit \in BOOLEAN
ASSUME StaleAssumption == StaleHeader \subseteq Header /\ StaleHeader # {}
ASSUME BacklogAssumption == MaxBacklog \in Nat

Thread == {"main", "loop"}

VARIABLES pc,      \* where each thread is
          phase,   \* what the loop thread is doing between its calls
          request, \* the command of the thread's current or last call
          result,  \* what that call returned: none yet, ok, error, exception
          served,  \* how the server handled that call's packet
          client,  \* the global client object exists
          sock,    \* the TCP connection: closed, up, fin (server gone), reset
          c2s,     \* pieces of packets on their way to the server
          s2c,     \* pieces of replies on their way to the client
          user,    \* the user_id of the server's node
          process  \* running, exited (ExitProcess) or crashed

vars == <<pc, phase, request, result, served, client, sock, c2s, s2c, user,
          process>>

MainPC == {"make_client", "connect", "send", "recv", "returned", "failed"}
LoopPC == {"created", "check", "recv"}

\* A packet travels as the first part of its header, the rest of the header
\* and the payload; a reply as {data_len, cmd} and {status}.
PacketPiece == [part : {"h1", "h2", "body"}, cmd : HandledCommand, from : Thread]
ReplyPiece == [part : {"cmd", "status"}, hdr : Header]

Packet(cmd, t) ==
  <<[part |-> "h1", cmd |-> cmd, from |-> t],
    [part |-> "h2", cmd |-> cmd, from |-> t],
    [part |-> "body", cmd |-> cmd, from |-> t]>>

ReplyPieces(h) == <<[part |-> "cmd", hdr |-> h], [part |-> "status", hdr |-> h]>>

TypeOK ==
  /\ pc \in [Thread -> MainPC \cup LoopPC]
  /\ pc["main"] \in MainPC /\ pc["loop"] \in LoopPC
  /\ phase \in {"hooks", "crc", "sleep"}
  /\ request \in [Thread -> HandledCommand]
  /\ result \in [Thread -> {"none", "ok", "error", "exception"}]
  /\ served \in [Thread -> {"no", "cut", "full"}]
  /\ client \in BOOLEAN
  /\ sock \in {"closed", "up", "fin", "reset"}
  /\ c2s \in Seq(PacketPiece)
  /\ s2c \in Seq(ReplyPiece)
  /\ user \in {"none", "cut", "full"}
  /\ process \in {"running", "exited", "crashed"}

\* CreateThread(LoopEvent) has been called, client is still null.
Init ==
  /\ pc = [t \in Thread |-> IF t = "main" THEN "make_client" ELSE "created"]
  /\ phase = "hooks"
  /\ request = [t \in Thread |-> IF t = "main" THEN LOGIN ELSE GAME_ABNORMAL_DATA]
  /\ result = [t \in Thread |-> "none"]
  /\ served = [t \in Thread |-> "no"]
  /\ client = FALSE
  /\ sock = "closed"
  /\ c2s = <<>> /\ s2c = <<>>
  /\ user = "none"
  /\ process = "running"

Running == process = "running"

-----------------------------------------------------------------------------
(* BACClient's calls, made by thread t *)

\* TcpServer::Send: header and payload in one send.  Its failure value -1 is
\* not zero, so the caller's test never sees it and recv is next anyway.
SendPacket(t) ==
  /\ c2s' = IF sock = "up" THEN c2s \o Packet(request[t], t) ELSE c2s
  /\ result' = [result EXCEPT ![t] = "none"]
  /\ served' = [served EXCEPT ![t] = "no"]

\* How many pieces one recv of 16 bytes returns; 0 only at end of stream.
Received ==
  {n \in 0..2 : /\ n <= Len(s2c)
                /\ n = 0 => sock = "fin" /\ s2c = <<>>
                /\ n = 1 => MaySplit \/ Len(s2c) = 1}

\* The headers GetCommand and GetResponseStatus may see in n pieces.
Decoded(n) ==
  CASE n = 0 -> StaleHeader
    [] n = 1 /\ s2c[1].part = "cmd" ->
         {s2c[1].hdr, Hdr(s2c[1].hdr.cmd, Garbage)} \cup StaleHeader
    [] n = 1 /\ s2c[1].part = "status" -> StaleHeader
    [] n = 2 /\ s2c[1].part = "cmd" -> {s2c[1].hdr}
    [] n = 2 /\ s2c[1].part = "status" -> {Hdr(Garbage, Garbage)}

\* Mutant: the status of the reply is not looked at.
Verdict_AnyStatus(t, h) == IF h.cmd = request[t] THEN "ok" ELSE "error"

\* The checks of Login, SendMachineInfo and SendAbnormalGameData.
Verdict(t, h) == IF h = Hdr(request[t], "Success") THEN "ok" ELSE "error"

\* recv returned bytes, or 0 at end of stream, and the checks gave verdict v.
RecvReply(t, v) ==
  /\ Running /\ pc[t] = "recv"
  /\ sock \in {"up", "fin"}
  /\ \E n \in Received : \E h \in Decoded(n) :
       /\ v = Verdict(t, h)
       /\ s2c' = SubSeq(s2c, n + 1, Len(s2c))
  /\ result' = [result EXCEPT ![t] = v]
  /\ UNCHANGED <<phase, served, client, sock, c2s, user>>

\* recv returned -1: temp_data.append(temp, -1) throws std::length_error.
RecvThrows(t) ==
  /\ Running /\ pc[t] = "recv"
  /\ sock \in {"closed", "reset"}
  /\ result' = [result EXCEPT ![t] = "exception"]
  /\ UNCHANGED <<phase, request, served, client, sock, c2s, s2c, user>>

-----------------------------------------------------------------------------
(* main: BACBaseInitialize from the creation of LoopEvent on *)

MakeClient ==
  /\ Running /\ pc["main"] = "make_client"
  /\ client' = TRUE
  /\ pc' = [pc EXCEPT !["main"] = "connect"]
  /\ UNCHANGED <<phase, request, result, served, sock, c2s, s2c, user, process>>

Connect ==
  /\ Running /\ pc["main"] = "connect"
  /\ sock' = "up"
  /\ pc' = [pc EXCEPT !["main"] = "send"]
  /\ UNCHANGED <<phase, request, result, served, client, c2s, s2c, user, process>>

\* InitializeBACClient returned an error code: a message box, ExitProcess.
InitFailed ==
  /\ pc' = [pc EXCEPT !["main"] = "failed"]
  /\ process' = "exited"

ConnectFails ==
  /\ Running /\ pc["main"] = "connect"
  /\ InitFailed
  /\ UNCHANGED <<phase, request, result, served, client, sock, c2s, s2c, user>>

MainSend ==
  /\ Running /\ pc["main"] = "send"
  /\ SendPacket("main")
  /\ pc' = [pc EXCEPT !["main"] = "recv"]
  /\ UNCHANGED <<phase, request, client, sock, s2c, user, process>>

\* Login succeeded: SendMachineInfo is next.
LoginOK ==
  /\ request["main"] = LOGIN
  /\ RecvReply("main", "ok")
  /\ pc' = [pc EXCEPT !["main"] = "send"]
  /\ request' = [request EXCEPT !["main"] = MACHINE_INFO]
  /\ UNCHANGED process

MachineInfoOK ==
  /\ request["main"] = MACHINE_INFO
  /\ RecvReply("main", "ok")
  /\ pc' = [pc EXCEPT !["main"] = "returned"]
  /\ UNCHANGED <<request, process>>

MainError ==
  /\ RecvReply("main", "error")
  /\ InitFailed
  /\ UNCHANGED request

\* The catch clause of BACBaseInitialize returns false, DllMain ignores it.
MainThrows ==
  /\ RecvThrows("main")
  /\ pc' = [pc EXCEPT !["main"] = "failed"]
  /\ UNCHANGED process

-----------------------------------------------------------------------------
(* loop: BAC::LoopEvent *)

\* Mutant: nothing holds the new thread back.
LoopStart_AtOnce ==
  /\ Running /\ pc["loop"] = "created"
  /\ pc' = [pc EXCEPT !["loop"] = "check"]
  /\ UNCHANGED <<phase, request, result, served, client, sock, c2s, s2c, user, process>>

\* A new thread waits for the loader lock that DllMain's caller holds.
LoopStart ==
  /\ Running /\ pc["loop"] = "created"
  /\ pc["main"] \in {"returned", "failed"}
  /\ pc' = [pc EXCEPT !["loop"] = "check"]
  /\ UNCHANGED <<phase, request, result, served, client, sock, c2s, s2c, user, process>>

\* CheckHookPointer or CheckMemoryCRC32 found something to report.
LoopSend ==
  /\ Running /\ pc["loop"] = "check" /\ phase # "sleep"
  /\ Len(s2c) + Len(c2s) <= MaxBacklog
  /\ SendPacket("loop")
  /\ pc' = [pc EXCEPT !["loop"] = "recv"]
  /\ UNCHANGED <<phase, request, client, sock, s2c, user, process>>

\* The result of a report is ignored.
LoopRecv ==
  /\ \E v \in {"ok", "error"} : RecvReply("loop", v)
  /\ pc' = [pc EXCEPT !["loop"] = "check"]
  /\ UNCHANGED <<request, process>>

\* CheckHookPointer, CheckMemoryCRC32 and Sleep follow each other; after the
\* second, clearing the debug port may fail, which ends the process.
LoopNext ==
  /\ Running /\ pc["loop"] = "check"
  /\ \/ phase = "hooks" /\ phase' = "crc" /\ UNCHANGED process
     \/ phase = "crc" /\ phase' = "sleep" /\ process' \in {"running", "exited"}
     \/ phase = "sleep" /\ phase' = "hooks" /\ UNCHANGED process
  /\ UNCHANGED <<pc, request, result, served, client, sock, c2s, s2c, user>>

\* No handler on this thread: std::terminate.
LoopThrows ==
  /\ RecvThrows("loop")
  /\ pc' = [pc EXCEPT !["loop"] = "check"]
  /\ process' = "crashed"

\* A module whose section CheckMemoryCRC32 reads has been unloaded: an access
\* violation, which UnHandleException passes on.
LoopFaults ==
  /\ Running /\ pc["loop"] = "check" /\ phase = "crc"
  /\ process' = "crashed"
  /\ UNCHANGED <<pc, phase, request, result, served, client, sock, c2s, s2c, user>>

-----------------------------------------------------------------------------
(* The server end *)

\* The headers DispatchTcpMessage may see in the first k pieces.
ChunkHeaders(k) ==
  CASE c2s[1].part = "h1" /\ k = 1 ->
         {Hdr(c2s[1].cmd, Garbage)} \cup StaleHeader
    [] c2s[1].part = "h1" /\ k > 1 -> {Hdr(c2s[1].cmd, "Request")}
    [] c2s[1].part # "h1" -> {Hdr(Garbage, Garbage)}

\* Mutant: ClientLogin leaves the user id alone.
LoginUser_Skipped(h, k) == UNCHANGED user

\* ClientLogin: user_id is the rest of the chunk; a chunk shorter than a
\* header throws before the assignment.
LoginUser(h, k) ==
  user' = IF h = Hdr(LOGIN, "Request") /\ k > 1
          THEN IF k > 2 THEN "full" ELSE "cut"
          ELSE user

\* OnReceive gets the first k pieces.  Those after the first packet are
\* ignored; a payload shorter than data_len is taken as it is.
ServerReceive(k) ==
  /\ sock = "up"
  /\ k <= Len(c2s)
  /\ MaySplit \/ k % 3 = 0
  /\ \E h \in ChunkHeaders(k) :
       /\ s2c' = s2c \o IF RepliesTo(h, k = 1) = <<>> THEN <<>> ELSE ReplyPieces(Reply(h))
       /\ LoginUser(h, k)
       /\ served' = IF Accepted(h) /\ c2s[1].part = "h1"
                    THEN [served EXCEPT ![c2s[1].from] = IF k > 2 THEN "full" ELSE "cut"]
                    ELSE served
  /\ c2s' = SubSeq(c2s, k + 1, Len(c2s))
  /\ UNCHANGED <<pc, phase, request, result, client, sock, process>>

\* The server process ends, or closes the connection, with a FIN.
ServerEnds ==
  /\ Running /\ sock = "up"
  /\ sock' = "fin" /\ c2s' = <<>>
  /\ UNCHANGED <<pc, phase, request, result, served, client, s2c, user, process>>

\* A RST: bytes received but not yet read are discarded.
ConnectionReset ==
  /\ Running /\ sock \in {"up", "fin"}
  /\ sock' = "reset" /\ c2s' = <<>> /\ s2c' = <<>>
  /\ UNCHANGED <<pc, phase, request, result, served, client, user, process>>

-----------------------------------------------------------------------------
Main == MakeClient \/ Connect \/ ConnectFails \/ MainSend \/ LoginOK
        \/ MachineInfoOK \/ MainError \/ MainThrows
Loop == LoopStart \/ LoopNext \/ LoopSend \/ LoopRecv \/ LoopThrows \/ LoopFaults
Server == \E k \in 1..Len(c2s) : Running /\ ServerReceive(k)

Next == Main \/ Loop \/ Server \/ ServerEnds \/ ConnectionReset

\* The two threads are scheduled, a recv that can return returns, HP-Socket
\* delivers what has arrived, and the loop thread reaches the end of its
\* finite lists however many reports it makes on the way.  Nothing forces it
\* to find an anomaly, nor the connection to fail.
Spec ==
  /\ Init /\ [][Next]_vars
  /\ WF_vars(Main)
  /\ WF_vars(LoopStart) /\ WF_vars(LoopRecv \/ LoopThrows)
  /\ SF_vars(LoopNext)
  /\ WF_vars(Server)

-----------------------------------------------------------------------------
(* Properties *)

\* A call returns BASE_SUCCESS only if the server received its whole packet
\* and ran the handler for it: neither the reply to another call, nor the
\* end of the stream, nor a broken connection passes for an answer.
NoSpuriousSuccess == \A t \in Thread : result[t] = "ok" => served[t] = "full"

\* The lock-free use of one socket by two threads is safe because their
\* calls never overlap: when neither waits in recv, nothing is left on a
\* live connection for the next call to mistake for its answer.
Lockstep ==
  /\ \E t \in Thread : pc[t] # "recv"
  /\ (\A t \in Thread : pc[t] # "recv") => c2s = <<>> /\ s2c = <<>>

\* A report reaches the server's handler only after the login has given the
\* connection its user id, so every report is attributed to a user.
ReportsAreAttributed == served["loop"] # "no" => user = "full"

\* A thread that waits for an answer stops waiting: the server answers, or
\* the connection or the process ends.
WaitEnds ==
  \A t \in Thread : (Running /\ pc[t] = "recv") ~> ~(Running /\ pc[t] = "recv")

\* The checks go on: the loop thread finishes one round after another for as
\* long as the process runs, because no report it makes waits for ever.
KeepsChecking == []<>(phase = "sleep" \/ ~Running)

\* What the session promises its callers (ReportService).
Caller == CHOOSE t \in Thread \cup {"nobody"} :
            IF \E u \in Thread : pc[u] = "recv" THEN t \in Thread /\ pc[t] = "recv"
                                                ELSE t = "nobody"
Service == INSTANCE ReportService WITH
  caller <- Caller,
  taken <- Caller # "nobody" /\ served[Caller] = "full",
  answer <- result

ImplementsService == Service!Spec
=============================================================================
