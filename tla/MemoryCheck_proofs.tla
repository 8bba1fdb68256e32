------------------------- MODULE MemoryCheck_proofs -------------------------
(***************************************************************************)
(* Proofs about the client session and the checks that use it.             *)
(*                                                                         *)
(* The session, when packets arrive whole and a stale string does not read *)
(* as a success: the two threads that share a socket without a lock never  *)
(* overlap, an answer is the answer to the call that gets it, and reports  *)
(* are made by a user who has logged in.                                   *)
(*                                                                         *)
(* The checks of MemoryCheck, for any lists of hooks and modules and any   *)
(* number of changes.  They use the session as BACSession says a loop      *)
(* thread does, so what is proved there holds for them.  What the checks   *)
(* promise rests on an invariant that relates the list of things still to  *)
(* be looked at in a round to what has been recorded, touched, reported    *)
(* and answered: every lasting change that was not yet answered is still   *)
(* ahead on the list.                                                      *)
(***************************************************************************)
EXTENDS MemoryCheck, FiniteSetTheorems, SequenceTheorems, TLAPS

-----------------------------------------------------------------------------
(* The session *)

\* TCP cuts nothing, and no stale bytes pass for the awaited answer.
WholePackets ==
  /\ ~MaySplit
  /\ \A c \in HandledCommand : Hdr(c, "Success") \notin StaleHeader

Types ==
  /\ pc \in [Thread -> MainPC \cup LoopPC]
  /\ pc["main"] \in MainPC /\ pc["loop"] \in LoopPC
  /\ request \in [Thread -> HandledCommand]
  /\ result \in [Thread -> {"none", "ok", "error", "exception"}]
  /\ served \in [Thread -> {"no", "cut", "full"}]
  /\ sock \in {"closed", "up", "fin", "reset"}

\* The loader lock keeps the threads apart; a main thread that has given up
\* while the process runs has lost the connection.
Order ==
  /\ pc["loop"] # "created" => pc["main"] \in {"returned", "failed"}
  /\ pc["main"] = "failed" /\ Running => sock # "up"

\* What is on the wire while t waits: its packet, its answer, or nothing that
\* will ever come.
Wire(t) ==
  \/ sock = "up" /\ c2s = Packet(request[t], t) /\ s2c = <<>> /\ served[t] = "no"
  \/ /\ sock \in {"up", "fin"} /\ c2s = <<>>
     /\ s2c = ReplyPieces(Hdr(request[t], "Success"))
     /\ served[t] = "full"
  \/ sock # "up" /\ c2s = <<>> /\ s2c = <<>>

Waiting(t) == pc[t] = "recv" => Wire(t) /\ result[t] = "none"

Quiet == (\A t \in Thread : pc[t] # "recv") => c2s = <<>> /\ s2c = <<>>

LoggedIn ==
  /\ served["main"] = "full" /\ request["main"] = LOGIN => user = "full"
  /\ request["main"] = MACHINE_INFO => user = "full"
  /\ pc["main"] = "returned" => request["main"] = MACHINE_INFO
  /\ served["loop"] # "no" => user = "full"

SessionInv ==
  /\ Types /\ Order
  /\ \A t \in Thread : Waiting(t)
  /\ Quiet /\ LoggedIn /\ NoSpuriousSuccess

-----------------------------------------------------------------------------
(* Pieces *)

LEMMA TakeAll2 == ASSUME NEW a, NEW b PROVE SubSeq(<<a, b>>, 3, 2) = <<>>
  OBVIOUS

LEMMA TakeAll3 == ASSUME NEW a, NEW b, NEW c PROVE SubSeq(<<a, b, c>>, 4, 3) = <<>>
  OBVIOUS

LEMMA TakeNone == SubSeq(<<>>, 1, 0) = <<>>
  OBVIOUS

LEMMA PacketSent == ASSUME NEW c, NEW t PROVE <<>> \o Packet(c, t) = Packet(c, t)
  BY DEF Packet

LEMMA ReplySent == ASSUME NEW h PROVE <<>> \o ReplyPieces(h) = ReplyPieces(h)
  BY DEF ReplyPieces

LEMMA NotBoth == ASSUME Types, Order PROVE \E t \in Thread : pc[t] # "recv"
  BY DEF Types, Order, Thread, LoopPC

\* What RecvReply finds: the answer to this call, or the end of the stream.
LEMMA AnswerOrEnd ==
  ASSUME WholePackets, NEW t \in Thread, NEW v, Types, Waiting(t), RecvReply(t, v)
  PROVE  /\ s2c' = <<>> /\ c2s' = <<>>
         /\ v \in {"ok", "error"}
         /\ v = "ok" => served[t] = "full"
<1>1. pc[t] = "recv" /\ sock \in {"up", "fin"} /\ c2s' = c2s
  BY DEF RecvReply
<1>2. PICK n \in Received : \E h \in Decoded(n) :
         v = Verdict(t, h) /\ s2c' = SubSeq(s2c, n + 1, Len(s2c))
  BY DEF RecvReply
<1>3. PICK h \in Decoded(n) : v = Verdict(t, h)
  BY <1>2
<1>4. v \in {"ok", "error"}
  BY <1>3 DEF Verdict
<1>5. Hdr(request[t], "Success") \notin StaleHeader
  BY DEF WholePackets, Types
<1>6. CASE sock = "up" /\ s2c = <<>>
  BY <1>6 DEF Received
<1>7. CASE c2s = <<>> /\ s2c = <<>> /\ sock = "fin"
  <2>1. n = 0
    BY <1>7 DEF Received
  <2>2. v = "error"
    BY <1>3, <1>5, <2>1 DEF Decoded, Verdict
  <2>3. s2c' = <<>>
    BY <1>2, <1>7, <2>1, TakeNone
  <2>. QED
    BY <1>1, <1>7, <2>2, <2>3
<1>8. CASE c2s = <<>> /\ s2c = ReplyPieces(Hdr(request[t], "Success")) /\ served[t] = "full"
  <2>1. Len(s2c) = 2 /\ s2c # <<>>
    BY <1>8 DEF ReplyPieces
  <2>2. n = 2
    BY <2>1 DEF Received, WholePackets
  <2>3. s2c' = <<>>
    BY <1>2, <1>8, <2>1, <2>2, TakeAll2 DEF ReplyPieces
  <2>. QED
    BY <1>1, <1>4, <1>8, <2>3
<1>. QED
  BY <1>1, <1>6, <1>7, <1>8 DEF Waiting, Wire

LEMMA InitSession == Init => SessionInv
  BY DEF Init, SessionInv, Types, Order, Waiting, Quiet, LoggedIn, NoSpuriousSuccess,
         Thread, MainPC, LoopPC, HandledCommand, LOGIN, MACHINE_INFO, GAME_ABNORMAL_DATA, Running

\* A packet leaves when the wire is empty.
LEMMA StepSend ==
  ASSUME SessionInv, Running, NEW t \in Thread, SendPacket(t), pc[t] # "recv",
         pc' = [pc EXCEPT ![t] = "recv"], t = "main" => pc[t] = "send",
         t = "loop" => pc[t] = "check",
         UNCHANGED <<request, sock, s2c, user, process>>
  PROVE  SessionInv'
<1> USE DEF SessionInv, Thread
<1>1. \A u \in Thread : pc[u] # "recv"
  BY DEF Types, Order, MainPC, LoopPC
<1>2. c2s = <<>> /\ s2c = <<>>
  BY <1>1 DEF Quiet
<1>3. Types'
  BY DEF Types, SendPacket, MainPC, LoopPC
<1>4. Order'
  BY DEF Types, Order, Running, MainPC
<1>5. Waiting(t)'
  <2>1. result'[t] = "none" /\ served'[t] = "no"
    BY DEF Types, SendPacket
  <2>2. c2s' = IF sock = "up" THEN Packet(request[t], t) ELSE <<>>
    BY <1>2, PacketSent DEF SendPacket
  <2>. QED
    BY <1>2, <2>1, <2>2 DEF Waiting, Wire
<1>6. \A u \in Thread : Waiting(u)'
  BY <1>1, <1>5 DEF Waiting, Types
<1>7. Quiet'
  BY DEF Quiet, Types
<1>8. LoggedIn'
  BY DEF LoggedIn, SendPacket, Types
<1>9. NoSpuriousSuccess'
  BY DEF NoSpuriousSuccess, SendPacket, Types
<1>. QED
  BY <1>3, <1>4, <1>6, <1>7, <1>8, <1>9

\* An answer leaves the wire empty and returns to the caller.
LEMMA StepAnswer ==
  ASSUME SessionInv, WholePackets, NEW t \in Thread, NEW v, RecvReply(t, v)
  PROVE  /\ \A u \in Thread \ {t} : pc[u] # "recv"
         /\ c2s' = <<>> /\ s2c' = <<>>
         /\ v \in {"ok", "error"} /\ v = "ok" => served[t] = "full"
         /\ NoSpuriousSuccess'
<1> USE DEF SessionInv
<1>1. \A u \in Thread \ {t} : pc[u] # "recv"
  BY DEF RecvReply, Thread, Types, Order, LoopPC
<1>2. c2s' = <<>> /\ s2c' = <<>> /\ v \in {"ok", "error"} /\ (v = "ok" => served[t] = "full")
  BY AnswerOrEnd
<1>3. NoSpuriousSuccess'
  BY <1>2 DEF RecvReply, NoSpuriousSuccess, Types
<1>. QED
  BY <1>1, <1>2, <1>3

LEMMA StepMain == ASSUME SessionInv, WholePackets, Main PROVE SessionInv'
<1> USE DEF SessionInv, Thread
<1>1. CASE MakeClient \/ Connect \/ ConnectFails
  <2>1. pc["loop"] = "created" /\ c2s = <<>> /\ s2c = <<>>
    BY <1>1 DEF MakeClient, Connect, ConnectFails, Types, Order, Quiet
  <2>2. Types' /\ Order'
    BY <1>1, <2>1 DEF MakeClient, Connect, ConnectFails, InitFailed, Types, Order, MainPC, LoopPC, Running
  <2>3. pc' \in [Thread -> MainPC \cup LoopPC] /\ pc'["main"] # "recv" /\ pc'["loop"] # "recv"
    BY <1>1, <2>1 DEF MakeClient, Connect, ConnectFails, InitFailed, Types, MainPC, LoopPC
  <2>4. (\A t \in Thread : Waiting(t)') /\ Quiet'
    BY <1>1, <2>1, <2>3 DEF Waiting, Quiet, MakeClient, Connect, ConnectFails
  <2>5. LoggedIn' /\ NoSpuriousSuccess'
    BY <1>1 DEF MakeClient, Connect, ConnectFails, InitFailed, Types, LoggedIn, NoSpuriousSuccess
  <2>. QED
    BY <2>2, <2>4, <2>5
<1>2. CASE MainSend
  BY <1>2, StepSend DEF MainSend
<1>3. CASE LoginOK
  <2>1. RecvReply("main", "ok") /\ pc' = [pc EXCEPT !["main"] = "send"] /\ request["main"] = LOGIN
        /\ request' = [request EXCEPT !["main"] = MACHINE_INFO] /\ process' = process
    BY <1>3 DEF LoginOK
  <2>2. pc["loop"] # "recv" /\ c2s' = <<>> /\ s2c' = <<>> /\ served["main"] = "full" /\ NoSpuriousSuccess'
    BY <2>1, StepAnswer
  <2>3. pc["loop"] = "created"
    BY <2>1 DEF RecvReply, Order
  <2>4. Types'
    BY <2>1 DEF RecvReply, Types, MainPC, HandledCommand
  <2>5. Order'
    BY <2>1, <2>3 DEF Types, Order
  <2>6. (\A t \in Thread : Waiting(t)') /\ Quiet'
    BY <2>1, <2>2, <2>3 DEF Types, Waiting, Quiet
  <2>7. LoggedIn'
    BY <2>1, <2>2 DEF RecvReply, Types, LoggedIn
  <2>. QED
    BY <2>2, <2>4, <2>5, <2>6, <2>7
<1>4. CASE MachineInfoOK \/ MainError
  <2>1. PICK v \in {"ok", "error"} : RecvReply("main", v)
    BY <1>4 DEF MachineInfoOK, MainError
  <2>2. pc["loop"] # "recv" /\ c2s' = <<>> /\ s2c' = <<>> /\ NoSpuriousSuccess'
    BY <2>1, StepAnswer
  <2>3. pc["loop"] = "created"
    BY <2>1 DEF RecvReply, Order
  <2>4. Types'
    BY <1>4, <2>1 DEF MachineInfoOK, MainError, InitFailed, RecvReply, Types, MainPC
  <2>5. Order'
    BY <1>4, <2>3 DEF MachineInfoOK, MainError, InitFailed, Types, Order, Running
  <2>6. (\A t \in Thread : Waiting(t)') /\ Quiet'
    BY <1>4, <2>2, <2>3 DEF MachineInfoOK, MainError, InitFailed, Types, Waiting, Quiet
  <2>7. LoggedIn'
    BY <1>4, <2>1 DEF MachineInfoOK, MainError, InitFailed, RecvReply, Types, LoggedIn
  <2>. QED
    BY <2>2, <2>4, <2>5, <2>6, <2>7
<1>5. CASE MainThrows
  <2>1. pc["main"] = "recv" /\ pc["loop"] = "created" /\ sock \in {"closed", "reset"}
    BY <1>5 DEF MainThrows, RecvThrows, Order
  <2>2. c2s = <<>> /\ s2c = <<>>
    BY <2>1 DEF Waiting, Wire
  <2>3. Types' /\ Order'
    BY <1>5, <2>1 DEF MainThrows, RecvThrows, Types, Order, MainPC, Running
  <2>4. (\A t \in Thread : Waiting(t)') /\ Quiet'
    BY <1>5, <2>1, <2>2 DEF MainThrows, RecvThrows, Types, Waiting, Quiet
  <2>5. LoggedIn' /\ NoSpuriousSuccess'
    BY <1>5 DEF MainThrows, RecvThrows, Types, LoggedIn, NoSpuriousSuccess
  <2>. QED
    BY <2>3, <2>4, <2>5
<1>. QED
  BY <1>1, <1>2, <1>3, <1>4, <1>5 DEF Main

LEMMA StepLoop == ASSUME SessionInv, WholePackets, Loop PROVE SessionInv'
<1> USE DEF SessionInv, Thread
<1>1. CASE LoopStart \/ LoopNext \/ LoopFaults
  <2>1. UNCHANGED <<request, result, served, sock, c2s, s2c, user>>
        /\ pc["loop"] # "recv" /\ pc' \in [Thread -> MainPC \cup LoopPC] /\ pc'["main"] = pc["main"]
        /\ pc'["loop"] \in {"check"}
    BY <1>1 DEF LoopStart, LoopNext, LoopFaults, Types, LoopPC
  <2>2. Types' /\ Order'
    BY <1>1, <2>1 DEF LoopStart, LoopNext, LoopFaults, Types, Order, Running, LoopPC
  <2>3. (\A t \in Thread : Waiting(t)') /\ Quiet'
    BY <2>1 DEF Waiting, Wire, Quiet
  <2>4. LoggedIn' /\ NoSpuriousSuccess'
    BY <2>1 DEF LoggedIn, NoSpuriousSuccess
  <2>. QED
    BY <2>2, <2>3, <2>4
<1>2. CASE LoopSend
  BY <1>2, StepSend DEF LoopSend
<1>3. CASE LoopRecv
  <2>1. PICK v \in {"ok", "error"} : RecvReply("loop", v)
    BY <1>3 DEF LoopRecv
  <2>2. pc["main"] # "recv" /\ c2s' = <<>> /\ s2c' = <<>> /\ NoSpuriousSuccess'
    BY <2>1, StepAnswer
  <2>3. Types' /\ Order'
    BY <1>3, <2>1 DEF LoopRecv, RecvReply, Types, Order, Running, LoopPC
  <2>4. (\A t \in Thread : Waiting(t)') /\ Quiet'
    BY <1>3, <2>2 DEF LoopRecv, Types, Waiting, Quiet
  <2>5. LoggedIn'
    BY <1>3, <2>1 DEF LoopRecv, RecvReply, Types, LoggedIn
  <2>. QED
    BY <2>2, <2>3, <2>4, <2>5
<1>4. CASE LoopThrows
  <2>1. pc["loop"] = "recv" /\ sock \in {"closed", "reset"} /\ pc["main"] # "recv"
    BY <1>4 DEF LoopThrows, RecvThrows, Order
  <2>2. c2s = <<>> /\ s2c = <<>>
    BY <2>1 DEF Waiting, Wire
  <2>3. Types' /\ Order'
    BY <1>4, <2>1 DEF LoopThrows, RecvThrows, Types, Order, Running, LoopPC
  <2>4. (\A t \in Thread : Waiting(t)') /\ Quiet'
    BY <1>4, <2>1, <2>2 DEF LoopThrows, RecvThrows, Types, Waiting, Quiet
  <2>5. LoggedIn' /\ NoSpuriousSuccess'
    BY <1>4 DEF LoopThrows, RecvThrows, Types, LoggedIn, NoSpuriousSuccess
  <2>. QED
    BY <2>3, <2>4, <2>5
<1>. QED
  BY <1>1, <1>2, <1>3, <1>4 DEF Loop

\* The server gets the one packet there is, and handles it.
LEMMA PacketHandled ==
  ASSUME SessionInv, WholePackets, Server, NEW t \in Thread, pc[t] = "recv"
  PROVE  /\ result[t] = "none" /\ sock = "up" /\ Running
         /\ c2s' = <<>> /\ s2c' = ReplyPieces(Hdr(request[t], "Success"))
         /\ served' = [served EXCEPT ![t] = "full"]
         /\ user' = IF request[t] = LOGIN THEN "full" ELSE user
<1> USE DEF SessionInv, Thread
<1>1. PICK k \in 1..Len(c2s) : Running /\ ServerReceive(k)
  BY DEF Server
<1>2. c2s # <<>> /\ sock = "up"
  BY <1>1 DEF ServerReceive
<1>3. c2s = Packet(request[t], t) /\ s2c = <<>> /\ result[t] = "none"
  BY <1>2 DEF Waiting, Wire
<1>4. Len(c2s) = 3 /\ c2s[1] = [part |-> "h1", cmd |-> request[t], from |-> t]
  BY <1>3 DEF Packet
<1>5. k = 3
  BY <1>1, <1>4, SMTT(30) DEF ServerReceive, WholePackets
<1> DEFINE h == Hdr(request[t], "Request")
<1>6. /\ s2c' = s2c \o IF RepliesTo(h, k = 1) = <<>> THEN <<>> ELSE ReplyPieces(Reply(h))
      /\ LoginUser(h, k)
      /\ served' = [served EXCEPT ![t] = "full"]
  <2>1. ChunkHeaders(k) = {h}
    BY <1>4, <1>5 DEF ChunkHeaders
  <2>2. Accepted(h)
    BY DEF Types, Accepted, Hdr
  <2>. QED
    BY <1>1, <1>4, <1>5, <2>1, <2>2 DEF ServerReceive
<1>7. RepliesTo(h, k = 1) = <<Reply(h)>> /\ Reply(h) = Hdr(request[t], "Success")
  BY <1>5 DEF RepliesTo, Reply, Hdr, Types
<1>8. s2c' = ReplyPieces(Hdr(request[t], "Success"))
  BY <1>3, <1>6, <1>7, ReplySent, SMTT(30)
<1>9. c2s' = <<>>
  BY <1>1, <1>3, <1>4, <1>5, TakeAll3 DEF ServerReceive, Packet
<1>10. user' = IF request[t] = LOGIN THEN "full" ELSE user
  BY <1>5, <1>6 DEF LoginUser, Hdr
<1>. QED
  BY <1>1, <1>2, <1>3, <1>6, <1>8, <1>9, <1>10

LEMMA StepServer == ASSUME SessionInv, WholePackets, Server PROVE SessionInv'
<1> USE DEF SessionInv, Thread
<1>1. UNCHANGED <<pc, request, result, sock, process>> /\ c2s # <<>>
  BY DEF Server, ServerReceive
<1>2. PICK t \in Thread : pc[t] = "recv"
  BY <1>1 DEF Quiet
<1>3. /\ result[t] = "none" /\ sock = "up" /\ Running
      /\ c2s' = <<>> /\ s2c' = ReplyPieces(Hdr(request[t], "Success"))
      /\ served' = [served EXCEPT ![t] = "full"]
      /\ user' = IF request[t] = LOGIN THEN "full" ELSE user
  BY <1>2, PacketHandled
<1>4. Types' /\ Order'
  BY <1>1, <1>3 DEF Types, Order, Running
<1>5. \A u \in Thread \ {t} : pc[u] # "recv"
  BY <1>2 DEF Types, Order, LoopPC
<1>6. (\A u \in Thread : Waiting(u)') /\ Quiet'
  BY <1>1, <1>2, <1>3, <1>5 DEF Waiting, Wire, Quiet, Types
<1>7. t = "loop" => user = "full"
  BY <1>2, <1>3 DEF Order, LoggedIn
<1>8. LoggedIn'
  BY <1>1, <1>3, <1>7 DEF LoggedIn, Types
<1>9. NoSpuriousSuccess'
  BY <1>1, <1>3 DEF NoSpuriousSuccess, Types
<1>. QED
  BY <1>4, <1>6, <1>8, <1>9

LEMMA StepEnds == ASSUME SessionInv, ServerEnds \/ ConnectionReset PROVE SessionInv'
<1> USE DEF SessionInv, Thread
<1>1. Types' /\ Order'
  BY DEF ServerEnds, ConnectionReset, Types, Order, Running
<1>2. \A t \in Thread : Waiting(t)'
  BY DEF ServerEnds, ConnectionReset, Waiting, Wire
<1>3. Quiet' /\ LoggedIn' /\ NoSpuriousSuccess'
  BY DEF ServerEnds, ConnectionReset, Quiet, LoggedIn, NoSpuriousSuccess
<1>. QED
  BY <1>1, <1>2, <1>3

LEMMA SessionStep == ASSUME SessionInv, WholePackets, [Next]_vars PROVE SessionInv'
<1>1. CASE UNCHANGED vars
  BY <1>1 DEF vars, SessionInv, Types, Order, Waiting, Wire, Quiet, LoggedIn, NoSpuriousSuccess, Running
<1>. QED
  BY <1>1, StepMain, StepLoop, StepServer, StepEnds DEF Next

LEMMA SessionHolds == ASSUME WholePackets PROVE Spec => []SessionInv
BY InitSession, SessionStep, PTL DEF Spec

\* A call succeeds only if the server has received the whole packet and run
\* its handler for it.
THEOREM SuccessIsAnswered == ASSUME WholePackets PROVE Spec => []NoSpuriousSuccess
<1>1. SessionInv => NoSpuriousSuccess
  BY DEF SessionInv
<1>. QED
  BY <1>1, SessionHolds, PTL

\* The two threads never wait at the same time, and nothing is left on the
\* wire between their calls: the socket needs no lock.
THEOREM CallsInLockstep == ASSUME WholePackets PROVE Spec => []Lockstep
<1>1. SessionInv => Lockstep
  BY NotBoth DEF SessionInv, Quiet, Lockstep
<1>. QED
  BY <1>1, SessionHolds, PTL

\* No report reaches a handler of the server before the login.
THEOREM ReportsHaveUser == ASSUME WholePackets PROVE Spec => []ReportsAreAttributed
<1>1. SessionInv => ReportsAreAttributed
  BY DEF SessionInv, LoggedIn, ReportsAreAttributed
<1>. QED
  BY <1>1, SessionHolds, PTL

-----------------------------------------------------------------------------
(* The session implements ReportService *)

LEMMA CallerIs ==
  ASSUME Types, Order
  PROVE  /\ \A t \in Thread : pc[t] = "recv" => Caller = t
         /\ (\A t \in Thread : pc[t] # "recv") => Caller = "nobody"
<1>1. \A t, u \in Thread : pc[t] = "recv" /\ pc[u] = "recv" => t = u
  BY DEF Types, Order, Thread, LoopPC
<1>2. ASSUME NEW t \in Thread, pc[t] = "recv" PROVE Caller = t
  <2>1. Caller = CHOOSE u \in Thread \cup {"nobody"} : u \in Thread /\ pc[u] = "recv"
    BY <1>2 DEF Caller
  <2>2. \A u \in Thread \cup {"nobody"} : u \in Thread /\ pc[u] = "recv" <=> u = t
    BY <1>1, <1>2
  <2>. QED
    BY <2>1, <2>2
<1>3. ASSUME \A t \in Thread : pc[t] # "recv" PROVE Caller = "nobody"
  BY <1>3 DEF Caller
<1>. QED
  BY <1>2, <1>3

LEMMA CallerIsNext ==
  ASSUME SessionInv'
  PROVE  /\ \A t \in Thread : pc'[t] = "recv" => Caller' = t
         /\ (\A t \in Thread : pc'[t] # "recv") => Caller' = "nobody"
<1>1. \A t, u \in Thread : pc'[t] = "recv" /\ pc'[u] = "recv" => t = u
  BY DEF SessionInv, Types, Order, Thread, LoopPC
<1>2. ASSUME NEW t \in Thread, pc'[t] = "recv" PROVE Caller' = t
  <2>1. Caller' = CHOOSE u \in Thread \cup {"nobody"} : u \in Thread /\ pc'[u] = "recv"
    BY <1>2 DEF Caller
  <2>2. \A u \in Thread \cup {"nobody"} : u \in Thread /\ pc'[u] = "recv" <=> u = t
    BY <1>1, <1>2
  <2>. QED
    BY <2>1, <2>2
<1>3. ASSUME \A t \in Thread : pc'[t] # "recv" PROVE Caller' = "nobody"
  BY <1>3 DEF Caller
<1>. QED
  BY <1>2, <1>3

Taken == Caller # "nobody" /\ served[Caller] = "full"

\* Sending opens a call.
LEMMA SendCalls ==
  ASSUME SessionInv, SessionInv', NEW t \in Thread, SendPacket(t), pc[t] # "recv",
         pc' = [pc EXCEPT ![t] = "recv"], \A u \in Thread : pc[u] # "recv"
  PROVE  Service!Call(t)
<1>1. pc'[t] = "recv"
  BY DEF SessionInv, Types
<1>2. Caller = "nobody" /\ Caller' = t
  BY <1>1, CallerIs, CallerIsNext DEF SessionInv
<1>3. served'[t] = "no" /\ result' = [result EXCEPT ![t] = "none"]
  BY DEF SendPacket, SessionInv, Types
<1>. QED
  BY <1>2, <1>3 DEF Service!Call

\* What recv and the checks give is what the call returns.
LEMMA ReceiveReturns ==
  ASSUME SessionInv, SessionInv', NEW t \in Thread, NEW v \in {"ok", "error", "exception"},
         pc[t] = "recv", result' = [result EXCEPT ![t] = v], v = "ok" => served[t] = "full",
         \A u \in Thread : pc'[u] # "recv"
  PROVE  Service!Return(t, v)
<1>1. Caller = t /\ Caller' = "nobody"
  BY CallerIs, CallerIsNext DEF SessionInv
<1>2. t # "nobody"
  BY DEF Thread
<1>. QED
  BY <1>1, <1>2 DEF Service!Return

\* Nothing of it changes when no call begins, ends or is handled.
LEMMA Unseen ==
  ASSUME SessionInv, SessionInv', UNCHANGED <<served, result>>,
         \A t \in Thread : pc'[t] = "recv" <=> pc[t] = "recv"
  PROVE  UNCHANGED <<Caller, Taken, result>>
<1>1. Caller' = Caller
  BY CallerIs, CallerIsNext DEF SessionInv
<1>. QED
  BY <1>1 DEF Taken

LEMMA ServiceStep ==
  ASSUME SessionInv, SessionInv', WholePackets, [Next]_vars
  PROVE  [Service!Next]_<<Caller, Taken, result>>
<1> USE DEF Thread
<1>1. CASE UNCHANGED vars \/ ServerEnds \/ ConnectionReset
  <2>1. UNCHANGED <<pc, served, result>>
    BY <1>1 DEF vars, ServerEnds, ConnectionReset
  <2>. QED
    BY <2>1, Unseen
<1>2. CASE MakeClient \/ Connect \/ ConnectFails \/ LoopStart \/ LoopNext \/ LoopFaults
  <2>1. UNCHANGED <<served, result>>
    BY <1>2 DEF MakeClient, Connect, ConnectFails, LoopStart, LoopNext, LoopFaults
  <2>2. \A t \in Thread : pc'[t] = "recv" <=> pc[t] = "recv"
    BY <1>2 DEF MakeClient, Connect, ConnectFails, InitFailed, LoopStart, LoopNext, LoopFaults,
       SessionInv, Types, MainPC, LoopPC
  <2>. QED
    BY <2>1, <2>2, Unseen
<1>3. CASE MainSend \/ LoopSend
  <2>1. PICK t \in Thread : SendPacket(t) /\ pc[t] # "recv" /\ pc' = [pc EXCEPT ![t] = "recv"]
                            /\ (t = "main" => pc[t] = "send") /\ (t = "loop" => pc[t] = "check")
    BY <1>3 DEF MainSend, LoopSend
  <2>2. \A u \in Thread : pc[u] # "recv"
    BY <2>1 DEF SessionInv, Types, Order, LoopPC
  <2>3. Service!Call(t)
    BY <2>1, <2>2, SendCalls
  <2>. QED
    BY <2>3 DEF Service!Next
<1>4. CASE LoginOK \/ MachineInfoOK \/ MainError \/ LoopRecv
  <2>1. PICK t \in Thread, v \in {"ok", "error"} : RecvReply(t, v) /\ pc' = [pc EXCEPT ![t] = pc'[t]] /\ pc'[t] # "recv"
    BY <1>4 DEF LoginOK, MachineInfoOK, MainError, InitFailed, LoopRecv, SessionInv, Types
  <2>2. /\ \A u \in Thread \ {t} : pc[u] # "recv"
        /\ v = "ok" => served[t] = "full"
    BY <2>1, StepAnswer
  <2>3. pc[t] = "recv" /\ result' = [result EXCEPT ![t] = v]
    BY <2>1 DEF RecvReply
  <2>4. \A u \in Thread : pc'[u] # "recv"
    BY <2>1, <2>2 DEF SessionInv, Types
  <2>5. Service!Return(t, v)
    BY <2>2, <2>3, <2>4, ReceiveReturns
  <2>. QED
    BY <2>5 DEF Service!Next
<1>5. CASE MainThrows \/ LoopThrows
  <2>1. PICK t \in Thread : RecvThrows(t) /\ pc' = [pc EXCEPT ![t] = pc'[t]] /\ pc'[t] # "recv"
    BY <1>5 DEF MainThrows, LoopThrows, SessionInv, Types
  <2>2. pc[t] = "recv" /\ result' = [result EXCEPT ![t] = "exception"]
    BY <2>1 DEF RecvThrows
  <2>3. \A u \in Thread : pc'[u] # "recv"
    BY <2>1, <2>2 DEF SessionInv, Types, Order, LoopPC
  <2>4. Service!Return(t, "exception")
    BY <2>2, <2>3, ReceiveReturns
  <2>. QED
    BY <2>4 DEF Service!Next
<1>6. CASE Server
  <2>1. UNCHANGED <<pc, result>> /\ c2s # <<>>
    BY <1>6 DEF Server, ServerReceive
  <2>2. PICK t \in Thread : pc[t] = "recv"
    BY <2>1 DEF SessionInv, Quiet
  <2>3. Caller = t /\ Caller' = t /\ t # "nobody"
    BY <2>1, <2>2, CallerIs, CallerIsNext DEF SessionInv
  <2>4. served'[t] = "full"
    BY <1>6, <2>2, PacketHandled DEF SessionInv, Types
  <2>. QED
    BY <2>1, <2>3, <2>4 DEF Service!Next, Service!Take
<1>. QED
  BY <1>1, <1>2, <1>3, <1>4, <1>5, <1>6 DEF Next, Main, Loop

LEMMA InitService == ASSUME Init PROVE Service!Init
<1>1. Caller = "nobody"
  BY CallerIs, InitSession DEF Init, SessionInv, Thread
<1>. QED
  BY <1>1 DEF Init, Service!Init

\* What the session promises its callers, but for the end of every call,
\* which needs fairness.
THEOREM SessionImplementsService ==
  ASSUME WholePackets
  PROVE  Spec => Service!Init /\ [][Service!Next]_<<Caller, Taken, result>>
<1>1. Init => Service!Init
  BY InitService
<1>. QED
  BY <1>1, ServiceStep, SessionHolds, PTL DEF Spec

-----------------------------------------------------------------------------
(* What holds however TCP cuts the packets, whatever stale bytes read as *)

Basics == TypeOK /\ Order

LEMMA BasicTypes == TypeOK => Types
  BY DEF TypeOK, Types

LEMMA InitBasics == Init => Basics
<1> SUFFICES ASSUME Init PROVE Basics
  OBVIOUS
<1>1. Types /\ Order
  BY InitSession DEF SessionInv
<1>2. c2s \in Seq(PacketPiece) /\ s2c \in Seq(ReplyPiece)
  BY DEF Init
<1>. QED
  BY <1>1, <1>2 DEF Init, Basics, Types, TypeOK

LEMMA PacketPieces ==
  ASSUME NEW cmd \in HandledCommand, NEW t \in Thread PROVE Packet(cmd, t) \in Seq(PacketPiece)
  BY DEF Packet, PacketPiece

LEMMA ReplyPiecesAre == ASSUME NEW h \in Header PROVE ReplyPieces(h) \in Seq(ReplyPiece)
  BY DEF ReplyPieces, ReplyPiece

LEMMA Rest ==
  ASSUME NEW S, NEW s \in Seq(S), NEW k \in 0..Len(s)
  PROVE  SubSeq(s, k + 1, Len(s)) \in Seq(S)
  OBVIOUS

\* A header the server decodes, and the one it answers with.
LEMMA ChunkHeader ==
  ASSUME TypeOK, NEW k \in 1..Len(c2s), NEW h \in ChunkHeaders(k)
  PROVE  h \in Header /\ Reply(h) \in Header /\ c2s[1] \in PacketPiece
<1>1. c2s[1] \in PacketPiece
  BY DEF TypeOK
<1>2. h \in Header
  BY <1>1, StaleAssumption DEF ChunkHeaders, PacketPiece, Header, Hdr, Command, HandledCommand, Status
<1>3. Reply(h) \in Header
  BY <1>2 DEF Reply, Header, Hdr, Command, Status
<1>. QED
  BY <1>1, <1>2, <1>3

LEMMA SendBasics ==
  ASSUME Basics, NEW t \in Thread, SendPacket(t), pc[t] # "recv",
         pc' = [pc EXCEPT ![t] = "recv"], t = "main" => pc[t] = "send",
         t = "loop" => pc[t] = "check",
         UNCHANGED <<phase, request, client, sock, s2c, user, process>>
  PROVE  Basics'
<1> USE DEF Basics
<1>1. request[t] \in HandledCommand
  BY DEF TypeOK
<1>2. c2s' \in Seq(PacketPiece)
  <2>1. Packet(request[t], t) \in Seq(PacketPiece) /\ c2s \in Seq(PacketPiece)
    BY <1>1, PacketPieces DEF TypeOK
  <2>. QED
    BY <2>1 DEF SendPacket
<1>3. TypeOK'
  BY <1>2 DEF TypeOK, SendPacket, MainPC, LoopPC, Thread
<1>4. Order'
  BY DEF TypeOK, Order, Running, MainPC, Thread
<1>. QED
  BY <1>3, <1>4

\* However recv ends, what is left of the stream is a stream of replies.
LEMMA ReceiveTypes ==
  ASSUME Basics, NEW t \in Thread, NEW v, RecvReply(t, v)
  PROVE  /\ s2c' \in Seq(ReplyPiece)
         /\ result' \in [Thread -> {"none", "ok", "error", "exception"}]
         /\ pc[t] = "recv"
         /\ UNCHANGED <<phase, served, client, sock, c2s, user>>
<1>1. PICK n \in Received : s2c' = SubSeq(s2c, n + 1, Len(s2c))
  BY DEF RecvReply
<1>2. n \in 0..Len(s2c) /\ s2c \in Seq(ReplyPiece)
  BY DEF Received, Basics, TypeOK
<1>3. s2c' \in Seq(ReplyPiece)
  BY <1>1, <1>2, Rest
<1>4. v \in {"ok", "error"}
  BY DEF RecvReply, Verdict
<1>. QED
  BY <1>3, <1>4 DEF RecvReply, Basics, TypeOK

LEMMA MainBasics == ASSUME Basics, Main PROVE Basics'
<1> USE DEF Basics, Thread
<1>1. CASE MakeClient \/ Connect \/ ConnectFails
  BY <1>1 DEF MakeClient, Connect, ConnectFails, InitFailed, TypeOK, Order, MainPC, LoopPC, Running
<1>2. CASE MainSend
  BY <1>2, SendBasics DEF MainSend
<1>3. CASE LoginOK \/ MachineInfoOK \/ MainError
  <2>1. PICK v \in {"ok", "error"} : RecvReply("main", v)
    BY <1>3 DEF LoginOK, MachineInfoOK, MainError
  <2>2. /\ s2c' \in Seq(ReplyPiece)
        /\ result' \in [Thread -> {"none", "ok", "error", "exception"}]
        /\ pc["main"] = "recv"
        /\ UNCHANGED <<phase, served, client, sock, c2s, user>>
    BY <2>1, ReceiveTypes
  <2>3. pc["loop"] = "created"
    BY <2>2 DEF Order
  <2>4. TypeOK'
    BY <1>3, <2>2 DEF LoginOK, MachineInfoOK, MainError, InitFailed, TypeOK, MainPC, HandledCommand
  <2>5. Order'
    BY <1>3, <2>2, <2>3 DEF LoginOK, MachineInfoOK, MainError, InitFailed, TypeOK, Order, Running
  <2>. QED
    BY <2>4, <2>5
<1>4. CASE MainThrows
  BY <1>4 DEF MainThrows, RecvThrows, TypeOK, Order, MainPC, Running
<1>. QED
  BY <1>1, <1>2, <1>3, <1>4 DEF Main

LEMMA LoopBasics == ASSUME Basics, Loop PROVE Basics'
<1> USE DEF Basics, Thread
<1>1. CASE LoopStart \/ LoopFaults \/ LoopNext
  <2>1. TypeOK'
    BY <1>1 DEF LoopStart, LoopFaults, LoopNext, TypeOK, LoopPC
  <2>2. Order'
    BY <1>1 DEF LoopStart, LoopFaults, LoopNext, TypeOK, Order, Running
  <2>. QED
    BY <2>1, <2>2
<1>2. CASE LoopSend
  BY <1>2, SendBasics DEF LoopSend
<1>3. CASE LoopRecv
  <2>1. PICK v \in {"ok", "error"} : RecvReply("loop", v)
    BY <1>3 DEF LoopRecv
  <2>. QED
    BY <1>3, <2>1, ReceiveTypes DEF LoopRecv, TypeOK, Order, LoopPC, Running
<1>4. CASE LoopThrows
  BY <1>4 DEF LoopThrows, RecvThrows, TypeOK, Order, LoopPC, Running
<1>. QED
  BY <1>1, <1>2, <1>3, <1>4 DEF Loop

LEMMA ServerBasics == ASSUME Basics, Server PROVE Basics'
<1> USE DEF Basics
<1>1. PICK k \in 1..Len(c2s) : ServerReceive(k)
  BY DEF Server
<1>2. PICK h \in ChunkHeaders(k) :
        /\ s2c' = s2c \o IF RepliesTo(h, k = 1) = <<>> THEN <<>> ELSE ReplyPieces(Reply(h))
        /\ LoginUser(h, k)
        /\ served' = IF Accepted(h) /\ c2s[1].part = "h1"
                     THEN [served EXCEPT ![c2s[1].from] = IF k > 2 THEN "full" ELSE "cut"]
                     ELSE served
  BY <1>1 DEF ServerReceive
<1>3. Reply(h) \in Header /\ c2s[1] \in PacketPiece
  BY ChunkHeader
<1>4. s2c' \in Seq(ReplyPiece)
  <2>1. ReplyPieces(Reply(h)) \in Seq(ReplyPiece) /\ s2c \in Seq(ReplyPiece)
    BY <1>3, ReplyPiecesAre DEF TypeOK
  <2>. QED
    BY <1>2, <2>1
<1>5. c2s' \in Seq(PacketPiece)
  <2>1. c2s \in Seq(PacketPiece) /\ k \in 0..Len(c2s) /\ c2s' = SubSeq(c2s, k + 1, Len(c2s))
    BY <1>1 DEF TypeOK, ServerReceive
  <2>. QED
    BY <2>1, Rest
<1>6. user' \in {"none", "cut", "full"}
  BY <1>2 DEF LoginUser, TypeOK
<1>7. served' \in [Thread -> {"no", "cut", "full"}]
  BY <1>2, <1>3 DEF TypeOK, PacketPiece
<1>. QED
  BY <1>1, <1>4, <1>5, <1>6, <1>7 DEF ServerReceive, TypeOK, Order, Running

LEMMA BasicsStep == ASSUME Basics, [Next]_vars PROVE Basics'
<1>1. CASE UNCHANGED vars
  BY <1>1 DEF vars, Basics, TypeOK, Order, Running
<1>2. CASE ServerEnds \/ ConnectionReset
  <2>1. <<>> \in Seq(PacketPiece) /\ <<>> \in Seq(ReplyPiece)
    OBVIOUS
  <2>. QED
    BY <1>2, <2>1 DEF ServerEnds, ConnectionReset, Basics, TypeOK, Order, Running
<1>. QED
  BY <1>1, <1>2, MainBasics, LoopBasics, ServerBasics DEF Next

\* The session's state is what its declarations say, for any constants.
THEOREM SessionTypes == Spec => []TypeOK
<1>1. Basics => TypeOK
  BY DEF Basics
<1>. QED
  BY <1>1, InitBasics, BasicsStep, PTL DEF Spec

-----------------------------------------------------------------------------
(* The checks *)

\* Each step is one of the session's threads or of the server, or leaves the
\* session alone.
LEMMA CheckStep == ASSUME [CheckNext]_checkVars PROVE [Next]_vars
<1>1. CASE UNCHANGED checkVars
  BY <1>1 DEF checkVars
<1>2. CASE LoopThread
  <2>1. BeginLoop => LoopStart
    BY DEF BeginLoop
  <2>2. PassItem => UNCHANGED vars
    BY DEF PassItem
  <2>3. ReportItem => LoopSend
    BY DEF ReportItem
  <2>4. AnswerItem => LoopRecv
    BY DEF AnswerItem
  <2>5. AnswerThrows => LoopThrows
    BY DEF AnswerThrows
  <2>6. ItemFaults => LoopFaults
    BY DEF ItemFaults
  <2>7. EndPhase => LoopNext
    BY DEF EndPhase
  <2>. QED
    BY <1>2, <2>1, <2>2, <2>3, <2>4, <2>5, <2>6, <2>7 DEF LoopThread, Next, Loop
<1>3. CASE Elsewhere
  BY <1>3 DEF Elsewhere, Next
<1>4. CASE Others
  BY <1>4 DEF Others, PatchEntry, PatchText, Unload, Load, Touch
<1>. QED
  BY <1>1, <1>2, <1>3, <1>4 DEF CheckNext

\* The safety part of ImplementsSession: what it says of fairness is left to
\* the runs.
THEOREM ChecksUseSession == CheckSpec => Init /\ [][Next]_vars
<1>1. CheckInit => Init
  BY DEF CheckInit
<1>. QED
  BY <1>1, CheckStep, PTL DEF CheckSpec

LEMMA SessionHoldsInChecks == ASSUME WholePackets PROVE CheckSpec => []SessionInv
<1>1. CheckInit => SessionInv
  BY InitSession DEF CheckInit
<1>2. SessionInv /\ [CheckNext]_checkVars => SessionInv'
  BY CheckStep, SessionStep
<1>. QED
  BY <1>1, <1>2, PTL DEF CheckSpec

\* The checks and the initialisation share the socket without a lock.
THEOREM ChecksInLockstep == ASSUME WholePackets PROVE CheckSpec => []Lockstep
<1>1. SessionInv => Lockstep
  BY NotBoth DEF SessionInv, Quiet, Lockstep
<1>. QED
  BY <1>1, SessionHoldsInChecks, PTL

\* What the checks report, the server knows whose game it is.
THEOREM ChecksHaveUser == ASSUME WholePackets PROVE CheckSpec => []ReportsAreAttributed
<1>1. SessionInv => ReportsAreAttributed
  BY DEF SessionInv, LoggedIn, ReportsAreAttributed
<1>. QED
  BY <1>1, SessionHoldsInChecks, PTL

\* So the checks get what the session promises: each of their reports is one
\* call of ReportService, which returns success only if the server took it.
THEOREM ChecksImplementService ==
  ASSUME WholePackets
  PROVE  CheckSpec => Service!Init /\ [][Service!Next]_<<Caller, Taken, result>>
<1>1. CheckInit => Service!Init
  BY InitService DEF CheckInit
<1>2. [CheckNext]_checkVars => [Next]_vars
  BY CheckStep
<1>. QED
  BY <1>1, <1>2, ServiceStep, SessionHoldsInChecks, PTL DEF CheckSpec

-----------------------------------------------------------------------------
(* What is left to look at *)

At(kind) == {i \in DOMAIN todo : todo[i].kind = kind}

\* The lists the loop thread walks over, and where it is in them: hooks in the
\* first phase, then sections, of which all are recorded before any is compared.
Walk ==
  /\ todo \in Seq(Item) /\ listed \in Seq(Module)
  /\ pc["loop"] = "created" => phase = "hooks" /\ todo = << >> /\ steady = {} /\ filed = {}
  /\ pc["loop"] = "recv" => todo # << >> /\ Head(todo).kind # "record"
  /\ phase = "hooks" => At("record") = {} /\ At("text") = {}
  /\ phase # "hooks" => At("bytes") = {} /\ At("target") = {}
  /\ phase = "sleep" => todo = << >>
  /\ \A i \in At("text"), j \in At("record") : j < i
  /\ \A i \in At("text") \cup At("record") : todo[i].of \in Range(listed)

\* Every section listed has its value, or is still to be given one.
Listed ==
  /\ ~first_call => listed = << >>
  /\ DOMAIN crc_list \subseteq Range(listed)
  /\ \A m \in Range(listed) \ DOMAIN crc_list : \E i \in At("record") : todo[i].of = m

Contents ==
  /\ entry \in [HookPoint -> Entry]
  /\ hook_list \in [HookPoint -> {"plain", "jump", "other"}]
  /\ text \in [Module -> {"plain", "changed"}] /\ loaded \subseteq Module

\* What nobody touched is as it was recorded, and as an installer made it.
Untouched ==
  /\ \A h \in HookPoint \ touched : entry[h] = "bac" /\ hook_list[h] = "jump"
  /\ \A m \in DOMAIN crc_list \ touched : Section(m) = crc_list[m]

Caused ==
  /\ filed \subseteq touched
  /\ phase = "hooks" \/ At("record") # {} => filed \subseteq HookPoint

\* What made x differ when the round began will be found in this round.
HookPending(x) ==
  phase = "hooks" /\ \E i \in At("bytes") \cup At("target") : todo[i].of = x /\ Finds(todo[i])

ModulePending(x) ==
  /\ x \in DOMAIN crc_list \cap loaded /\ Section(x) # crc_list[x]
  /\ At("record") = {}
  /\ phase = "hooks" \/ \E i \in At("text") : todo[i].of = x

Pending ==
  WholePackets /\ Running /\ sock = "up" =>
    \A x \in steady : x \in handled \/ HookPending(x) \/ ModulePending(x)

CheckInv == Walk /\ Listed /\ Contents /\ Untouched /\ Caused /\ Pending

-----------------------------------------------------------------------------
(* Walking *)

LEMMA ItemParts ==
  ASSUME NEW item \in Item
  PROVE  /\ item.kind \in {"bytes", "target", "record", "text"}
         /\ item.kind \in {"bytes", "target"} => item.of \in HookPoint
         /\ item.kind \in {"record", "text"} => item.of \in Module
  BY DEF Item

LEMMA TodoItems ==
  ASSUME Walk
  PROVE  /\ Len(todo) \in Nat /\ DOMAIN todo = 1..Len(todo)
         /\ \A i \in DOMAIN todo : todo[i] \in Item
  BY DEF Walk

\* The first item is looked at, the others move up.
LEMMA TodoMoves ==
  ASSUME Walk, todo # << >>, todo' = Tail(todo)
  PROVE  /\ 1 \in DOMAIN todo /\ Head(todo) = todo[1] /\ Head(todo) \in Item
         /\ todo' \in Seq(Item)
         /\ \A i \in DOMAIN todo' : i + 1 \in DOMAIN todo /\ todo'[i] = todo[i + 1]
         /\ \A i \in DOMAIN todo : i # 1 => i - 1 \in DOMAIN todo' /\ todo'[i - 1] = todo[i]
         /\ DOMAIN todo' \subseteq Nat /\ DOMAIN todo \subseteq Nat
<1>1. /\ todo \in Seq(Item) /\ Len(todo) \in Nat \ {0} /\ DOMAIN todo = 1..Len(todo)
      /\ Head(todo) = todo[1]
  BY DEF Walk
<1>2. /\ todo' \in Seq(Item) /\ Len(todo') = Len(todo) - 1 /\ DOMAIN todo' = 1..Len(todo')
      /\ \A i \in 1..Len(todo') : todo'[i] = todo[i + 1]
  BY <1>1
<1>3. \A i \in DOMAIN todo : i # 1 => i - 1 \in DOMAIN todo' /\ todo'[i - 1] = todo[i]
  BY <1>1, <1>2
<1>4. \A i \in DOMAIN todo' : i + 1 \in DOMAIN todo /\ todo'[i] = todo[i + 1]
  BY <1>1, <1>2
<1>. QED
  BY <1>1, <1>2, <1>3, <1>4

LEMMA AtMoves ==
  ASSUME Walk, todo # << >>, todo' = Tail(todo), NEW kind
  PROVE  /\ \A i \in At(kind)' : i + 1 \in At(kind) /\ todo'[i] = todo[i + 1]
         /\ \A i \in At(kind) : i # 1 => i - 1 \in At(kind)' /\ todo'[i - 1] = todo[i]
  BY TodoMoves DEF At

LEMMA WalkMoves ==
  ASSUME Walk, todo # << >>, todo' = Tail(todo), UNCHANGED <<listed, phase>>,
         pc'["loop"] = "check"
  PROVE  Walk'
<1>1. todo' \in Seq(Item) /\ DOMAIN todo' \subseteq Nat /\ DOMAIN todo \subseteq Nat
  BY TodoMoves
<1>2. phase = "hooks" => At("record")' = {} /\ At("text")' = {}
  BY AtMoves DEF Walk
<1>3. phase # "hooks" => At("bytes")' = {} /\ At("target")' = {}
  BY AtMoves DEF Walk
<1>4. phase # "sleep"
  BY DEF Walk
<1>5. ASSUME NEW i \in At("text")', NEW j \in At("record")' PROVE j < i
  <2>1. i + 1 \in At("text") /\ j + 1 \in At("record")
    BY AtMoves
  <2>2. j + 1 < i + 1 /\ i \in Nat /\ j \in Nat
    BY <1>1, <2>1 DEF Walk, At
  <2>. QED
    BY <2>2
<1>6. ASSUME NEW i \in At("text")' \cup At("record")' PROVE todo'[i].of \in Range(listed)
  <2>1. i + 1 \in At("text") \cup At("record") /\ todo'[i] = todo[i + 1]
    BY AtMoves
  <2>. QED
    BY <2>1 DEF Walk
<1>. QED
  BY <1>1, <1>2, <1>3, <1>4, <1>5, <1>6 DEF Walk

-----------------------------------------------------------------------------
(* The steps of the loop thread *)

LEMMA ItemsAsBefore ==
  ASSUME UNCHANGED <<memory, records, todo>>
  PROVE  /\ \A kind : At(kind)' = At(kind)
         /\ \A h : Bytes(h)' = Bytes(h)
         /\ \A m : Section(m)' = Section(m)
         /\ \A item : Finds(item)' <=> Finds(item)
         /\ Listed => Listed'
         /\ Contents => Contents'
<1>1. \A kind : At(kind)' = At(kind)
  BY DEF At
<1>2. \A h : Bytes(h)' = Bytes(h)
  BY DEF Bytes, memory
<1>3. \A m : Section(m)' = Section(m)
  BY DEF Section, Bytes, memory
<1>4. \A item : Finds(item)' <=> Finds(item)
  BY <1>2, <1>3 DEF Finds, LeadsElsewhere, memory, records
<1>5. Listed => Listed'
  BY <1>1 DEF Listed, records
<1>6. Contents => Contents'
  BY DEF Contents, memory, records
<1>. QED
  BY <1>1, <1>2, <1>3, <1>4, <1>5, <1>6

\* As long as nothing is looked at and nothing changes.
LEMMA RoundStands ==
  ASSUME CheckInv, UNCHANGED <<memory, records, round, history>>, phase' = phase,
         pc'["loop"] = "recv" => pc["loop"] = "recv",
         pc'["loop"] = "created" => pc["loop"] = "created",
         Running' /\ sock' = "up" => (Running /\ sock = "up") \/ pc["loop"] = "created"
  PROVE  CheckInv'
<1>1. UNCHANGED <<memory, records, todo>> /\ UNCHANGED <<filed, handled, steady, touched>>
  BY DEF round, history
<1>2. Walk'
  BY <1>1, ItemsAsBefore DEF CheckInv, Walk, records
<1>3. Listed' /\ Contents'
  BY <1>1, ItemsAsBefore DEF CheckInv
<1>4. Untouched'
  BY <1>1, ItemsAsBefore DEF CheckInv, Untouched, memory, records
<1>5. Caused'
  BY <1>1, ItemsAsBefore DEF CheckInv, Caused
<1>6. \A x : (HookPending(x) => HookPending(x)') /\ (ModulePending(x) => ModulePending(x)')
  BY <1>1, ItemsAsBefore DEF HookPending, ModulePending, memory, records
<1>7. Pending'
  BY <1>1, <1>6 DEF CheckInv, Pending, Walk
<1>. QED
  BY <1>2, <1>3, <1>4, <1>5, <1>7 DEF CheckInv

\* Each function, and each section that has its value, is in a new round's way.
LEMMA AllHooksAhead ==
  ASSUME NEW h \in HookPoint
  PROVE  \E i \in DOMAIN HookItems :
           /\ i + 1 \in DOMAIN HookItems
           /\ HookItems[i] = [kind |-> "bytes", of |-> h]
           /\ HookItems[i + 1] = [kind |-> "target", of |-> h]
<1>1. HookList \in Seq(UNION Installer)
  BY HookAssumption
<1>2. PICK k \in 1..Len(HookList) : HookList[k] = h
  BY <1>1 DEF HookPoint, Range
<1>3. /\ 2 * k - 1 \in 1..2 * Len(HookList) /\ 2 * k \in 1..2 * Len(HookList)
      /\ (2 * k - 1) % 2 = 1 /\ (2 * k) % 2 = 0
      /\ ((2 * k - 1) + 1) \div 2 = k /\ (2 * k + 1) \div 2 = k
  BY <1>1, <1>2
<1>4. /\ HookItems[2 * k - 1] = [kind |-> "bytes", of |-> h]
      /\ HookItems[2 * k] = [kind |-> "target", of |-> h]
      /\ DOMAIN HookItems = 1..2 * Len(HookList)
  BY <1>2, <1>3 DEF HookItems
<1>5. 2 * k - 1 \in DOMAIN HookItems /\ (2 * k - 1) + 1 = 2 * k
  BY <1>1, <1>3, <1>4
<1>. QED
  BY <1>3, <1>4, <1>5

LEMMA HookItemsAre ==
  /\ HookItems \in Seq(Item)
  /\ \A i \in DOMAIN HookItems : HookItems[i].kind \in {"bytes", "target"}
<1>1. HookList \in Seq(UNION Installer) /\ Len(HookList) \in Nat
  BY HookAssumption
<1>2. ASSUME NEW i \in 1..2 * Len(HookList)
      PROVE  (i + 1) \div 2 \in 1..Len(HookList)
  BY <1>1
<1>3. ASSUME NEW i \in 1..2 * Len(HookList)
      PROVE  HookList[(i + 1) \div 2] \in HookPoint
  BY <1>1, <1>2 DEF HookPoint, Range
<1>4. ASSUME NEW i \in 1..2 * Len(HookList)
      PROVE  /\ HookItems[i] \in Item /\ HookItems[i].kind \in {"bytes", "target"}
  BY <1>3 DEF HookItems, Item
<1>5. DOMAIN HookItems = 1..2 * Len(HookList) /\ 2 * Len(HookList) \in Nat
  BY <1>1 DEF HookItems
<1>6. HookItems \in [1..2 * Len(HookList) -> Item]
  BY <1>4, <1>5 DEF HookItems
<1>. QED
  BY <1>4, <1>5, <1>6

LEMMA NewRoundKeeps ==
  ASSUME CheckInv, todo = << >>, NewRound, UNCHANGED <<memory, records>>, phase' = "hooks",
         pc'["loop"] = "check"
  PROVE  CheckInv'
<1>1. todo' = HookItems /\ At("record")' = {} /\ At("text")' = {}
  BY HookItemsAre DEF NewRound, At
<1>2. Walk'
  BY <1>1, HookItemsAre DEF CheckInv, Walk, records
<1>3. touched' = touched /\ filed' = {}
  BY DEF NewRound
<1>4. \A h : Bytes(h)' = Bytes(h)
  BY DEF Bytes, memory
<1>5. \A m : Section(m)' = Section(m)
  BY <1>4 DEF Section, memory
<1>6. Listed'
  <2>1. At("record") = {}
    BY DEF At
  <2>2. Range(listed) \subseteq DOMAIN crc_list
    BY <2>1 DEF CheckInv, Listed
  <2>. QED
    BY <2>2 DEF CheckInv, Listed, records
<1>7. Contents'
  BY DEF CheckInv, Contents, memory, records
<1>8. Untouched'
  BY <1>3, <1>5 DEF CheckInv, Untouched, memory, records
<1>9. Caused'
  BY <1>3 DEF Caused
<1>10. ASSUME NEW h \in HookPoint, Bytes(h) # hook_list[h] \/ LeadsElsewhere(h)
       PROVE  HookPending(h)'
  <2>1. PICK i \in DOMAIN todo' :
           /\ i + 1 \in DOMAIN todo'
           /\ todo'[i] = [kind |-> "bytes", of |-> h]
           /\ todo'[i + 1] = [kind |-> "target", of |-> h]
    BY <1>1, AllHooksAhead
  <2>2. i \in At("bytes")' /\ i + 1 \in At("target")'
    BY <2>1 DEF At
  <2>3. \/ Finds([kind |-> "bytes", of |-> h])'
        \/ Finds([kind |-> "target", of |-> h])'
    BY <1>4, <1>10 DEF Finds, LeadsElsewhere, memory, records
  <2>. QED
    BY <2>1, <2>2, <2>3 DEF HookPending
<1>11. ASSUME NEW m \in DOMAIN crc_list \cap loaded, Section(m) # crc_list[m]
       PROVE  ModulePending(m)'
  BY <1>1, <1>5, <1>11 DEF ModulePending, memory, records
<1>12. Pending'
  BY <1>10, <1>11 DEF Pending, NewRound, Differing
<1>. QED
  BY <1>2, <1>6, <1>7, <1>8, <1>9, <1>12 DEF CheckInv

LEMMA BeginLoopKeeps == ASSUME Types, CheckInv, BeginLoop PROVE CheckInv'
<1>1. /\ NewRound /\ UNCHANGED <<memory, records>> /\ phase' = phase
      /\ pc["loop"] = "created" /\ pc'["loop"] = "check"
  BY DEF BeginLoop, LoopStart, Types, Thread
<1>. QED
  BY <1>1, NewRoundKeeps DEF CheckInv, Walk

\* The head of the list, when it is looked at.
LEMMA HeadFound ==
  ASSUME CheckInv, todo # << >>
  PROVE  /\ 1 \in DOMAIN todo /\ Head(todo) = todo[1] /\ Head(todo) \in Item
         /\ Head(todo).kind = "text" => Head(todo).of \in DOMAIN crc_list
         /\ Finds(Head(todo)) => Head(todo).of \in touched
<1>1. 1 \in DOMAIN todo /\ Head(todo) = todo[1] /\ Head(todo) \in Item /\ DOMAIN todo \subseteq Nat \ {0}
  BY DEF CheckInv, Walk
<1>2. ASSUME Head(todo).kind = "text" PROVE Head(todo).of \in DOMAIN crc_list
  <2>1. 1 \in At("text")
    BY <1>1, <1>2 DEF At
  <2>2. At("record") = {}
    BY <1>1, <2>1 DEF CheckInv, Walk, At
  <2>. QED
    BY <1>1, <2>1, <2>2 DEF CheckInv, Walk, Listed
<1>3. ASSUME Finds(Head(todo)) PROVE Head(todo).of \in touched
  <2>1. CASE Head(todo).kind \in {"bytes", "target"}
    BY <1>1, <1>3, <2>1, ItemParts DEF Finds, LeadsElsewhere, Bytes, CheckInv, Untouched
  <2>2. CASE Head(todo).kind = "text"
    BY <1>1, <1>2, <1>3, <2>2 DEF Finds, CheckInv, Untouched
  <2>3. Head(todo).kind # "record"
    BY <1>3 DEF Finds
  <2>. QED
    BY <1>1, <2>1, <2>2, <2>3, ItemParts
<1>. QED
  BY <1>1, <1>2, <1>3

LEMMA ReportItemKeeps == ASSUME Types, CheckInv, ReportItem PROVE CheckInv'
<1>1. /\ todo # << >> /\ Finds(Head(todo)) /\ phase # "sleep" /\ filed' = filed \cup {Head(todo).of}
      /\ UNCHANGED <<memory, records, todo, handled, history>> /\ phase' = phase
      /\ pc["loop"] = "check" /\ pc'["loop"] = "recv"
      /\ sock' = sock /\ process' = process
  BY DEF ReportItem, LoopSend, AtItem, Types, Thread
<1>2. Walk'
  <2>1. Head(todo).kind # "record"
    BY <1>1 DEF Finds
  <2>. QED
    BY <1>1, <2>1, ItemsAsBefore DEF CheckInv, Walk, records, history
<1>3. Listed' /\ Contents'
  BY <1>1, ItemsAsBefore DEF CheckInv
<1>4. Untouched'
  BY <1>1, ItemsAsBefore DEF CheckInv, Untouched, memory, records, history
<1>5. Caused'
  <2>1. Head(todo).of \in touched
    BY <1>1, HeadFound
  <2>2. ASSUME phase = "hooks" PROVE Head(todo).of \in HookPoint
    BY <1>1, <2>2, HeadFound, ItemParts DEF CheckInv, Walk, At
  <2>3. ASSUME At("record") # {} PROVE Head(todo).of \in HookPoint
    <3>1. PICK j \in At("record") : j \in Nat /\ j >= 1
      BY <2>3 DEF CheckInv, Walk, At
    <3>2. Head(todo).kind # "text"
      BY <1>1, <3>1, HeadFound DEF CheckInv, Walk, At
    <3>3. Head(todo).kind # "record"
      BY <1>1 DEF Finds
    <3>. QED
      BY <1>1, <3>2, <3>3, HeadFound, ItemParts
  <2>. QED
    BY <1>1, <2>1, <2>2, <2>3, ItemsAsBefore DEF CheckInv, Caused, history
<1>6. \A x : (HookPending(x) => HookPending(x)') /\ (ModulePending(x) => ModulePending(x)')
  BY <1>1, ItemsAsBefore DEF HookPending, ModulePending, memory, records
<1>7. Pending'
  BY <1>1, <1>6 DEF CheckInv, Pending, Running, history
<1>. QED
  BY <1>2, <1>3, <1>4, <1>5, <1>7 DEF CheckInv

\* Nothing pending is lost with the head of the list, if it had nothing to find
\* or was handled.
LEMMA PendingMoves ==
  ASSUME CheckInv, todo # << >>, todo' = Tail(todo), UNCHANGED <<memory, hook_list>>,
         phase' = phase,
         \A m \in DOMAIN crc_list : m \in DOMAIN crc_list' /\ (crc_list'[m] = crc_list[m] \/ At("record") # {}),
         NEW x,
         HookPending(x) \/ ModulePending(x),
         ~Finds(Head(todo)) \/ x # Head(todo).of
  PROVE  HookPending(x)' \/ ModulePending(x)'
<1>1. 1 \in DOMAIN todo /\ Head(todo) = todo[1] /\ Head(todo) \in Item
  BY HeadFound
<1>2. Walk
  BY DEF CheckInv
<1>3. \A h : Bytes(h)' = Bytes(h)
  BY DEF Bytes, memory
<1>4. \A m : Section(m)' = Section(m)
  BY <1>3 DEF Section, memory
<1>5. CASE HookPending(x)
  <2>1. PICK i \in At("bytes") \cup At("target") : todo[i].of = x /\ Finds(todo[i])
    BY <1>5 DEF HookPending
  <2>2. i # 1
    BY <1>1, <2>1
  <2>3. i - 1 \in At("bytes")' \cup At("target")' /\ todo'[i - 1] = todo[i]
    BY <1>2, <2>1, <2>2, AtMoves
  <2>. DEFINE j == i - 1
  <2>4. /\ todo'[j].kind = todo[i].kind /\ todo'[j].of = todo[i].of
        /\ todo[i].kind \in {"bytes", "target"} /\ j \in At("bytes")' \cup At("target")'
    BY <2>1, <2>3 DEF At
  <2>5. /\ todo[i].kind = "bytes" => Bytes(todo[i].of) # hook_list[todo[i].of]
        /\ todo[i].kind = "target" => entry[todo[i].of] # "bac"
    BY <2>1 DEF Finds, LeadsElsewhere
  <2>6. Finds(todo[j])'
    <3>. HIDE DEF j
    <3>. QED
      BY <2>4, <2>5 DEF Finds, LeadsElsewhere, Bytes, memory
  <2>. QED
    BY <1>5, <2>1, <2>4, <2>6 DEF HookPending
<1>6. CASE ModulePending(x)
  <2>1. At("record")' = {}
    BY <1>2, <1>6, AtMoves DEF ModulePending
  <2>2. x \in DOMAIN crc_list' /\ Section(x)' # crc_list'[x] /\ x \in loaded'
    BY <1>4, <1>6 DEF ModulePending, memory
  <2>3. ASSUME phase # "hooks" PROVE \E i \in At("text")' : todo'[i].of = x
    <3>1. PICK i \in At("text") : todo[i].of = x
      BY <1>6, <2>3 DEF ModulePending
    <3>2. i # 1
      BY <1>1, <1>6, <3>1 DEF At, Finds, ModulePending
    <3>. QED
      BY <1>2, <3>1, <3>2, AtMoves
  <2>. QED
    BY <2>1, <2>2, <2>3 DEF ModulePending
<1>. QED
  BY <1>5, <1>6

\* A section is recorded before any is compared.
LEMMA RecordKeeps ==
  ASSUME CheckInv, todo # << >>, Head(todo).kind = "record", Record(Head(todo).of),
         todo' = Tail(todo),
         UNCHANGED <<memory, hook_list, listed, first_call, filed, handled, steady>>,
         UNCHANGED <<pc, phase, sock, process>>, pc["loop"] = "check"
  PROVE  CheckInv'
<1> DEFINE m == Head(todo).of
<1>1. /\ 1 \in At("record") /\ Head(todo) = todo[1] /\ m \in Module
      /\ m \in Range(listed) /\ At("record") # {}
  BY HeadFound, ItemParts DEF At, CheckInv, Walk
<1>2. /\ DOMAIN crc_list' = DOMAIN crc_list \cup {m} /\ crc_list'[m] = Section(m)
      /\ \A k \in DOMAIN crc_list : k # m => crc_list'[k] = crc_list[k]
      /\ touched' = touched \ {m}
  BY DEF Record
<1>3. Walk'
  BY WalkMoves DEF CheckInv
<1>4. \A k : Section(k)' = Section(k)
  BY DEF Section, Bytes, memory
<1>5. Listed'
  <2>1. ~first_call' => listed' = << >>
    BY DEF CheckInv, Listed
  <2>2. DOMAIN crc_list' \subseteq Range(listed)
    BY <1>1, <1>2 DEF CheckInv, Listed
  <2>3. ASSUME NEW k \in Range(listed) \ DOMAIN crc_list'
        PROVE  \E i \in At("record")' : todo'[i].of = k
    <3>1. k \in Range(listed) \ DOMAIN crc_list /\ k # m
      BY <1>2, <2>3
    <3>2. PICK i \in At("record") : todo[i].of = k
      BY <3>1 DEF CheckInv, Listed
    <3>3. i # 1
      BY <1>1, <3>1, <3>2
    <3>. QED
      BY <3>2, <3>3, AtMoves DEF CheckInv
  <2>. QED
    BY <2>1, <2>2, <2>3 DEF Listed
<1>6. Contents'
  BY DEF CheckInv, Contents, memory
<1>7. Untouched'
  <2>1. \A h \in HookPoint \ touched' : h \notin touched
    BY <1>1, <1>2, HookAssumption
  <2>2. \A k \in DOMAIN crc_list' \ touched' : Section(k) = crc_list'[k]
    BY <1>2 DEF CheckInv, Untouched
  <2>. QED
    BY <1>4, <2>1, <2>2 DEF CheckInv, Untouched, memory
<1>8. Caused'
  <2>1. filed \subseteq HookPoint /\ filed \subseteq touched
    BY <1>1 DEF CheckInv, Caused
  <2>. QED
    BY <1>1, <1>2, <2>1, HookAssumption DEF Caused
<1>9. ~Finds(Head(todo))
  BY DEF Finds
<1>10. \A x : HookPending(x) \/ ModulePending(x) => HookPending(x)' \/ ModulePending(x)'
  BY <1>1, <1>2, <1>9, PendingMoves
<1>11. Pending'
  BY <1>10 DEF CheckInv, Pending, Running
<1>. QED
  BY <1>3, <1>5, <1>6, <1>7, <1>8, <1>11 DEF CheckInv

\* The list moves on and nothing else of the records does.
LEMMA MoveKeeps ==
  ASSUME CheckInv, todo # << >>, Head(todo).kind # "record", todo' = Tail(todo),
         UNCHANGED <<memory, records, filed, steady, touched>>,
         UNCHANGED <<phase, sock, process>>, pc'["loop"] = "check",
         handled \subseteq handled',
         WholePackets /\ Running /\ sock = "up" =>
           ~Finds(Head(todo)) \/ Head(todo).of \in handled'
  PROVE  CheckInv'
<1>1. Walk'
  BY WalkMoves DEF CheckInv, records
<1>2. \A k : Section(k)' = Section(k)
  BY DEF Section, Bytes, memory
<1>3. Listed'
  <2>1. ASSUME NEW k \in Range(listed) \ DOMAIN crc_list
        PROVE  \E i \in At("record")' : todo'[i].of = k
    <3>1. PICK i \in At("record") : todo[i].of = k
      BY <2>1 DEF CheckInv, Listed
    <3>2. i # 1
      BY <3>1, HeadFound DEF At
    <3>. QED
      BY <3>1, <3>2, AtMoves DEF CheckInv
  <2>. QED
    BY <2>1 DEF CheckInv, Listed, records
<1>4. Contents'
  BY DEF CheckInv, Contents, memory, records
<1>5. Untouched'
  BY <1>2 DEF CheckInv, Untouched, memory, records
<1>6. Caused'
  BY AtMoves DEF CheckInv, Caused
<1>7. ASSUME NEW x, HookPending(x) \/ ModulePending(x), ~Finds(Head(todo)) \/ x # Head(todo).of
      PROVE  HookPending(x)' \/ ModulePending(x)'
  BY <1>7, PendingMoves DEF records
<1>8. Pending'
  BY <1>7 DEF CheckInv, Pending, Running
<1>. QED
  BY <1>1, <1>3, <1>4, <1>5, <1>6, <1>8 DEF CheckInv

LEMMA PassItemKeeps == ASSUME CheckInv, PassItem PROVE CheckInv'
<1>1. /\ todo # << >> /\ ~Finds(Head(todo)) /\ todo' = Tail(todo) /\ pc["loop"] = "check"
      /\ UNCHANGED <<memory, hook_list, listed, first_call, filed, handled, steady>>
      /\ UNCHANGED <<pc, phase, sock, process>>
  BY DEF PassItem, AtItem, vars
<1>2. CASE Head(todo).kind = "record"
  BY <1>1, <1>2, RecordKeeps DEF PassItem
<1>3. CASE Head(todo).kind # "record"
  BY <1>1, <1>3, MoveKeeps DEF PassItem, records
<1>. QED
  BY <1>2, <1>3

\* On a connection that is up, what recv returns is the answer.
LEMMA AnswerWhileUp ==
  ASSUME WholePackets, SessionInv, NEW v, RecvReply("loop", v), sock = "up"
  PROVE  v = "ok"
<1>1. Waiting("loop") /\ Types /\ pc["loop"] = "recv"
  BY DEF SessionInv, Thread, RecvReply
<1>2. PICK n \in Received : \E h \in Decoded(n) : v = Verdict("loop", h)
  BY DEF RecvReply
<1>3. s2c # << >>
  BY <1>2 DEF Received
<1>4. s2c = ReplyPieces(Hdr(request["loop"], "Success"))
  BY <1>1, <1>3 DEF Waiting, Wire
<1>5. Len(s2c) = 2 /\ s2c[1].part = "cmd" /\ s2c[1].hdr = Hdr(request["loop"], "Success")
  BY <1>4 DEF ReplyPieces
<1>6. n = 2
  BY <1>3, <1>5 DEF Received, WholePackets
<1>. QED
  BY <1>2, <1>5, <1>6 DEF Decoded, Verdict

LEMMA AnswerItemKeeps ==
  ASSUME Types, WholePackets => SessionInv, CheckInv, AnswerItem PROVE CheckInv'
<1>1. PICK v \in {"ok", "error"} : RecvReply("loop", v)
  BY DEF AnswerItem, LoopRecv
<1>2. /\ pc["loop"] = "recv" /\ todo # << >> /\ todo' = Tail(todo)
      /\ UNCHANGED <<memory, records, filed, steady, touched>>
      /\ UNCHANGED <<phase, sock, process>> /\ pc'["loop"] = "check"
      /\ result'["loop"] = v
  BY <1>1 DEF AnswerItem, LoopRecv, RecvReply, history, Types, Thread, CheckInv, Walk
<1>3. handled \subseteq handled' /\ (WholePackets /\ sock = "up" => Head(todo).of \in handled')
  BY <1>1, <1>2, AnswerWhileUp DEF AnswerItem
<1>4. Head(todo).kind # "record"
  BY <1>2 DEF CheckInv, Walk
<1>. QED
  BY <1>2, <1>3, <1>4, MoveKeeps

LEMMA AnswerThrowsKeeps == ASSUME Types, CheckInv, AnswerThrows PROVE CheckInv'
<1>1. /\ UNCHANGED <<memory, records, round, history>> /\ phase' = phase
      /\ pc'["loop"] = "check" /\ ~Running'
  BY DEF AnswerThrows, LoopThrows, RecvThrows, Types, Thread, Running
<1>. QED
  BY <1>1, RoundStands

LEMMA ItemFaultsKeeps == ASSUME CheckInv, ItemFaults PROVE CheckInv'
<1>1. /\ UNCHANGED <<memory, records, round, history>> /\ phase' = phase
      /\ pc' = pc /\ ~Running'
  BY DEF ItemFaults, LoopFaults, Running
<1>. QED
  BY <1>1, RoundStands

-----------------------------------------------------------------------------
(* The end of a phase *)

LEMMA ListingIs ==
  ASSUME Contents, NEW list \in Listing
  PROVE  list \in Seq(Module)
<1>1. CASE list = << >>
  BY <1>1
<1>2. CASE list \in [1..Cardinality(loaded) -> loaded]
  <2>1. Cardinality(loaded) \in Nat
    BY ModuleAssumption, FS_Subset, FS_CardinalityType DEF Contents
  <2>. QED
    BY <1>2, <2>1 DEF Contents
<1>. QED
  BY <1>1, <1>2 DEF Listing

LEMMA ModuleItemsAre ==
  ASSUME NEW kind \in {"record", "text"}, NEW list \in Seq(Module)
  PROVE  /\ ModuleItems(kind, list) \in Seq(Item)
         /\ Len(ModuleItems(kind, list)) = Len(list)
         /\ DOMAIN ModuleItems(kind, list) = 1..Len(list)
         /\ \A i \in 1..Len(list) : /\ ModuleItems(kind, list)[i].kind = kind
                                    /\ ModuleItems(kind, list)[i].of = list[i]
<1>1. DOMAIN list = 1..Len(list) /\ Len(list) \in Nat /\ \A i \in 1..Len(list) : list[i] \in Module
  OBVIOUS
<1>2. ModuleItems(kind, list) \in [1..Len(list) -> Item]
  BY <1>1 DEF ModuleItems, Item
<1>. QED
  BY <1>1, <1>2 DEF ModuleItems

LEMMA TwiceAsLong ==
  ASSUME NEW r \in Seq(Item), NEW t \in Seq(Item), NEW n \in Nat, Len(r) = n, Len(t) = n
  PROVE  /\ r \o t \in Seq(Item) /\ DOMAIN (r \o t) = 1..(n + n)
         /\ \A i \in 1..n : (r \o t)[i] = r[i]
         /\ \A i \in (n + 1)..(n + n) : i - n \in 1..n /\ (r \o t)[i] = t[i - n]
<1>1. /\ r \o t \in Seq(Item) /\ Len(r \o t) = n + n
      /\ \A i \in 1..(n + n) : (r \o t)[i] = IF i <= n THEN r[i] ELSE t[i - n]
  BY ConcatProperties
<1>2. \A i \in 1..n : (r \o t)[i] = r[i]
  BY <1>1
<1>3. \A i \in (n + 1)..(n + n) : i - n \in 1..n /\ (r \o t)[i] = t[i - n]
  BY <1>1
<1>4. DOMAIN (r \o t) = 1..(n + n)
  BY <1>1
<1>. QED
  BY <1>1, <1>2, <1>3, <1>4

\* At the end of a phase nothing is left to find, but, before the second one,
\* in sections that have their value.
LEMMA AtEnd ==
  ASSUME CheckInv, todo = << >>
  PROVE  /\ \A kind : At(kind) = {}
         /\ Range(listed) = DOMAIN crc_list
         /\ WholePackets /\ Running /\ sock = "up" =>
              \A x \in steady \ handled :
                phase = "hooks" /\ x \in DOMAIN crc_list \cap loaded /\ Section(x) # crc_list[x]
<1>1. \A kind : At(kind) = {}
  BY DEF At
<1>2. Range(listed) = DOMAIN crc_list
  BY <1>1 DEF CheckInv, Listed
<1>3. \A x : HookPending(x) \/ ModulePending(x) =>
              phase = "hooks" /\ x \in DOMAIN crc_list \cap loaded /\ Section(x) # crc_list[x]
  BY <1>1 DEF HookPending, ModulePending
<1>. QED
  BY <1>1, <1>2, <1>3 DEF CheckInv, Pending

\* The first time, every section is recorded before it is compared.
LEMMA FirstMemoryCheck ==
  ASSUME CheckInv, todo = << >>, phase = "hooks", phase' = "crc", pc' = pc, pc["loop"] = "check",
         ~first_call, first_call', UNCHANGED <<process, sock>>,
         UNCHANGED <<memory, hook_list, crc_list, filed, handled, history>>,
         NEW list \in Listing, listed' = list,
         todo' = ModuleItems("record", list) \o ModuleItems("text", list)
  PROVE  CheckInv'
<1> DEFINE n == Len(list)
<1>1. list \in Seq(Module) /\ n \in Nat /\ DOMAIN list = 1..n
  BY ListingIs DEF CheckInv
<1>2. /\ todo' \in Seq(Item) /\ DOMAIN todo' = 1..(n + n)
      /\ \A i \in 1..n : todo'[i].kind = "record" /\ todo'[i].of = list[i]
      /\ \A i \in (n + 1)..(n + n) :
           i - n \in 1..n /\ todo'[i].kind = "text" /\ todo'[i].of = list[i - n]
  <2>. DEFINE r == ModuleItems("record", list)  t == ModuleItems("text", list)
  <2>1. /\ r \in Seq(Item) /\ Len(r) = n /\ \A i \in 1..n : r[i].kind = "record" /\ r[i].of = list[i]
        /\ t \in Seq(Item) /\ Len(t) = n /\ \A i \in 1..n : t[i].kind = "text" /\ t[i].of = list[i]
    BY <1>1, ModuleItemsAre
  <2>2. todo' = r \o t
    OBVIOUS
  <2>. HIDE DEF r, t, n
  <2>3. /\ todo' \in Seq(Item) /\ DOMAIN todo' = 1..(n + n)
        /\ \A i \in 1..n : todo'[i] = r[i]
        /\ \A i \in (n + 1)..(n + n) : i - n \in 1..n /\ todo'[i] = t[i - n]
    <3>. SUFFICES /\ r \o t \in Seq(Item) /\ DOMAIN (r \o t) = 1..(n + n)
                  /\ \A i \in 1..n : (r \o t)[i] = r[i]
                  /\ \A i \in (n + 1)..(n + n) : i - n \in 1..n /\ (r \o t)[i] = t[i - n]
      BY <2>2, Zenon
    <3>. QED
      BY <1>1, <2>1, TwiceAsLong
  <2>4. \A i \in 1..n : todo'[i].kind = "record" /\ todo'[i].of = list[i]
    BY <2>1, <2>3
  <2>5. \A i \in (n + 1)..(n + n) :
          i - n \in 1..n /\ todo'[i].kind = "text" /\ todo'[i].of = list[i - n]
    <3>. SUFFICES ASSUME NEW i \in (n + 1)..(n + n)
                  PROVE  i - n \in 1..n /\ todo'[i].kind = "text" /\ todo'[i].of = list[i - n]
      OBVIOUS
    <3>1. i - n \in 1..n /\ todo'[i] = t[i - n]
      BY <2>3
    <3>2. \A j \in 1..n : t[j].kind = "text" /\ t[j].of = list[j]
      BY <2>1
    <3>. QED
      BY <3>1, <3>2, Zenon
  <2>. QED
    BY <2>3, <2>4, <2>5
<1>. HIDE DEF n
<1>3. \A i \in DOMAIN todo' : /\ todo'[i].kind \in {"record", "text"}
                              /\ todo'[i].kind = "record" <=> i <= n
                              /\ todo'[i].of \in Range(list)
  <2>1. \A i \in DOMAIN todo' : i \in 1..n \/ i \in (n + 1)..(n + n)
    BY <1>1, <1>2
  <2>2. \A i \in 1..n : list[i] \in Range(list) /\ i <= n
    BY <1>1 DEF Range
  <2>3. \A i \in (n + 1)..(n + n) : ~(i <= n)
    BY <1>1
  <2>. QED
    BY <1>2, <2>1, <2>2, <2>3
<1>4. Walk'
  <2>1. At("bytes")' = {} /\ At("target")' = {}
    BY <1>3 DEF At
  <2>2. ASSUME NEW i \in At("text")', NEW j \in At("record")' PROVE j < i
    BY <1>1, <1>2, <1>3, <2>2 DEF At
  <2>3. \A i \in At("text")' \cup At("record")' : todo'[i].of \in Range(list)
    BY <1>3 DEF At
  <2>. QED
    BY <1>1, <1>2, <2>1, <2>2, <2>3 DEF Walk
<1>5. Range(<< >>) = {}
  BY DEF Range
<1>6. DOMAIN crc_list = {}
  BY <1>5 DEF CheckInv, Listed
<1>7. Listed'
  <2>1. ASSUME NEW m \in Range(list) PROVE \E i \in At("record")' : todo'[i].of = m
    <3>1. PICK i \in 1..n : list[i] = m
      BY <1>1 DEF Range
    <3>2. i \in DOMAIN todo'
      BY <1>1, <1>2, <3>1
    <3>. QED
      BY <1>2, <3>1, <3>2 DEF At
  <2>. QED
    BY <1>6, <2>1 DEF Listed
<1>8. Contents' /\ Untouched'
  BY <1>6 DEF CheckInv, Contents, Untouched, memory, history
<1>9. Caused'
  BY DEF CheckInv, Caused, history
<1>10. Pending'
  BY <1>6, AtEnd DEF Pending, Running, history
<1>. QED
  BY <1>4, <1>7, <1>8, <1>9, <1>10 DEF CheckInv

LEMMA LaterMemoryCheck ==
  ASSUME CheckInv, todo = << >>, phase = "hooks", phase' = "crc", pc' = pc, pc["loop"] = "check",
         UNCHANGED <<process, sock, records>>,
         UNCHANGED <<memory, filed, handled, history>>,
         todo' = ModuleItems("text", listed)
  PROVE  CheckInv'
<1>1. listed \in Seq(Module) /\ DOMAIN listed = 1..Len(listed)
  BY DEF CheckInv, Walk
<1>2. /\ todo' \in Seq(Item) /\ DOMAIN todo' = 1..Len(listed)
      /\ \A i \in 1..Len(listed) : todo'[i].kind = "text" /\ todo'[i].of = listed[i]
  BY <1>1, ModuleItemsAre
<1>3. /\ At("bytes")' = {} /\ At("target")' = {} /\ At("record")' = {}
      /\ At("text")' = 1..Len(listed)
  BY <1>2 DEF At
<1>4. Walk'
  <2>1. \A i \in 1..Len(listed) : todo'[i].of \in Range(listed)
    BY <1>1, <1>2 DEF Range
  <2>. QED
    BY <1>1, <1>2, <1>3, <2>1 DEF Walk, records
<1>5. Range(listed) = DOMAIN crc_list
  BY AtEnd
<1>6. Listed'
  BY <1>5 DEF CheckInv, Listed, records
<1>7. \A m : Section(m)' = Section(m)
  BY DEF Section, Bytes, memory
<1>8. Contents' /\ Untouched'
  BY <1>7 DEF CheckInv, Contents, Untouched, memory, records, history
<1>9. Caused'
  BY <1>3 DEF CheckInv, Caused, history
<1>10. Pending'
  <2>1. ASSUME WholePackets, Running, sock = "up", NEW x \in steady \ handled PROVE ModulePending(x)'
    <3>1. x \in DOMAIN crc_list \cap loaded /\ Section(x) # crc_list[x]
      BY <2>1, AtEnd
    <3>2. PICK i \in 1..Len(listed) : listed[i] = x
      BY <1>1, <1>5, <3>1 DEF Range
    <3>. QED
      BY <1>2, <1>3, <1>7, <3>1, <3>2 DEF ModulePending, memory, records
  <2>. QED
    BY <2>1 DEF Pending, Running, history
<1>. QED
  BY <1>4, <1>6, <1>8, <1>9, <1>10 DEF CheckInv

LEMMA EndPhaseKeeps == ASSUME CheckInv, EndPhase PROVE CheckInv'
<1>1. /\ todo = << >> /\ pc["loop"] = "check" /\ Running /\ sock' = sock /\ pc' = pc
      /\ UNCHANGED memory
  BY DEF EndPhase, LoopNext
<1>2. CASE EnterMemoryCheck
  <2>1. /\ phase = "hooks" /\ phase' = "crc" /\ process' = process
        /\ UNCHANGED <<hook_list, crc_list, filed, handled, history>>
    BY <1>2 DEF EnterMemoryCheck, EndPhase, LoopNext
  <2>2. CASE first_call
    <3>1. todo' = ModuleItems("text", listed) /\ UNCHANGED records
      BY <1>2, <2>1, <2>2 DEF EnterMemoryCheck, records
    <3>. QED
      BY <1>1, <2>1, <3>1, LaterMemoryCheck
  <2>3. CASE ~first_call
    <3>1. PICK list \in Listing :
             listed' = list /\ todo' = ModuleItems("record", list) \o ModuleItems("text", list)
      BY <1>2, <2>3 DEF EnterMemoryCheck
    <3>2. first_call'
      BY <1>2, <2>3 DEF EnterMemoryCheck
    <3>. QED
      BY <1>1, <2>1, <2>3, <3>1, <3>2, FirstMemoryCheck
  <2>. QED
    BY <2>2, <2>3
<1>3. CASE phase = "crc" /\ UNCHANGED <<records, round, history>>
  <2>1. phase' = "sleep" /\ UNCHANGED <<todo, filed, handled, steady, touched>>
    BY <1>3 DEF EndPhase, LoopNext, round, history
  <2>2. Walk'
    BY <1>1, <1>3, <2>1, AtEnd, ItemsAsBefore DEF CheckInv, Walk, records
  <2>3. Listed' /\ Contents'
    BY <1>1, <1>3, <2>1, ItemsAsBefore DEF CheckInv
  <2>4. Untouched' /\ Caused'
    BY <1>1, <1>3, <2>1, AtEnd, ItemsAsBefore DEF CheckInv, Untouched, Caused, memory, records
  <2>5. Pending'
    BY <1>1, <1>3, <2>1, AtEnd DEF Pending
  <2>. QED
    BY <2>2, <2>3, <2>4, <2>5 DEF CheckInv
<1>4. CASE phase = "sleep" /\ NewRound /\ UNCHANGED records
  <2>1. phase' = "hooks"
    BY <1>4 DEF EndPhase, LoopNext
  <2>. QED
    BY <1>1, <1>4, <2>1, NewRoundKeeps
<1>. QED
  BY <1>2, <1>3, <1>4 DEF EndPhase

-----------------------------------------------------------------------------
(* The others *)

LEMMA ElsewhereKeeps == ASSUME Basics, CheckInv, Elsewhere PROVE CheckInv'
<1>1. UNCHANGED <<memory, records, round, history>>
  BY DEF Elsewhere
<1>2. Types /\ Order
  BY BasicTypes DEF Basics
<1>3. Main \/ Server \/ ServerEnds \/ ConnectionReset
  BY DEF Elsewhere
<1>4. phase' = phase /\ pc'["loop"] = pc["loop"]
  BY <1>2, <1>3 DEF Main, MakeClient, Connect, ConnectFails, InitFailed, MainSend, LoginOK, MachineInfoOK,
     MainError, MainThrows, RecvReply, RecvThrows, Server, ServerReceive, ServerEnds, ConnectionReset,
     Types, Thread
<1>5. Running' => Running
  BY <1>3 DEF Main, MakeClient, Connect, ConnectFails, InitFailed, MainSend, LoginOK, MachineInfoOK,
     MainError, MainThrows, RecvReply, RecvThrows, Server, ServerReceive, ServerEnds, ConnectionReset,
     Running
<1>6. sock' = "up" => sock = "up" \/ pc["loop"] = "created"
  BY <1>2, <1>3 DEF Main, MakeClient, Connect, ConnectFails, InitFailed, MainSend, LoginOK, MachineInfoOK,
     MainError, MainThrows, RecvReply, RecvThrows, Server, ServerReceive, ServerEnds, ConnectionReset,
     Order
<1>. QED
  BY <1>1, <1>4, <1>5, <1>6, RoundStands

\* What other code changes is no longer taken for what BAC recorded, nor for
\* what differed when the round began.
LEMMA TouchKeeps ==
  ASSUME CheckInv, NEW X \in SUBSET (HookPoint \cup Module), Touch(X), Contents',
         \A h \in HookPoint \ X : entry'[h] = entry[h],
         \A m \in Module \ X : /\ Section(m)' = Section(m)
                               /\ m \in loaded => m \in loaded'
  PROVE  CheckInv'
<1>1. /\ UNCHANGED <<pc, phase, sock, process>> /\ UNCHANGED records /\ UNCHANGED round
      /\ steady' = steady \ X /\ touched' = touched \cup X
  BY DEF Touch, vars
<1>2. \A kind : At(kind)' = At(kind)
  BY <1>1 DEF At, round
<1>3. Walk'
  BY <1>1, <1>2 DEF CheckInv, Walk, records, round
<1>4. Listed'
  BY <1>1, <1>2 DEF CheckInv, Listed, records, round
<1>5. DOMAIN crc_list \subseteq Module
  BY DEF CheckInv, Walk, Listed, Range
<1>6. Untouched'
  BY <1>1, <1>5 DEF CheckInv, Untouched, records
<1>7. Caused'
  BY <1>1, <1>2 DEF CheckInv, Caused, round
<1>8. ASSUME NEW h \in HookPoint \ X, HookPending(h) PROVE HookPending(h)'
  <2>1. PICK i \in At("bytes") \cup At("target") : todo[i].of = h /\ Finds(todo[i])
    BY <1>8 DEF HookPending
  <2>2. /\ todo[i].kind = "bytes" => Bytes(h) # hook_list[h]
        /\ todo[i].kind = "target" => entry[h] # "bac"
        /\ todo[i].kind \in {"bytes", "target"}
    BY <2>1 DEF Finds, LeadsElsewhere, At
  <2>3. Finds(todo[i])'
    BY <1>1, <2>1, <2>2 DEF Finds, LeadsElsewhere, Bytes, records, round
  <2>. QED
    BY <1>1, <1>2, <1>8, <2>1, <2>3 DEF HookPending, round
<1>9. ASSUME NEW x, HookPending(x) PROVE x \in HookPoint
  BY <1>9, TodoItems, ItemParts DEF HookPending, At, CheckInv
<1>10. ASSUME NEW m, m \notin X, ModulePending(m) PROVE ModulePending(m)'
  BY <1>1, <1>2, <1>5, <1>10 DEF ModulePending, records, round
<1>11. Pending'
  BY <1>1, <1>8, <1>9, <1>10 DEF CheckInv, Pending, Running, round
<1>. QED
  BY <1>3, <1>4, <1>6, <1>7, <1>11 DEF CheckInv

LEMMA OthersKeep == ASSUME CheckInv, Others PROVE CheckInv'
<1>1. ASSUME NEW h \in HookPoint, PatchEntry(h) PROVE CheckInv'
  <2>1. PICK e \in Entry : entry' = [entry EXCEPT ![h] = e]
    BY <1>1 DEF PatchEntry
  <2>2. Touch({h, Home[h]}) /\ UNCHANGED <<text, loaded>> /\ Home[h] \in Module
    BY <1>1, HomeAssumption DEF PatchEntry
  <2>3. Contents'
    BY <2>1, <2>2 DEF CheckInv, Contents, Touch, records
  <2>4. \A k \in HookPoint \ {h} : entry'[k] = entry[k] /\ Bytes(k)' = Bytes(k)
    BY <2>1 DEF CheckInv, Contents, Bytes
  <2>5. ASSUME NEW m \in Module \ {Home[h]} PROVE Section(m)' = Section(m)
    <3>1. \A k \in {k \in HookPoint : Home[k] = m} : Bytes(k)' = Bytes(k)
      BY <2>4, <2>5
    <3>. QED
      BY <2>2, <3>1 DEF Section
  <2>. QED
    BY <2>2, <2>3, <2>4, <2>5, TouchKeeps
<1>2. ASSUME NEW m \in Module, PatchText(m) \/ Unload(m) \/ Load(m) PROVE CheckInv'
  <2>1. Touch({m}) /\ entry' = entry /\ UNCHANGED hook_list
    BY <1>2 DEF PatchText, Unload, Load, Touch, records
  <2>2. /\ text' \in [Module -> {"plain", "changed"}] /\ loaded' \subseteq Module
        /\ \A k \in Module \ {m} : text'[k] = text[k] /\ (k \in loaded <=> k \in loaded')
    BY <1>2 DEF PatchText, Unload, Load, CheckInv, Contents
  <2>3. Contents'
    BY <2>1, <2>2 DEF CheckInv, Contents
  <2>4. \A k \in Module \ {m} : Section(k)' = Section(k)
    BY <2>1, <2>2 DEF Section, Bytes
  <2>. QED
    BY <2>1, <2>2, <2>3, <2>4, TouchKeeps
<1>. QED
  BY <1>1, <1>2 DEF Others

-----------------------------------------------------------------------------
(* The invariant *)

LEMMA CheckInitial == CheckInit => CheckInv
<1> SUFFICES ASSUME CheckInit PROVE CheckInv
  OBVIOUS
<1>1. PICK attached \in SUBSET Installer :
         entry = [h \in HookPoint |-> IF h \in UNION attached THEN "bac" ELSE "plain"]
  BY DEF CheckInit
<1>2. /\ \A h \in HookPoint : entry[h] \in {"bac", "plain"} /\ hook_list[h] = Bytes(h)
      /\ hook_list = [h \in HookPoint |-> Bytes(h)]
      /\ entry \in [HookPoint -> Entry]
  BY <1>1 DEF CheckInit, Recorded, Entry
<1>3. Contents
  BY <1>2 DEF CheckInit, Contents, Bytes
<1>4. \A kind : At(kind) = {}
  BY DEF CheckInit, At
<1>5. DOMAIN crc_list = {} /\ Range(listed) = {}
  BY DEF CheckInit, Range
<1>6. Walk
  BY <1>4 DEF CheckInit, Walk, Init, Thread
<1>7. Listed
  BY <1>5 DEF CheckInit, Listed
<1>8. Untouched
  BY <1>2, <1>5 DEF CheckInit, Untouched, Bytes
<1>9. Caused /\ Pending
  BY <1>4 DEF CheckInit, Caused, Pending
<1>. QED
  BY <1>3, <1>6, <1>7, <1>8, <1>9 DEF CheckInv

\* What both components keep; the session's part needs whole packets.
WholeInv == Basics /\ (WholePackets => SessionInv) /\ CheckInv

LEMMA CheckInvStep == ASSUME WholeInv, [CheckNext]_checkVars PROVE WholeInv'
<1>1. Types /\ Basics /\ (WholePackets => SessionInv) /\ CheckInv
  BY BasicTypes DEF WholeInv, Basics
<1>2. Basics' /\ (WholePackets => SessionInv')
  BY <1>1, CheckStep, BasicsStep, SessionStep
<1>3. ASSUME UNCHANGED checkVars PROVE CheckInv'
  BY <1>1, <1>3, RoundStands DEF checkVars, vars, Running
<1>4. ASSUME LoopThread PROVE CheckInv'
  BY <1>1, <1>4, BeginLoopKeeps, PassItemKeeps, ReportItemKeeps, AnswerItemKeeps, AnswerThrowsKeeps,
     ItemFaultsKeeps, EndPhaseKeeps DEF LoopThread
<1>5. CheckInv'
  BY <1>1, <1>3, <1>4, ElsewhereKeeps, OthersKeep DEF CheckNext
<1>6. (WholePackets => SessionInv)'
  BY <1>2 DEF WholePackets
<1>. QED
  BY <1>2, <1>5, <1>6 DEF WholeInv

LEMMA ChecksHold == CheckSpec => []WholeInv
<1>1. CheckInit => WholeInv
  BY InitBasics, InitSession, CheckInitial DEF CheckInit, WholeInv
<1>. QED
  BY <1>1, CheckInvStep, PTL DEF CheckSpec

\* A change that lasts from the beginning of a round to its end has reached the
\* server's handler by then, for any hooks, modules and number of changes, as
\* long as TCP cuts no packet and the connection lives.
THEOREM LastingChangesReachServer == ASSUME WholePackets PROVE CheckSpec => []ChangesReachServer
<1>1. WholeInv => ChangesReachServer
  BY AtEnd DEF WholeInv, CheckInv, Walk, ChangesReachServer
<1>. QED
  BY <1>1, ChecksHold, PTL

\* What BAC reports was changed by other code, or never hooked by BAC, however
\* TCP cuts the packets.
THEOREM ReportsHaveCause == CheckSpec => []ReportsAreCaused
<1>1. WholeInv => ReportsAreCaused
  BY DEF WholeInv, CheckInv, Caused, ReportsAreCaused
<1>. QED
  BY <1>1, ChecksHold, PTL

-----------------------------------------------------------------------------
(* Types *)

Booked ==
  /\ handled \subseteq filed
  /\ pc["loop"] = "recv" => Head(todo).of \in filed
  /\ steady \subseteq HookPoint \cup Module
  /\ touched \subseteq HookPoint \cup Module
  /\ changes \in 0..MaxChanges
  /\ first_call \in BOOLEAN

LEMMA DifferingIs == ASSUME CheckInv PROVE Differing \subseteq HookPoint \cup Module
  BY DEF CheckInv, Contents, Differing

LEMMA BookedStep == ASSUME WholeInv, Booked, [CheckNext]_checkVars PROVE Booked'
<1>1. Types /\ Order /\ CheckInv
  BY BasicTypes DEF WholeInv, Basics
<1>2. CASE UNCHANGED checkVars
  BY <1>2 DEF checkVars, vars, records, round, history, Booked
<1>3. CASE BeginLoop
  BY <1>1, <1>3, DifferingIs DEF BeginLoop, LoopStart, NewRound, records, Booked, Types, Thread
<1>4. CASE PassItem
  BY <1>4 DEF PassItem, AtItem, Record, vars, Booked
<1>5. CASE ReportItem
  BY <1>5 DEF ReportItem, history, records, Booked
<1>6. CASE AnswerItem
  <2>1. pc["loop"] = "recv" /\ pc'["loop"] = "check"
    BY <1>1, <1>6 DEF AnswerItem, LoopRecv, RecvReply, Types, Thread
  <2>. QED
    BY <1>6, <2>1 DEF AnswerItem, history, records, Booked
<1>7. CASE AnswerThrows \/ ItemFaults
  BY <1>1, <1>7 DEF AnswerThrows, ItemFaults, LoopThrows, LoopFaults, RecvThrows, round, records, history, Booked, Types, Thread
<1>8. CASE EndPhase
  <2>1. pc["loop"] = "check" /\ pc' = pc
    BY <1>8 DEF EndPhase, LoopNext
  <2>. QED
    BY <1>1, <1>8, <2>1, DifferingIs DEF EndPhase, EnterMemoryCheck, NewRound, round, history, records, Booked
<1>9. CASE Elsewhere
  <2>1. UNCHANGED <<first_call, todo, filed, handled, steady, touched, changes>>
    BY <1>9 DEF Elsewhere, records, round, history
  <2>2. pc'["loop"] = pc["loop"]
    BY <1>1, <1>9 DEF Elsewhere, Main, MakeClient, Connect, ConnectFails, InitFailed, MainSend, LoginOK,
       MachineInfoOK, MainError, MainThrows, RecvReply, RecvThrows, Server, ServerReceive, ServerEnds,
       ConnectionReset, Types, Thread
  <2>. QED
    BY <2>1, <2>2 DEF Booked
<1>10. CASE Others
  <2>1. PICK X \in SUBSET (HookPoint \cup Module) : Touch(X)
    BY <1>10, HomeAssumption DEF Others, PatchEntry, PatchText, Unload, Load
  <2>. QED
    BY <2>1, ChangesAssumption DEF Touch, vars, round, records, Booked
<1>. QED
  BY <1>2, <1>3, <1>4, <1>5, <1>6, <1>7, <1>8, <1>9, <1>10 DEF CheckNext, LoopThread

\* The records and lists of the checks are what their declarations say.
THEOREM CheckTypes == CheckSpec => []CheckTypeOK
<1>1. CheckInit => Booked
  <2> SUFFICES ASSUME CheckInit PROVE Booked
    OBVIOUS
  <2>1. pc["loop"] # "recv"
    BY DEF CheckInit, Init, Thread
  <2>2. handled = {} /\ steady = {} /\ first_call = FALSE /\ changes = 0
    BY DEF CheckInit
  <2>3. touched \subseteq HookPoint
    BY DEF CheckInit
  <2>4. changes \in 0..MaxChanges
    BY <2>2, ChangesAssumption
  <2>5. first_call \in BOOLEAN
    BY <2>2, Zenon
  <2>. QED
    BY <2>1, <2>2, <2>3, <2>4, <2>5 DEF Booked
<1>2. WholeInv /\ Booked => CheckTypeOK
  <2> SUFFICES ASSUME WholeInv, Booked PROVE CheckTypeOK
    OBVIOUS
  <2>1. filed \subseteq HookPoint \cup Module
    BY DEF WholeInv, CheckInv, Caused, Booked
  <2>2. phase \in {"hooks", "crc", "sleep"}
    BY DEF WholeInv, Basics, TypeOK
  <2>3. first_call \in BOOLEAN
    BY DEF Booked
  <2>. QED
    BY <2>1, <2>2, <2>3 DEF WholeInv, Basics, CheckInv, Contents, Walk, Listed, Booked, CheckTypeOK
<1>. QED
  BY <1>1, <1>2, ChecksHold, BookedStep, PTL DEF CheckSpec
=============================================================================
