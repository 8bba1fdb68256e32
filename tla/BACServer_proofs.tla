-------------------------- MODULE BACServer_proofs --------------------------
(***************************************************************************)
(* Theorems about BACServer, for any set of connections and nodes and any  *)
(* interleaving of the callbacks.                                          *)
(***************************************************************************)
EXTENDS BACServer, TLAPS

USE NilAssumption, ModeAssumption

\* A table access leaves well-typed race flags behind.
LEMMA AccessType ==
  ASSUME NEW c \in ConnId, NEW w \in BOOLEAN, BeginAccess(c, w),
         raced \in [ConnId -> BOOLEAN], raceSeen \in BOOLEAN
  PROVE  raced' \in [ConnId -> BOOLEAN] /\ raceSeen' \in BOOLEAN
<1>1. raced' \in [ConnId -> BOOLEAN]
  BY DEF BeginAccess
<1>2. raceSeen' \in BOOLEAN
  BY DEF BeginAccess
<1> QED
  BY <1>1, <1>2

LEMMA LoginFlagType ==
  ASSUME NEW r \in ClientNode
  PROVE  [r EXCEPT !.login = TRUE] \in ClientNode
  BY Zenon DEF ClientNode

\* The values a chunk or a node starts from.
LEMMA Initial == "short" \in Held /\ Nil \in UserId
  BY DEF Held, UserId

LEMMA UserType ==
  ASSUME NEW r \in ClientNode, NEW u \in UserId
  PROVE  [r EXCEPT !.user = u] \in ClientNode
  BY Zenon DEF ClientNode

\* The chunk that holds a login request and all of its header is the only one
\* answered with a login Success.
LEMMA LoginReply ==
  ASSUME NEW c \in ConnId, NEW s \in Held, Respond(c, Hdr(LOGIN, "Request"), s)
  PROVE  answered' = IF s = "short" THEN answered
                     ELSE [answered EXCEPT ![c] = s]
<1> DEFINE h == Hdr(LOGIN, "Request")
           replies == RepliesTo(h, s = "short")
<1>1. h.cmd = LOGIN /\ h.status = "Request" /\ Accepted(h)
  BY DEF Hdr, Accepted, HandledCommand
<1>2. CASE s = "short"
  <2>1. replies = <<>>
    BY <1>1, <1>2 DEF RepliesTo
  <2> QED
    BY <1>2, <2>1 DEF Respond
<1>3. CASE s # "short"
  <2>1. Reply(h) = Hdr(LOGIN, "Success")
    BY <1>1 DEF Reply, HandledCommand
  <2>2. replies = <<Hdr(LOGIN, "Success")>>
    BY <1>3, <2>1 DEF RepliesTo
  <2> QED
    BY <1>3, <2>2 DEF Respond
<1> QED
  BY <1>2, <1>3

LEMMA OtherReply ==
  ASSUME NEW c \in ConnId, NEW h \in Header, h # Hdr(LOGIN, "Request"), NEW s,
         Respond(c, h, s)
  PROVE  answered' = answered
<1> DEFINE replies == RepliesTo(h, s = "short")
<1>1. ~(h.cmd = LOGIN /\ h.status = "Request")
  BY DEF Header, Hdr
<1>2. Reply(h) # Hdr(LOGIN, "Success")
  BY <1>1 DEF Reply, Hdr, LOGIN, UNKNOWN, MACHINE_INFO, GAME_ABNORMAL_DATA
<1>3. \A i \in DOMAIN replies : replies[i] # Hdr(LOGIN, "Success")
  BY <1>2 DEF RepliesTo
<1> QED
  BY <1>3 DEF Respond

LEMMA PlainReply ==
  ASSUME NEW c \in ConnId, NEW m \in Chunk, OnReceivePlain(c, m)
  PROVE  answered' = answered
<1>1. m.hdr \in Header
  BY DEF Chunk, Header, Command, Status
<1> QED
  BY <1>1, OtherReply DEF OnReceivePlain

LEMMA AbnormalReply ==
  ASSUME NEW c \in ConnId, AbnormalData(c)
  PROVE  answered' = answered
<1>1. Hdr(GAME_ABNORMAL_DATA, "Request") \in Header
  BY DEF Hdr, Header, Command, HandledCommand, Status
<1>2. Hdr(GAME_ABNORMAL_DATA, "Request") # Hdr(LOGIN, "Request")
  BY DEF Hdr, LOGIN, GAME_ABNORMAL_DATA
<1> QED
  BY <1>1, <1>2, OtherReply DEF AbnormalData

LEMMA InitialType == Init => TypeOK
<1> SUFFICES ASSUME Init PROVE TypeOK
  OBVIOUS
<1>1. node \in [Node -> ClientNode]
  BY Initial DEF Init, ClientNode
<1> QED
  BY <1>1, Initial DEF Init, TypeOK, PC, Resting

\* Every variable keeps its type: the callbacks write back nodes, ids and
\* program points of the kinds they read.
THEOREM TypeCorrect == Spec => []TypeOK
<1>1. Init => TypeOK
  BY InitialType
<1>2. TypeOK /\ [Next]_vars => TypeOK'
  <2> SUFFICES ASSUME TypeOK, [Next]_vars PROVE TypeOK'
    OBVIOUS
  <2> USE DEF TypeOK, PC, Resting, TableWrite, TableRead, ClientNode
  <2>1. ASSUME NEW c \in ConnId, OnAccept(c) PROVE TypeOK'
    <3>1. raced' \in [ConnId -> BOOLEAN] /\ raceSeen' \in BOOLEAN
      BY <2>1, AccessType DEF OnAccept
    <3>2. /\ node' \in [Node -> ClientNode]
          /\ alive' \in SUBSET Node
          /\ client' \in [ConnId -> Node \cup {Nil}]
      BY <2>1, Initial DEF OnAccept
    <3> QED
      BY <2>1, <3>1, <3>2 DEF OnAccept
  <2>2. ASSUME NEW c \in ConnId, OnAcceptNoMemory(c) PROVE TypeOK'
    BY <2>2 DEF OnAcceptNoMemory, Dispatchable
  <2>3. ASSUME NEW c \in ConnId, AcceptInsert(c) PROVE TypeOK'
    BY <2>3, Initial DEF AcceptInsert, Return, EndAccess
  <2>4. ASSUME NEW c \in ConnId, AcceptInsertNoMemory(c) PROVE TypeOK'
    BY <2>4, Initial DEF AcceptInsertNoMemory, Return, EndAccess
  <2>5. ASSUME NEW c \in ConnId, NEW m \in Chunk,
               OnReceiveLogin(c, m) \/ OnReceiveAbnormal(c, m)
        PROVE TypeOK'
    <3>1. PICK first \in TableRead : OnReceiveTable(c, m, first)
      BY <2>5 DEF OnReceiveLogin, OnReceiveAbnormal
    <3>2. raced' \in [ConnId -> BOOLEAN] /\ raceSeen' \in BOOLEAN
      BY <3>1, AccessType DEF OnReceiveTable
    <3>3. m.held \in Held
      BY DEF Chunk
    <3> QED
      BY <3>1, <3>2, <3>3 DEF OnReceiveTable
  <2>6. ASSUME NEW c \in ConnId, NEW m \in Chunk, OnReceivePlain(c, m)
        PROVE TypeOK'
    <3>1. answered' = answered
      BY <2>6, PlainReply
    <3> QED
      BY <2>6, <3>1 DEF OnReceivePlain
  <2>7. ASSUME NEW c \in ConnId, LoginFlag(c) PROVE TypeOK'
    <3>1. raced' \in [ConnId -> BOOLEAN] /\ raceSeen' \in BOOLEAN
      BY <2>7, AccessType DEF LoginFlag
    <3>2. node' \in [Node -> ClientNode]
      <4>1. CASE clients[c] \in alive
        <5>1. [node[clients[c]] EXCEPT !.login = TRUE] \in ClientNode
          BY <4>1, LoginFlagType
        <5> QED
          BY <2>7, <4>1, <5>1 DEF LoginFlag
      <4> QED
        BY <2>7, <4>1 DEF LoginFlag
    <3> QED
      BY <2>7, <3>1, <3>2 DEF LoginFlag
  <2>8. ASSUME NEW c \in ConnId, LoginUser(c) PROVE TypeOK'
    <3>1. answered' \in [ConnId -> Part \cup {Nil}]
      <4>1. answered' = IF held[c] = "short" THEN answered
                        ELSE [answered EXCEPT ![c] = held[c]]
        BY <2>8, LoginReply DEF LoginUser
      <4>2. held[c] # "short" => held[c] \in Part
        BY DEF Held
      <4> QED
        BY <4>1, <4>2
    <3>2. node' \in [Node -> ClientNode]
      <4>1. CASE clients[c] \in alive /\ held[c] # "short"
        <5>1. <<c, held[c]>> \in UserId
          BY <4>1 DEF UserId, Held
        <5>2. [node[clients[c]] EXCEPT !.user = <<c, held[c]>>] \in ClientNode
          BY <4>1, <5>1, UserType
        <5> QED
          BY <2>8, <4>1, <5>2 DEF LoginUser
      <4> QED
        BY <2>8, <4>1 DEF LoginUser
    <3> QED
      BY <2>8, <3>1, <3>2, Initial DEF LoginUser, Return, EndAccess
  <2>9. ASSUME NEW c \in ConnId, AbnormalData(c) PROVE TypeOK'
    <3>1. answered' = answered
      BY <2>9, AbnormalReply
    <3> QED
      BY <2>9, <3>1, Initial DEF AbnormalData, Return, EndAccess
  <2>10. ASSUME NEW c \in ConnId, OnClose(c) PROVE TypeOK'
    BY <2>10, AccessType DEF OnClose, Dispatchable
  <2>11. ASSUME NEW c \in ConnId, CloseLookup(c) PROVE TypeOK'
    BY <2>11, AccessType DEF CloseLookup
  <2>12. ASSUME NEW c \in ConnId, CloseErase(c) PROVE TypeOK'
    BY <2>12 DEF CloseErase, EndAccess
  <2>13. ASSUME NEW c \in ConnId, CloseDelete(c) PROVE TypeOK'
    BY <2>13 DEF CloseDelete
  <2>14. ASSUME NEW c \in ConnId,
                NullClient(c) \/ BadLookup(c) \/ CorruptTable(c)
         PROVE TypeOK'
    BY <2>14 DEF NullClient, BadLookup, CorruptTable, Crash
  <2>15. CASE UNCHANGED vars
    BY <2>15 DEF vars
  <2> QED
    BY <2>1, <2>2, <2>3, <2>4, <2>5, <2>6, <2>7, <2>8, <2>9, <2>10, <2>11,
       <2>12, <2>13, <2>14, <2>15 DEF Next, Callback, Event
<1> QED
  BY <1>1, <1>2, PTL DEF Spec
-----------------------------------------------------------------------------
(***************************************************************************)
(* Node ownership.  Stages ties the callback's local pointer and the extra *)
(* to the point the callback has reached; without it ExtraOwnsNode is not  *)
(* inductive, for OnClose could free the node of another callback.         *)
(***************************************************************************)
Stages ==
  \A c \in ConnId :
    /\ pc[c] \in Resting => client[c] = Nil
    /\ pc[c] \in {"free", "insert"} => extra[c] = Nil
    /\ pc[c] = "insert" => client[c] # Nil
    /\ pc[c] \in TableRead \cup {"erase", "delete"} =>
         extra[c] # Nil /\ client[c] = extra[c]

OwnerInv == TypeOK /\ Stages /\ ExtraOwnsNode

\* No callback rewrites the connection a live node belongs to.
LEMMA NodeKeepsOwner ==
  ASSUME TypeOK, NEW c \in ConnId, LoginFlag(c) \/ LoginUser(c)
  PROVE  \A n \in Node : node'[n].conn = node[n].conn
<1>1. CASE LoginFlag(c)
  <2>1. CASE clients[c] \in alive
    <3>1. node' = [node EXCEPT ![clients[c]] = [node[clients[c]] EXCEPT !.login = TRUE]]
      BY <1>1, <2>1 DEF TypeOK, ClientNode, LoginFlag
    <3> QED
      BY <3>1 DEF TypeOK, ClientNode
  <2> QED
    BY <1>1, <2>1 DEF LoginFlag
<1>2. CASE LoginUser(c)
  <2>1. CASE clients[c] \in alive /\ held[c] # "short"
    <3>1. node' = [node EXCEPT ![clients[c]] = [node[clients[c]] EXCEPT !.user = <<c, held[c]>>]]
      BY <1>2, <2>1 DEF TypeOK, ClientNode, LoginUser
    <3> QED
      BY <3>1 DEF TypeOK, ClientNode
  <2> QED
    BY <1>2, <2>1 DEF LoginUser
<1> QED
  BY <1>1, <1>2

LEMMA OwnerInductive == OwnerInv /\ TypeOK' /\ [Next]_vars => OwnerInv'
<1> SUFFICES ASSUME OwnerInv, TypeOK', [Next]_vars
             PROVE  Stages' /\ ExtraOwnsNode'
  BY DEF OwnerInv
<1> USE DEF OwnerInv, TypeOK, PC, Resting, TableWrite, TableRead
<1>1. ASSUME NEW c \in ConnId, OnAccept(c) PROVE Stages' /\ ExtraOwnsNode'
  <2>1. PICK n \in Node \ alive :
          /\ alive' = alive \cup {n}
          /\ node' = [node EXCEPT ![n] = [conn |-> c, login |-> FALSE, user |-> Nil]]
          /\ client' = [client EXCEPT ![c] = n]
    BY <1>1 DEF OnAccept
  <2>2. pc[c] = "free" /\ pc' = [pc EXCEPT ![c] = "insert"] /\ extra' = extra
    BY <1>1 DEF OnAccept, Dispatchable
  <2>3. Stages'
    BY <2>1, <2>2 DEF Stages
  <2>4. ExtraOwnsNode'
    BY <2>1, <2>2 DEF ExtraOwnsNode, Stages
  <2> QED
    BY <2>3, <2>4
<1>2. ASSUME NEW c \in ConnId, OnAcceptNoMemory(c)
      PROVE  Stages' /\ ExtraOwnsNode'
  BY <1>2 DEF OnAcceptNoMemory, Dispatchable, Stages, ExtraOwnsNode
<1>3. ASSUME NEW c \in ConnId, AcceptInsert(c) \/ AcceptInsertNoMemory(c)
      PROVE  Stages' /\ ExtraOwnsNode'
  BY <1>3 DEF AcceptInsert, AcceptInsertNoMemory, Return, Stages, ExtraOwnsNode
<1>4. ASSUME NEW c \in ConnId, NEW m \in Chunk,
             OnReceiveLogin(c, m) \/ OnReceiveAbnormal(c, m)
      PROVE  Stages' /\ ExtraOwnsNode'
  <2>1. PICK first \in TableRead : OnReceiveTable(c, m, first)
    BY <1>4 DEF OnReceiveLogin, OnReceiveAbnormal
  <2> QED
    BY <2>1 DEF OnReceiveTable, Dispatchable, Stages, ExtraOwnsNode
<1>5. ASSUME NEW c \in ConnId, NEW m \in Chunk, OnReceivePlain(c, m)
      PROVE  Stages' /\ ExtraOwnsNode'
  BY <1>5 DEF OnReceivePlain, Stages, ExtraOwnsNode
<1>6. ASSUME NEW c \in ConnId, LoginFlag(c) PROVE Stages' /\ ExtraOwnsNode'
  BY <1>6, NodeKeepsOwner DEF LoginFlag, Stages, ExtraOwnsNode
<1>7. ASSUME NEW c \in ConnId, LoginUser(c) PROVE Stages' /\ ExtraOwnsNode'
  BY <1>7, NodeKeepsOwner DEF LoginUser, Return, Stages, ExtraOwnsNode
<1>8. ASSUME NEW c \in ConnId, AbnormalData(c) PROVE Stages' /\ ExtraOwnsNode'
  BY <1>8 DEF AbnormalData, Return, Stages, ExtraOwnsNode
<1>9. ASSUME NEW c \in ConnId, OnClose(c) PROVE Stages' /\ ExtraOwnsNode'
  BY <1>9 DEF OnClose, Dispatchable, Stages, ExtraOwnsNode
<1>10. ASSUME NEW c \in ConnId, CloseLookup(c) \/ CloseErase(c)
       PROVE  Stages' /\ ExtraOwnsNode'
  <2>1. /\ pc[c] \in TableRead \cup {"erase"}
        /\ \E p \in {"erase", "delete"} : pc' = [pc EXCEPT ![c] = p]
        /\ UNCHANGED <<client, extra, alive, node>>
    BY <1>10 DEF CloseLookup, CloseErase
  <2> QED
    BY <2>1 DEF Stages, ExtraOwnsNode
<1>11. ASSUME NEW c \in ConnId, CloseDelete(c) PROVE Stages' /\ ExtraOwnsNode'
  BY <1>11 DEF CloseDelete, Stages, ExtraOwnsNode
<1>12. ASSUME NEW c \in ConnId,
              NullClient(c) \/ BadLookup(c) \/ CorruptTable(c)
       PROVE  Stages' /\ ExtraOwnsNode'
  BY <1>12 DEF NullClient, BadLookup, CorruptTable, Crash, Stages, ExtraOwnsNode
<1>13. CASE UNCHANGED vars
  BY <1>13 DEF vars, Stages, ExtraOwnsNode
<1> QED
  BY <1>1, <1>2, <1>3, <1>4, <1>5, <1>6, <1>7, <1>8, <1>9, <1>10, <1>11,
     <1>12, <1>13 DEF Next, Callback, Event

LEMMA OwnerInvariant == Spec => []OwnerInv
<1>1. Init => OwnerInv
  <2> SUFFICES ASSUME Init PROVE OwnerInv
    OBVIOUS
  <2>1. TypeOK
    BY InitialType
  <2>2. Stages /\ ExtraOwnsNode
    BY DEF Init, Stages, ExtraOwnsNode, Resting, TableRead
  <2> QED
    BY <2>1, <2>2 DEF OwnerInv
<1> QED
  BY <1>1, TypeCorrect, OwnerInductive, PTL DEF Spec

\* Whatever the interleaving, the pointer HP-Socket keeps for a connection and
\* the pointer a running callback holds denote an allocated node of that very
\* connection: OnReceive and OnClose never use a freed or foreign p_client.
THEOREM NodeOwnership == Spec => []ExtraOwnsNode
  BY OwnerInvariant, PTL DEF OwnerInv

-----------------------------------------------------------------------------
(***************************************************************************)
(* The table, as long as no data race has happened.  The inductive         *)
(* invariant adds that no running access is marked raced, and that between *)
(* the two writes of a login the first one has reached the client's node.  *)
(***************************************************************************)
NoRaced == ~raceSeen => \A c \in ConnId : raced[c] = FALSE

FlagSet == ~raceSeen => \A c \in ConnId :
             pc[c] = "login_user" => node[extra[c]].login

TableInv == NoRaced /\ TableMatchesConnections

LoginInv == FlagSet /\ LoginRecorded /\ NoCrossLogin

\* A race is never forgotten, and an access that begins without one starts
\* with every flag down.
LEMMA AccessRace ==
  ASSUME TypeOK, NoRaced, NEW c \in ConnId, NEW w \in BOOLEAN,
         BeginAccess(c, w), ~raceSeen'
  PROVE  ~raceSeen /\ \A d \in ConnId : raced'[d] = FALSE
<1>1. ~raceSeen /\ Conflicts(c, w) = {}
  BY DEF BeginAccess, TypeOK
<1> QED
  BY <1>1 DEF BeginAccess, NoRaced, TypeOK

LEMMA TableInductive ==
  OwnerInv /\ OwnerInv' /\ TableInv /\ [Next]_vars => TableInv'
<1> SUFFICES ASSUME OwnerInv, OwnerInv', TableInv, [Next]_vars, ~raceSeen'
             PROVE  /\ \A c \in ConnId : raced'[c] = FALSE
                    /\ TableMatchesConnections'
  BY DEF TableInv, NoRaced, TableMatchesConnections
<1> USE DEF OwnerInv, TypeOK, PC, Resting, TableWrite, TableRead, TableInv,
            TableMatchesConnections
<1> DEFINE Goal == /\ \A c \in ConnId : raced'[c] = FALSE
                   /\ TableMatchesConnections'
<1>1. ASSUME NEW c \in ConnId, OnAccept(c) PROVE Goal
  BY <1>1, AccessRace, ZenonT(40) DEF OnAccept, Dispatchable, Stages
<1>2. ASSUME NEW c \in ConnId, OnAcceptNoMemory(c) PROVE Goal
  BY <1>2 DEF OnAcceptNoMemory, Dispatchable, NoRaced, Stages
<1>3. ASSUME NEW c \in ConnId, AcceptInsert(c) PROVE Goal
  BY <1>3 DEF AcceptInsert, Return, EndAccess, NoRaced, Stages
<1>4. ASSUME NEW c \in ConnId, AcceptInsertNoMemory(c) PROVE Goal
  BY <1>4 DEF AcceptInsertNoMemory, Return, EndAccess, NoRaced, Stages
<1>5. ASSUME NEW c \in ConnId, NEW m \in Chunk,
             OnReceiveLogin(c, m) \/ OnReceiveAbnormal(c, m)
      PROVE  Goal
  <2>1. PICK first \in TableRead : OnReceiveTable(c, m, first)
    BY <1>5 DEF OnReceiveLogin, OnReceiveAbnormal
  <2> QED
    BY <2>1, AccessRace DEF OnReceiveTable, Dispatchable
<1>6. ASSUME NEW c \in ConnId, NEW m \in Chunk, OnReceivePlain(c, m)
      PROVE  Goal
  BY <1>6 DEF OnReceivePlain, NoRaced
<1>7. ASSUME NEW c \in ConnId, LoginFlag(c) PROVE Goal
  BY <1>7, AccessRace DEF LoginFlag
<1>8. ASSUME NEW c \in ConnId, LoginUser(c) \/ AbnormalData(c) PROVE Goal
  BY <1>8 DEF LoginUser, AbnormalData, Return, EndAccess, NoRaced
<1>9. ASSUME NEW c \in ConnId, OnClose(c) \/ CloseLookup(c) PROVE Goal
  BY <1>9, AccessRace DEF OnClose, CloseLookup, Dispatchable
<1>10. ASSUME NEW c \in ConnId, CloseErase(c) PROVE Goal
  BY <1>10 DEF CloseErase, EndAccess, NoRaced
<1>11. ASSUME NEW c \in ConnId, CloseDelete(c) PROVE Goal
  BY <1>11 DEF CloseDelete, NoRaced
<1>12. ASSUME NEW c \in ConnId,
              NullClient(c) \/ BadLookup(c) \/ CorruptTable(c)
       PROVE  Goal
  BY <1>12 DEF NullClient, BadLookup, CorruptTable, Crash, NoRaced
<1>13. CASE UNCHANGED vars
  BY <1>13 DEF vars, NoRaced
<1> QED
  BY <1>1, <1>2, <1>3, <1>4, <1>5, <1>6, <1>7, <1>8, <1>9, <1>10, <1>11,
     <1>12, <1>13 DEF Next, Callback, Event

LEMMA TableInvariant == Spec => []TableInv
<1>1. Init => TableInv
  BY DEF Init, TableInv, NoRaced, TableMatchesConnections
<1> QED
  BY <1>1, OwnerInvariant, TableInductive, PTL DEF Spec

\* However the callbacks interleave, fail to allocate or reuse ids and
\* addresses, _clients maps exactly the connected clients to their own nodes
\* as long as no two accesses have raced.
THEOREM TableExact == Spec => []TableMatchesConnections
  BY TableInvariant, PTL DEF TableInv

-----------------------------------------------------------------------------
(* Login bookkeeping, absence of crashes, and a pool with one worker *)

\* Two connections never share a node.
LEMMA NodesDiffer ==
  ASSUME OwnerInv, NEW c \in ConnId, NEW d \in ConnId, c # d, extra[c] # Nil
  PROVE  extra[c] # extra[d] /\ extra[c] # client[d]
  BY DEF OwnerInv, ExtraOwnsNode, TypeOK

LEMMA LoginInductive ==
  OwnerInv /\ OwnerInv' /\ TableInv /\ TableInv' /\ LoginInv /\ [Next]_vars
    => LoginInv'
<1> SUFFICES ASSUME OwnerInv, OwnerInv', TableInv, TableInv', LoginInv,
                    [Next]_vars, ~raceSeen'
             PROVE  LoginInv'
  BY DEF LoginInv, FlagSet, LoginRecorded, NoCrossLogin
<1> USE DEF LoginInv, FlagSet, LoginRecorded, NoCrossLogin
<1>1. ASSUME NEW c \in ConnId, OnAccept(c) PROVE LoginInv'
  <2>1. ~raceSeen
    BY <1>1, AccessRace DEF OnAccept, OwnerInv, TableInv
  <2>2. PICK n \in Node \ alive :
          /\ alive' = alive \cup {n}
          /\ node' = [node EXCEPT ![n] = [conn |-> c, login |-> FALSE, user |-> Nil]]
    BY <1>1 DEF OnAccept
  <2>3. /\ pc[c] = "free" /\ pc' = [pc EXCEPT ![c] = "insert"] /\ extra' = extra
        /\ answered' = [answered EXCEPT ![c] = Nil]
    BY <1>1 DEF OnAccept, Dispatchable
  <2>4. \A d \in ConnId : extra[d] # Nil => extra[d] \in alive /\ extra[d] # n
    BY DEF OwnerInv, ExtraOwnsNode
  <2>5. FlagSet'
    BY <2>1, <2>2, <2>3, <2>4 DEF OwnerInv, TypeOK, Stages, TableRead
  <2>6. LoginRecorded'
    BY <2>1, <2>2, <2>3, <2>4 DEF OwnerInv, TypeOK
  <2>7. NoCrossLogin'
    BY <2>1, <2>2 DEF OwnerInv, TypeOK
  <2> QED
    BY <2>5, <2>6, <2>7
<1>2. ASSUME NEW c \in ConnId, OnAcceptNoMemory(c) PROVE LoginInv'
  BY <1>2 DEF OnAcceptNoMemory, OwnerInv, TypeOK
<1>3. ASSUME NEW c \in ConnId, AcceptInsert(c) PROVE LoginInv'
  <2>1. ~raceSeen /\ pc[c] = "insert" /\ pc' = [pc EXCEPT ![c] = "idle"]
    BY <1>3 DEF AcceptInsert, Return, EndAccess
  <2>2. extra' = [extra EXCEPT ![c] = client[c]] /\ UNCHANGED <<alive, node, answered>>
    BY <1>3 DEF AcceptInsert
  <2>3. extra[c] = Nil /\ extra[c] \notin alive
    BY <2>1, NilAssumption DEF OwnerInv, Stages, TypeOK
  <2> QED
    BY <2>1, <2>2, <2>3 DEF OwnerInv, TypeOK
<1>4. ASSUME NEW c \in ConnId, AcceptInsertNoMemory(c) PROVE LoginInv'
  BY <1>4 DEF AcceptInsertNoMemory, Return, EndAccess, OwnerInv, TypeOK
<1>5. ASSUME NEW c \in ConnId, NEW m \in Chunk,
             OnReceiveLogin(c, m) \/ OnReceiveAbnormal(c, m)
      PROVE  LoginInv'
  <2>1. PICK first \in {"login_flag", "abnormal"} : OnReceiveTable(c, m, first)
    BY <1>5 DEF OnReceiveLogin, OnReceiveAbnormal
  <2>2. ~raceSeen
    BY <2>1, AccessRace DEF OnReceiveTable, OwnerInv, TableInv
  <2> QED
    BY <2>1, <2>2 DEF OnReceiveTable, OwnerInv, TypeOK
<1>6. ASSUME NEW c \in ConnId, NEW m \in Chunk, OnReceivePlain(c, m)
      PROVE  LoginInv'
  <2>1. ~raceSeen /\ UNCHANGED <<pc, extra, alive, node>>
    BY <1>6 DEF OnReceivePlain
  <2>2. answered' = answered
    BY <1>6, PlainReply
  <2> QED
    BY <2>1, <2>2
<1>7. ASSUME NEW c \in ConnId, LoginFlag(c) PROVE LoginInv'
  <2>1. ~raceSeen /\ pc[c] = "login_flag" /\ pc' = [pc EXCEPT ![c] = "login_user"]
    BY <1>7, AccessRace DEF LoginFlag, OwnerInv, TableInv
  <2>2. clients[c] = extra[c] /\ extra[c] \in alive
    BY <2>1 DEF TableInv, TableMatchesConnections, OwnerInv, Stages, TableRead,
                ExtraOwnsNode
  <2>3. node' = [node EXCEPT ![extra[c]] = [node[extra[c]] EXCEPT !.login = TRUE]]
    BY <1>7, <2>2 DEF LoginFlag, OwnerInv, TypeOK, ClientNode
  <2>4. \A n \in Node : /\ node'[n].user = node[n].user
                        /\ node'[n].conn = node[n].conn
                        /\ node[n].login => node'[n].login
                        /\ n = extra[c] => node'[n].login
    BY <2>2, <2>3 DEF OwnerInv, TypeOK, ClientNode
  <2>5. UNCHANGED <<extra, alive, answered>>
    BY <1>7 DEF LoginFlag
  <2>6. \A d \in ConnId : pc'[d] = "login_user" => extra[d] \in Node
    BY <2>1, NilAssumption DEF OwnerInv, Stages, TypeOK, TableRead
  <2> QED
    BY <2>1, <2>4, <2>5, <2>6 DEF OwnerInv, TypeOK
<1>8. ASSUME NEW c \in ConnId, LoginUser(c) PROVE LoginInv'
  <2>1. ~raceSeen /\ pc[c] = "login_user" /\ pc' = [pc EXCEPT ![c] = "idle"]
    BY <1>8 DEF LoginUser, Return, EndAccess
  <2>2. clients[c] = extra[c] /\ extra[c] \in alive /\ node[extra[c]].conn = c
    BY <2>1 DEF TableInv, TableMatchesConnections, OwnerInv, Stages, TableRead,
                ExtraOwnsNode
  <2>3. node' = IF held[c] = "short" THEN node
                ELSE [node EXCEPT ![extra[c]] =
                        [node[extra[c]] EXCEPT !.user = <<c, held[c]>>]]
    BY <1>8, <2>2 DEF LoginUser, OwnerInv, TypeOK, ClientNode
  <2>4. \A n \in Node : /\ node'[n].login = node[n].login
                        /\ node'[n].conn = node[n].conn
                        /\ n # extra[c] => node'[n].user = node[n].user
                        /\ n = extra[c] => node'[n].user =
                             IF held[c] = "short" THEN node[n].user ELSE <<c, held[c]>>
    BY <2>2, <2>3 DEF OwnerInv, TypeOK, ClientNode
  <2>5. UNCHANGED <<extra, alive>>
    BY <1>8 DEF LoginUser
  <2>6. answered' = IF held[c] = "short" THEN answered
                    ELSE [answered EXCEPT ![c] = held[c]]
    BY <1>8, LoginReply DEF LoginUser, OwnerInv, TypeOK
  <2>7. \A d \in ConnId : answered'[d] =
           IF d = c /\ held[c] # "short" THEN held[c] ELSE answered[d]
    BY <2>6 DEF OwnerInv, TypeOK
  <2>8. \A d \in ConnId : d # c => extra[d] # extra[c]
    BY <2>2, NodesDiffer, NilAssumption DEF OwnerInv, TypeOK
  <2>9. node[extra[c]].login
    BY <2>1
  <2>10. alive \subseteq Node
    BY DEF OwnerInv, TypeOK
  <2>11. FlagSet'
    <3> SUFFICES ASSUME NEW d \in ConnId, pc'[d] = "login_user"
                 PROVE  node'[extra'[d]].login
      OBVIOUS
    <3>1. pc[d] = "login_user" /\ extra[d] \in Node
      BY <2>1, NilAssumption DEF OwnerInv, TypeOK, Stages, TableRead
    <3> QED
      BY <2>1, <2>4, <2>5, <3>1
  <2>12. LoginRecorded'
    <3> SUFFICES ASSUME NEW d \in ConnId, answered'[d] # Nil
                 PROVE  /\ extra[d] \in alive
                        /\ node'[extra[d]].login
                        /\ node'[extra[d]].user = <<d, answered'[d]>>
      BY <2>5
    <3>1. CASE d = c /\ held[c] # "short"
      BY <2>2, <2>4, <2>7, <2>9, <2>10, <3>1
    <3>2. CASE ~(d = c /\ held[c] # "short")
      <4>1. answered[d] # Nil
        BY <2>7, <3>2
      <4>2. /\ extra[d] \in alive /\ node[extra[d]].login
            /\ node[extra[d]].user = <<d, answered[d]>>
        BY <2>1, <4>1
      <4> QED
        BY <2>4, <2>7, <2>8, <2>10, <3>2, <4>2
    <3> QED
      BY <3>1, <3>2
  <2>13. NoCrossLogin'
    BY <2>1, <2>2, <2>4, <2>5, <2>10
  <2> QED
    BY <2>11, <2>12, <2>13
<1>9. ASSUME NEW c \in ConnId, AbnormalData(c) PROVE LoginInv'
  <2>1. ~raceSeen /\ pc' = [pc EXCEPT ![c] = "idle"] /\ UNCHANGED <<extra, alive, node>>
    BY <1>9 DEF AbnormalData, Return, EndAccess
  <2>2. answered' = answered
    BY <1>9, AbnormalReply
  <2> QED
    BY <2>1, <2>2 DEF OwnerInv, TypeOK
<1>10. ASSUME NEW c \in ConnId, OnClose(c) \/ CloseLookup(c) PROVE LoginInv'
  <2>1. ~raceSeen
    BY <1>10, AccessRace DEF OnClose, CloseLookup, OwnerInv, TableInv
  <2>2. /\ \E p \in {"lookup", "erase"} : pc' = [pc EXCEPT ![c] = p]
        /\ UNCHANGED <<extra, alive, node, answered>>
    BY <1>10 DEF OnClose, CloseLookup
  <2> QED
    BY <2>1, <2>2 DEF OwnerInv, TypeOK
<1>11. ASSUME NEW c \in ConnId, CloseErase(c) PROVE LoginInv'
  BY <1>11 DEF CloseErase, EndAccess, OwnerInv, TypeOK
<1>12. ASSUME NEW c \in ConnId, CloseDelete(c) PROVE LoginInv'
  <2>1. /\ ~raceSeen /\ pc[c] = "delete" /\ pc' = [pc EXCEPT ![c] = "free"]
        /\ alive' = alive \ {extra[c]} /\ extra' = [extra EXCEPT ![c] = Nil]
        /\ answered' = [answered EXCEPT ![c] = Nil] /\ node' = node
    BY <1>12 DEF CloseDelete, OwnerInv, Stages
  <2>2. \A d \in ConnId : d # c => extra[d] # extra[c]
    BY <2>1, NodesDiffer DEF OwnerInv, Stages
  <2> QED
    BY <2>1, <2>2 DEF OwnerInv, TypeOK
<1>13. ASSUME NEW c \in ConnId,
              NullClient(c) \/ BadLookup(c) \/ CorruptTable(c)
       PROVE  LoginInv'
  BY <1>13 DEF NullClient, BadLookup, CorruptTable, Crash
<1>14. CASE UNCHANGED vars
  BY <1>14 DEF vars
<1> QED
  BY <1>1, <1>2, <1>3, <1>4, <1>5, <1>6, <1>7, <1>8, <1>9, <1>10, <1>11,
     <1>12, <1>13, <1>14 DEF Next, Callback, Event

LEMMA LoginInvariant == Spec => []LoginInv
<1>1. Init => LoginInv
  BY DEF Init, LoginInv, FlagSet, LoginRecorded, NoCrossLogin
<1> QED
  BY <1>1, OwnerInvariant, TableInvariant, LoginInductive, PTL DEF Spec

\* A client told that its login succeeded is recorded as logged in, in its own
\* node, under what the packet so answered held of its user id, until a data
\* race happens.
THEOREM LoginIsRecorded == Spec => []LoginRecorded
  BY LoginInvariant, PTL DEF LoginInv

\* No node carries any part of another client's user id, until a data race happens.
THEOREM NoCrossLoginHolds == Spec => []NoCrossLogin
  BY LoginInvariant, PTL DEF LoginInv

-----------------------------------------------------------------------------
(* No crash *)

\* With memory, a connection between callbacks has its extra.
HasExtra ==
  ~AllocMayFail => \A c \in ConnId : pc[c] = "idle" => extra[c] # Nil

LEMMA HasExtraInvariant == Spec => []HasExtra
<1>1. Init => HasExtra
  BY DEF Init, HasExtra
<1>2. OwnerInv /\ OwnerInv' /\ HasExtra /\ [Next]_vars => HasExtra'
  <2> SUFFICES ASSUME OwnerInv, OwnerInv', HasExtra, [Next]_vars,
                      ~AllocMayFail
               PROVE  \A c \in ConnId : pc'[c] = "idle" => extra'[c] # Nil
    BY DEF HasExtra
  <2> USE DEF HasExtra, OwnerInv, TypeOK, Stages, TableRead
  <2> DEFINE Goal == \A c \in ConnId : pc'[c] = "idle" => extra'[c] # Nil
  <2>1. ASSUME NEW c \in ConnId, OnAccept(c) PROVE Goal
    BY <2>1 DEF OnAccept
  <2>2. ASSUME NEW c \in ConnId, AcceptInsert(c) PROVE Goal
    BY <2>2 DEF AcceptInsert, Return
  <2>3. ASSUME NEW c \in ConnId, NEW m \in Chunk,
               \/ OnReceiveLogin(c, m) \/ OnReceiveAbnormal(c, m)
               \/ OnReceivePlain(c, m)
        PROVE  Goal
    BY <2>3 DEF OnReceiveLogin, OnReceiveAbnormal, OnReceivePlain, OnReceiveTable
  <2>4. ASSUME NEW c \in ConnId,
               LoginFlag(c) \/ LoginUser(c) \/ AbnormalData(c)
        PROVE  Goal
    BY <2>4 DEF LoginFlag, LoginUser, AbnormalData, Return
  <2>5. ASSUME NEW c \in ConnId, OnClose(c) \/ CloseLookup(c) \/ CloseErase(c)
        PROVE  Goal
    BY <2>5 DEF OnClose, CloseLookup, CloseErase
  <2>6. ASSUME NEW c \in ConnId, CloseDelete(c) PROVE Goal
    BY <2>6 DEF CloseDelete
  <2>7. ASSUME NEW c \in ConnId,
               NullClient(c) \/ BadLookup(c) \/ CorruptTable(c)
        PROVE  Goal
    BY <2>7 DEF NullClient, BadLookup, CorruptTable, Crash
  <2>8. CASE UNCHANGED vars
    BY <2>8 DEF vars
  <2> QED
    BY <2>1, <2>2, <2>3, <2>4, <2>5, <2>6, <2>7, <2>8
       DEF Next, Callback, Event, OnAcceptNoMemory, AcceptInsertNoMemory
<1> QED
  BY <1>1, <1>2, OwnerInvariant, PTL DEF Spec

\* No callback crashes the server while memory lasts and no race has
\* happened: operator[] always finds a live node.
THEOREM ServerStaysUp == Spec => []NoCrash
<1>1. Init => NoCrash
  BY DEF Init, NoCrash
<1>2. OwnerInv /\ TableInv /\ HasExtra /\ NoCrash /\ [Next]_vars => NoCrash'
  <2> SUFFICES ASSUME OwnerInv, TableInv, HasExtra, NoCrash, [Next]_vars,
                      ~raceSeen', ~AllocMayFail, ~up'
               PROVE  FALSE
    BY DEF NoCrash
  <2>1. PICK c \in ConnId : NullClient(c) \/ BadLookup(c) \/ CorruptTable(c)
    <3>2. CASE UNCHANGED vars
      BY <3>2 DEF vars, NoCrash
    <3>3. ASSUME NEW c \in ConnId,
                 \/ OnAccept(c) \/ AcceptInsert(c) \/ LoginFlag(c)
                 \/ LoginUser(c) \/ AbnormalData(c) \/ OnClose(c)
                 \/ CloseLookup(c) \/ CloseErase(c) \/ CloseDelete(c)
          PROVE  up'
      <4>1. OnAccept(c) => up'     BY DEF OnAccept, Dispatchable
      <4>2. AcceptInsert(c) => up' BY DEF AcceptInsert
      <4>3. LoginFlag(c) => up'    BY DEF LoginFlag
      <4>4. LoginUser(c) => up'    BY DEF LoginUser
      <4>5. AbnormalData(c) => up' BY DEF AbnormalData
      <4>6. OnClose(c) => up'      BY DEF OnClose, Dispatchable
      <4>7. CloseLookup(c) => up'  BY DEF CloseLookup
      <4>8. CloseErase(c) => up'   BY DEF CloseErase
      <4>9. CloseDelete(c) => up'  BY DEF CloseDelete
      <4> QED
        BY <3>3, <4>1, <4>2, <4>3, <4>4, <4>5, <4>6, <4>7, <4>8, <4>9
    <3>4. ASSUME NEW c \in ConnId, NEW m \in Chunk,
                 \/ OnReceiveLogin(c, m) \/ OnReceiveAbnormal(c, m)
                 \/ OnReceivePlain(c, m)
          PROVE  up'
      <4>1. OnReceivePlain(c, m) => up'
        BY DEF OnReceivePlain, Dispatchable
      <4>2. \A first : OnReceiveTable(c, m, first) => up'
        BY DEF OnReceiveTable, Dispatchable
      <4> QED
        BY <3>4, <4>1, <4>2 DEF OnReceiveLogin, OnReceiveAbnormal
    <3> QED
      BY <3>2, <3>3, <3>4 DEF Next, Callback, Event, OnAcceptNoMemory,
                              AcceptInsertNoMemory
  <2>2. ~raceSeen
    BY <2>1 DEF NullClient, BadLookup, CorruptTable, Crash
  <2>3. ~NullClient(c)
    BY DEF NullClient, Dispatchable, HasExtra
  <2>4. ~BadLookup(c)
    BY <2>2 DEF BadLookup, TableInv, TableMatchesConnections, OwnerInv, Stages,
                TableRead, ExtraOwnsNode, TypeOK
  <2>5. ~CorruptTable(c)
    BY <2>2 DEF CorruptTable, TableInv, NoRaced
  <2> QED
    BY <2>1, <2>3, <2>4, <2>5
<1> QED
  BY <1>1, <1>2, OwnerInvariant, TableInvariant, HasExtraInvariant, PTL DEF Spec

\* With memory, whatever the interleaving, every allocated node is held by a
\* connection or its callback, so that some OnClose will delete it.
THEOREM NoNodeIsLost == Spec => []NoNodeLeak
<1>1. Init => NoNodeLeak
  BY DEF Init, NoNodeLeak
<1>2. OwnerInv /\ NoNodeLeak /\ [Next]_vars => NoNodeLeak'
  <2> SUFFICES ASSUME OwnerInv, NoNodeLeak, [Next]_vars, ~AllocMayFail, NEW n \in alive'
               PROVE  \E d \in ConnId : n \in {extra'[d], client'[d]}
    BY DEF NoNodeLeak
  <2> DEFINE Owned == \E d \in ConnId : n \in {extra[d], client[d]}
             Goal == \E d \in ConnId : n \in {extra'[d], client'[d]}
  <2>1. n \in alive => Owned
    BY DEF NoNodeLeak
  <2> USE DEF OwnerInv, TypeOK, PC, Resting, TableWrite, TableRead
  <2>2. ASSUME NEW c \in ConnId, OnAccept(c) PROVE Goal
    BY <2>1, <2>2 DEF OnAccept, Dispatchable, Stages
  <2>3. ASSUME NEW c \in ConnId, AcceptInsert(c) PROVE Goal
    BY <2>1, <2>3 DEF AcceptInsert, Return, Stages
  <2>4. ASSUME NEW c \in ConnId, NEW m \in Chunk, OnReceiveLogin(c, m) \/ OnReceiveAbnormal(c, m)
        PROVE  Goal
    <3>1. PICK first \in TableRead : OnReceiveTable(c, m, first)
      BY <2>4 DEF OnReceiveLogin, OnReceiveAbnormal
    <3> QED
      BY <2>1, <3>1 DEF OnReceiveTable, Dispatchable, Stages
  <2>5. ASSUME NEW c \in ConnId, NEW m \in Chunk, OnReceivePlain(c, m) PROVE Goal
    BY <2>1, <2>5 DEF OnReceivePlain
  <2>6. ASSUME NEW c \in ConnId, LoginUser(c) \/ AbnormalData(c) PROVE Goal
    BY <2>1, <2>6 DEF LoginUser, AbnormalData, Return, Stages
  <2>7. ASSUME NEW c \in ConnId, OnClose(c) PROVE Goal
    BY <2>1, <2>7 DEF OnClose, Dispatchable, Stages
  <2>8. ASSUME NEW c \in ConnId, LoginFlag(c) \/ CloseLookup(c) \/ CloseErase(c) PROVE Goal
    BY <2>1, <2>8 DEF LoginFlag, CloseLookup, CloseErase
  <2>9. ASSUME NEW c \in ConnId, CloseDelete(c) PROVE Goal
    BY <2>1, <2>9 DEF CloseDelete, Stages
  <2>10. ASSUME NEW c \in ConnId, NullClient(c) \/ BadLookup(c) \/ CorruptTable(c) PROVE Goal
    BY <2>1, <2>10 DEF NullClient, BadLookup, CorruptTable, Crash
  <2>11. CASE UNCHANGED vars
    BY <2>1, <2>11 DEF vars
  <2> QED
    BY <2>2, <2>3, <2>4, <2>5, <2>6, <2>7, <2>8, <2>9, <2>10, <2>11
       DEF Next, Callback, Event, OnAcceptNoMemory, AcceptInsertNoMemory
<1> QED
  BY <1>1, <1>2, OwnerInvariant, PTL DEF Spec

\* With a single worker at most one connection is inside a callback.
OneCallback ==
  SerialCallbacks =>
    /\ ~raceSeen
    /\ \A c, d \in ConnId : c # d => pc[c] \in Resting \/ pc[d] \in Resting

\* A pool with one worker thread never races on _clients, so the theorems
\* above hold of it without their proviso.
THEOREM OneWorkerNeverRaces == Spec => [](SerialCallbacks => ~raceSeen)
<1>1. Init => OneCallback
  BY DEF Init, OneCallback, Resting
<1>2. TypeOK /\ OneCallback /\ [Next]_vars => OneCallback'
  <2> SUFFICES ASSUME TypeOK, OneCallback, [Next]_vars, SerialCallbacks
               PROVE  OneCallback'
    BY DEF OneCallback
  <2> USE DEF OneCallback, TypeOK, PC, Resting, TableRead, TableWrite
  <2>1. ASSUME NEW c \in ConnId, NEW w \in BOOLEAN, BeginAccess(c, w),
               \A d \in ConnId \ {c} : pc[d] \in Resting
        PROVE  ~raceSeen'
    <3>1. Conflicts(c, w) = {}
      BY <2>1 DEF Conflicts
    <3> QED
      BY <2>1, <3>1 DEF BeginAccess
  <2>2. ASSUME NEW c \in ConnId, OnAccept(c) PROVE OneCallback'
    BY <2>2, <2>1 DEF OnAccept, Dispatchable
  <2>3. ASSUME NEW c \in ConnId,
               \/ OnAcceptNoMemory(c) \/ AcceptInsert(c)
               \/ AcceptInsertNoMemory(c) \/ LoginUser(c) \/ AbnormalData(c)
        PROVE  OneCallback'
    BY <2>3 DEF OnAcceptNoMemory, AcceptInsert, AcceptInsertNoMemory,
                LoginUser, AbnormalData, Return, EndAccess
  <2>4. ASSUME NEW c \in ConnId, NEW m \in Chunk,
               OnReceiveLogin(c, m) \/ OnReceiveAbnormal(c, m)
        PROVE  OneCallback'
    <3>1. PICK first \in TableRead : OnReceiveTable(c, m, first)
      BY <2>4 DEF OnReceiveLogin, OnReceiveAbnormal
    <3> QED
      BY <3>1, <2>1 DEF OnReceiveTable, Dispatchable
  <2>5. ASSUME NEW c \in ConnId, NEW m \in Chunk, OnReceivePlain(c, m)
        PROVE  OneCallback'
    BY <2>5 DEF OnReceivePlain
  <2>6. ASSUME NEW c \in ConnId, LoginFlag(c) \/ CloseLookup(c)
        PROVE  OneCallback'
    <3>1. \A d \in ConnId \ {c} : pc[d] \in Resting
      BY <2>6 DEF LoginFlag, CloseLookup
    <3> QED
      BY <3>1, <2>6, <2>1, ZenonT(40) DEF LoginFlag, CloseLookup
  <2>7. ASSUME NEW c \in ConnId, OnClose(c) PROVE OneCallback'
    BY <2>7, <2>1 DEF OnClose, Dispatchable
  <2>8. ASSUME NEW c \in ConnId, CloseErase(c) \/ CloseDelete(c)
        PROVE  OneCallback'
    BY <2>8 DEF CloseErase, CloseDelete, EndAccess
  <2>9. ASSUME NEW c \in ConnId,
               NullClient(c) \/ BadLookup(c) \/ CorruptTable(c)
        PROVE  OneCallback'
    BY <2>9 DEF NullClient, BadLookup, CorruptTable, Crash
  <2>10. CASE UNCHANGED vars
    BY <2>10 DEF vars
  <2> QED
    BY <2>2, <2>3, <2>4, <2>5, <2>6, <2>7, <2>8, <2>9, <2>10
       DEF Next, Callback, Event
<1>3. OneCallback => (SerialCallbacks => ~raceSeen)
  BY DEF OneCallback
<1> QED
  BY <1>1, <1>2, <1>3, TypeCorrect, PTL DEF Spec

-----------------------------------------------------------------------------
(* The table implements the registry *)

\* The node of a connection that is still being inserted is logged out.
FreshNode ==
  ~raceSeen => \A c \in ConnId : pc[c] = "insert" => ~node[client[c]].login

LEMMA FreshInductive ==
  OwnerInv /\ OwnerInv' /\ TableInv /\ FreshNode /\ [Next]_vars => FreshNode'
<1> SUFFICES ASSUME OwnerInv, OwnerInv', TableInv, FreshNode, [Next]_vars,
                    ~raceSeen'
             PROVE  \A d \in ConnId : pc'[d] = "insert" => ~node'[client'[d]].login
  BY DEF FreshNode
<1> DEFINE Goal == \A d \in ConnId : pc'[d] = "insert" => ~node'[client'[d]].login
<1> USE DEF FreshNode
<1>0. \A d \in ConnId : pc[d] = "insert" => client[d] \in alive /\ client[d] \in Node
                                           /\ node[client[d]].conn = d
  BY DEF OwnerInv, Stages, ExtraOwnsNode, TypeOK
<1>1. ASSUME NEW c \in ConnId, OnAccept(c) PROVE Goal
  <2>1. ~raceSeen
    BY <1>1, AccessRace DEF OnAccept, OwnerInv, TableInv
  <2>2. PICK n \in Node \ alive :
          /\ node' = [node EXCEPT ![n] = [conn |-> c, login |-> FALSE, user |-> Nil]]
          /\ client' = [client EXCEPT ![c] = n]
    BY <1>1 DEF OnAccept
  <2>3. pc' = [pc EXCEPT ![c] = "insert"]
    BY <1>1 DEF OnAccept
  <2> QED
    BY <1>0, <2>1, <2>2, <2>3 DEF OwnerInv, TypeOK
<1>2. ASSUME NEW c \in ConnId,
             \/ OnAcceptNoMemory(c) \/ AcceptInsert(c)
             \/ AcceptInsertNoMemory(c) \/ AbnormalData(c)
      PROVE  Goal
  <2>1. /\ pc' = [pc EXCEPT ![c] = "idle"] /\ node' = node
        /\ \A d \in ConnId \ {c} : client'[d] = client[d]
    BY <1>2 DEF OnAcceptNoMemory, AcceptInsert, AcceptInsertNoMemory,
                AbnormalData, Return, OwnerInv, TypeOK
  <2>2. ~raceSeen
    BY <1>2 DEF OnAcceptNoMemory, AcceptInsert, AcceptInsertNoMemory,
                AbnormalData, EndAccess
  <2> QED
    BY <2>1, <2>2 DEF OwnerInv, TypeOK
<1>3. ASSUME NEW c \in ConnId, NEW m \in Chunk,
             OnReceiveLogin(c, m) \/ OnReceiveAbnormal(c, m)
      PROVE  Goal
  <2>1. PICK first \in TableRead : OnReceiveTable(c, m, first)
    BY <1>3 DEF OnReceiveLogin, OnReceiveAbnormal, TableRead
  <2>2. ~raceSeen
    BY <2>1, AccessRace DEF OnReceiveTable, OwnerInv, TableInv
  <2> QED
    BY <2>1, <2>2 DEF OnReceiveTable, TableRead, OwnerInv, TypeOK
<1>4. ASSUME NEW c \in ConnId, NEW m \in Chunk, OnReceivePlain(c, m) PROVE Goal
  BY <1>4 DEF OnReceivePlain
<1>5. ASSUME NEW c \in ConnId, LoginFlag(c) \/ LoginUser(c) PROVE Goal
  <2>1. ~raceSeen
    BY <1>5, AccessRace DEF LoginFlag, LoginUser, EndAccess, OwnerInv, TableInv
  <2>2. /\ pc[c] # "insert" /\ clients[c] = extra[c] /\ extra[c] \in alive
        /\ node[extra[c]].conn = c
    BY <1>5, <2>1 DEF LoginFlag, LoginUser, TableInv, TableMatchesConnections,
                      OwnerInv, Stages, TableRead, ExtraOwnsNode
  <2>3. \A n \in Node \ {extra[c]} : node'[n] = node[n]
    <3>1. \/ node' = node
          \/ node' = [node EXCEPT ![extra[c]] = [node[extra[c]] EXCEPT !.login = TRUE]]
          \/ node' = [node EXCEPT ![extra[c]] = [node[extra[c]] EXCEPT !.user = <<c, held[c]>>]]
      <4>1. CASE LoginFlag(c)
        BY <4>1, <2>2 DEF LoginFlag, OwnerInv, TypeOK, ClientNode
      <4>2. CASE LoginUser(c)
        BY <4>2, <2>2 DEF LoginUser, OwnerInv, TypeOK, ClientNode
      <4> QED
        BY <1>5, <4>1, <4>2
    <3> QED
      BY <3>1, <2>2 DEF OwnerInv, TypeOK
  <2>4. \A d \in ConnId : pc'[d] = "insert" => pc[d] = "insert" /\ client'[d] = client[d]
    <3>1. CASE LoginFlag(c)
      BY <3>1 DEF LoginFlag, OwnerInv, TypeOK
    <3>2. CASE LoginUser(c)
      BY <3>2 DEF LoginUser, Return, OwnerInv, TypeOK
    <3> QED
      BY <1>5, <3>1, <3>2
  <2>5. \A d \in ConnId : pc[d] = "insert" => client[d] # extra[c]
    BY <1>0, <2>2
  <2> QED
    BY <1>0, <2>1, <2>3, <2>4, <2>5
<1>6. ASSUME NEW c \in ConnId, OnClose(c) \/ CloseLookup(c) PROVE Goal
  <2>1. ~raceSeen
    BY <1>6, AccessRace DEF OnClose, CloseLookup, OwnerInv, TableInv
  <2>2. /\ \E p \in {"lookup", "erase"} : pc' = [pc EXCEPT ![c] = p]
        /\ node' = node /\ \A d \in ConnId \ {c} : client'[d] = client[d]
    BY <1>6 DEF OnClose, CloseLookup, OwnerInv, TypeOK
  <2> QED
    BY <2>1, <2>2 DEF OwnerInv, TypeOK
<1>7. ASSUME NEW c \in ConnId, CloseErase(c) \/ CloseDelete(c) PROVE Goal
  <2>1. /\ ~raceSeen /\ node' = node
        /\ \A d \in ConnId \ {c} : client'[d] = client[d]
        /\ \E p \in {"delete", "free"} : pc' = [pc EXCEPT ![c] = p]
    BY <1>7 DEF CloseErase, CloseDelete, EndAccess, OwnerInv, TypeOK
  <2> QED
    BY <2>1 DEF OwnerInv, TypeOK
<1>8. ASSUME NEW c \in ConnId,
             NullClient(c) \/ BadLookup(c) \/ CorruptTable(c)
      PROVE  Goal
  BY <1>8 DEF NullClient, BadLookup, CorruptTable, Crash
<1>9. CASE UNCHANGED vars
  BY <1>9 DEF vars
<1> QED
  BY <1>1, <1>2, <1>3, <1>4, <1>5, <1>6, <1>7, <1>8, <1>9
     DEF Next, Callback, Event

LEMMA FreshInvariant == Spec => []FreshNode
<1>1. Init => FreshNode
  BY DEF Init, FreshNode
<1> QED
  BY <1>1, OwnerInvariant, TableInvariant, FreshInductive, PTL DEF Spec

Connected == {c \in ConnId : clients[c] # Nil}
LoggedIn == {c \in ConnId : clients[c] # Nil /\ node[clients[c]].login}

\* Every step of a race-free server connects, logs in or disconnects one
\* client of the registry, or leaves the registry as it is.
LEMMA RegistryStep ==
  OwnerInv /\ OwnerInv' /\ TableInv /\ FreshNode /\ ~raceSeen /\ [Next]_vars
    => [Registry!Next]_<<Connected, LoggedIn>>
<1> SUFFICES ASSUME OwnerInv, OwnerInv', TableInv, FreshNode, ~raceSeen,
                    [Next]_vars
             PROVE  [Registry!Next]_<<Connected, LoggedIn>>
  OBVIOUS
<1> DEFINE Goal == [Registry!Next]_<<Connected, LoggedIn>>
           Same == UNCHANGED <<Connected, LoggedIn>>
<1>0. \A d \in ConnId :
        /\ clients[d] # Nil => /\ clients[d] = extra[d]
                              /\ clients[d] \in alive /\ clients[d] \in Node
                              /\ node[clients[d]].conn = d
        /\ pc[d] = "insert" => /\ clients[d] = Nil
                               /\ client[d] \in Node /\ ~node[client[d]].login
  BY DEF TableInv, TableMatchesConnections, OwnerInv, ExtraOwnsNode, TypeOK,
         FreshNode, Stages
<1>1. ASSUME UNCHANGED <<clients, node>> PROVE Same
  BY <1>1 DEF Connected, LoggedIn
<1>2. ASSUME NEW c \in ConnId, OnAccept(c) PROVE Same
  <2>1. PICK n \in Node \ alive :
          node' = [node EXCEPT ![n] = [conn |-> c, login |-> FALSE, user |-> Nil]]
    BY <1>2 DEF OnAccept
  <2>2. clients' = clients /\ node \in [Node -> ClientNode]
    BY <1>2 DEF OnAccept, OwnerInv, TypeOK
  <2>3. \A d \in ConnId : clients[d] # Nil => node'[clients[d]] = node[clients[d]]
    BY <1>0, <2>1, <2>2
  <2> QED
    BY <2>2, <2>3 DEF Connected, LoggedIn
<1>3. ASSUME NEW c \in ConnId, AcceptInsert(c) PROVE Goal
  <2>1. /\ pc[c] = "insert" /\ node' = node
        /\ clients' = [clients EXCEPT ![c] = client[c]]
    BY <1>0, <1>3 DEF AcceptInsert, TableInv, NoRaced
  <2>2. client[c] # Nil /\ clients[c] = Nil /\ ~node[client[c]].login
    BY <1>0, <2>1, NilAssumption
  <2>3. c \notin Connected /\ Connected' = Connected \cup {c}
    BY <2>1, <2>2 DEF Connected, OwnerInv, TypeOK
  <2>4. LoggedIn' = LoggedIn
    BY <2>1, <2>2 DEF LoggedIn, OwnerInv, TypeOK
  <2> QED
    BY <2>3, <2>4 DEF Registry!Next, Registry!Connect, Connected, LoggedIn
<1>4. ASSUME NEW c \in ConnId, LoginFlag(c) PROVE Goal
  <2>1. pc[c] = "login_flag" /\ clients[c] # Nil /\ clients' = clients
    BY <1>4 DEF LoginFlag
  <2>2. node' = [node EXCEPT ![clients[c]] = [node[clients[c]] EXCEPT !.login = TRUE]]
    BY <1>0, <1>4, <2>1 DEF LoginFlag, OwnerInv, TypeOK, ClientNode
  <2>3. \A d \in ConnId \ {c} : clients[d] # Nil => clients[d] # clients[c]
    BY <1>0, <2>1
  <2>4. \A d \in ConnId \ {c} : clients[d] # Nil => node'[clients[d]] = node[clients[d]]
    BY <1>0, <2>2, <2>3 DEF OwnerInv, TypeOK
  <2>5. node'[clients[c]].login
    BY <1>0, <2>1, <2>2 DEF OwnerInv, TypeOK, ClientNode
  <2>6. Connected' = Connected /\ c \in Connected
    BY <2>1 DEF Connected
  <2>7. LoggedIn' = LoggedIn \cup {c}
    BY <2>1, <2>4, <2>5 DEF LoggedIn
  <2> QED
    BY <2>6, <2>7 DEF Registry!Next, Registry!Login, Connected, LoggedIn
<1>5. ASSUME NEW c \in ConnId, LoginUser(c) PROVE Same
  <2>1. clients[c] # Nil /\ clients' = clients
    BY <1>5 DEF LoginUser
  <2>2. \/ node' = node
        \/ node' = [node EXCEPT ![clients[c]] = [node[clients[c]] EXCEPT !.user = <<c, held[c]>>]]
    BY <1>0, <1>5, <2>1 DEF LoginUser, OwnerInv, TypeOK, ClientNode
  <2>3. \A n \in Node : node'[n].login = node[n].login
    BY <1>0, <2>1, <2>2 DEF OwnerInv, TypeOK, ClientNode
  <2>4. Connected' = Connected
    BY <2>1 DEF Connected
  <2>5. LoggedIn' = LoggedIn
    BY <1>0, <2>1, <2>3 DEF LoggedIn
  <2> QED
    BY <2>4, <2>5
<1>6. ASSUME NEW c \in ConnId, CloseErase(c) PROVE Goal
  <2>1. /\ pc[c] = "erase" /\ node' = node
        /\ clients' = [clients EXCEPT ![c] = Nil]
    BY <1>6 DEF CloseErase, TableInv, NoRaced
  <2>2. clients[c] # Nil
    BY <2>1 DEF TableInv, TableMatchesConnections, OwnerInv, Stages
  <2>3. c \in Connected /\ Connected' = Connected \ {c}
    BY <2>1, <2>2 DEF Connected, OwnerInv, TypeOK
  <2>4. LoggedIn' = LoggedIn \ {c}
    BY <2>1 DEF LoggedIn, OwnerInv, TypeOK
  <2> QED
    BY <2>3, <2>4 DEF Registry!Next, Registry!Disconnect, Connected, LoggedIn
<1>7. ASSUME NEW c \in ConnId,
             \/ OnAcceptNoMemory(c) \/ AcceptInsertNoMemory(c)
             \/ AbnormalData(c) \/ OnClose(c) \/ CloseLookup(c) \/ CloseDelete(c)
      PROVE  Same
  BY <1>1, <1>7 DEF OnAcceptNoMemory, AcceptInsertNoMemory, AbnormalData,
                    OnClose, CloseLookup, CloseDelete
<1>8. ASSUME NEW c \in ConnId, NEW m \in Chunk,
             \/ OnReceiveLogin(c, m) \/ OnReceiveAbnormal(c, m)
             \/ OnReceivePlain(c, m)
      PROVE  Same
  BY <1>1, <1>8 DEF OnReceiveLogin, OnReceiveAbnormal, OnReceivePlain,
                    OnReceiveTable
<1>9. ASSUME NEW c \in ConnId,
             NullClient(c) \/ BadLookup(c) \/ CorruptTable(c)
      PROVE  Same
  BY <1>1, <1>9 DEF NullClient, BadLookup, CorruptTable, Crash
<1>10. CASE UNCHANGED vars
  BY <1>1, <1>10 DEF vars
<1> QED
  BY <1>2, <1>3, <1>4, <1>5, <1>6, <1>7, <1>8, <1>9, <1>10
     DEF Next, Callback, Event

\* With one worker thread the server implements the registry of connected
\* clients: each connection is entered once, logged out, and removed once.
THEOREM ServerImplementsRegistry ==
  ASSUME SerialCallbacks
  PROVE  Spec => ImplementsRegistry
<1>1. Init => Registry!Init
  BY DEF Init, Registry!Init
<1>2. Spec => []~raceSeen
  BY OneWorkerNeverRaces, PTL
<1>3. Connected = {c \in ConnId : clients[c] # Nil} /\
      LoggedIn = {c \in ConnId : clients[c] # Nil /\ node[clients[c]].login}
  BY DEF Connected, LoggedIn
<1> QED
  BY <1>1, <1>2, <1>3, RegistryStep, OwnerInvariant, TableInvariant,
     FreshInvariant, PTL DEF Spec, ImplementsRegistry, Registry!Spec, Connected, LoggedIn
=============================================================================
