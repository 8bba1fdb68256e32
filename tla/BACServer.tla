----------------------------- MODULE BACServer -----------------------------
(***************************************************************************)
(* BAC-Server's connection bookkeeping: the HP-Socket callbacks OnAccept,  *)
(* OnReceive and OnClose, the heap nodes (ClientNode) they allocate and    *)
(* free, the connection extra that points at a node, and the std::map      *)
(* _clients every callback uses without a lock.                            *)
(*                                                                         *)
(* HP-Socket serialises the callbacks of one connection and runs those of  *)
(* different connections on its worker threads.  SerialCallbacks says      *)
(* whether the pool has a single worker.  An access to _clients has a      *)
(* beginning and an end; when a write overlaps any other access that is a  *)
(* data race, and the raced access may take effect, be lost, or corrupt    *)
(* the tree and bring the process down.                                    *)
(***************************************************************************)
EXTENDS BACProtocol

CONSTANTS ConnId,          \* HP-Socket connection ids, reused after a close
          Node,            \* heap addresses of ClientNode objects, reused
          Nil,             \* null pointer, absent key, empty user_id
          SerialCallbacks, \* one worker thread: callbacks never overlap
          AllocMayFail     \* new ClientNode may throw std::bad_alloc

ASSUME NilAssumption == Nil \notin ConnId /\ Nil \notin Node
ASSUME ModeAssumption == SerialCallbacks \in BOOLEAN /\ AllocMayFail \in BOOLEAN

VARIABLES pc,        \* where the callback of each connection is
          client,    \* the callback's local pointer
          extra,     \* HP-Socket's connection extra
          alive,     \* allocated nodes
          node,      \* contents of the nodes
          clients,   \* _clients; Nil: no such key
          held,      \* what the chunk being handled holds of its packet
          answered,  \* history: what the last login packet of the connection
                     \* that was answered Success held of its user id
          raced,     \* the running table access overlapped a conflicting one
          raceSeen,  \* some data race has happened
          up         \* the server process runs

vars == <<pc, client, extra, alive, node, clients, held, answered, raced,
          raceSeen, up>>

Resting == {"free", "idle"}
TableWrite == {"insert", "erase"}
TableRead == {"login_flag", "login_user", "abnormal", "lookup"}
PC == Resting \cup TableWrite \cup TableRead \cup {"delete"}

\* How much of the data_len payload bytes a chunk of 16 bytes or more holds:
\* a part, which may be empty, when TCP cut the packet, or all of it.
Part == {"cut", "whole"}

\* A chunk of fewer than 16 bytes has no payload to cut the id from.
Held == Part \cup {"short"}

\* A user_id: that much of the id of the client of a connection, or still "".
UserId == (ConnId \X Part) \cup {Nil}

ClientNode == [conn : ConnId, login : BOOLEAN, user : UserId]

\* The chunks a connection may deliver: any header a client or a split
\* packet produces, in fewer than 16 bytes or with some part of the payload.
Chunk == [hdr : [cmd : HandledCommand \cup {Garbage},
                 status : {"Request", Garbage}],
          held : Held]

TypeOK ==
  /\ pc \in [ConnId -> PC]
  /\ client \in [ConnId -> Node \cup {Nil}]
  /\ extra \in [ConnId -> Node \cup {Nil}]
  /\ alive \in SUBSET Node
  /\ node \in [Node -> ClientNode]
  /\ clients \in [ConnId -> Node \cup {Nil}]
  /\ held \in [ConnId -> Held]
  /\ answered \in [ConnId -> Part \cup {Nil}]
  /\ raced \in [ConnId -> BOOLEAN]
  /\ raceSeen \in BOOLEAN
  /\ up \in BOOLEAN

Init ==
  /\ pc = [c \in ConnId |-> "free"]
  /\ client = [c \in ConnId |-> Nil]
  /\ extra = [c \in ConnId |-> Nil]
  /\ alive = {}
  /\ node \in [Node -> [conn : ConnId, login : {FALSE}, user : {Nil}]]
  /\ clients = [c \in ConnId |-> Nil]
  /\ held = [c \in ConnId |-> "short"]
  /\ answered = [c \in ConnId |-> Nil]
  /\ raced = [c \in ConnId |-> FALSE]
  /\ raceSeen = FALSE
  /\ up = TRUE

-----------------------------------------------------------------------------
(* Worker threads and accesses to the table *)

\* A worker picks up the next event of connection c.
Dispatchable(c, from) ==
  /\ up
  /\ pc[c] = from
  /\ SerialCallbacks => \A d \in ConnId : pc[d] \in Resting

\* The accesses in progress that conflict with a new one by c.
Conflicts(c, writes) ==
  {d \in ConnId \ {c} : \/ pc[d] \in TableWrite
                        \/ writes /\ pc[d] \in TableRead}

BeginAccess(c, writes) ==
  LET hit == Conflicts(c, writes)
  IN  /\ raced' = [d \in ConnId |-> IF d = c THEN hit # {}
                                    ELSE raced[d] \/ d \in hit]
      /\ raceSeen' = (raceSeen \/ hit # {})

EndAccess(c) == raced' = [raced EXCEPT ![c] = FALSE] /\ UNCHANGED raceSeen

\* The callback returns to HP-Socket.
Return(c) ==
  /\ pc' = [pc EXCEPT ![c] = "idle"]
  /\ client' = [client EXCEPT ![c] = Nil]
  /\ held' = [held EXCEPT ![c] = "short"]

-----------------------------------------------------------------------------
(* OnAccept *)

\* Mutant: a reused node keeps its former contents.
OnAccept_StaleNode(c) ==
  /\ Dispatchable(c, "free")
  /\ \E n \in Node \ alive :
       /\ alive' = alive \cup {n}
       /\ node' = [node EXCEPT ![n].conn = c]
       /\ client' = [client EXCEPT ![c] = n]
  /\ pc' = [pc EXCEPT ![c] = "insert"]
  /\ answered' = [answered EXCEPT ![c] = Nil]
  /\ BeginAccess(c, TRUE)
  /\ UNCHANGED <<extra, clients, held, up>>

OnAccept(c) ==
  /\ Dispatchable(c, "free")
  /\ \E n \in Node \ alive :
       /\ alive' = alive \cup {n}
       /\ node' = [node EXCEPT ![n] = [conn |-> c, login |-> FALSE, user |-> Nil]]
       /\ client' = [client EXCEPT ![c] = n]
  /\ pc' = [pc EXCEPT ![c] = "insert"]
  /\ answered' = [answered EXCEPT ![c] = Nil]
  /\ BeginAccess(c, TRUE)
  /\ UNCHANGED <<extra, clients, held, up>>

\* The exception of a failed allocation is logged and HR_OK returned: the
\* connection stays open with no node and no extra.
OnAcceptNoMemory(c) ==
  /\ AllocMayFail
  /\ Dispatchable(c, "free")
  /\ pc' = [pc EXCEPT ![c] = "idle"]
  /\ answered' = [answered EXCEPT ![c] = Nil]
  /\ UNCHANGED <<client, extra, alive, node, clients, held, raced, raceSeen, up>>

\* map::insert leaves an existing key alone.
AcceptInsert(c) ==
  /\ up /\ pc[c] = "insert"
  /\ \/ clients' = IF clients[c] = Nil THEN [clients EXCEPT ![c] = client[c]]
                                       ELSE clients
     \/ raced[c] /\ UNCHANGED clients
  /\ extra' = [extra EXCEPT ![c] = client[c]]
  /\ Return(c)
  /\ EndAccess(c)
  /\ UNCHANGED <<alive, node, answered, up>>

\* map::insert throws std::bad_alloc: the node is leaked, the extra unset.
AcceptInsertNoMemory(c) ==
  /\ AllocMayFail
  /\ up /\ pc[c] = "insert"
  /\ Return(c)
  /\ EndAccess(c)
  /\ UNCHANGED <<extra, alive, node, clients, answered, up>>

-----------------------------------------------------------------------------
(* OnReceive, DispatchTcpMessage and the command handlers *)

\* ResponseStatus, OnStatusError and OnCommandError: the reply to the chunk,
\* if there is one, remembered when it tells the client it has logged in.
Respond(c, h, holds) ==
  LET replies == RepliesTo(h, holds = "short")
  IN  answered' = IF \E i \in DOMAIN replies : replies[i] = Hdr(LOGIN, "Success")
                  THEN [answered EXCEPT ![c] = holds] ELSE answered

\* The two handlers that look the connection up in _clients.
OnReceiveTable(c, m, first) ==
  /\ Dispatchable(c, "idle")
  /\ extra[c] # Nil
  /\ client' = [client EXCEPT ![c] = extra[c]]
  /\ pc' = [pc EXCEPT ![c] = first]
  /\ held' = [held EXCEPT ![c] = m.held]
  /\ BeginAccess(c, FALSE)
  /\ UNCHANGED <<extra, alive, node, clients, answered, up>>

OnReceiveLogin(c, m) ==
  m.hdr = Hdr(LOGIN, "Request") /\ OnReceiveTable(c, m, "login_flag")

OnReceiveAbnormal(c, m) ==
  m.hdr = Hdr(GAME_ABNORMAL_DATA, "Request") /\ OnReceiveTable(c, m, "abnormal")

\* Machine info, a wrong status and an unknown command use p_client only.
OnReceivePlain(c, m) ==
  /\ m.hdr \notin {Hdr(LOGIN, "Request"), Hdr(GAME_ABNORMAL_DATA, "Request")}
  /\ Dispatchable(c, "idle")
  /\ extra[c] # Nil
  /\ Respond(c, m.hdr, m.held)
  /\ UNCHANGED <<pc, client, extra, alive, node, clients, held, raced,
                 raceSeen, up>>

\* Mutant: the login flag is not set.
LoginFlag_Skipped(c) ==
  /\ up /\ pc[c] = "login_flag"
  /\ clients[c] # Nil
  /\ pc' = [pc EXCEPT ![c] = "login_user"]
  /\ BeginAccess(c, FALSE)
  /\ UNCHANGED <<client, extra, alive, node, clients, held, answered, up>>

\* _clients[p_client->connect_id]->login = true
LoginFlag(c) ==
  /\ up /\ pc[c] = "login_flag"
  /\ clients[c] # Nil
  /\ node' = IF clients[c] \in alive
             THEN [node EXCEPT ![clients[c]].login = TRUE] ELSE node
  /\ pc' = [pc EXCEPT ![c] = "login_user"]
  /\ BeginAccess(c, FALSE)
  /\ UNCHANGED <<client, extra, alive, clients, held, answered, up>>

\* _clients[p_client->connect_id]->user_id = buffer.substr(16, data_len), and
\* the reply: whatever the chunk holds of the id replaces the one before, and
\* of a chunk shorter than a header substr throws, with the flag already set.
LoginUser(c) ==
  /\ up /\ pc[c] = "login_user"
  /\ clients[c] # Nil
  /\ node' = IF clients[c] \in alive /\ held[c] # "short"
             THEN [node EXCEPT ![clients[c]].user = <<c, held[c]>>] ELSE node
  /\ Respond(c, Hdr(LOGIN, "Request"), held[c])
  /\ Return(c)
  /\ EndAccess(c)
  /\ UNCHANGED <<extra, alive, clients, up>>

\* std::cout << _clients[p_client->connect_id]->user_id, and the reply
AbnormalData(c) ==
  /\ up /\ pc[c] = "abnormal"
  /\ clients[c] # Nil
  /\ Respond(c, Hdr(GAME_ABNORMAL_DATA, "Request"), held[c])
  /\ Return(c)
  /\ EndAccess(c)
  /\ UNCHANGED <<extra, alive, node, clients, answered, up>>

-----------------------------------------------------------------------------
(* OnClose *)

OnClose(c) ==
  /\ Dispatchable(c, "idle")
  /\ extra[c] # Nil
  /\ client' = [client EXCEPT ![c] = extra[c]]
  /\ pc' = [pc EXCEPT ![c] = "lookup"]
  /\ BeginAccess(c, FALSE)
  /\ UNCHANGED <<extra, alive, node, clients, held, answered, up>>

\* Mutant: the node is deleted before its table entry is erased.
CloseLookup_DeletesFirst(c) ==
  /\ up /\ pc[c] = "lookup"
  /\ clients[c] # Nil
  /\ alive' = alive \ {client[c]}
  /\ pc' = [pc EXCEPT ![c] = "erase"]
  /\ BeginAccess(c, TRUE)
  /\ UNCHANGED <<client, extra, node, clients, held, answered, up>>

\* _clients[client->connect_id]->user_id for the log
CloseLookup(c) ==
  /\ up /\ pc[c] = "lookup"
  /\ clients[c] # Nil
  /\ pc' = [pc EXCEPT ![c] = "erase"]
  /\ BeginAccess(c, TRUE)
  /\ UNCHANGED <<client, extra, alive, node, clients, held, answered, up>>

\* Mutant: the entry is left in the table.
CloseErase_Forgotten(c) ==
  /\ up /\ pc[c] = "erase"
  /\ pc' = [pc EXCEPT ![c] = "delete"]
  /\ EndAccess(c)
  /\ UNCHANGED <<client, extra, alive, node, clients, held, answered, up>>

CloseErase(c) ==
  /\ up /\ pc[c] = "erase"
  /\ \/ clients' = [clients EXCEPT ![c] = Nil]
     \/ raced[c] /\ UNCHANGED clients
  /\ pc' = [pc EXCEPT ![c] = "delete"]
  /\ EndAccess(c)
  /\ UNCHANGED <<client, extra, alive, node, held, answered, up>>

\* Mutant: the node is never deleted.
CloseDelete_Leaks(c) ==
  /\ up /\ pc[c] = "delete"
  /\ client' = [client EXCEPT ![c] = Nil]
  /\ extra' = [extra EXCEPT ![c] = Nil]
  /\ pc' = [pc EXCEPT ![c] = "free"]
  /\ answered' = [answered EXCEPT ![c] = Nil]
  /\ UNCHANGED <<alive, node, clients, held, raced, raceSeen, up>>

\* delete client; HP-Socket then recycles the id and its extra.
CloseDelete(c) ==
  /\ up /\ pc[c] = "delete"
  /\ alive' = alive \ {client[c]}
  /\ client' = [client EXCEPT ![c] = Nil]
  /\ extra' = [extra EXCEPT ![c] = Nil]
  /\ pc' = [pc EXCEPT ![c] = "free"]
  /\ answered' = [answered EXCEPT ![c] = Nil]
  /\ UNCHANGED <<node, clients, held, raced, raceSeen, up>>

-----------------------------------------------------------------------------
(* Access violations: no catch clause takes them, the process ends *)

Crash == up' = FALSE /\ UNCHANGED <<pc, client, extra, alive, node, clients,
                                    held, answered, raced, raceSeen>>

\* OnReceive or OnClose of a connection whose OnAccept failed.
NullClient(c) == Dispatchable(c, "idle") /\ extra[c] = Nil /\ Crash

\* operator[] inserts a null pointer for a missing key and dereferences it,
\* or finds the address of a freed node.
BadLookup(c) ==
  /\ up /\ pc[c] \in TableRead
  /\ clients[c] \notin alive
  /\ Crash

\* The raced access walks a half-linked tree.
CorruptTable(c) == up /\ raced[c] /\ pc[c] \in TableRead \cup TableWrite /\ Crash

-----------------------------------------------------------------------------
Callback(c) ==
  \/ AcceptInsert(c) \/ AcceptInsertNoMemory(c) \/ LoginFlag(c) \/ LoginUser(c)
  \/ AbnormalData(c) \/ CloseLookup(c) \/ CloseErase(c) \/ CloseDelete(c) \/ BadLookup(c)
  \/ CorruptTable(c)

Event(c) ==
  \/ OnAccept(c) \/ OnAcceptNoMemory(c)
  \/ \E m \in Chunk : OnReceiveLogin(c, m) \/ OnReceiveAbnormal(c, m)
                      \/ OnReceivePlain(c, m)
  \/ OnClose(c) \/ NullClient(c)

Next == \E c \in ConnId : Callback(c) \/ Event(c)

\* A worker that runs a callback runs it to the end.
Spec == Init /\ [][Next]_vars /\ \A c \in ConnId : WF_vars(Callback(c))

-----------------------------------------------------------------------------
(* Properties *)

\* The pointer HP-Socket keeps for a connection, and the one a running
\* callback holds, point at an allocated node of that very connection, in
\* every interleaving: OnClose is the only place that deletes a node, and no
\* other callback of the connection is running then.
ExtraOwnsNode ==
  \A c \in ConnId : \A n \in {extra[c], client[c]} \ {Nil} :
     n \in alive /\ node[n].conn = c

\* Until a data race happens, _clients is the table of connected clients:
\* it maps an id to the node of the connection that has the id now, from the
\* end of OnAccept to the erase of OnClose, and has no other entry.
TableMatchesConnections ==
  ~raceSeen => \A c \in ConnId :
     clients[c] = IF pc[c] \in {"insert", "delete"} THEN Nil ELSE extra[c]

\* Until a data race happens, a client whose login was answered with Success
\* is recorded as logged in, in its own node, under as much of its own id as
\* the last login so answered held (all of it only when the packet was not
\* cut), although flag, id and reply are written by three separate lookups
\* and chunks too short to be answered set the flag in between.
LoginRecorded ==
  ~raceSeen => \A c \in ConnId :
     answered[c] # Nil =>
        /\ extra[c] \in alive
        /\ node[extra[c]].login
        /\ node[extra[c]].user = <<c, answered[c]>>

\* Until a data race happens, no node carries an id, whole or cut, of a client
\* other than its own, whatever connection used the address or the id before.
NoCrossLogin ==
  ~raceSeen => \A n \in alive :
     node[n].user # Nil => node[n].user[1] = node[n].conn

\* With enough memory and no data race the callbacks never dereference a
\* null or freed node: operator[] always finds the entry OnAccept inserted.
NoCrash == ~raceSeen /\ ~AllocMayFail => up

\* With enough memory every allocated node is reachable from a connection,
\* so OnClose will free it.
NoNodeLeak ==
  ~AllocMayFail => \A n \in alive : \E c \in ConnId : n \in {extra[c], client[c]}

\* With one worker thread and enough memory the table behaves as the
\* registry ClientRegistry specifies.
Registry == INSTANCE ClientRegistry WITH
  connected <- {c \in ConnId : clients[c] # Nil},
  loggedIn <- {c \in ConnId : clients[c] # Nil /\ node[clients[c]].login}

ImplementsRegistry == Registry!Spec
=============================================================================
