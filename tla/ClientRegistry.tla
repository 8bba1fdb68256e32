--------------------------- MODULE ClientRegistry ---------------------------
(***************************************************************************)
(* What the server's _clients table promises to the rest of the program:   *)
(* the connected clients, each with whether it has logged in.  A client    *)
(* that connects starts logged out, and a login belongs to one connection. *)
(***************************************************************************)
CONSTANT ConnId
VARIABLES connected, loggedIn

Init == connected = {} /\ loggedIn = {}

Connect(c) ==
  /\ c \notin connected
  /\ connected' = connected \cup {c}
  /\ UNCHANGED loggedIn

Login(c) ==
  /\ c \in connected
  /\ loggedIn' = loggedIn \cup {c}
  /\ UNCHANGED connected

Disconnect(c) ==
  /\ c \in connected
  /\ connected' = connected \ {c}
  /\ loggedIn' = loggedIn \ {c}

Next == \E c \in ConnId : Connect(c) \/ Login(c) \/ Disconnect(c)

Spec == Init /\ [][Next]_<<connected, loggedIn>>
=============================================================================
