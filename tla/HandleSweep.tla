---------------------------- MODULE HandleSweep ----------------------------
(***************************************************************************)
(* BAC::ClearOtherProcessHandle, a thread of the game that once a second   *)
(* takes a snapshot of all handles of the system and, for each handle of   *)
(* another process to the game itself, calls KillHandle.  The processes it *)
(* looks at go on opening and closing handles, and their ids and handle    *)
(* values are reused while it works through the snapshot.  Its entries are *)
(* SYSTEM_HANDLE_TABLE_ENTRY_INFO, which has a USHORT for the id and one   *)
(* for the value: of a larger number they hold what is left of it, and the *)
(* thread then looks at another process, at another handle, or at itself.  *)
(*                                                                         *)
(* It is started after ProtectProcessByName.  When the driver's callbacks  *)
(* are in force (they are not when ObGetFilterVersion made                 *)
(* RegisterProtectProcessCallbacks do nothing) every new handle to the     *)
(* game, a duplicate made by the game included, has SYNCHRONIZE only.      *)
(***************************************************************************)
EXTENDS Naturals, FiniteSets

CONSTANTS Pid,       \* ids of the other processes
          Value,     \* handle values; ids and values are the same numbers
          Game,      \* the id of the game
          GameValue, \* the values of the game's own handles
          Width,     \* 2^16, the numbers a USHORT holds
          MaxHandles, \* bound: how many handles the others hold
          None

ASSUME NumberAssumption == Pid \subseteq Value /\ Value \subseteq Nat
ASSUME GameAssumption ==
  Game \in Nat \ Pid /\ GameValue # {} /\ GameValue \subseteq Value
ASSUME BoundAssumption == MaxHandles \in Nat
ASSUME WidthAssumption == Width \in Nat \ {0}
ASSUME NoneAssumption == None \notin Pid
ASSUME ValueAssumption == IsFiniteSet(Value)

VARIABLES kind,      \* what runs under an id: free, user, system
          table,     \* the handles of each process: none, game, weak, other
          protected, \* the driver strips handles to the game
          pinned,    \* ids of processes whose leaked handles keep them in use
          pc,        \* where the thread is
          room,      \* nsize * 2, in entries
          left,      \* the entries of the snapshot not looked at yet
          cur,       \* the process id KillHandle is called with
          standing,  \* full handles to the game held ever since the snapshot
          examined   \* what the sweep has looked at and found to be the game

vars == <<kind, table, protected, pinned, pc, room, left, cur, standing, examined>>

system == <<kind, table>>
sweep == <<pc, room, left, cur, examined>>

\* A full handle to the game, a stripped one, a handle to anything else.
Object == {"none", "game", "weak", "other"}

Held == {e \in Pid \X Value : table[e[1]][e[2]] # "none"}
Snapshot == Held \cup ({Game} \X GameValue)
GameHandles == {e \in Pid \X Value : table[e[1]][e[2]] = "game" /\ kind[e[1]] = "user"}

\* What the entry of the snapshot for handle e says: process id and value.
Low(n) == n % Width
Id(e) == Low(e[1])
ValueOf(e) == Low(e[2])
Fits(e) == Id(e) = e[1] /\ ValueOf(e) = e[2]

\* What runs under any id, and what a value denotes there.
Kind(p) == IF p \in Pid THEN kind[p] ELSE "free"
Denotes(p, v) == IF p \in Pid /\ v \in Value THEN table[p][v] ELSE "none"

TypeOK ==
  /\ kind \in [Pid -> {"free", "user", "system"}]
  /\ table \in [Pid -> [Value -> Object]]
  /\ protected \in BOOLEAN
  /\ pinned \subseteq Pid
  /\ pc \in {"size", "query", "next", "kill", "sleep"}
  /\ room \in Nat
  /\ left \subseteq (Pid \cup {Game}) \X Value /\ standing \subseteq Pid \X Value
  /\ examined \subseteq Pid \X Value
  /\ cur \in Pid \cup {None}
  /\ cur # None <=> pc = "kill"
  /\ left # {} => pc \in {"next", "kill"}

\* Handles opened before the driver was loaded are full ones.
Init ==
  /\ kind \in [Pid -> {"free", "user", "system"}]
  /\ \E some \in SUBSET {e \in Pid \X Value : kind[e[1]] # "free"} :
       /\ Cardinality(some) <= MaxHandles
       /\ table = [p \in Pid |-> [v \in Value |-> IF <<p, v>> \in some THEN "game" ELSE "none"]]
  /\ protected \in BOOLEAN
  /\ pinned = {}
  /\ pc = "size" /\ room = 0 /\ left = {} /\ cur = None
  /\ standing = {} /\ examined = {}

-----------------------------------------------------------------------------
(* The other processes *)

OpenHandle(p, v) ==
  /\ kind[p] # "free" /\ table[p][v] = "none"
  /\ Cardinality(Held) < MaxHandles
  /\ \E o \in {"other", IF protected THEN "weak" ELSE "game"} :
       table' = [table EXCEPT ![p][v] = o]
  /\ UNCHANGED <<kind, protected, pinned, sweep, standing>>

CloseHandle(p, v) ==
  /\ table[p][v] # "none"
  /\ table' = [table EXCEPT ![p][v] = "none"]
  /\ standing' = standing \ {<<p, v>>}
  /\ UNCHANGED <<kind, protected, pinned, sweep>>

StartProcess(p, k) ==
  /\ kind[p] = "free" /\ p \notin pinned
  /\ kind' = [kind EXCEPT ![p] = k]
  /\ UNCHANGED <<table, protected, pinned, sweep, standing>>

ExitProcess(p) ==
  /\ kind[p] # "free"
  /\ kind' = [kind EXCEPT ![p] = "free"]
  /\ table' = [table EXCEPT ![p] = [v \in Value |-> "none"]]
  /\ standing' = {e \in standing : e[1] # p}
  /\ UNCHANGED <<protected, pinned, sweep>>

-----------------------------------------------------------------------------
(* The snapshot: a first call for the size, a buffer twice as large *)

QuerySize ==
  /\ pc = "size"
  /\ \/ pc' = "query" /\ room' = 2 * Cardinality(Snapshot)
     \/ pc' = "sleep" /\ UNCHANGED room     \* the call fails otherwise
  /\ UNCHANGED <<system, protected, pinned, left, cur, standing, examined>>

\* VirtualAlloc fails.
NoBuffer ==
  /\ pc = "query"
  /\ pc' = "sleep"
  /\ UNCHANGED <<system, protected, pinned, room, left, cur, standing, examined>>

Query ==
  /\ pc = "query" /\ Cardinality(Snapshot) <= room
  /\ left' = Snapshot /\ standing' = GameHandles /\ examined' = {}
  /\ pc' = "next"
  /\ UNCHANGED <<system, protected, pinned, room, cur>>

\* Mutant: the buffer is asked for again at its old size.
Grow_SameSize ==
  /\ pc = "query" /\ Cardinality(Snapshot) > room
  /\ UNCHANGED vars

\* STATUS_INFO_LENGTH_MISMATCH: nsize * 10 and another try.
Grow ==
  /\ pc = "query" /\ Cardinality(Snapshot) > room
  /\ room' = 10 * room
  /\ UNCHANGED <<system, protected, pinned, pc, left, cur, standing, examined>>

-----------------------------------------------------------------------------
(* One entry: DumpHandle, IsProcessType, GetProcessId, KillHandle *)

\* The right GetProcessId needs is on the duplicate in the game's own table.
Recognised(object) == object = "game" /\ ~protected

\* Of the thread's own process, as the entry says.
SkipOwn(e) ==
  /\ pc = "next" /\ e \in left /\ Id(e) = Game
  /\ left' = left \ {e}
  /\ UNCHANGED <<system, protected, pinned, pc, room, cur, standing, examined>>

\* A process of the white list, whose handle DumpHandle forgets to close,
\* or one that cannot be opened.
SkipSystem(e) ==
  /\ pc = "next" /\ e \in left
  /\ Id(e) # Game /\ Kind(Id(e)) # "user"
  /\ left' = left \ {e}
  /\ pinned' \in {pinned, IF Kind(Id(e)) = "system" THEN pinned \cup {Id(e)} ELSE pinned}
  /\ UNCHANGED <<system, protected, pc, room, cur, standing, examined>>

\* Mutant: the scan of the snapshot stops at the first such handle.
DumpHandle_StopsAtFirst(e) ==
  /\ pc = "next" /\ e \in left
  /\ Id(e) # Game /\ Kind(Id(e)) = "user"
  /\ LET object == Denotes(Id(e), ValueOf(e))
     IN  /\ IF object = "game"
            THEN left' = {} /\ examined' = examined \cup {<<Id(e), ValueOf(e)>>}
            ELSE left' = left \ {e} /\ UNCHANGED examined
         /\ IF Recognised(object) THEN cur' = Id(e) /\ pc' = "kill"
                                  ELSE UNCHANGED <<cur, pc>>
  /\ UNCHANGED <<system, protected, pinned, room, standing>>

DumpHandle(e) ==
  /\ pc = "next" /\ e \in left
  /\ Id(e) # Game /\ Kind(Id(e)) = "user"
  /\ left' = left \ {e}
  /\ LET object == Denotes(Id(e), ValueOf(e))
     IN  /\ examined' = IF object = "game" THEN examined \cup {<<Id(e), ValueOf(e)>>}
                                           ELSE examined
         /\ IF Recognised(object) THEN cur' = Id(e) /\ pc' = "kill"
                                  ELSE UNCHANGED <<cur, pc>>
  /\ UNCHANGED <<system, protected, pinned, room, standing>>

\* ZwDuplicateObject(process_handle, process_id, ..., DUPLICATE_CLOSE_SOURCE):
\* the handle it closes in the process is the one with the value of the id.
KillHandle ==
  /\ pc = "kill"
  /\ table' = IF kind[cur] = "free" THEN table
              ELSE [table EXCEPT ![cur][cur] = "none"]
  /\ standing' = standing \ {<<cur, cur>>}
  /\ cur' = None /\ pc' = "next"
  /\ UNCHANGED <<kind, protected, pinned, room, left, examined>>

SweepEnds ==
  /\ pc = "next" /\ left = {}
  /\ pc' = "sleep" /\ room' = 0
  /\ UNCHANGED <<system, protected, pinned, left, cur, standing, examined>>

\* Sleep(1000) is over.
WakeUp ==
  /\ pc = "sleep"
  /\ pc' = "size" /\ room' = 0
  /\ standing' = {} /\ examined' = {}
  /\ UNCHANGED <<system, protected, pinned, left, cur>>

-----------------------------------------------------------------------------
ClearOtherProcessHandle ==
  \/ QuerySize \/ Query \/ Grow
  \/ \E e \in left : SkipOwn(e) \/ SkipSystem(e) \/ DumpHandle(e)
  \/ KillHandle \/ SweepEnds \/ WakeUp

Others ==
  \E p \in Pid :
     \/ \E v \in Value : OpenHandle(p, v) \/ CloseHandle(p, v)
     \/ \E k \in {"user", "system"} : StartProcess(p, k)
     \/ ExitProcess(p)

Next == ClearOtherProcessHandle \/ NoBuffer \/ Others

\* The thread is scheduled; nothing makes an allocation fail.
Spec == Init /\ [][Next]_vars /\ WF_vars(ClearOtherProcessHandle)

-----------------------------------------------------------------------------
(* Properties *)

\* A sweep overlooks nothing it can name: when it ends, every full handle to
\* the game that an ordinary process has held since the snapshot, and whose id
\* and value fit a USHORT, has been looked at, whatever other handles and
\* processes came and went meanwhile and whatever larger ids and values, the
\* game's own among them, were taken for others.
SweepExamines == pc = "sleep" => {e \in standing : Fits(e)} \subseteq examined

\* The sweeps follow each other: the buffer catches up with the handles of
\* the system, which may grow between the call for the size and the next.
KeepsSweeping == []<>(pc = "sleep")

\* "Clear the handles of other processes": a full handle to the game that an
\* ordinary process keeps throughout a sweep is gone when the sweep ends.
SweepClears == pc = "sleep" => standing = {}
=============================================================================
