------------------------- MODULE HandleSweep_proofs -------------------------
(***************************************************************************)
(* Proof that a sweep overlooks no handle whose id and value its entry can *)
(* hold, for any number of processes and handles, any width of the entry   *)
(* and whatever the other processes do meanwhile.                          *)
(***************************************************************************)
EXTENDS HandleSweep, FiniteSetTheorems, TLAPS

Types ==
  /\ kind \in [Pid -> {"free", "user", "system"}]
  /\ table \in [Pid -> [Value -> Object]]
  /\ pc \in {"size", "query", "next", "kill", "sleep"}
  /\ left \subseteq (Pid \cup {Game}) \X Value
  /\ standing \subseteq Pid \X Value
  /\ examined \subseteq Pid \X Value
  /\ pc = "kill" => cur \in Pid

\* A handle that stands is still what it was at the snapshot, and if its entry
\* names it, it has been looked at or is still to be.
Progress ==
  /\ standing \subseteq GameHandles
  /\ \A e \in standing : Fits(e) => e \in examined \cup left
  /\ pc \notin {"next", "kill"} => left = {}

SweepInv == Types /\ Progress

LEMMA InitSweep == Init => SweepInv
<1> SUFFICES ASSUME Init PROVE SweepInv
  OBVIOUS
<1>1. PICK some \in SUBSET {e \in Pid \X Value : kind[e[1]] # "free"} :
        table = [p \in Pid |-> [v \in Value |-> IF <<p, v>> \in some THEN "game" ELSE "none"]]
  BY DEF Init
<1>2. table \in [Pid -> [Value -> Object]]
  BY <1>1 DEF Object
<1>. QED
  BY <1>2 DEF Init, SweepInv, Types, Progress

\* What the other processes do takes a handle out of standing or leaves it.
LEMMA StepOthers == ASSUME SweepInv, Others PROVE SweepInv'
<1> USE DEF SweepInv, Types, Progress, GameHandles, sweep
<1>1. ASSUME NEW p \in Pid, NEW v \in Value, OpenHandle(p, v) PROVE SweepInv'
  <2>1. PICK o \in {"other", IF protected THEN "weak" ELSE "game"} :
          table' = [table EXCEPT ![p][v] = o]
    BY <1>1 DEF OpenHandle
  <2>2. table' \in [Pid -> [Value -> Object]]
    BY <2>1 DEF Object
  <2>3. \A e \in standing : table'[e[1]][e[2]] = table[e[1]][e[2]]
    BY <2>1, <1>1 DEF OpenHandle
  <2>. QED
    BY <1>1, <2>2, <2>3 DEF OpenHandle
<1>2. ASSUME NEW p \in Pid, NEW v \in Value, CloseHandle(p, v) PROVE SweepInv'
  <2>1. table' \in [Pid -> [Value -> Object]]
    BY <1>2 DEF CloseHandle, Object
  <2>2. \A e \in standing' : table'[e[1]][e[2]] = table[e[1]][e[2]]
    BY <1>2 DEF CloseHandle
  <2>. QED
    BY <1>2, <2>1, <2>2 DEF CloseHandle
<1>3. ASSUME NEW p \in Pid, NEW k \in {"user", "system"}, StartProcess(p, k) PROVE SweepInv'
  BY <1>3 DEF StartProcess
<1>4. ASSUME NEW p \in Pid, ExitProcess(p) PROVE SweepInv'
  <2>1. table' \in [Pid -> [Value -> Object]]
    BY <1>4 DEF ExitProcess, Object
  <2>2. \A e \in standing' : /\ table'[e[1]][e[2]] = table[e[1]][e[2]]
                             /\ kind'[e[1]] = kind[e[1]]
    BY <1>4 DEF ExitProcess
  <2>. QED
    BY <1>4, <2>1, <2>2 DEF ExitProcess
<1>. QED
  BY <1>1, <1>2, <1>3, <1>4 DEF Others

\* What the thread does takes an entry out of left only into examined, unless
\* the entry stands no more.
LEMMA StepSweep == ASSUME SweepInv, ClearOtherProcessHandle \/ NoBuffer PROVE SweepInv'
<1> USE DEF SweepInv, Types, Progress, system
<1>1. CASE QuerySize \/ NoBuffer \/ Grow
  BY <1>1 DEF QuerySize, NoBuffer, Grow, GameHandles
<1>2. CASE Query
  <2>1. standing' \subseteq left'
    BY <1>2 DEF Query, Snapshot, GameHandles, Held
  <2>2. left' \subseteq (Pid \cup {Game}) \X Value
    BY <1>2, GameAssumption DEF Query, Snapshot, Held
  <2>. QED
    BY <1>2, <2>1, <2>2 DEF Query, GameHandles
<1>3. ASSUME NEW e \in left, SkipOwn(e) \/ SkipSystem(e) PROVE SweepInv'
  <2>1. ~(e \in standing /\ Fits(e))
    <3>1. SUFFICES ASSUME e \in standing, Fits(e) PROVE FALSE
      OBVIOUS
    <3>2. Id(e) \in Pid /\ Kind(Id(e)) = "user"
      BY <3>1 DEF GameHandles, Fits, Kind
    <3>. QED
      BY <1>3, <3>2, GameAssumption DEF SkipOwn, SkipSystem
  <2>2. UNCHANGED <<kind, table, pc, cur, standing, examined>> /\ left' = left \ {e}
        /\ pc = "next"
    BY <1>3 DEF SkipOwn, SkipSystem
  <2>. QED
    BY <2>1, <2>2 DEF GameHandles
<1>4. ASSUME NEW e \in left, DumpHandle(e) PROVE SweepInv'
  <2> DEFINE object == Denotes(Id(e), ValueOf(e))
  <2>1. /\ pc = "next" /\ Kind(Id(e)) = "user" /\ left' = left \ {e}
        /\ examined' = IF object = "game" THEN examined \cup {<<Id(e), ValueOf(e)>>} ELSE examined
        /\ \/ pc' = "kill" /\ cur' = Id(e)
           \/ UNCHANGED <<cur, pc>>
        /\ UNCHANGED <<kind, table, standing>>
    BY <1>4 DEF DumpHandle
  <2>2. Id(e) \in Pid
    BY <2>1 DEF Kind
  <2>3. ASSUME e \in standing, Fits(e) PROVE e \in examined'
    <3>1. object = "game" /\ e = <<Id(e), ValueOf(e)>>
      BY <2>3 DEF GameHandles, Fits, Denotes
    <3>. QED
      BY <2>1, <3>1
  <2>4. examined' \subseteq Pid \X Value
    <3>1. object = "game" => ValueOf(e) \in Value
      BY DEF Denotes
    <3>. QED
      BY <2>1, <2>2, <3>1
  <2>. QED
    BY <2>1, <2>2, <2>3, <2>4 DEF GameHandles
<1>5. CASE KillHandle
  <2>1. cur \in Pid /\ cur \in Value
    BY <1>5, NumberAssumption DEF KillHandle
  <2>2. table' \in [Pid -> [Value -> Object]]
    BY <1>5, <2>1 DEF KillHandle, Object
  <2>3. \A e \in standing' : table'[e[1]][e[2]] = table[e[1]][e[2]]
    BY <1>5, <2>1 DEF KillHandle
  <2>. QED
    BY <1>5, <2>2, <2>3 DEF KillHandle, GameHandles
<1>6. CASE SweepEnds
  BY <1>6 DEF SweepEnds, GameHandles
<1>7. CASE WakeUp
  BY <1>7 DEF WakeUp, GameHandles
<1>. QED
  BY <1>1, <1>2, <1>3, <1>4, <1>5, <1>6, <1>7 DEF ClearOtherProcessHandle

\* When a sweep ends, every full handle to the game that an ordinary process
\* has held since the snapshot has been looked at if the entry has room for its
\* id and its value, although entries go stale, ids are reused, handles come
\* and go while the thread works, and larger numbers are taken for others.
THEOREM NothingOverlooked == Spec => []SweepExamines
<1>1. SweepInv => SweepExamines
  BY DEF SweepInv, Progress, SweepExamines
<1>2. SweepInv /\ [Next]_vars => SweepInv'
  <2> SUFFICES ASSUME SweepInv, UNCHANGED vars PROVE SweepInv'
    BY StepOthers, StepSweep DEF Next
  <2>. QED
    BY DEF vars, SweepInv, Types, Progress, GameHandles
<1>. QED
  BY InitSweep, <1>1, <1>2, PTL DEF Spec

-----------------------------------------------------------------------------
(* Types *)

\* The handles of a system are finitely many.
LEMMA SnapshotFinite == Cardinality(Snapshot) \in Nat
<1>1. IsFiniteSet(Pid)
  BY FS_Subset, NumberAssumption, ValueAssumption
<1>2. IsFiniteSet((Pid \cup {Game}) \X Value)
  BY <1>1, FS_AddElement, FS_Product, ValueAssumption
<1>3. IsFiniteSet(Snapshot)
  BY <1>2, FS_Subset, GameAssumption DEF Snapshot, Held
<1>. QED
  BY <1>3, FS_CardinalityType

\* Types, and the entry KillHandle is called for is there exactly then.
THEOREM TypeCorrect == Spec => []TypeOK
<1>1. Init => TypeOK
  <2> SUFFICES ASSUME Init PROVE TypeOK
    OBVIOUS
  <2>1. protected \in BOOLEAN /\ (cur # None <=> pc = "kill")
    BY Zenon DEF Init
  <2>. QED
    BY <2>1, InitSweep DEF Init, SweepInv, Types, TypeOK
<1>2. SweepInv /\ SweepInv' /\ TypeOK /\ [Next]_vars => TypeOK'
  <2> SUFFICES ASSUME SweepInv, SweepInv', TypeOK, [Next]_vars PROVE TypeOK'
    OBVIOUS
  <2>1. protected' \in BOOLEAN
    BY Zenon DEF TypeOK, Next, Others, OpenHandle, CloseHandle, StartProcess, ExitProcess,
                 ClearOtherProcessHandle, QuerySize, Query, Grow, NoBuffer, SkipOwn, SkipSystem,
                 DumpHandle, KillHandle, SweepEnds, WakeUp, vars
  <2>2. pinned' \subseteq Pid
    <3>1. ASSUME NEW e \in left, SkipSystem(e) PROVE pinned' \subseteq Pid
      BY <3>1 DEF SkipSystem, Kind, TypeOK
    <3>2. CASE ~(\E e \in left : SkipSystem(e))
      BY <3>2 DEF TypeOK, Next, Others, OpenHandle, CloseHandle, StartProcess, ExitProcess,
                  ClearOtherProcessHandle, QuerySize, Query, Grow, NoBuffer, SkipOwn,
                  DumpHandle, KillHandle, SweepEnds, WakeUp, vars
    <3>. QED
      BY <3>1, <3>2
  <2>3. room' \in Nat
    <3>1. CASE QuerySize
      BY <3>1, SnapshotFinite DEF QuerySize, TypeOK
    <3>2. CASE Grow
      BY <3>2 DEF Grow, TypeOK
    <3>3. CASE ~QuerySize /\ ~Grow
      BY <3>3 DEF TypeOK, Next, Others, OpenHandle, CloseHandle, StartProcess, ExitProcess, sweep,
                  ClearOtherProcessHandle, Query, NoBuffer, SkipOwn, SkipSystem, DumpHandle,
                  KillHandle, SweepEnds, WakeUp, vars
    <3>. QED
      BY <3>1, <3>2, <3>3
  <2>4. cur' \in Pid \cup {None} /\ (cur' # None <=> pc' = "kill")
    <3>1. ASSUME NEW e \in left, DumpHandle(e)
          PROVE  cur' \in Pid \cup {None} /\ (cur' # None <=> pc' = "kill")
      <4>1. Id(e) \in Pid
        BY <3>1 DEF DumpHandle, Kind
      <4>. QED
        BY <3>1, <4>1, NoneAssumption DEF DumpHandle, TypeOK
    <3>2. CASE KillHandle
      BY <3>2 DEF KillHandle
    <3>3. CASE QuerySize \/ Query \/ Grow \/ NoBuffer \/ SweepEnds \/ WakeUp
      BY <3>3 DEF QuerySize, Query, Grow, NoBuffer, SweepEnds, WakeUp, TypeOK
    <3>4. CASE Others \/ (\E e \in left : SkipOwn(e) \/ SkipSystem(e)) \/ UNCHANGED vars
      BY <3>4 DEF Others, OpenHandle, CloseHandle, StartProcess, ExitProcess, sweep,
                  SkipOwn, SkipSystem, vars, TypeOK
    <3>. QED
      BY <3>1, <3>2, <3>3, <3>4 DEF Next, ClearOtherProcessHandle
  <2>. QED
    BY <2>1, <2>2, <2>3, <2>4 DEF SweepInv, Types, Progress, TypeOK
<1>3. SweepInv /\ [Next]_vars => SweepInv'
  <2> SUFFICES ASSUME SweepInv, UNCHANGED vars PROVE SweepInv'
    BY StepOthers, StepSweep DEF Next
  <2>. QED
    BY DEF vars, SweepInv, Types, Progress, GameHandles
<1>. QED
  BY InitSweep, <1>1, <1>2, <1>3, PTL DEF Spec
=============================================================================
