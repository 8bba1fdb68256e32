------------------------ MODULE DriverService_proofs ------------------------
(***************************************************************************)
(* Proofs about DriverService, for any number of games and driver files: a *)
(* game that installs alone gets a driver loaded for it, from its own file *)
(* unless an entry was left over, and no driver stays when all games have  *)
(* ended by themselves.                                                    *)
(***************************************************************************)
EXTENDS DriverService, TLAPS

\* Service handles, device handle and modes a process can have where it is.
Holds(p) ==
  /\ pc[p] = "idle" => /\ svc[p] = {} /\ mode[p] = "install" /\ ground[p] = "busy"
  /\ mode[p] = "install" =>
       /\ handle = p => pc[p] = "running"
       /\ pc[p] # "gone"
       /\ pc[p] \in {"exists", "open_service", "create"} => svc[p] = {}
       /\ pc[p] \in {"stop", "stopping", "delete"} => svc[p] = {"opened"}
  /\ mode[p] = "uninstall" =>
       pc[p] \in {"exists", "open_service", "stop", "stopping", "delete", "gone"}
  /\ pc[p] \in {"stop", "stopping", "delete"} => "opened" \in svc[p]
  /\ svc[p] # {} => entry # None
  /\ pc[p] # "idle" => path[p] \in Path

\* The machine: a device handle keeps the driver in, and the driver its entry.
Machine ==
  /\ handle # None => drv \in {"in", "pending"}
  /\ drv = "pending" => handle # None
  /\ entry = None => drv = "out"

\* p installs and no other game is on the machine.
Solo(p) == ground[p] # "busy" /\ mode[p] = "install" /\ pc[p] \notin {"idle", "running"}

\* How far a game that installs alone has come.
Install(p) ==
  /\ \A q \in Proc \ {p} : pc[q] = "idle"
  /\ pc[p] \in {"exists", "open_service", "stop"} =>
       drv \in {"in", "out"} /\ (ground[p] = "clean" /\ entry # None => drv = "in")
  /\ pc[p] = "stopping" => drv \in {"unloading", "out"}
  /\ pc[p] = "delete" => drv = "out"
  /\ pc[p] = "create" =>
       drv = "out" /\ (entry # None => ~entry.marked /\ ground[p] # "clean")
  /\ pc[p] \in {"reopen", "start"} =>
       /\ drv = "out" /\ entry # None /\ ~entry.marked
       /\ ground[p] = "clean" => entry.path = path[p]
  /\ pc[p] = "start" => "opened" \in svc[p]
  /\ pc[p] = "open" =>
       \/ drv = "in" /\ ~used /\ (ground[p] = "clean" => image = path[p])
       \/ drv = "out" /\ p \in refused
  /\ pc[p] = "failed" => p \in refused

\* A driver that is in is about to be opened, or held by a game that runs or
\* has not yet come to stop it.
Owned ==
  drv = "in" =>
    \/ dirty
    \/ handle = None /\ \E p \in Proc : pc[p] = "open"
    \/ /\ handle # None
       /\ \/ pc[handle] = "running"
          \/ mode[handle] = "uninstall" /\ pc[handle] \in {"exists", "open_service", "stop"}

ServiceInv ==
  /\ TypeOK /\ Machine /\ Owned
  /\ \A p \in Proc : Holds(p) /\ (Solo(p) => Install(p))
  /\ LoadedForOwner /\ LoadsOwnDriver

-----------------------------------------------------------------------------
(* Every step keeps the invariant: one lemma for each action *)

USE NoneAssumption DEF Goto, vars, self, machine, ServiceInv, TypeOK

LEMMA UnloadedKeeps == ASSUME ServiceInv, Unloaded PROVE ServiceInv'
<1>1. TypeOK'
  BY DEF Unloaded, Kept, Entry
<1>2. Machine'
  BY DEF Unloaded, Kept, Machine, Holds
<1>3. Owned'
  BY DEF Unloaded, Kept, Owned, Machine, Holds
<1>4. ASSUME NEW q \in Proc PROVE Holds(q)'
  BY <1>4 DEF Unloaded, Kept, Machine, Holds
<1>5. ASSUME NEW q \in Proc, Solo(q)' PROVE Install(q)'
  BY <1>5 DEF Unloaded, Kept, Solo, Install, Machine, Holds, Entry
<1>6. LoadedForOwner'
  BY DEF Unloaded, Kept, LoadedForOwner, Machine, Holds, Solo, Install
<1>7. LoadsOwnDriver'
  BY DEF Unloaded, Kept, LoadsOwnDriver, Machine, Holds, Solo, Install
<1>. QED
  BY <1>1, <1>2, <1>3, <1>4, <1>5, <1>6, <1>7

LEMMA ServiceExistsKeeps ==
  ASSUME ServiceInv, NEW p \in Proc, ServiceExists(p) PROVE ServiceInv'
<1>1. TypeOK'
  BY DEF ServiceExists, AfterUninstall, Entry
<1>2. Machine'
  BY DEF ServiceExists, AfterUninstall, Machine, Holds
<1>3. Owned'
  BY DEF ServiceExists, AfterUninstall, Owned, Machine, Holds
<1>4. ASSUME NEW q \in Proc PROVE Holds(q)'
  BY <1>4 DEF ServiceExists, AfterUninstall, Machine, Holds
<1>5. ASSUME NEW q \in Proc, Solo(q)' PROVE Install(q)'
  BY <1>5 DEF ServiceExists, AfterUninstall, Solo, Install, Machine, Holds,
     Entry
<1>6. LoadedForOwner'
  BY DEF ServiceExists, AfterUninstall, LoadedForOwner, Machine, Holds,
     Solo, Install
<1>7. LoadsOwnDriver'
  BY DEF ServiceExists, AfterUninstall, LoadsOwnDriver, Machine, Holds,
     Solo, Install
<1>. QED
  BY <1>1, <1>2, <1>3, <1>4, <1>5, <1>6, <1>7

LEMMA OpenServiceKeeps ==
  ASSUME ServiceInv, NEW p \in Proc, OpenService(p) PROVE ServiceInv'
<1>1. TypeOK'
  BY DEF OpenService, AfterUninstall, Entry
<1>2. Machine'
  BY DEF OpenService, AfterUninstall, Machine, Holds
<1>3. Owned'
  BY DEF OpenService, AfterUninstall, Owned, Machine, Holds
<1>4. ASSUME NEW q \in Proc PROVE Holds(q)'
  BY <1>4 DEF OpenService, AfterUninstall, Machine, Holds
<1>5. ASSUME NEW q \in Proc, Solo(q)' PROVE Install(q)'
  BY <1>5 DEF OpenService, AfterUninstall, Solo, Install, Machine, Holds,
     Entry
<1>6. LoadedForOwner'
  BY DEF OpenService, AfterUninstall, LoadedForOwner, Machine, Holds, Solo,
     Install
<1>7. LoadsOwnDriver'
  BY DEF OpenService, AfterUninstall, LoadsOwnDriver, Machine, Holds, Solo,
     Install
<1>. QED
  BY <1>1, <1>2, <1>3, <1>4, <1>5, <1>6, <1>7

LEMMA StopKeeps ==
  ASSUME ServiceInv, NEW p \in Proc, Stop(p) PROVE ServiceInv'
<1>1. TypeOK'
  BY DEF Stop, Entry
<1>2. Machine'
  BY DEF Stop, Machine, Holds
<1>3. Owned'
  BY DEF Stop, Owned, Machine, Holds
<1>4. ASSUME NEW q \in Proc PROVE Holds(q)'
  BY <1>4 DEF Stop, Machine, Holds
<1>5. ASSUME NEW q \in Proc, Solo(q)' PROVE Install(q)'
  BY <1>5 DEF Stop, Solo, Install, Machine, Holds, Entry
<1>6. LoadedForOwner'
  BY DEF Stop, LoadedForOwner, Machine, Holds, Solo, Install
<1>7. LoadsOwnDriver'
  BY DEF Stop, LoadsOwnDriver, Machine, Holds, Solo, Install
<1>. QED
  BY <1>1, <1>2, <1>3, <1>4, <1>5, <1>6, <1>7

LEMMA StoppedKeeps ==
  ASSUME ServiceInv, NEW p \in Proc, Stopped(p) PROVE ServiceInv'
<1>1. TypeOK'
  BY DEF Stopped, Entry
<1>2. Machine'
  BY DEF Stopped, Machine, Holds
<1>3. Owned'
  BY DEF Stopped, Owned, Machine, Holds
<1>4. ASSUME NEW q \in Proc PROVE Holds(q)'
  BY <1>4 DEF Stopped, Machine, Holds
<1>5. ASSUME NEW q \in Proc, Solo(q)' PROVE Install(q)'
  BY <1>5 DEF Stopped, Solo, Install, Machine, Holds, Entry
<1>6. LoadedForOwner'
  BY DEF Stopped, LoadedForOwner, Machine, Holds, Solo, Install
<1>7. LoadsOwnDriver'
  BY DEF Stopped, LoadsOwnDriver, Machine, Holds, Solo, Install
<1>. QED
  BY <1>1, <1>2, <1>3, <1>4, <1>5, <1>6, <1>7

LEMMA StopFailsKeeps ==
  ASSUME ServiceInv, NEW p \in Proc, StopFails(p) PROVE ServiceInv'
<1>1. TypeOK'
  BY DEF StopFails, AfterUninstall, Close, Kept, Entry
<1>2. Machine'
  BY DEF StopFails, AfterUninstall, Close, Kept, Machine, Holds
<1>3. Owned'
  BY DEF StopFails, AfterUninstall, Close, Kept, Owned, Machine, Holds
<1>4. ASSUME NEW q \in Proc PROVE Holds(q)'
  BY <1>4 DEF StopFails, AfterUninstall, Close, Kept, Machine, Holds
<1>5. ASSUME NEW q \in Proc, Solo(q)' PROVE Install(q)'
  BY <1>5 DEF StopFails, AfterUninstall, Close, Kept, Solo, Install,
     Machine, Holds, Entry
<1>6. LoadedForOwner'
  BY DEF StopFails, AfterUninstall, Close, Kept, LoadedForOwner, Machine,
     Holds, Solo, Install
<1>7. LoadsOwnDriver'
  BY DEF StopFails, AfterUninstall, Close, Kept, LoadsOwnDriver, Machine,
     Holds, Solo, Install
<1>. QED
  BY <1>1, <1>2, <1>3, <1>4, <1>5, <1>6, <1>7

LEMMA DeleteServiceKeeps ==
  ASSUME ServiceInv, NEW p \in Proc, DeleteService(p) PROVE ServiceInv'
<1>0. entry # None /\ [entry EXCEPT !.marked = TRUE] \in Entry
  BY DEF DeleteService, Holds, Entry
<1>1. TypeOK'
  BY <1>0 DEF DeleteService, AfterUninstall, Kept, Entry
<1>2. Machine'
  BY <1>0 DEF DeleteService, AfterUninstall, Kept, Machine, Holds
<1>3. Owned'
  BY <1>0 DEF DeleteService, AfterUninstall, Kept, Owned, Machine, Holds
<1>4. ASSUME NEW q \in Proc PROVE Holds(q)'
  BY <1>0, <1>4 DEF DeleteService, AfterUninstall, Kept, Machine, Holds
<1>5. ASSUME NEW q \in Proc, Solo(q)' PROVE Install(q)'
  BY <1>0, <1>5 DEF DeleteService, AfterUninstall, Kept, Solo, Install,
     Machine, Holds, Entry
<1>6. LoadedForOwner'
  BY <1>0 DEF DeleteService, AfterUninstall, Kept, LoadedForOwner, Machine,
     Holds, Solo, Install
<1>7. LoadsOwnDriver'
  BY <1>0 DEF DeleteService, AfterUninstall, Kept, LoadsOwnDriver, Machine,
     Holds, Solo, Install
<1>. QED
  BY <1>1, <1>2, <1>3, <1>4, <1>5, <1>6, <1>7

LEMMA StartGameKeeps ==
  ASSUME ServiceInv, NEW p \in Proc, StartGame(p) PROVE ServiceInv'
<1>1. TypeOK'
  BY DEF StartGame, Ground, Entry
<1>2. Machine'
  BY DEF StartGame, Ground, Machine, Holds
<1>3. Owned'
  BY DEF StartGame, Ground, Owned, Machine, Holds
<1>4. ASSUME NEW q \in Proc PROVE Holds(q)'
  BY <1>4 DEF StartGame, Ground, Machine, Holds
<1>5. ASSUME NEW q \in Proc, Solo(q)' PROVE Install(q)'
  BY <1>5 DEF StartGame, Ground, Solo, Install, Machine, Holds, Entry
<1>6. LoadedForOwner'
  BY DEF StartGame, Ground, LoadedForOwner, Machine, Holds, Solo, Install
<1>7. LoadsOwnDriver'
  BY DEF StartGame, Ground, LoadsOwnDriver, Machine, Holds, Solo, Install
<1>. QED
  BY <1>1, <1>2, <1>3, <1>4, <1>5, <1>6, <1>7

LEMMA CreateServiceKeeps ==
  ASSUME ServiceInv, NEW p \in Proc, CreateService(p) PROVE ServiceInv'
<1>0. [path |-> path[p], marked |-> FALSE] \in Entry
  BY DEF CreateService, Holds, Entry
<1>1. TypeOK'
  <2>1. svc' \in [Proc -> SUBSET {"created", "opened"}]
    BY DEF CreateService
  <2>2. entry' \in Entry \cup {None}
    <3>1. CASE entry = None
      <4>1. entry' = [path |-> path[p], marked |-> FALSE]
        BY <3>1 DEF CreateService
      <4>. QED
        BY <1>0, <4>1, Zenon
    <3>2. CASE entry # None
      BY <3>2 DEF CreateService
    <3>. QED
      BY <3>1, <3>2
  <2>. QED
    BY <2>1, <2>2 DEF CreateService
<1>2. Machine'
  BY <1>0 DEF CreateService, Machine, Holds
<1>3. Owned'
  BY <1>0 DEF CreateService, Owned, Machine, Holds
<1>4. ASSUME NEW q \in Proc PROVE Holds(q)'
  BY <1>0, <1>4 DEF CreateService, Machine, Holds
<1>5. ASSUME NEW q \in Proc, Solo(q)' PROVE Install(q)'
  <2>1. CASE entry = None
    <3>1. entry' = [path |-> path[p], marked |-> FALSE] /\ entry' # None
      BY <1>0, <2>1 DEF CreateService
    <3>. QED
      BY <1>5, <3>1 DEF CreateService, Solo, Install, Holds
  <2>2. CASE entry # None
    <3>1. q = p
      BY <1>5 DEF CreateService, Solo, Install, Holds
    <3>2. drv = "out" /\ ~entry.marked /\ ground[p] # "clean"
      BY <1>5, <2>2, <3>1 DEF CreateService, Solo, Install
    <3>. QED
      BY <1>5, <2>2, <3>1, <3>2 DEF CreateService, Solo, Install
  <2>. QED
    BY <2>1, <2>2
<1>6. LoadedForOwner'
  BY <1>0 DEF CreateService, LoadedForOwner, Machine, Holds, Solo, Install
<1>7. LoadsOwnDriver'
  BY <1>0 DEF CreateService, LoadsOwnDriver, Machine, Holds, Solo, Install
<1>. QED
  BY <1>1, <1>2, <1>3, <1>4, <1>5, <1>6, <1>7

LEMMA ReopenServiceKeeps ==
  ASSUME ServiceInv, NEW p \in Proc, ReopenService(p) PROVE ServiceInv'
<1>1. TypeOK'
  BY DEF ReopenService, Entry
<1>2. Machine'
  BY DEF ReopenService, Machine, Holds
<1>3. Owned'
  BY DEF ReopenService, Owned, Machine, Holds
<1>4. ASSUME NEW q \in Proc PROVE Holds(q)'
  BY <1>4 DEF ReopenService, Machine, Holds
<1>5. ASSUME NEW q \in Proc, Solo(q)' PROVE Install(q)'
  BY <1>5 DEF ReopenService, Solo, Install, Machine, Holds, Entry
<1>6. LoadedForOwner'
  BY DEF ReopenService, LoadedForOwner, Machine, Holds, Solo, Install
<1>7. LoadsOwnDriver'
  BY DEF ReopenService, LoadsOwnDriver, Machine, Holds, Solo, Install
<1>. QED
  BY <1>1, <1>2, <1>3, <1>4, <1>5, <1>6, <1>7

LEMMA StartServiceKeeps ==
  ASSUME ServiceInv, NEW p \in Proc, StartService(p) PROVE ServiceInv'
<1>0. entry # None /\ entry.path \in Path
  BY DEF StartService, CanStart, Holds, Entry
<1>1. TypeOK'
  BY <1>0 DEF StartService, CanStart, Entry
<1>2. Machine'
  BY <1>0 DEF StartService, CanStart, Machine, Holds
<1>3. Owned'
  BY <1>0 DEF StartService, CanStart, Owned, Machine, Holds
<1>4. ASSUME NEW q \in Proc PROVE Holds(q)'
  BY <1>0, <1>4 DEF StartService, CanStart, Machine, Holds
<1>5. ASSUME NEW q \in Proc, Solo(q)' PROVE Install(q)'
  BY <1>0, <1>5 DEF StartService, CanStart, Solo, Install, Machine, Holds,
     Entry
<1>6. LoadedForOwner'
  BY <1>0 DEF StartService, CanStart, LoadedForOwner, Machine, Holds, Solo,
     Install
<1>7. LoadsOwnDriver'
  BY <1>0 DEF StartService, CanStart, LoadsOwnDriver, Machine, Holds, Solo,
     Install
<1>. QED
  BY <1>1, <1>2, <1>3, <1>4, <1>5, <1>6, <1>7

LEMMA StartServiceFailsKeeps ==
  ASSUME ServiceInv, NEW p \in Proc, StartServiceFails(p) PROVE ServiceInv'
<1>1. TypeOK'
  BY DEF StartServiceFails, CanStart, Close, Kept, Entry
<1>2. Machine'
  BY DEF StartServiceFails, CanStart, Close, Kept, Machine, Holds
<1>3. Owned'
  BY DEF StartServiceFails, CanStart, Close, Kept, Owned, Machine, Holds
<1>4. ASSUME NEW q \in Proc PROVE Holds(q)'
  BY <1>4 DEF StartServiceFails, CanStart, Close, Kept, Machine, Holds
<1>5. ASSUME NEW q \in Proc, Solo(q)' PROVE Install(q)'
  BY <1>5 DEF StartServiceFails, CanStart, Close, Kept, Solo, Install,
     Machine, Holds, Entry
<1>6. LoadedForOwner'
  BY DEF StartServiceFails, CanStart, Close, Kept, LoadedForOwner, Machine,
     Holds, Solo, Install
<1>7. LoadsOwnDriver'
  BY DEF StartServiceFails, CanStart, Close, Kept, LoadsOwnDriver, Machine,
     Holds, Solo, Install
<1>. QED
  BY <1>1, <1>2, <1>3, <1>4, <1>5, <1>6, <1>7

LEMMA OpenDriverHandleKeeps ==
  ASSUME ServiceInv, NEW p \in Proc, OpenDriverHandle(p) PROVE ServiceInv'
<1>1. TypeOK'
  BY DEF OpenDriverHandle, Entry
<1>2. Machine'
  BY DEF OpenDriverHandle, Machine, Holds
<1>3. Owned'
  BY DEF OpenDriverHandle, Owned, Machine, Holds
<1>4. ASSUME NEW q \in Proc PROVE Holds(q)'
  BY <1>4 DEF OpenDriverHandle, Machine, Holds
<1>5. ASSUME NEW q \in Proc, Solo(q)' PROVE Install(q)'
  BY <1>5 DEF OpenDriverHandle, Solo, Install, Machine, Holds, Entry
<1>6. LoadedForOwner'
  BY DEF OpenDriverHandle, LoadedForOwner, Machine, Holds, Solo, Install
<1>7. LoadsOwnDriver'
  BY DEF OpenDriverHandle, LoadsOwnDriver, Machine, Holds, Solo, Install
<1>. QED
  BY <1>1, <1>2, <1>3, <1>4, <1>5, <1>6, <1>7

LEMMA OpenFailsKeeps ==
  ASSUME ServiceInv, NEW p \in Proc, OpenFails(p) PROVE ServiceInv'
<1>1. TypeOK'
  BY DEF OpenFails, Entry
<1>2. Machine'
  BY DEF OpenFails, Machine, Holds
<1>3. Owned'
  BY DEF OpenFails, Owned, Machine, Holds
<1>4. ASSUME NEW q \in Proc PROVE Holds(q)'
  BY <1>4 DEF OpenFails, Machine, Holds
<1>5. ASSUME NEW q \in Proc, Solo(q)' PROVE Install(q)'
  BY <1>5 DEF OpenFails, Solo, Install, Machine, Holds, Entry
<1>6. LoadedForOwner'
  BY DEF OpenFails, LoadedForOwner, Machine, Holds, Solo, Install
<1>7. LoadsOwnDriver'
  BY DEF OpenFails, LoadsOwnDriver, Machine, Holds, Solo, Install
<1>. QED
  BY <1>1, <1>2, <1>3, <1>4, <1>5, <1>6, <1>7

LEMMA UninstallKeeps ==
  ASSUME ServiceInv, NEW p \in Proc, Uninstall(p) PROVE ServiceInv'
<1>1. TypeOK'
  BY DEF Uninstall, Entry
<1>2. Machine'
  BY DEF Uninstall, Machine, Holds
<1>3. Owned'
  BY DEF Uninstall, Owned, Machine, Holds
<1>4. ASSUME NEW q \in Proc PROVE Holds(q)'
  BY <1>4 DEF Uninstall, Machine, Holds
<1>5. ASSUME NEW q \in Proc, Solo(q)' PROVE Install(q)'
  BY <1>5 DEF Uninstall, Solo, Install, Machine, Holds, Entry
<1>6. LoadedForOwner'
  BY DEF Uninstall, LoadedForOwner, Machine, Holds, Solo, Install
<1>7. LoadsOwnDriver'
  BY DEF Uninstall, LoadsOwnDriver, Machine, Holds, Solo, Install
<1>. QED
  BY <1>1, <1>2, <1>3, <1>4, <1>5, <1>6, <1>7

LEMMA ExitKeeps ==
  ASSUME ServiceInv, NEW p \in Proc, Exit(p) PROVE ServiceInv'
<1>1. TypeOK'
  BY DEF Exit, EndProcess, Kept, Entry
<1>2. Machine'
  BY DEF Exit, EndProcess, Kept, Machine, Holds
<1>3. Owned'
  BY DEF Exit, EndProcess, Kept, Owned, Machine, Holds
<1>4. ASSUME NEW q \in Proc PROVE Holds(q)'
  BY <1>4 DEF Exit, EndProcess, Kept, Machine, Holds
<1>5. ASSUME NEW q \in Proc, Solo(q)' PROVE Install(q)'
  BY <1>5 DEF Exit, EndProcess, Kept, Solo, Install, Machine, Holds, Entry
<1>6. LoadedForOwner'
  BY DEF Exit, EndProcess, Kept, LoadedForOwner, Machine, Holds, Solo,
     Install
<1>7. LoadsOwnDriver'
  BY DEF Exit, EndProcess, Kept, LoadsOwnDriver, Machine, Holds, Solo,
     Install
<1>. QED
  BY <1>1, <1>2, <1>3, <1>4, <1>5, <1>6, <1>7

LEMMA KillKeeps ==
  ASSUME ServiceInv, NEW p \in Proc, Kill(p) PROVE ServiceInv'
<1>1. TypeOK'
  BY DEF Kill, EndProcess, Kept, Entry
<1>2. Machine'
  BY DEF Kill, EndProcess, Kept, Machine, Holds
<1>3. Owned'
  BY DEF Kill, EndProcess, Kept, Owned, Machine, Holds
<1>4. ASSUME NEW q \in Proc PROVE Holds(q)'
  BY <1>4 DEF Kill, EndProcess, Kept, Machine, Holds
<1>5. ASSUME NEW q \in Proc, Solo(q)' PROVE Install(q)'
  BY <1>5 DEF Kill, EndProcess, Kept, Solo, Install, Machine, Holds, Entry
<1>6. LoadedForOwner'
  BY DEF Kill, EndProcess, Kept, LoadedForOwner, Machine, Holds, Solo,
     Install
<1>7. LoadsOwnDriver'
  BY DEF Kill, EndProcess, Kept, LoadsOwnDriver, Machine, Holds, Solo,
     Install
<1>. QED
  BY <1>1, <1>2, <1>3, <1>4, <1>5, <1>6, <1>7

HIDE NoneAssumption DEF Goto, vars, self, machine, ServiceInv, TypeOK

LEMMA InitKeeps == Init => ServiceInv
<1> SUFFICES ASSUME Init PROVE ServiceInv
  OBVIOUS
<1>1. TypeOK
  BY DEF Init, TypeOK
<1>2. Machine /\ Owned /\ LoadedForOwner /\ LoadsOwnDriver
  BY DEF Init, Machine, Owned, LoadedForOwner, LoadsOwnDriver
<1>3. ASSUME NEW p \in Proc PROVE Holds(p) /\ (Solo(p) => Install(p))
  BY <1>3, NoneAssumption DEF Init, Holds, Solo
<1>. QED
  BY <1>1, <1>2, <1>3 DEF ServiceInv

LEMMA NextKeeps == ServiceInv /\ [Next]_vars => ServiceInv'
<1> SUFFICES ASSUME ServiceInv, [Next]_vars PROVE ServiceInv'
  OBVIOUS
<1>1. CASE Unloaded
  BY <1>1, UnloadedKeeps
<1>2. ASSUME NEW p \in Proc, Ends(p) \/ StartGame(p) \/ Uninstall(p) \/ Kill(p)
      PROVE  ServiceInv'
  BY <1>2, ServiceExistsKeeps, OpenServiceKeeps, StopKeeps, StoppedKeeps,
     StopFailsKeeps, DeleteServiceKeeps, StartGameKeeps,
     CreateServiceKeeps, ReopenServiceKeeps, StartServiceKeeps,
     StartServiceFailsKeeps, OpenDriverHandleKeeps, OpenFailsKeeps,
     UninstallKeeps, ExitKeeps, KillKeeps DEF Ends
<1>3. CASE UNCHANGED vars
  BY <1>3 DEF vars, ServiceInv, TypeOK, Machine, Owned, Holds, Solo, Install,
              LoadedForOwner, LoadsOwnDriver
<1>. QED
  BY <1>1, <1>2, <1>3 DEF Next

LEMMA InvariantHolds == Spec => []ServiceInv
  BY InitKeeps, NextKeeps, PTL DEF Spec

-----------------------------------------------------------------------------
(* What follows from it *)

\* Every variable keeps its type, whatever the games do.
THEOREM TypeCorrect == Spec => []TypeOK
<1>1. ServiceInv => TypeOK
  BY DEF ServiceInv
<1>. QED
  BY <1>1, InvariantHolds, PTL

\* Of any number of games, one that installs alone is the first to open the
\* driver since it was loaded (BACKernel::InstiallDriver).
THEOREM LoadedForOwnerHolds == Spec => []LoadedForOwner
<1>1. ServiceInv => LoadedForOwner
  BY DEF ServiceInv
<1>. QED
  BY <1>1, InvariantHolds, PTL

\* And the driver is the file of its own directory, unless it found an entry
\* another game had left.
THEOREM OwnDriverLoaded == Spec => []LoadsOwnDriver
<1>1. ServiceInv => LoadsOwnDriver
  BY DEF ServiceInv
<1>. QED
  BY <1>1, InvariantHolds, PTL

\* A game that installs alone fails only if DriverEntry does.
THEOREM InstallAloneWorks == Spec => []InstallWorks
<1>1. ServiceInv => InstallWorks
  BY DEF ServiceInv, InstallWorks, TypeOK, Solo, Install, Holds
<1>. QED
  BY <1>1, InvariantHolds, PTL

\* When all games have ended and none was killed, no driver stays loaded.
THEOREM NoDriverStays == Spec => []NothingStays
<1>1. ServiceInv => NothingStays
  BY NoneAssumption DEF ServiceInv, TypeOK, NothingStays, Machine, Owned, Holds
<1>. QED
  BY <1>1, InvariantHolds, PTL

=============================================================================
