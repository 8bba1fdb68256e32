--------------------------- MODULE DriverService ---------------------------
(***************************************************************************)
(* How the protected processes load and unload the driver: InstiallDriver, *)
(* UnInstallDriver and OpenDriverHandle of BACKernel, called by DllMain    *)
(* when a game starts and when it ends, and by the exception filter when   *)
(* it crashes.  All games of a machine share one service entry, one driver *)
(* image and one exclusive device, and nothing orders their calls: each    *)
(* call of the service control manager (SCM) is one step here.             *)
(***************************************************************************)
EXTENDS Naturals

CONSTANTS Proc,   \* the protected processes, in turn or at the same time
          Path,   \* the driver files of the games' directories
          None    \* no entry, no process

VARIABLES pc,       \* where each process is
          mode,     \* install, or uninstall on the way out
          path,     \* _driver_full_path of each process
          svc,      \* open service handles: CreateService's, OpenService's
          entry,    \* the service entry: its ImagePath, marked for deletion
          drv,      \* the image: out, in, pending (stop requested), unloading
          image,    \* the file the image was loaded from
          used,     \* the device has been opened since the load
          fresh,    \* the handle was the first since the load
          handle,   \* the process that holds the device handle
          refused,  \* processes whose StartService ran into a failing DriverEntry
          ground,   \* what p found: busy, leftover (entry, no driver), clean
          dirty     \* a process was killed since the driver was last loaded

vars == <<pc, mode, path, svc, entry, drv, image, used, fresh, handle, refused,
          ground, dirty>>

\* What one process remembers, and what the machine does.
self == <<mode, path, fresh, refused, ground>>
machine == <<drv, image, used, handle, dirty>>

Entry == [path : Path, marked : BOOLEAN]

ASSUME NoneAssumption == None \notin Proc \cup Path \cup Entry

TypeOK ==
  /\ pc \in [Proc -> {"idle", "exists", "open_service", "stop", "stopping", "delete",
                      "create", "reopen", "start", "open", "running", "failed", "gone"}]
  /\ mode \in [Proc -> {"install", "uninstall"}]
  /\ path \in [Proc -> Path \cup {None}]
  /\ svc \in [Proc -> SUBSET {"created", "opened"}]
  /\ entry \in Entry \cup {None}
  /\ drv \in {"out", "in", "pending", "unloading"}
  /\ image \in Path
  /\ used \in BOOLEAN /\ dirty \in BOOLEAN
  /\ fresh \in [Proc -> BOOLEAN]
  /\ handle \in Proc \cup {None}
  /\ refused \subseteq Proc
  /\ ground \in [Proc -> {"busy", "leftover", "clean"}]

\* A machine that has not run a game since it was started.
Init ==
  /\ pc = [p \in Proc |-> "idle"]
  /\ mode = [p \in Proc |-> "install"]
  /\ path = [p \in Proc |-> None]
  /\ svc = [p \in Proc |-> {}]
  /\ entry = None
  /\ drv = "out" /\ image \in Path /\ used = FALSE
  /\ fresh = [p \in Proc |-> FALSE]
  /\ handle = None
  /\ refused = {}
  /\ ground = [p \in Proc |-> "busy"]
  /\ dirty = FALSE

Goto(p, l) == pc' = [pc EXCEPT ![p] = l]

-----------------------------------------------------------------------------
(* The service control manager and the I/O manager *)

\* The entry after a call: a marked one goes with its last handle once the
\* driver is out.
Kept(e, handles, driver) ==
  IF e # None /\ e.marked /\ driver = "out" /\ \A p \in Proc : handles[p] = {}
  THEN None ELSE e

Close(p, h) ==
  /\ svc' = [svc EXCEPT ![p] = @ \ h]
  /\ entry' = Kept(entry, svc', drv)

\* DriverUnload has returned.
Unloaded ==
  /\ drv = "unloading"
  /\ drv' = "out"
  /\ entry' = Kept(entry, svc, "out")
  /\ UNCHANGED <<pc, self, svc, image, used, handle, dirty>>

-----------------------------------------------------------------------------
(* UnInstallDriver *)

\* Where the caller goes on: InstiallDriver does not look at the result.
AfterUninstall(p) == IF mode[p] = "install" THEN "create" ELSE "gone"

ServiceExists(p) ==
  /\ pc[p] = "exists"
  /\ Goto(p, IF entry = None THEN AfterUninstall(p) ELSE "open_service")
  /\ UNCHANGED <<self, svc, entry, machine>>

OpenService(p) ==
  /\ pc[p] = "open_service"
  /\ IF entry = None
     THEN Goto(p, AfterUninstall(p)) /\ UNCHANGED svc
     ELSE Goto(p, "stop") /\ svc' = [svc EXCEPT ![p] = @ \cup {"opened"}]
  /\ UNCHANGED <<self, entry, machine>>

\* SERVICE_CONTROL_STOP waits for DriverUnload, or is deferred until the
\* device handle is closed; both succeed.
Stop(p) ==
  /\ pc[p] = "stop" /\ drv = "in"
  /\ drv' = IF handle = None THEN "unloading" ELSE "pending"
  /\ Goto(p, IF handle = None THEN "stopping" ELSE "delete")
  /\ UNCHANGED <<self, svc, entry, image, used, handle, dirty>>

Stopped(p) ==
  /\ pc[p] = "stopping" /\ drv # "unloading"
  /\ Goto(p, "delete")
  /\ UNCHANGED <<self, svc, entry, machine>>

\* The driver is not running: UnInstallDriver returns before DeleteService.
StopFails(p) ==
  /\ pc[p] = "stop" /\ drv # "in"
  /\ Goto(p, AfterUninstall(p))
  /\ Close(p, {"opened"})
  /\ UNCHANGED <<self, machine>>

\* Mutant: the service handle is not closed.
DeleteService_Leaks(p) ==
  /\ pc[p] = "delete"
  /\ entry' = IF entry = None THEN None ELSE [entry EXCEPT !.marked = TRUE]
  /\ Goto(p, AfterUninstall(p))
  /\ UNCHANGED <<self, svc, machine>>

DeleteService(p) ==
  /\ pc[p] = "delete"
  /\ svc' = [svc EXCEPT ![p] = @ \ {"opened"}]
  /\ entry' = Kept([entry EXCEPT !.marked = TRUE], svc', drv)
  /\ Goto(p, AfterUninstall(p))
  /\ UNCHANGED <<self, machine>>

-----------------------------------------------------------------------------
(* InstiallDriver *)

\* What a process finds when it begins to install.
Ground(p) ==
  IF drv = "unloading" \/ \E q \in Proc \ {p} : pc[q] # "idle" THEN "busy"
  ELSE IF entry # None /\ drv = "out" THEN "leftover" ELSE "clean"

\* Mutant: InstiallDriver does not try to uninstall first.
StartGame_NoUninstall(p) ==
  /\ pc[p] = "idle"
  /\ \E f \in Path : path' = [path EXCEPT ![p] = f]
  /\ ground' = [q \in Proc |-> IF q = p THEN Ground(p)
                               ELSE IF pc[q] = "running" THEN ground[q] ELSE "busy"]
  /\ Goto(p, "create")
  /\ UNCHANGED <<mode, svc, entry, fresh, refused, machine>>

\* DllMain, InstiallDriver; from now on nobody who installs is alone.
StartGame(p) ==
  /\ pc[p] = "idle"
  /\ \E f \in Path : path' = [path EXCEPT ![p] = f]
  /\ ground' = [q \in Proc |-> IF q = p THEN Ground(p)
                               ELSE IF pc[q] = "running" THEN ground[q] ELSE "busy"]
  /\ Goto(p, "exists")
  /\ UNCHANGED <<mode, svc, entry, fresh, refused, machine>>

\* CreateService fails, unnoticed, when there is an entry, marked or not;
\* its handle is overwritten by OpenService's and never closed.
CreateService(p) ==
  /\ pc[p] = "create"
  /\ IF entry = None
     THEN /\ entry' = [path |-> path[p], marked |-> FALSE]
          /\ svc' = [svc EXCEPT ![p] = {"created"}]
     ELSE UNCHANGED <<entry, svc>>
  /\ Goto(p, "reopen")
  /\ UNCHANGED <<self, machine>>

ReopenService(p) ==
  /\ pc[p] = "reopen"
  /\ svc' = [svc EXCEPT ![p] = IF entry = None THEN @ ELSE @ \cup {"opened"}]
  /\ Goto(p, "start")
  /\ UNCHANGED <<self, entry, machine>>

CanStart(p) == "opened" \in svc[p] /\ ~entry.marked /\ drv = "out"

\* StartService loads the ImagePath of the entry.
StartService(p) ==
  /\ pc[p] = "start" /\ CanStart(p)
  /\ drv' = "in" /\ image' = entry.path /\ used' = FALSE /\ dirty' = FALSE
  /\ svc' = [svc EXCEPT ![p] = @ \ {"opened"}]
  /\ Goto(p, "open")
  /\ UNCHANGED <<self, entry, handle>>

\* It fails, or DriverEntry does; InstiallDriver does not look.
StartServiceFails(p) ==
  /\ pc[p] = "start"
  /\ refused' = IF CanStart(p) THEN refused \cup {p} ELSE refused
  /\ Close(p, {"opened"})
  /\ Goto(p, "open")
  /\ UNCHANGED <<mode, path, fresh, ground, machine>>

OpenDriverHandle(p) ==
  /\ pc[p] = "open" /\ drv = "in" /\ handle = None
  /\ handle' = p
  /\ fresh' = [fresh EXCEPT ![p] = ~used]
  /\ used' = TRUE
  /\ Goto(p, "running")
  /\ UNCHANGED <<mode, path, refused, ground, svc, entry, drv, image, dirty>>

\* BACBaseInitialize throws a const char*, which no catch clause takes.
OpenFails(p) ==
  /\ pc[p] = "open" /\ (drv # "in" \/ handle # None)
  /\ Goto(p, "failed")
  /\ UNCHANGED <<self, svc, entry, machine>>

-----------------------------------------------------------------------------
(* The end of a process *)

\* Mutant: DLL_PROCESS_DETACH does not uninstall.
Uninstall_Skipped(p) ==
  /\ pc[p] \in {"running", "failed"}
  /\ mode' = [mode EXCEPT ![p] = "uninstall"]
  /\ Goto(p, "gone")
  /\ UNCHANGED <<path, fresh, refused, ground, svc, entry, machine>>

\* DLL_PROCESS_DETACH, or UnHandleException after a crash.
Uninstall(p) ==
  /\ pc[p] \in {"running", "failed"}
  /\ mode' = [mode EXCEPT ![p] = "uninstall"]
  /\ Goto(p, "exists")
  /\ UNCHANGED <<path, fresh, refused, ground, svc, entry, machine>>

\* The system closes every handle of the process, its memory goes.
EndProcess(p) ==
  /\ Goto(p, "idle")
  /\ svc' = [svc EXCEPT ![p] = {}]
  /\ IF handle = p
     THEN handle' = None /\ drv' = IF drv = "pending" THEN "unloading" ELSE drv
     ELSE UNCHANGED <<handle, drv>>
  /\ entry' = Kept(entry, svc', drv')
  /\ mode' = [mode EXCEPT ![p] = "install"]
  /\ path' = [path EXCEPT ![p] = None]
  /\ fresh' = [fresh EXCEPT ![p] = FALSE]
  /\ refused' = refused \ {p}
  /\ ground' = [ground EXCEPT ![p] = "busy"]
  /\ UNCHANGED <<image, used>>

\* The uninstall is done, or the exception ends a process that did not
\* get the device, which the loader may do without any further callback.
Exit(p) ==
  /\ pc[p] \in {"gone", "failed"}
  /\ EndProcess(p) /\ UNCHANGED dirty

\* TerminateProcess: no callback runs.
Kill(p) ==
  /\ pc[p] \notin {"idle", "failed"}
  /\ EndProcess(p) /\ dirty' = TRUE

-----------------------------------------------------------------------------
Ends(p) ==
  \/ ServiceExists(p) \/ OpenService(p) \/ Stop(p) \/ Stopped(p) \/ StopFails(p)
  \/ DeleteService(p) \/ CreateService(p) \/ ReopenService(p) \/ StartService(p)
  \/ StartServiceFails(p) \/ OpenDriverHandle(p) \/ OpenFails(p) \/ Exit(p)

Next ==
  \/ Unloaded
  \/ \E p \in Proc : Ends(p) \/ StartGame(p) \/ Uninstall(p) \/ Kill(p)

\* Every call of the SCM returns and DriverUnload ends; a game may run for ever.
Spec ==
  /\ Init /\ [][Next]_vars
  /\ WF_vars(Unloaded)
  /\ \A p \in Proc : WF_vars(Ends(p))

-----------------------------------------------------------------------------
(* Properties *)

\* A game that installs while no other game is on the machine gets a driver
\* loaded for it: BAC relies on it, since a second ProtectProcess on the same
\* image fails.  This holds after a kill or a failed install as well.
LoadedForOwner ==
  \A p \in Proc : pc[p] = "running" /\ ground[p] # "busy" => fresh[p]

\* Its image is the file of its own directory, unless an earlier install was
\* broken off and left an entry without a driver: then the stop fails, the
\* entry stays, and StartService loads the other game's file.
LoadsOwnDriver ==
  \A p \in Proc :
     pc[p] = "running" /\ ground[p] = "clean" /\ handle = p => image = path[p]

\* A game alone on the machine fails to install only when DriverEntry fails,
\* whatever the games before it have left behind.
InstallWorks ==
  \A p \in Proc : pc[p] = "failed" /\ ground[p] # "busy" => p \in refused

\* When the last game has ended, and none was killed, no driver stays
\* loaded, however the installs and uninstalls of the games interleaved.
NothingStays ==
  (\A p \in Proc : pc[p] = "idle") /\ ~dirty => drv \in {"out", "unloading"}
=============================================================================
