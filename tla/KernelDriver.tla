---------------------------- MODULE KernelDriver ----------------------------
(***************************************************************************)
(* The driver BAC-Base-Kernel from DriverEntry to DriverUnload: the global *)
(* object bac, the protected-process list and object callbacks it owns,    *)
(* its loop threads and its IO timer, the requests of BAC-Base and the     *)
(* game processes behind them.                                             *)
(*                                                                         *)
(* The device is exclusive and BAC-Base opens it synchronously, so there   *)
(* is one handle and its requests never overlap.  DriverUnload runs when a *)
(* stop was requested and the handle is closed.  What overlaps with it and *)
(* with the requests are the loop threads, which share bac without a lock. *)
(***************************************************************************)
EXTENDS Naturals, Sequences, FiniteSets, SequencesExt

CONSTANTS Pid,            \* process ids, reused
          LoopThread,     \* bound: loop threads over the life of one image
          None            \* no process

ASSUME NoneAssumption == None \notin Pid
ASSUME ThreadAssumption == "unload" \notin LoopThread

VARIABLES proc,       \* what runs under each process id
          drv,        \* unloaded, loaded, pending (stop requested), unloading,
                      \* or stuck: a failed load has left the device behind
          unload,     \* where DriverUnload is
          bac,        \* the BACBase object: null, live or freed
          status,     \* _kernel_loop_event_status
          timer,      \* the device exists, its IO timer ticks
          handle,     \* the process that holds the device handle
          opened,     \* the device has been opened since the load
          reopened,   \* and by a second process, history
          stage,      \* what the holder's BACBaseInitialize has done so far
          list,       \* the process ids on _protect_process_list
          registered, \* _callbacks_handle # NULL: the callbacks are in force
          event,      \* _file_event_handle points at an event object
          thread,     \* where each loop thread is
          sleepers,   \* who sleeps, in the order they fell asleep
          promised,   \* running processes ProtectProcess returned success for
          disorder,   \* a sleeper has woken before one that slept earlier, history
          caught,     \* loop threads past their test when the status was cleared
          late,       \* loop threads awake but not gone when DriverUnload woke up
          crash       \* why the system stopped: none, debugger, event, thread, timer

vars == <<proc, drv, unload, bac, status, timer, handle, opened, reopened,
          stage, list, registered, event, thread, sleepers, disorder, promised,
          caught, late, crash>>

irp == <<handle, opened, reopened, stage>>
protect == <<list, registered, promised>>
loop == <<event, thread, sleepers, disorder, caught, late>>
image == <<drv, unload, bac, status, timer>>

Up == crash = "none"

TypeOK ==
  /\ proc \in [Pid -> {"free", "game", "other"}]
  /\ drv \in {"unloaded", "loaded", "pending", "unloading", "stuck"}
  /\ unload \in {"none", "sleep", "device", "list"}
  /\ bac \in {"null", "live", "freed"}
  /\ status \in BOOLEAN /\ timer \in BOOLEAN
  /\ handle \in Pid \cup {None}
  /\ opened \in BOOLEAN /\ reopened \in BOOLEAN /\ disorder \in BOOLEAN
  /\ stage \in {"none", "open", "protected", "ready", "failed"}
  /\ list \subseteq Pid /\ registered \in BOOLEAN
  /\ event \in BOOLEAN
  /\ thread \in [LoopThread -> {"none", "check", "walk", "sleep", "ending", "orphan"}]
  /\ sleepers \in Seq(LoopThread \cup {"unload"})
  /\ promised \subseteq Pid
  /\ caught \subseteq LoopThread /\ late \subseteq LoopThread
  /\ crash \in {"none", "debugger", "event", "thread", "timer"}

Init ==
  /\ proc = [p \in Pid |-> "free"]
  /\ drv = "unloaded" /\ unload = "none"
  /\ bac = "null" /\ status = FALSE /\ timer = FALSE
  /\ handle = None /\ opened = FALSE /\ reopened = FALSE /\ stage = "none"
  /\ list = {} /\ registered = FALSE /\ promised = {}
  /\ event = FALSE
  /\ thread = [t \in LoopThread |-> "none"]
  /\ sleepers = <<>> /\ disorder = FALSE
  /\ caught = {} /\ late = {}
  /\ crash = "none"

\* The processes with the game's name.
Games == {p \in Pid : proc[p] = "game"}

-----------------------------------------------------------------------------
(* Processes and the service control manager *)

StartProcess(p, kind) ==
  /\ Up /\ proc[p] = "free"
  /\ proc' = [proc EXCEPT ![p] = kind]
  /\ UNCHANGED <<image, irp, protect, loop, crash>>

\* Exit or kill; the system closes the process's handles.
ExitProcess(p) ==
  /\ Up /\ proc[p] # "free"
  /\ proc' = [proc EXCEPT ![p] = "free"]
  /\ promised' = promised \ {p}
  /\ IF handle = p THEN handle' = None /\ stage' = "none"
                   ELSE UNCHANGED <<handle, stage>>
  /\ UNCHANGED <<image, opened, reopened, list, registered, loop, crash>>

StopService ==
  /\ Up /\ drv = "loaded"
  /\ drv' = "pending"
  /\ UNCHANGED <<proc, unload, bac, status, timer, irp, protect, loop, crash>>

-----------------------------------------------------------------------------
(* DriverEntry *)

\* The device, the link, the object and the timer.  The system refuses to
\* open the device before DriverEntry returns, and the timer starts last, so
\* nobody sees a part of it.  Where the device or the link cannot be created
\* nothing is left either.
DriverEntry ==
  /\ Up /\ drv = "unloaded"
  /\ drv' = "loaded"
  /\ bac' = "live" /\ status' = TRUE
  /\ list' = {} /\ registered' = FALSE /\ event' = FALSE
  /\ timer' = TRUE
  /\ opened' = FALSE /\ reopened' = FALSE
  /\ UNCHANGED <<proc, unload, handle, stage, promised, thread, sleepers, disorder, caught, late,
                 crash>>

\* IoInitializeTimer fails and IoStartTimer is called all the same, on a device
\* without a timer.  Where the system survives that, device, link and object
\* are left and the image goes: no later load can create the device.
DriverEntryNoTimer ==
  /\ Up /\ drv = "unloaded"
  /\ \/ crash' = "timer" /\ UNCHANGED drv
     \/ drv' = "stuck" /\ UNCHANGED crash
  /\ UNCHANGED <<proc, unload, bac, status, timer, irp, protect, loop>>

-----------------------------------------------------------------------------
(* BACDispatchRoutine: the requests of BACBaseInitialize, in its order *)

OpenDevice(p) ==
  /\ Up /\ drv = "loaded" /\ handle = None
  /\ proc[p] = "game"
  /\ handle' = p /\ stage' = "open"
  /\ opened' = TRUE /\ reopened' = opened
  /\ UNCHANGED <<proc, image, protect, loop, crash>>

\* Mutant: success is returned although nothing was registered.
Register_Skipped(ok) == UNCHANGED registered

\* RegisterProtectProcessCallbacks: a second registration collides with the
\* altitude of the first, which the error path then takes down.
Register(ok) ==
  /\ ok => ~registered
  /\ registered' = ok

\* ProtectProcess: every process of the name goes on the list, then the
\* callbacks are registered.
ProtectProcess ==
  /\ Up /\ stage = "open"
  /\ list' = list \cup Games
  /\ \E ok \in BOOLEAN :
       /\ Register(ok)
       /\ promised' = IF ok THEN promised \cup Games ELSE promised
       /\ stage' = IF ok THEN "protected" ELSE "failed"
  /\ UNCHANGED <<proc, image, handle, opened, reopened, loop, crash>>

\* An allocation or the process query fails half way through the list.
ProtectProcessNoMemory ==
  /\ Up /\ stage = "open"
  /\ \E some \in SUBSET Games : list' = list \cup some
  /\ stage' = "failed"
  /\ UNCHANGED <<proc, image, handle, opened, reopened, registered, promised, loop, crash>>

\* IRP_MJ_WRITE with SEND_FILE_EVENT_HANDLE: InitializeKernelLoopEvent.
SendFileEvent(t) ==
  /\ Up /\ stage = "protected"
  /\ thread[t] = "none"
  /\ event' = TRUE
  /\ thread' = [thread EXCEPT ![t] = "check"]
  /\ caught' = caught \ {t} /\ late' = late \ {t}
  /\ stage' = "ready"
  /\ UNCHANGED <<proc, image, handle, opened, reopened, protect, sleepers, disorder, crash>>

\* The event cannot be referenced, which leaves a null pointer, or the
\* thread cannot be created.
SendFileEventFails ==
  /\ Up /\ stage = "protected"
  /\ event' \in BOOLEAN
  /\ stage' = "failed"
  /\ UNCHANGED <<proc, image, handle, opened, reopened, protect, thread, sleepers, disorder,
                 caught, late, crash>>

\* ClearDebugPort finds a debugger and brings the system down on purpose;
\* without one it changes nothing.
ClearDebugPort ==
  /\ Up /\ stage = "ready"
  /\ crash' = "debugger"
  /\ UNCHANGED <<proc, image, irp, protect, loop>>

\* ProcessHandlePreCallback: handles to process p get SYNCHRONIZE only.
Stripped(p) == registered /\ p \in list

\* A tick of KernelIoTimerEvent, an object callback or a request may come
\* now; all of them go through bac and change nothing else.
Callable == timer \/ registered \/ handle # None

-----------------------------------------------------------------------------
(* KernelLoopEvent, thread t *)

MayWake(s) == s \in ToSet(sleepers)

\* The first of the sleepers wakes in order, any other one out of order.
Wake(s) ==
  /\ MayWake(s)
  /\ \/ s = Head(sleepers) /\ sleepers' = Tail(sleepers) /\ UNCHANGED disorder
     \/ /\ s # Head(sleepers)
        /\ \E i \in DOMAIN sleepers : sleepers[i] = s /\ sleepers' = RemoveAt(sleepers, i)
        /\ disorder' = TRUE

\* Mutant: the status is looked at only once, when the thread starts.
LoopWakes_Untested(t) ==
  /\ Up /\ thread[t] = "sleep"
  /\ Wake(t)
  /\ thread' = [thread EXCEPT ![t] = "walk"]
  /\ UNCHANGED <<proc, image, irp, protect, event, caught, late, crash>>

\* The thread's Sleep ends.
LoopWakes(t) ==
  /\ Up /\ thread[t] = "sleep"
  /\ Wake(t)
  /\ thread' = [thread EXCEPT ![t] = "check"]
  /\ UNCHANGED <<proc, image, irp, protect, event, caught, late, crash>>

\* It has started or woken up, and looks at the status through bac.
LoopCheck(t) ==
  /\ Up /\ thread[t] = "check"
  /\ thread' = [thread EXCEPT ![t] = IF status THEN "walk" ELSE "ending"]
  /\ UNCHANGED <<proc, image, irp, protect, event, sleepers, disorder, caught, late, crash>>

\* PsTerminateSystemThread, which it calls from the driver's image.
LoopEnds(t) ==
  /\ Up /\ thread[t] = "ending"
  /\ thread' = [thread EXCEPT ![t] = "none"]
  /\ UNCHANGED <<proc, image, irp, protect, event, sleepers, disorder, caught, late, crash>>

\* Mutant: the thread ends after one round.
LoopWalk_Ends(t) ==
  /\ Up /\ thread[t] = "walk"
  /\ list = {} \/ event
  /\ thread' = [thread EXCEPT ![t] = "none"]
  /\ UNCHANGED <<proc, image, irp, protect, event, sleepers, disorder, caught, late, crash>>

\* It signals the event once per node and goes to sleep.
LoopWalk(t) ==
  /\ Up /\ thread[t] = "walk"
  /\ list = {} \/ event
  /\ thread' = [thread EXCEPT ![t] = "sleep"]
  /\ sleepers' = Append(sleepers, t)
  /\ UNCHANGED <<proc, image, irp, protect, event, disorder, caught, late, crash>>

\* KeSetEvent on the null pointer.
LoopNullEvent(t) ==
  /\ Up /\ thread[t] = "walk" /\ list # {} /\ ~event
  /\ crash' = "event"
  /\ UNCHANGED <<proc, image, irp, protect, loop>>

\* The thread comes back to an object, and an image, that are gone.
LoopOrphan(t) ==
  /\ Up /\ thread[t] = "orphan"
  /\ crash' = "thread"
  /\ UNCHANGED <<proc, image, irp, protect, loop>>

-----------------------------------------------------------------------------
(* DriverUnload *)

\* The I/O manager calls DriverUnload once the last handle is closed.
UnloadMayStart == drv = "pending" /\ handle = None

UnloadStatus ==
  /\ Up /\ UnloadMayStart
  /\ drv' = "unloading" /\ unload' = "sleep"
  /\ status' = FALSE
  /\ caught' = caught \cup {t \in LoopThread : thread[t] = "walk"}
  /\ sleepers' = Append(sleepers, "unload")
  /\ UNCHANGED <<proc, bac, timer, irp, protect, event, thread, disorder, late, crash>>

\* Mutant: the device, and its timer, are left for later.
UnloadDevice_KeepsTimer ==
  /\ Up /\ unload = "sleep"
  /\ Wake("unload")
  /\ late' = late \cup {t \in LoopThread : thread[t] \in {"check", "ending"}}
  /\ unload' = "device"
  /\ UNCHANGED <<proc, drv, bac, status, timer, irp, protect, event, thread, caught, crash>>

\* Sleep(1000) ends; IoDeleteDevice takes the timer with it.
UnloadDevice ==
  /\ Up /\ unload = "sleep"
  /\ Wake("unload")
  /\ late' = late \cup {t \in LoopThread : thread[t] \in {"check", "ending"}}
  /\ timer' = FALSE
  /\ unload' = "device"
  /\ UNCHANGED <<proc, drv, bac, status, irp, protect, event, thread, caught, crash>>

\* ~ProcessProtect: the callbacks first, waiting for those that run.
UnloadCallbacks ==
  /\ Up /\ unload = "device"
  /\ registered' = FALSE /\ promised' = {}
  /\ unload' = "list"
  /\ UNCHANGED <<proc, drv, bac, status, timer, irp, list, loop, crash>>

\* The list, the object, and with the return from DriverUnload the image.
UnloadFree ==
  /\ Up /\ unload = "list"
  /\ list' = {} /\ bac' = "freed"
  /\ drv' = "unloaded" /\ unload' = "none"
  /\ thread' = [t \in LoopThread |-> IF thread[t] = "none" THEN "none" ELSE "orphan"]
  /\ sleepers' = <<>>
  /\ UNCHANGED <<proc, status, timer, irp, registered, promised, event, disorder, caught, late, crash>>

-----------------------------------------------------------------------------
Loop(t) ==
  \/ LoopWakes(t) \/ LoopCheck(t) \/ LoopEnds(t) \/ LoopWalk(t)
  \/ LoopNullEvent(t) \/ LoopOrphan(t)

Unload == UnloadStatus \/ UnloadDevice \/ UnloadCallbacks \/ UnloadFree

Next ==
  \/ \E p \in Pid : \/ \E kind \in {"game", "other"} : StartProcess(p, kind)
                    \/ ExitProcess(p) \/ OpenDevice(p)
  \/ StopService \/ DriverEntry \/ DriverEntryNoTimer
  \/ ProtectProcess \/ ProtectProcessNoMemory \/ SendFileEventFails \/ ClearDebugPort
  \/ \E t \in LoopThread : SendFileEvent(t) \/ Loop(t)
  \/ Unload

\* System threads and the unload are scheduled, sleeps end.
Spec ==
  /\ Init /\ [][Next]_vars
  /\ \A t \in LoopThread : WF_vars(Loop(t))
  /\ WF_vars(Unload)

-----------------------------------------------------------------------------
(* Properties *)

\* Whatever else can call into the driver - a request through the handle,
\* an object callback, a tick of the timer - finds bac alive: DriverUnload
\* takes each of them away before it frees the object.
ContextValid == Callable => bac = "live"

\* When every process that opens the device has loaded the driver anew, as
\* InstiallDriver does, a process for which ProtectProcess returned success
\* stays on the list with the callbacks in force for as long as it runs and
\* the driver stays.
PromiseKept == ~reopened => \A p \in promised : Stripped(p)

\* The loop threads share bac with DriverUnload's delete.  With equal sleeps
\* that end in order, a thread comes back to the freed object, or image, for
\* one of two reasons only: it was past its test, and not yet asleep, at the
\* moment the status was cleared; or it had woken up by the time DriverUnload
\* did and was not scheduled through its test to its end.  No thread asleep at
\* the clear is still asleep, or takes another turn, when the unload goes on.
OnlyCaughtThreads ==
  ~disorder => \A t \in LoopThread : thread[t] = "orphan" => t \in caught \cup late

\* The event a loop thread signals is never a null pointer, again when every
\* process that opens the device has loaded the driver anew.
EventValid == ~reopened => \A t \in LoopThread : thread[t] = "walk" => event

\* While a game holds a complete session the kernel signals its event again
\* and again, even after a stop was requested.
KeepsNotifying ==
  (Up /\ stage = "ready") ~> (~Up \/ stage # "ready"
                              \/ \E t \in LoopThread : thread[t] = "walk")
=============================================================================
