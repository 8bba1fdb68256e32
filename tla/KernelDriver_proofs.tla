------------------------ MODULE KernelDriver_proofs ------------------------
(***************************************************************************)
(* Proofs about KernelDriver, for any number of processes and loop         *)
(* threads: what can call into the driver never finds bac freed; while no  *)
(* second process has opened the same image, the promise of ProtectProcess *)
(* is kept and no null event is signalled; and while the sleeps end in     *)
(* order only a thread caught past its test, or woken but not scheduled to *)
(* its end, can outlive the object.                                        *)
(***************************************************************************)
EXTENDS KernelDriver, SequenceTheorems, TLAPS

\* The parts of TypeOK the proofs need.
Types ==
  /\ drv \in {"unloaded", "loaded", "pending", "unloading", "stuck"}
  /\ unload \in {"none", "sleep", "device", "list"}
  /\ stage \in {"none", "open", "protected", "ready", "failed"}
  /\ thread \in [LoopThread -> {"none", "check", "walk", "sleep", "ending", "orphan"}]

\* The order of DriverUnload: the handle is closed before it begins, the
\* timer stops before the callbacks go, both before the object is freed.
Teardown ==
  /\ drv # "unloading" <=> unload = "none"
  /\ drv \notin {"unloaded", "stuck"} => bac = "live"
  /\ drv \in {"unloaded", "stuck"} => ~timer /\ ~registered
  /\ drv \in {"unloaded", "stuck", "unloading"} => handle = None
  /\ handle = None => stage = "none"
  /\ unload \in {"device", "list"} => ~timer
  /\ unload = "list" => ~registered

ContextInv == Types /\ Teardown

-----------------------------------------------------------------------------
LEMMA InitContext == Init => ContextInv
  BY DEF Init, ContextInv, Types, Teardown

\* No step of a process, of the loader or of DriverUnload breaks the order.
LEMMA StepContext == ASSUME ContextInv, [Next]_vars PROVE ContextInv'
<1> USE NoneAssumption DEF ContextInv, Types, Teardown
<1>1. ASSUME NEW p \in Pid, NEW k \in {"game", "other"}, StartProcess(p, k) PROVE ContextInv'
  BY <1>1 DEF StartProcess, image, irp, protect, loop
<1>2. ASSUME NEW p \in Pid, ExitProcess(p) PROVE ContextInv'
  BY <1>2 DEF ExitProcess, image, loop
<1>3. ASSUME NEW p \in Pid, OpenDevice(p) PROVE ContextInv'
  BY <1>3 DEF OpenDevice, image, protect, loop
<1>4. CASE StopService
  BY <1>4 DEF StopService, irp, protect, loop
<1>5. CASE DriverEntry
  BY <1>5 DEF DriverEntry
<1>17. CASE DriverEntryNoTimer
  BY <1>17 DEF DriverEntryNoTimer, irp, protect, loop
<1>6. CASE ProtectProcess
  BY <1>6 DEF ProtectProcess, Register, image, loop
<1>7. CASE ProtectProcessNoMemory
  BY <1>7 DEF ProtectProcessNoMemory, image, loop
<1>8. CASE SendFileEventFails
  BY <1>8 DEF SendFileEventFails, image, protect
<1>9. CASE ClearDebugPort
  BY <1>9 DEF ClearDebugPort, image, irp, protect, loop
<1>10. ASSUME NEW t \in LoopThread, SendFileEvent(t) PROVE ContextInv'
  BY <1>10 DEF SendFileEvent, image, protect
<1>11. ASSUME NEW t \in LoopThread, Loop(t) PROVE ContextInv'
  BY <1>11 DEF Loop, LoopWakes, LoopCheck, LoopEnds, LoopWalk, LoopNullEvent, LoopOrphan,
              image, irp, protect, loop
<1>12. CASE UnloadStatus
  BY <1>12 DEF UnloadStatus, UnloadMayStart, irp, protect
<1>13. CASE UnloadDevice
  BY <1>13 DEF UnloadDevice, irp, protect
<1>14. CASE UnloadCallbacks
  BY <1>14 DEF UnloadCallbacks, irp, loop
<1>15. CASE UnloadFree
  BY <1>15 DEF UnloadFree, irp
<1>16. CASE UNCHANGED vars
  BY <1>16 DEF vars
<1>. QED
  BY <1>1, <1>2, <1>3, <1>4, <1>5, <1>6, <1>7, <1>8, <1>9, <1>10, <1>11, <1>12,
     <1>13, <1>14, <1>15, <1>16, <1>17 DEF Next, Unload

\* Requests, object callbacks and the timer never run on a freed bac, however
\* many processes and loop threads there are and in whatever order they end:
\* DriverUnload takes every caller away before it deletes the object.
THEOREM ContextStaysValid == Spec => []ContextValid
<1>1. ContextInv => ContextValid
  BY DEF ContextInv, Types, Teardown, ContextValid, Callable
<1>. QED
  BY InitContext, StepContext, <1>1, PTL DEF Spec

-----------------------------------------------------------------------------
(* One open per load *)

\* What the first open of an image finds: no callbacks, no promise, no loop
\* thread that still works for it; and what the one holder of the device may
\* have done at each stage of its BACBaseInitialize.
Asleep == \A t \in LoopThread : thread[t] \in {"none", "orphan"}

FirstOpen ==
  /\ drv \in {"unloaded", "stuck"} \/ unload = "list" \/ ~opened => promised = {}
  /\ drv \in {"unloaded", "stuck"} \/ ~opened => Asleep
  /\ handle # None => opened
  /\ ~reopened => /\ promised \subseteq list
                  /\ promised # {} => registered
                  /\ stage = "open" => promised = {}
                  /\ stage \in {"open", "protected"} => Asleep
                  /\ ~event => Asleep

FreshInv == ContextInv /\ FirstOpen

LEMMA InitFresh == Init => FreshInv
  BY InitContext DEF Init, FreshInv, FirstOpen, Asleep

\* A second open of the same image is what breaks it, and sets reopened.
LEMMA StepFresh == ASSUME FreshInv, [Next]_vars PROVE FreshInv'
<1>0. ContextInv'
  BY StepContext DEF FreshInv
<1> SUFFICES FirstOpen'
  BY <1>0 DEF FreshInv
<1> USE NoneAssumption DEF FreshInv, ContextInv, Types, Teardown, FirstOpen, Asleep
<1>1. ASSUME NEW p \in Pid, NEW k \in {"game", "other"}, StartProcess(p, k) PROVE FirstOpen'
  BY <1>1 DEF StartProcess, image, irp, protect, loop
<1>2. ASSUME NEW p \in Pid, ExitProcess(p) PROVE FirstOpen'
  BY <1>2 DEF ExitProcess, image, loop
<1>3. ASSUME NEW p \in Pid, OpenDevice(p) PROVE FirstOpen'
  BY <1>3 DEF OpenDevice, image, protect, loop
<1>4. CASE StopService
  BY <1>4 DEF StopService, irp, protect, loop
<1>5. CASE DriverEntry
  BY <1>5 DEF DriverEntry
<1>17. CASE DriverEntryNoTimer
  BY <1>17 DEF DriverEntryNoTimer, irp, protect, loop
<1>6. CASE ProtectProcess
  BY <1>6 DEF ProtectProcess, Register, image, loop
<1>7. CASE ProtectProcessNoMemory
  BY <1>7 DEF ProtectProcessNoMemory, image, loop
<1>8. CASE SendFileEventFails
  BY <1>8 DEF SendFileEventFails, image, protect
<1>9. CASE ClearDebugPort
  BY <1>9 DEF ClearDebugPort, image, irp, protect, loop
<1>10. ASSUME NEW t \in LoopThread, SendFileEvent(t) PROVE FirstOpen'
  BY <1>10 DEF SendFileEvent, image, protect
<1>11. ASSUME NEW t \in LoopThread, Loop(t) PROVE FirstOpen'
  BY <1>11 DEF Loop, LoopWakes, LoopCheck, LoopEnds, LoopWalk, LoopNullEvent, LoopOrphan,
              image, irp, protect, loop
<1>12. CASE UnloadStatus
  BY <1>12 DEF UnloadStatus, UnloadMayStart, irp, protect
<1>13. CASE UnloadDevice
  BY <1>13 DEF UnloadDevice, irp, protect
<1>14. CASE UnloadCallbacks
  BY <1>14 DEF UnloadCallbacks, irp, loop
<1>15. CASE UnloadFree
  BY <1>15 DEF UnloadFree, irp
<1>16. CASE UNCHANGED vars
  BY <1>16 DEF vars
<1>. QED
  BY <1>1, <1>2, <1>3, <1>4, <1>5, <1>6, <1>7, <1>8, <1>9, <1>10, <1>11, <1>12,
     <1>13, <1>14, <1>15, <1>16, <1>17 DEF Next, Unload

\* While one process has opened the loaded image, whatever process
\* ProtectProcess returned success for stays on the list with the callbacks registered for
\* as long as it runs and the driver stays: no failing call and no unload in
\* between takes its protection away.
THEOREM PromiseIsKept == Spec => []PromiseKept
<1>1. FreshInv => PromiseKept
  BY DEF FreshInv, FirstOpen, PromiseKept, Stripped
<1>2. FreshInv /\ [Next]_vars => FreshInv'
  BY StepFresh
<1>. QED
  BY InitFresh, <1>1, <1>2, PTL DEF Spec

\* Under the same condition a loop thread never signals a null event.
THEOREM EventIsValid == Spec => []EventValid
<1>1. FreshInv => EventValid
  BY DEF FreshInv, FirstOpen, Asleep, EventValid
<1>2. FreshInv /\ [Next]_vars => FreshInv'
  BY StepFresh
<1>. QED
  BY InitFresh, <1>1, <1>2, PTL DEF Spec

-----------------------------------------------------------------------------
(* Sleeps that end in order *)

Slept(x) == \E i \in 1..Len(sleepers) : sleepers[i] = x

\* The sleepers are a queue without duplicates: the sleeping threads and, while
\* it sleeps, DriverUnload.
Queue ==
  /\ sleepers \in Seq(LoopThread \cup {"unload"})
  /\ \A i, j \in 1..Len(sleepers) : sleepers[i] = sleepers[j] => i = j
  /\ \A t \in LoopThread : thread[t] = "sleep" <=> Slept(t)
  /\ unload = "sleep" <=> Slept("unload")

\* From the moment the status is cleared, a thread past its test was caught,
\* and so was every thread that fell asleep after DriverUnload did; when
\* DriverUnload has slept, in order, any other thread is awake, and late.
Caught ==
  /\ unload = "sleep" =>
       /\ \A t \in LoopThread : thread[t] = "walk" => t \in caught
       /\ \A i, j \in 1..Len(sleepers) :
            i < j /\ sleepers[i] = "unload" => sleepers[j] \in caught
  /\ unload \in {"device", "list"} =>
       /\ \A t \in LoopThread : thread[t] \in {"walk", "sleep"} => t \in caught
       /\ \A t \in LoopThread : thread[t] \in {"check", "ending"} => t \in caught \cup late
  /\ \A t \in LoopThread : thread[t] = "orphan" => t \in caught \cup late

OrderInv ==
  /\ FreshInv
  /\ drv = "unloading" => ~status
  /\ ~disorder => Queue /\ Caught

LEMMA InitOrder == Init => OrderInv
  BY InitFresh DEF Init, OrderInv, Queue, Caught, Slept

\* A sleeper joins at the end.
LEMMA Joins ==
  ASSUME Queue, NEW x \in LoopThread \cup {"unload"}, ~Slept(x), sleepers' = Append(sleepers, x)
  PROVE  /\ sleepers' \in Seq(LoopThread \cup {"unload"})
         /\ Len(sleepers') = Len(sleepers) + 1
         /\ \A i \in 1..Len(sleepers) : sleepers'[i] = sleepers[i]
         /\ sleepers'[Len(sleepers) + 1] = x
         /\ \A i, j \in 1..Len(sleepers') : sleepers'[i] = sleepers'[j] => i = j
         /\ \A y : Slept(y)' <=> (Slept(y) \/ y = x)
<1>1. /\ sleepers' \in Seq(LoopThread \cup {"unload"})
      /\ Len(sleepers') = Len(sleepers) + 1
      /\ \A i \in 1..Len(sleepers) : sleepers'[i] = sleepers[i]
      /\ sleepers'[Len(sleepers) + 1] = x
  BY DEF Queue
<1>2. \A i, j \in 1..Len(sleepers') : sleepers'[i] = sleepers'[j] => i = j
  BY <1>1 DEF Queue, Slept
<1>3. \A y : Slept(y)' <=> (Slept(y) \/ y = x)
  BY <1>1 DEF Queue, Slept
<1>. QED
  BY <1>1, <1>2, <1>3

\* The first sleeper leaves.
LEMMA Leaves ==
  ASSUME Queue, NEW x, Slept(x), x = Head(sleepers), sleepers' = Tail(sleepers)
  PROVE  /\ sleepers' \in Seq(LoopThread \cup {"unload"})
         /\ Len(sleepers') = Len(sleepers) - 1
         /\ \A i \in 1..Len(sleepers') : sleepers'[i] = sleepers[i + 1]
         /\ \A i, j \in 1..Len(sleepers') : sleepers'[i] = sleepers'[j] => i = j
         /\ sleepers[1] = x
         /\ \A y : Slept(y)' <=> (Slept(y) /\ y # x)
<1>1. /\ sleepers # <<>>
      /\ sleepers' \in Seq(LoopThread \cup {"unload"})
      /\ Len(sleepers') = Len(sleepers) - 1
      /\ \A i \in 1..Len(sleepers') : sleepers'[i] = sleepers[i + 1]
      /\ sleepers[1] = x
  BY DEF Queue, Slept
<1>2. \A i, j \in 1..Len(sleepers') : sleepers'[i] = sleepers'[j] => i = j
  BY <1>1 DEF Queue
<1>3. \A y : Slept(y)' <=> (Slept(y) /\ y # x)
  <2> TAKE y
  <2>1. ASSUME Slept(y)' PROVE Slept(y) /\ y # x
    <3>1. PICK i \in 1..Len(sleepers') : sleepers'[i] = y
      BY <2>1 DEF Slept
    <3>2. i + 1 \in 1..Len(sleepers) /\ sleepers[i + 1] = y /\ i + 1 # 1
      BY <1>1, <3>1 DEF Queue
    <3>. QED
      BY <1>1, <3>2 DEF Slept, Queue
  <2>2. ASSUME Slept(y), y # x PROVE Slept(y)'
    <3>1. PICK i \in 1..Len(sleepers) : sleepers[i] = y
      BY <2>2 DEF Slept
    <3>2. i # 1 /\ i - 1 \in 1..Len(sleepers') /\ sleepers'[i - 1] = y
      BY <1>1, <2>2, <3>1 DEF Queue
    <3>. QED
      BY <3>2 DEF Slept
  <2>. QED
    BY <2>1, <2>2
<1>. QED
  BY <1>1, <1>2, <1>3

\* The steps that touch neither the threads nor the unload.
LEMMA OrderFrame ==
  ASSUME OrderInv, FreshInv',
         UNCHANGED <<drv, status, unload, thread, sleepers, disorder, caught, late>>
  PROVE  OrderInv'
  BY DEF OrderInv, Queue, Caught, Slept

\* One step per action that the queue, or what it means, depends on.
LEMMA StepOrder == ASSUME OrderInv, [Next]_vars PROVE OrderInv'
<1>0. FreshInv /\ FreshInv'
  BY StepFresh DEF OrderInv
<1>a. Types /\ Teardown /\ FirstOpen
  BY <1>0 DEF FreshInv, ContextInv
<1>1. ASSUME NEW p \in Pid, NEW k \in {"game", "other"}, StartProcess(p, k) PROVE OrderInv'
  BY <1>0, <1>1, OrderFrame DEF StartProcess, image, loop
<1>2. ASSUME NEW p \in Pid, ExitProcess(p) PROVE OrderInv'
  BY <1>0, <1>2, OrderFrame DEF ExitProcess, image, loop
<1>3. ASSUME NEW p \in Pid, OpenDevice(p) PROVE OrderInv'
  BY <1>0, <1>3, OrderFrame DEF OpenDevice, image, loop
<1>4. CASE StopService
  BY <1>0, <1>4 DEF StopService, loop, OrderInv, Queue, Caught, Slept
<1>5. CASE DriverEntry
  BY <1>0, <1>a, <1>5 DEF DriverEntry, OrderInv, Queue, Caught, Slept, Teardown
<1>20. CASE DriverEntryNoTimer
  BY <1>0, <1>20 DEF DriverEntryNoTimer, loop, OrderInv, Queue, Caught, Slept
<1>6. CASE ProtectProcess
  BY <1>0, <1>6, OrderFrame DEF ProtectProcess, image, loop
<1>7. CASE ProtectProcessNoMemory
  BY <1>0, <1>7, OrderFrame DEF ProtectProcessNoMemory, image, loop
<1>8. CASE SendFileEventFails
  BY <1>0, <1>8, OrderFrame DEF SendFileEventFails, image
<1>9. CASE ClearDebugPort
  BY <1>0, <1>9, OrderFrame DEF ClearDebugPort, image, loop
<1>10. ASSUME NEW t \in LoopThread, SendFileEvent(t) PROVE OrderInv'
  <2>1. unload = "none" /\ thread[t] = "none" /\ thread' = [thread EXCEPT ![t] = "check"]
    BY <1>a, <1>10 DEF SendFileEvent, Teardown
  <2>2. ~disorder => Queue'
    BY <1>a, <1>10, <2>1 DEF SendFileEvent, OrderInv, Queue, Slept, Types, image
  <2>3. ~disorder => Caught'
    BY <1>a, <1>10, <2>1 DEF SendFileEvent, OrderInv, Caught, Types, image
  <2>. QED
    BY <1>0, <1>10, <2>2, <2>3 DEF SendFileEvent, OrderInv, image
<1>b. unload \in {"sleep", "device", "list"} => ~status
  BY <1>a DEF Teardown, OrderInv
<1>11. ASSUME NEW t \in LoopThread, LoopWakes(t) PROVE OrderInv'
  <2>1. /\ thread[t] = "sleep" /\ thread' = [thread EXCEPT ![t] = "check"] /\ Wake(t)
        /\ UNCHANGED <<drv, status, unload, caught, late>>
    BY <1>11 DEF LoopWakes, image
  <2>2. disorder => disorder'
    BY <2>1 DEF Wake
  <2>3. ASSUME ~disorder' PROVE Queue' /\ Caught'
    <3>1. ~disorder /\ Queue /\ Caught
      BY <2>2, <2>3 DEF OrderInv
    <3>2. Slept(t) /\ t = Head(sleepers) /\ sleepers' = Tail(sleepers)
      BY <2>1, <2>3, <3>1 DEF Wake, MayWake, ToSet, Slept, Queue
    <3>3. Queue'
      BY <1>a, <2>1, <3>1, <3>2, Leaves, ThreadAssumption DEF Queue, Types
    <3>4. Caught'
      <4>1. \A i, j \in 1..Len(sleepers') :
              (unload = "sleep" /\ i < j /\ sleepers'[i] = "unload") => sleepers'[j] \in caught
        BY <3>1, <3>2, Leaves DEF Caught, Queue
      <4>. QED
        BY <1>a, <2>1, <3>1, <4>1 DEF Caught, Types
    <3>. QED
      BY <3>3, <3>4
  <2>. QED
    BY <1>0, <2>1, <2>3 DEF OrderInv
<1>21. ASSUME NEW t \in LoopThread, LoopCheck(t) \/ LoopEnds(t) PROVE OrderInv'
  <2>1. /\ thread[t] \in {"check", "ending"}
        /\ thread'[t] \in {"walk", "ending", "none"}
        /\ thread'[t] = "walk" => thread[t] = "check" /\ status
        /\ \A u \in LoopThread : u # t => thread'[u] = thread[u]
        /\ UNCHANGED <<drv, status, unload, sleepers, disorder, caught, late>>
    BY <1>a, <1>21 DEF LoopCheck, LoopEnds, Types, image
  <2>2. ASSUME ~disorder PROVE Queue'
    BY <2>1, <2>2 DEF OrderInv, Queue, Slept
  <2>3. ASSUME ~disorder PROVE Caught'
    BY <1>b, <2>1, <2>3 DEF OrderInv, Caught
  <2>. QED
    BY <1>0, <2>1, <2>2, <2>3 DEF OrderInv
<1>12. ASSUME NEW t \in LoopThread, LoopWalk(t) PROVE OrderInv'
  <2>1. ~disorder => ~Slept(t)
    BY <1>12 DEF LoopWalk, OrderInv, Queue
  <2>2. /\ thread[t] = "walk" /\ thread' = [thread EXCEPT ![t] = "sleep"]
        /\ sleepers' = Append(sleepers, t)
        /\ UNCHANGED <<drv, status, unload, disorder, caught, late>>
    BY <1>12 DEF LoopWalk, image
  <2>3. ASSUME ~disorder PROVE Queue'
    BY <1>a, <2>1, <2>2, <2>3, Joins, ThreadAssumption DEF OrderInv, Queue, Types
  <2>4. ASSUME ~disorder PROVE Caught'
    <3>1. \A i, j \in 1..Len(sleepers') :
            (unload = "sleep" /\ i < j /\ sleepers'[i] = "unload") => sleepers'[j] \in caught
      BY <2>1, <2>2, <2>4, Joins, ThreadAssumption DEF OrderInv, Caught, Queue
    <3>. QED
      BY <1>a, <2>2, <2>4, <3>1 DEF OrderInv, Caught, Types
  <2>. QED
    BY <1>0, <2>2, <2>3, <2>4 DEF OrderInv
<1>13. ASSUME NEW t \in LoopThread, LoopNullEvent(t) PROVE OrderInv'
  BY <1>0, <1>13, OrderFrame DEF LoopNullEvent, image, loop
<1>14. ASSUME NEW t \in LoopThread, LoopOrphan(t) PROVE OrderInv'
  BY <1>0, <1>14, OrderFrame DEF LoopOrphan, image, loop
<1>15. CASE UnloadStatus
  <2>1. unload = "none" /\ unload' = "sleep" /\ ~status'
        /\ sleepers' = Append(sleepers, "unload") /\ UNCHANGED <<thread, disorder, late>>
        /\ caught' = caught \cup {t \in LoopThread : thread[t] = "walk"}
    BY <1>a, <1>15 DEF UnloadStatus, UnloadMayStart, Teardown
  <2>2. ASSUME ~disorder PROVE Queue'
    BY <2>1, <2>2, Joins, ThreadAssumption DEF OrderInv, Queue
  <2>3. ASSUME ~disorder PROVE Caught'
    <3>1. \A i, j \in 1..Len(sleepers') : ~(i < j /\ sleepers'[i] = "unload")
      BY <2>1, <2>3, Joins, ThreadAssumption DEF OrderInv, Queue, Slept
    <3>. QED
      BY <2>1, <2>3, <3>1 DEF OrderInv, Caught
  <2>. QED
    BY <1>0, <2>1, <2>2, <2>3 DEF OrderInv
<1>16. CASE UnloadDevice
  <2>1. /\ unload = "sleep" /\ unload' = "device" /\ UNCHANGED <<drv, status, thread, caught>>
        /\ Wake("unload")
        /\ late' = late \cup {t \in LoopThread : thread[t] \in {"check", "ending"}}
    BY <1>16 DEF UnloadDevice
  <2>2. disorder => disorder'
    BY <2>1 DEF Wake
  <2>3. ASSUME ~disorder' PROVE Queue' /\ Caught'
    <3>1. ~disorder /\ Queue /\ Caught
      BY <2>2, <2>3 DEF OrderInv
    <3>2. Slept("unload") /\ "unload" = Head(sleepers) /\ sleepers' = Tail(sleepers)
      BY <2>1, <2>3, <3>1 DEF Wake, MayWake, ToSet, Slept, Queue
    <3>3. Queue'
      BY <2>1, <3>1, <3>2, Leaves, ThreadAssumption DEF Queue
    <3>4. \A t \in LoopThread : thread[t] = "sleep" => t \in caught
      <4>1. \A j \in 2..Len(sleepers) : sleepers[j] \in caught
        BY <2>1, <3>1, <3>2, Leaves DEF Caught, Queue
      <4>. QED
        BY <3>1, <3>2, <4>1, Leaves, ThreadAssumption DEF Queue, Slept
    <3>5. Caught'
      BY <2>1, <3>1, <3>4 DEF Caught
    <3>. QED
      BY <3>3, <3>5
  <2>. QED
    BY <1>0, <2>1, <2>3 DEF OrderInv
<1>17. CASE UnloadCallbacks
  BY <1>0, <1>a, <1>17 DEF UnloadCallbacks, loop, OrderInv, Queue, Caught, Slept
<1>18. CASE UnloadFree
  <2>1. thread' = [t \in LoopThread |-> IF thread[t] = "none" THEN "none" ELSE "orphan"]
        /\ unload = "list" /\ unload' = "none" /\ sleepers' = <<>>
        /\ drv' = "unloaded" /\ UNCHANGED <<status, disorder, caught, late>>
    BY <1>18 DEF UnloadFree
  <2>2. ASSUME ~disorder PROVE Queue' /\ Caught'
    BY <1>a, <2>1, <2>2 DEF OrderInv, Queue, Caught, Slept, Types
  <2>. QED
    BY <1>0, <2>1, <2>2 DEF OrderInv
<1>19. CASE UNCHANGED vars
  BY <1>0, <1>19, OrderFrame DEF vars
<1>. QED
  BY <1>1, <1>2, <1>3, <1>4, <1>5, <1>6, <1>7, <1>8, <1>9, <1>10, <1>11, <1>12, <1>13,
     <1>14, <1>15, <1>16, <1>17, <1>18, <1>19, <1>20, <1>21 DEF Next, Loop, Unload

\* While sleeps that began earlier end earlier, the only loop threads that can
\* come back to the freed object are those past their test when DriverUnload
\* cleared the status and those that had woken in time but were not scheduled
\* to their end: one Sleep of the same length ends the sleep of all the
\* others, however many there are.
THEOREM OnlyCaughtThreadsOutlive == Spec => []OnlyCaughtThreads
<1>1. OrderInv => OnlyCaughtThreads
  BY DEF OrderInv, Caught, OnlyCaughtThreads
<1>2. OrderInv /\ [Next]_vars => OrderInv'
  BY StepOrder
<1>. QED
  BY InitOrder, <1>1, <1>2, PTL DEF Spec

-----------------------------------------------------------------------------
(* Types *)

\* What is left when one sleeper leaves, in order or not.
LEMMA WakeType ==
  ASSUME sleepers \in Seq(LoopThread \cup {"unload"}), disorder \in BOOLEAN, NEW s, Wake(s)
  PROVE  sleepers' \in Seq(LoopThread \cup {"unload"}) /\ disorder' \in BOOLEAN
<1>1. CASE MayWake(s) /\ s = Head(sleepers) /\ sleepers' = Tail(sleepers) /\ UNCHANGED disorder
  <2>1. sleepers # <<>>
    BY <1>1 DEF MayWake, ToSet
  <2>. QED
    BY <1>1, <2>1
<1>2. CASE MayWake(s) /\ s # Head(sleepers) /\ disorder' = TRUE
           /\ \E i \in DOMAIN sleepers : sleepers[i] = s /\ sleepers' = RemoveAt(sleepers, i)
  <2>1. PICK i \in 1..Len(sleepers) : sleepers' = RemoveAt(sleepers, i)
    BY <1>2
  <2>2. /\ SubSeq(sleepers, 1, i - 1) \in Seq(LoopThread \cup {"unload"})
        /\ SubSeq(sleepers, i + 1, Len(sleepers)) \in Seq(LoopThread \cup {"unload"})
    <3>1. ASSUME NEW m \in Nat \ {0}, NEW n \in 0..Len(sleepers)
          PROVE  SubSeq(sleepers, m, n) \in Seq(LoopThread \cup {"unload"})
      BY SubSeqProperties
    <3>. QED
      BY <3>1
  <2>3. sleepers' = SubSeq(sleepers, 1, i - 1) \o SubSeq(sleepers, i + 1, Len(sleepers))
    BY <2>1 DEF RemoveAt
  <2>. QED
    BY <1>2, <2>2, <2>3, ConcatProperties
<1>. QED
  BY <1>1, <1>2 DEF Wake

\* The actions keep the types, those that a sleeper wakes in by WakeType.
THEOREM TypeCorrect == Spec => []TypeOK
<1>1. Init => TypeOK
  <2> SUFFICES ASSUME Init PROVE TypeOK
    OBVIOUS
  <2>1. sleepers \in Seq(LoopThread \cup {"unload"})
    BY DEF Init
  <2>2. /\ proc \in [Pid -> {"free", "game", "other"}]
        /\ thread \in [LoopThread -> {"none", "check", "walk", "sleep", "ending", "orphan"}]
    BY DEF Init
  <2>. QED
    BY <2>1, <2>2, Zenon DEF Init, TypeOK
<1>2. TypeOK /\ [Next]_vars => TypeOK'
  <2> SUFFICES ASSUME TypeOK, [Next]_vars PROVE TypeOK'
    OBVIOUS
  <2> USE DEF TypeOK
  <2>1. ASSUME NEW p \in Pid, NEW k \in {"game", "other"}, StartProcess(p, k) PROVE TypeOK'
    BY <2>1 DEF StartProcess, image, irp, protect, loop
  <2>2. ASSUME NEW p \in Pid, ExitProcess(p) PROVE TypeOK'
    BY <2>2 DEF ExitProcess, image, loop
  <2>3. ASSUME NEW p \in Pid, OpenDevice(p) PROVE TypeOK'
    BY <2>3 DEF OpenDevice, image, protect, loop
  <2>4. CASE StopService
    BY <2>4 DEF StopService, irp, protect, loop
  <2>5. CASE DriverEntry
    BY <2>5 DEF DriverEntry
  <2>19. CASE DriverEntryNoTimer
    BY <2>19 DEF DriverEntryNoTimer, irp, protect, loop
  <2>6. CASE ProtectProcess
    BY <2>6 DEF ProtectProcess, Register, Games, image, loop
  <2>7. CASE ProtectProcessNoMemory
    BY <2>7 DEF ProtectProcessNoMemory, Games, image, loop
  <2>8. CASE SendFileEventFails
    BY <2>8 DEF SendFileEventFails, image, protect
  <2>9. CASE ClearDebugPort
    BY <2>9 DEF ClearDebugPort, image, irp, protect, loop
  <2>10. ASSUME NEW t \in LoopThread, SendFileEvent(t) PROVE TypeOK'
    BY <2>10 DEF SendFileEvent, image, protect
  <2>11. ASSUME NEW t \in LoopThread, LoopWakes(t) PROVE TypeOK'
    <3>1. sleepers' \in Seq(LoopThread \cup {"unload"}) /\ disorder' \in BOOLEAN
      BY <2>11, WakeType DEF LoopWakes
    <3>. QED
      BY <2>11, <3>1 DEF LoopWakes, image, irp, protect
  <2>20. ASSUME NEW t \in LoopThread, LoopCheck(t) \/ LoopEnds(t) PROVE TypeOK'
    BY <2>20 DEF LoopCheck, LoopEnds, image, irp, protect
  <2>12. ASSUME NEW t \in LoopThread, LoopWalk(t) PROVE TypeOK'
    BY <2>12 DEF LoopWalk, image, irp, protect
  <2>13. ASSUME NEW t \in LoopThread, LoopNullEvent(t) \/ LoopOrphan(t) PROVE TypeOK'
    BY <2>13 DEF LoopNullEvent, LoopOrphan, image, irp, protect, loop
  <2>14. CASE UnloadStatus
    <3>1. sleepers' \in Seq(LoopThread \cup {"unload"})
      BY <2>14 DEF UnloadStatus
    <3>2. caught' \subseteq LoopThread
      BY <2>14 DEF UnloadStatus
    <3>3. status' \in BOOLEAN /\ unload' = "sleep" /\ drv' = "unloading"
      BY <2>14 DEF UnloadStatus
    <3>4. UNCHANGED <<proc, bac, timer, handle, opened, reopened, stage, list, registered,
                      promised, event, thread, disorder, late, crash>>
      BY <2>14 DEF UnloadStatus, irp, protect
    <3>. QED
      BY <3>1, <3>2, <3>3, <3>4
  <2>15. CASE UnloadDevice
    <3>1. sleepers' \in Seq(LoopThread \cup {"unload"}) /\ disorder' \in BOOLEAN
      BY <2>15, WakeType DEF UnloadDevice
    <3>2. timer' \in BOOLEAN /\ unload' = "device" /\ late' \subseteq LoopThread
      BY <2>15 DEF UnloadDevice
    <3>3. UNCHANGED <<proc, drv, bac, status, handle, opened, reopened, stage, list, registered,
                      promised, event, thread, caught, crash>>
      BY <2>15 DEF UnloadDevice, irp, protect
    <3>. QED
      BY <3>1, <3>2, <3>3
  <2>16. CASE UnloadCallbacks
    <3>1. registered' \in BOOLEAN /\ promised' \subseteq Pid /\ unload' = "list"
      BY <2>16 DEF UnloadCallbacks
    <3>2. UNCHANGED <<proc, drv, bac, status, timer, handle, opened, reopened, stage, list,
                      event, thread, sleepers, disorder, caught, late, crash>>
      BY <2>16 DEF UnloadCallbacks, irp, loop
    <3>. QED
      BY <3>1, <3>2
  <2>17. CASE UnloadFree
    BY <2>17 DEF UnloadFree, irp
  <2>18. CASE UNCHANGED vars
    BY <2>18 DEF vars
  <2>. QED
    BY <2>1, <2>2, <2>3, <2>4, <2>5, <2>6, <2>7, <2>8, <2>9, <2>10, <2>11, <2>12, <2>13,
       <2>14, <2>15, <2>16, <2>17, <2>18, <2>19, <2>20 DEF Next, Loop, Unload
<1>. QED
  BY <1>1, <1>2, PTL DEF Spec
=============================================================================
