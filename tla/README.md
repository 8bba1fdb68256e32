# A verification development for Byte AntiCheat (BAC)

TLA+ models of the parts of BAC whose behaviour depends on order, concurrency,
failure or arithmetic, the TLC runs that check them on small instances, and
TLAPS proofs of what matters most. Source paths below are relative to `src/`.

## The system

| part | source | state it keeps | operations | talks to |
|---|---|---|---|---|
| protocol | `BAC-Server/BACServer/BACProtocol/BACProtocol.h` | none | 16-byte header `{data_len, cmd, status}` + payload | client and server |
| BAC-Server | `BAC-Server/BACServer/` | `_clients` (id -> node), heap nodes, connection extras | `OnAccept`, `OnReceive` (dispatch to `ClientLogin`, `GetClientMachineInfo`, `GetClientAbnormalGameData`), `OnClose`, replies | HP-Socket worker threads call it; it calls `Send` |
| client session | `BAC-Base/BACInterface/BACClient/`, `BAC.cpp`, `BAC-Base.cpp`, `AntiFunction/LoopEvent.cpp` | global `client`, one blocking socket | `ConnectTcpServer`, `Login`, `SendMachineInfo`, `SendAbnormalGameData` | server over TCP; used by the initialising thread and by the `LoopEvent` thread |
| driver service control | `BAC-Base/BACInterface/BACKernelApi/BACKernel.cpp` | the SCM service entry, the device handle | `InstiallDriver`, `UnInstallDriver`, IOCTL wrappers | SCM, the driver |
| DLL life cycle | `BAC-Base/BAC-Base.cpp` | globals `bac`, `client`, `baclog` | `BACBaseInitialize`, `BACBaseUnInitialize`, `UnHandleException`, `DllMain` | everything in BAC-Base |
| hook and memory checks | `BAC-Base/BACInterface/AntiFunction/CheckMemory.cpp`, `CheckCRC.cpp`, the installers in `Monitor*Operation.cpp` and `MoniterWindowOperation.cpp` | `_hook_list`, `_crc32_list`, `crc32_value_list` | installers, `CheckHookPointer`, `CheckMemoryCRC32` | reports through the client session |
| bodies of the hooks | `MoniterWindowOperation.cpp`, `MonitorInjectionOperation.cpp` | the game's strings, `active_flag` | `BACRegisterClassW`, `BACCreateWindowExW`, `BACUnregisterClassW`, the titles, `BACImmActivateLayout`, `BACLdrLoadDll` | called by the game in place of Windows' functions |
| user-mode `RemapImage` | `BAC-Base/BACInterface/AntiFunction/RemapImage.cpp` | the section object, the image itself | `RemapImage`, `RmppRemapRoutine` and their checks | both calls are commented out (`BAC-Base.cpp:71-79`) |
| handle sweep | `BAC-Base/BACInterface/AntiFunction/MonitorCreateProcess.cpp` | none between rounds | `ClearOtherProcessHandle` loop | processes of the machine |
| kernel driver core | `BAC-Base/BAC-Base-Kernel/*.cpp` | the global `bac`, its status flag, its list of protected processes, its event, its threads and timer | `DriverEntry`, `DriverUnload`, `BACDispatchRoutine`, loop thread, IO timer | IOCTLs from BAC-Base |
| process protection | `ProcessProtect.cpp` (driver) | protected list, object callbacks handle | `ProtectProcess`, pre-callbacks, `ClearDebugPort`, `RemoveAll` | object manager callbacks in any process |
| kernel memory protection | `MemoryProtect.cpp` (driver) | none | `RemapImage` | IOCTL, commented out as above |
| helper | `BAC-Helper/` | settings file, the game's PE image | `ReadConfig`, `WriteConfig`, `ImportTableInject`, `AddSection` | writes the injected game executable |
| cJSON | `BAC-Server/cJSON/` | trees of items | building, changing, printing, reading, minifying, comparing; pointers, patches, merge patches | compiled into the server, which does not call it yet |
| tools and log | `BAC-Base/BACTools`, `BAC-Base/BACLog` | log file | pure helpers, file append | everywhere |

The headers of libraries that come as binaries (HP-Socket, Detours, the VMProtect
SDK), the type definitions of `SystemApi.h` and the demo game are outside the scope.

### How the parts interact

- The game loads BAC-Base; `DllMain` calls `BACBaseInitialize`, which goes through
  one fixed order: install and open the driver, `PROTECT`, `WRITE` (the kernel's
  event), clear the debug port, start the handle sweep, install the hooks, create
  the loop thread, create the client, connect, log in, send the machine info. Every
  failure but one ends the process.
- The loop thread of the process checks the hooks and the sections of the modules,
  clears the debug port and sleeps, round after round. What it finds it reports
  through the same client object, over the same blocking socket, that the
  initialising thread has used. Nothing locks it.
- BAC-Server gets the callbacks of HP-Socket: one at a time for a connection, on
  different worker threads for different connections. All share `_clients`.
- The driver is shared by all games of a machine: one service entry, one image, one
  exclusive device. Its loop threads, its timer and its object callbacks run beside
  the requests, and `DriverUnload` runs beside the loop threads.
- The handle sweep looks at other processes, which do not stand still, through
  handles that the driver's own callbacks may have reduced.
- BAC-Helper is run alone, before the game. It looks up in `BACConfig.ini` which
  executable is the game and writes one that loads BAC-Base.
- The game's own calls to the window, input and loader functions go through BAC-Base's
  image, which is the image that `RemapImage` takes away and puts back.
- cJSON is linked into the server as source and stands by itself.

### What makes each part correct

| part | what has to hold | what makes it hard |
|---|---|---|
| BAC-Server | a callback works on the node of its own connection; the table is the connected clients; a login is recorded for the client that sent it, as its chunk held it | ids and addresses are reused, callbacks overlap, `_clients` has no lock, `new` may throw |
| client session | a success is the server's answer to this call; no call waits for ever; a game does not run on without a session unnoticed | TCP cuts and loses, two threads share a socket, an exception on each of them has another effect |
| hook and memory checks | a change that lasts is reported and handled; BAC does not report itself | the change, the walk and the report overlap; transactions fail as a whole; modules go away |
| driver service control | a game gets a driver of its own; the last one leaves none behind | several games, kills, and a service entry that outlives its deletion |
| kernel driver | nothing runs on the freed object; a protected process stays protected | four kinds of threads share `bac` without a lock; the unload only sleeps |
| handle sweep | no full handle that lasts is overlooked if its entry can name it, and the sweeps go on | the snapshot is old when it is read; its entries have 16 bits for an id and for a value; both are reused |
| import injection | the file written is loadable, its addresses right, the game's bytes intact | signed sizes, alignments, moved headers, sections without data |
| settings file | the one name in it is the name read | lines without a value, repeated keys, a last line that is not ended |
| `RemapImage` | afterwards each section is protected as it should be, or the image is as it was | dozens of calls that may fail while the code that runs is not mapped; other threads write, allocate and call in |
| window hooks | the game finds the classes it registered | names made of the time, cut to the length of the game's own, written into its strings |
| cJSON | a call changes what it was asked to change; what is written is what is read | shared children, allocations that fail half way, buffers of the caller's, damaged texts, names that differ in case |

`PROJECT.json` lists under `hazards` each of these difficulties at its line.

## The modules

Conventions: an action is named after the function it models, or after the part of
it that runs without anyone else in between. Action and state names are the
source's where TLA+ allows. A definition `X_Change` preceded by "Mutant:" is a
plausible wrong version of `X`. It is used in no specification; `PROJECT.json` says
which property notices it.

| module | models | extends / uses |
|---|---|---|
| `BACProtocol` | commands, statuses, the header | |
| `BACServer` | HP-Socket callbacks, heap nodes, `_clients` | `BACProtocol`; implements `ClientRegistry` |
| `ClientRegistry` | abstract: connected clients, and who is logged in | |
| `BACSession` | both threads of BAC-Base, one connection, the server's end of it | `BACProtocol`; implements `ReportService` |
| `ReportService` | abstract: calls one at a time, answered after they were taken, none open for ever | |
| `MemoryCheck` | installers, recorded bytes and CRCs, the two checks, composed with the session | `BACSession`, which it also implements |
| `KernelDriver` | the driver from `DriverEntry` to `DriverUnload` | |
| `DriverService` | `InstiallDriver`, `UnInstallDriver` by several games | |
| `HandleSweep` | `ClearOtherProcessHandle` among other processes | |
| `ImageInject` | `ImportTableInject`, `AddSection` | |
| `Launcher` | the settings file and `main` of BAC-Helper | `ImageInject` |
| `ImageRemap` | `RemapImage` in user mode and in the driver | |
| `GameHooks` | the bodies of the hooks | `ImageRemap` |
| `GameStart` | a game from the launcher to its windows | `Launcher`, `GameHooks` |
| `JsonList` | cJSON's nodes, the functions that link, unlink and delete, names and their order | |
| `JsonHeap` | the functions that walk trees: finding, duplicating, sorting | `JsonList` |
| `JsonForest` | abstract: what cJSON's functions promise of trees | |
| `JsonTree` | a program that builds and changes trees | `JsonHeap`; implements `JsonForest` |
| `JsonBuffer` | the printer's buffer, and the pieces a value is printed from | `JsonList` |
| `JsonPrint` | the printer | `JsonBuffer` |
| `JsonScan` | what is read at one place of a text: strings, numbers, names, white space | `JsonList` |
| `JsonRead` | the reader | `JsonScan` |
| `JsonUnicode` | reference: what UTF-8 and the escapes of JSON are | `JsonBuffer` |
| `JsonCompare` | minifying, comparing | `JsonHeap` |
| `JsonText` | a document that is printed, changed on its way, read | `JsonRead`, `JsonPrint`, `JsonCompare`, `JsonUnicode` |
| `JsonPatch` | `cJSON_Utils.c` | `JsonHeap` |
| `JsonExchange` | a document, its changes and the patches sent for them | `JsonText`, `JsonPatch` |
| `*_proofs` | theorems about the module named; those about `BACSession` are in `MemoryCheck_proofs` | that module, `TLAPS` |
| `Json_proofs` | theorems about `JsonList`, `JsonBuffer`, `JsonScan`: lists, names, and what is printed or read in one piece | `JsonRead`, `JsonUnicode` |
| `JsonWhole_proofs` | theorems about `JsonRead` and `JsonPrint`: whole texts | `Json_proofs`, `JsonPrint` |
| `MC*` | instances for TLC | |

### BACServer

`pc[c]` is the point at which the callback of connection `c` is; a connection that is
`free` has no callback to come, one that is `idle` waits for `OnReceive` or `OnClose`.
`extra`, `alive`, `node` and `clients` are HP-Socket's connection extra, the heap and
the map. Each access to `_clients` is two steps, its beginning and its end: if a
write and another access overlap, `raced` marks both, and the end of a raced access
may take effect, be lost, or bring the process down (`CorruptTable`). This is what
undefined behaviour of `std::map` is taken to mean. `operator[]` on a missing
key crashes in `BadLookup`. A chunk (`Chunk`) is any header a client or a cut packet
can deliver, and how much of the user id it holds: all, a part, or less than the header. `ClientLogin`
records what `substr` cuts out of the chunk, so `UserId` is a client with the part of its id that was
recorded; `answered` keeps what the login last answered with Success held.

### BACSession

`c2s` and `s2c` hold pieces of packets, cut where it makes a difference: the two
halves of a header, and the payload; `{data_len, cmd}` and `{status}` of a reply. With
`MaySplit` the server may take any number of pieces that have arrived as a chunk and
`recv` may return half a reply. A string shorter than a header is read to its
end and beyond; what lies beyond is a member of `StaleHeader`. `sock` tells an orderly
end (`fin`: `recv` returns 0) from a broken one (`reset`: `recv` returns -1, `append`
throws `std::length_error`). The exception is caught on the initialising thread
(`MainThrows`) and ends the process on the loop thread (`LoopThrows`). The loop thread,
created before the client, starts after `DllMain` because of the loader lock
(`LoopStart`). What the loop thread finds is left open here.

### MemoryCheck

Replaces the open part of the session's loop thread by the two walks, over `HookList` and over the modules in
the order the loader lists them (`listed`). A function's first bytes lead to the function itself (`plain`), to
BAC (`bac`), by BAC's jump to another place (`bent`), or elsewhere (`other`); `Bytes` is what a comparison of
five bytes can tell of that. A CRC stands for what it was computed from. Installers attach all of their
functions or none (`DetourTransactionCommit`). Other code of the process patches entries and sections and
unloads and reloads modules at any time (`Others`); reading an unloaded module is an access violation
(`ItemFaults`). A module that returns at another address counts as unloaded, since the list keeps the old
address. `steady`, `touched`, `filed` and `handled` are history: what was changed since before the round, by
whom, what was reported and what was answered. The specification is `CheckSpec`.

### KernelDriver

A loop thread wakes (`LoopWakes`), reads the status (`LoopCheck`), and then ends (`LoopEnds`) or
walks the list and sleeps again (`LoopWalk`): anyone may run between two of these. `sleepers` is the order in which threads fell asleep; sleeps may end in any order,
and `disorder` is history: one has ended before an earlier one. `DriverUnload` is four
steps: clear the status and sleep, stop the timer and delete the device, unregister
the callbacks, free the list and the object. `stage` is how far the
`BACBaseInitialize` that holds the device has come, so requests come in its order. Any
process may open a device nobody holds; `reopened` is history too: a second process has
opened it since the load. `promised` are the processes that were told they are protected,
`caught` the loop threads past their test when the status was cleared, `late` those that were awake
but not at their end when `DriverUnload` went on. `DriverEntryNoTimer` is the failure that `DriverEntry`
answers by returning without taking back the device, the link and the object.

### DriverService

Every call of the service control manager is a step. `entry` is the service entry
with its path and its deletion mark; it goes when it is marked, no handle of any
process (`svc`) is left, and the driver is out. `ground` remembers what a game found when
it started installing: another game (`busy`), an entry without a driver (`leftover`), or
neither (`clean`). `fresh` remembers whether its open was the first since the load.

### HandleSweep

`table[p][v]` is what value `v` denotes in process `p`. The sweep takes `left` from one
query and then looks at one entry after another, in any order, while `Others` open and
close handles, exit and start with the same ids. `standing` are the full handles to
the game held without a break since the snapshot. `protected` says that the driver's
callbacks strip new handles, the sweep's own duplicates included. An entry has 16 bits for the id and 16 for
the value (`Low`, the remainder modulo `Width`): what is looked at is what these denote (`Kind`, `Denotes`),
which may be another process, another handle, nothing, or the game (`SkipOwn`).

### ImageInject

An executable is its layout: the header fields, the sections, the end of the file and
the number of import descriptors. `FOAtoRVA` and `RVAtoFOA` are the two conversion loops,
including their treatment of the last section; `TrueRVA` is the definition they are
compared with. The room for a header is computed without sign (`SeemsToFit`): a negative one seems to fit. `spoiled` are the bytes of the old file that were written over.

### Launcher

`config` is the file as lines of key and value; a line without a key stands for any in
which `strtok` finds no second part. `WriteConfig` appends a line, to the end of the last
one if that is not ended. `ReadConfig` puts the values of all lines with the key one behind the
other, and crashes where `std::string` is made from a null pointer. `settings` and `careful` are
history: the lines that name the game with their values, and whether the file was
written as the program needs it. `Inject` is `ImageInject`'s next-state relation, with
nothing to read unless the name is the game's.

### ImageRemap

Memory is counted in pages from the base of the image. A page has who maps it (the image, a
private region, a view, another thread, or nobody), its protection, whether this can be
changed, and its data, which is `old` or `new`. Each system call is a step that may fail:
allocating the region, making the section object, mapping a copy, copying the sections,
unmapping copy and image, one view for each section, then the header, closing, checking. What
happens to the process when a call fails is the code's own early return: `step` is
`crashed` where it returns to code that is no longer mapped. `OtherThreads` write to
writable sections, allocate where they find room and enter a hook at any time; `DriverRemap` is
the driver's mapping of the same memory. `WithoutRemap` is the program as it is built
today, with both calls commented out.

### GameHooks

`name[b]` is what the game's string `b` holds: its own name, or one made at a time.
A string too short for all digits gets a cut name, by which two times
are not told apart. The three functions that copy a text of any length to `MAX_PATH`
characters on the stack end with `game = "broken"`. `active_flag` is set by the first
`ImmGetHotKey` and never reset; an activation without it ends the game.

### GameStart

The composition: the launcher must have finished with an image that loads before
`StartGame`, `DllMain` must have returned with the image usable before the game calls.
What a phase leaves behind that the next does not read is forgotten at the hand-over.

### JsonList, JsonHeap, JsonTree, JsonForest

A heap maps addresses to nodes with `child`, `next` and `prev`, where the `prev` of a first node is
the last one. `JsonList` and `JsonHeap` have one operator for each function that links or frees nodes;
those that can be proved about are in `JsonList`, among them `cJSON_Delete`, which frees the least set of nodes that
holds the item and all it leads to. In
`JsonTree` a program calls every function of `cJSON.c` that changes a tree, and the sort of
`cJSON_Utils.c`, within what they ask of the caller; every allocation may fail. `JsonForest`
knows no pointers: trees with sequences of children, and for each call the items it may
touch. The refinement mapping reads the child lists off the heap.

### JsonScan, JsonRead, JsonBuffer, JsonPrint, JsonText

Texts are sequences of character codes; strings are UTF-8; numbers are integers of few digits. The reader is
given the buffer with or without its final zero and notes whether it looked behind the end; the printer's buffer
is a record with bytes, offset and whether anything was written behind the end. The allocation of a string
fails when it is longer than `MaxString`, that of an item when no address is free. `JsonBuffer` has what is printed
in one piece (strings, numbers, literals, raw texts, what stands around and between elements and members),
`JsonPrint` the walk that puts the pieces together; `JsonScan` has what is read in one piece, with a string's
bytes written to the room allocated for it, `JsonRead` the loops over elements and members and what calls what.
In the code, `parse_value` and `print_value` call the functions for arrays and objects, which call them again.
Here the functions for one value take as a parameter what reads or prints the items of a list, and `ItemsOf`
ties the knot with one recursive function, from a list in the middle of its work (`Unfinished`, `Unprinted`) to
what comes of it: a function, unlike a recursive operator, can be proved about. `JsonUnicode` says what UTF-8
and escapes are without looking at cJSON, `JsonCompare` has minifying and comparing. In `JsonText` a document is
printed into a buffer that grows or one of the caller's, of each length around what is needed, or written by
another program with spaces and comments; it may be minified, one character may be damaged or the end cut off,
and it is read, with memory enough or with what other items have left of it (`ReadScarce`).

### JsonPatch, JsonExchange

Pointers, `cJSONUtils_GeneratePatches`, `ApplyPatches`, the merge patches, with the
sorting and the treatment of case they have in the code. In `JsonExchange` one program
changes its document, sends a patch, a merge patch or edits that undo one another, printed; the
other reads and applies what came to its own copy. A MOVE whose `from` is no string ends the program, as it
does in `detach_path` (`Crashed`).

## The runs

| run | instance | shows |
|---|---|---|
| `server_serial` | 3 ids, 3 nodes, one worker, memory enough | no callback crashes (`NoCrash`), no node leaks (`NoNodeLeak`), the whole implements `ClientRegistry` (`ImplementsRegistry`) |
| `server_workers` | 2 ids, 2 nodes, overlapping callbacks, `new` may throw | `ExtraOwnsNode` in every interleaving; `TableMatchesConnections`, `LoginRecorded` (what the answered chunk held), `NoCrossLogin` until a data race |
| `memory_check` | 1 hooked function, 2 modules, 3 changes, whole packets | calls do not overlap (`Lockstep`) and reports have a user (`ReportsAreAttributed`); lasting changes reach the server, and nothing else does (`ChangesReachServer`, `ReportsAreCaused`); `KeepsChecking`; the whole implements `ReportService` and `BACSession` |
| `session_split` | packets cut anywhere, at most 6 unread pieces before a report | `WaitEnds`: nobody waits for ever |
| `session_chunk` | the same | violation: a login cut in two is answered with Success (`NoSpuriousSuccess`) |
| `driver` | 2 processes, 2 loop threads | nothing runs on the freed object (`ContextValid`) but a thread past its test or not scheduled to its end (`OnlyCaughtThreads`); `PromiseKept`; `KeepsNotifying` |
| `service_games` | 3 games, 2 directories | who gets a driver and whose (`LoadedForOwner`, `LoadsOwnDriver`), when an install may fail (`InstallWorks`), that none stays (`NothingStays`) |
| `sweep_all` | ids 1 and 5, values 1, 2 and 5, in fields of 4 numbers, 2 handles at a time | no lasting handle that its entry can name is overlooked (`SweepExamines`); sweep follows sweep (`KeepsSweeping`) |
| `sweep_clear` | 1 id, 2 values | violation: a lasting handle survives a sweep (`SweepClears`) |
| `game_start` | 64-bit executables of 1 to 3 sections, 7 section tables of BAC-Base, settings files of up to 4 lines, 3 class strings | `StaysLoadable`, `AddressesResolve`, `GameIntact`, `ImportsFound`; `ConfigNamesGame`; `RemapProtects`, `RemapFailsWhole`; `OwnClass` |
| `json_tree` | 4 nodes, 2 names that differ in case, 1 reference | each call does what it promises (`ImplementsForest`); only the sort breaks a list (`LinksHold`) |
| `json_text` | documents of up to 3 levels, two deeper ones, four with a string too long, memory for 0 to 4 items; changes among twenty documents | `TextRoundTrip`, `PrintFits`, `ReadClean`, `PatchRoundTrip`, `MergeRoundTrip` |

The type invariants stand in the modules and are theorems (`TypeCorrect` of the server, the driver, the
driver service and the sweep, `SessionTypes`, `CheckTypes`, `HooksTypes`, `RemapTypes`).

Deadlock is checked in `server_serial`, `sweep_all` and `sweep_clear`. Elsewhere the
system really stops: a process ends or crashes, a connection is reset, all games have
ended, a file is written.

### The bounds, and why they are enough

- `ConnId`, `Node`: a race needs two callbacks, a reuse needs one id and one node to be
  closed and accepted again; two of each give both, and the third id of the
  serial run lets two clients be served while a third comes and goes. Nodes are as
  many as connections, which is the most that can be alive without a leak; a leak
  shows as an unreachable node before they run out. `server_serial` and
  `server_workers` use symmetry, which is sound for invariants and for the safety
  refinement they check; no run with a liveness property does.
- `MaxBacklog` (0 with whole packets, 6 with cut ones): a client that has lost step with
  the server adds one unread reply per report. 6 leaves room for one whole packet and
  its replies behind another. With whole packets nothing is ever left (`Lockstep`), so
  0 forbids no report.
- `MaxChanges` = 3: patch, restore and patch again, or a patch and a module that goes
  and returns. One hooked function and a module without hooks give each kind of item
  there is in the two walks.
- `LoopThread`: threads over the life of one image. Two, so that one may be asleep and
  one awake when the status is cleared. `Pid`: two, so that one process can be on the
  list while another holds the device, and one can open what the other has left.
- `Proc` = 3: one game that leaves something behind, and two that install over it at
  the same time. `Path` = 2: an entry with the right and one with the wrong file.
- `Pid` and `Value` of the sweep: ids and values are the same numbers, so that a process
  id can be taken for a handle value. `Width` = 4: 5 is cut to 1, so that one process, and one handle, is
  taken for another, and the ones that fit, two of one process among them, must still be looked at. The game
  has a handle of its own. `MaxHandles` = 2 more are open at a time: a snapshot then holds two that count, or
  one and one that is taken for it, and none at the first call and two at the next outgrow the buffer.
- `Executables`: room for the header of -8, 8, 16, 79 or 80 bytes (around twice a pointer, which
  the code compares with, and twice a header, which it needs; below zero it seems to fit), sections shorter than,
  equal to and longer than a page in memory and in the file, with and without bytes
  behind the last section, and import tables below and above what fits the section.
- `HandMade`, `MaxWrites` = 2: no file, an empty one, an unreadable line, the game's name
  once or twice, with a last line that is ended or not; two calls write over an
  existing key and put a line behind the one just written.
- `Layout`, `Granule` = 2, `Extent` = 10: sections that are aligned or not, without size in
  the middle and at the end, with each combination of rights there is a case for in the code, on a
  machine where an allocation takes two pages.
- `ClassString`, `Short`, `MaxClock` = 4: two strings that are cut to the same length and a long
  one, and enough time for a name to come back.
- `Node` of `json_tree`: four items make a list of three below a parent, which is where
  first, middle and last differ, and two trees of two. One `Kind`, `object`, since arrays go through the same
  functions. Symmetry: which free address `malloc` returns makes no difference.
- `Nesting` = 4 for `CJSON_NESTING_LIMIT`, with documents one level within and one beyond it;
  `MaxText` = 9 bounds the texts that are damaged, at every place; buffers of every length
  up to what is needed and six bytes beyond. `Node` of `json_text` has room for two documents,
  a patch and their copies: with 40 nodes no operator runs out of memory, but where `ReadScarce` leaves 0 to 4
  of them (`Memories`). `MaxString` = 26: the strings of the documents fit however they are escaped, and one
  byte more does not, as a value or a name, behind what has been read.

### Fairness

- `BACServer`: a worker runs a callback to its end. Nothing forces an event to come. No
  property of the runs depends on it.
- `BACSession`: the two threads, the delivery of what was sent and the server's callback
  are weakly fair: they are scheduled. Neither the end of the server nor a reset is.
  Coming to the end of a phase (`LoopNext`) is strongly fair, since reports interrupt it;
  `memory_check` shows that the loop thread with its finite lists, itself only weakly
  fair, has this property (`ImplementsSession`).
- `KernelDriver`: each loop thread and the unload are scheduled and sleeps end. Processes
  need do nothing.
- `DriverService`: a game that has begun to install or uninstall ends it, `DriverUnload`
  ends. A game may run for ever, and may be killed at any time.
- `HandleSweep`: the thread runs, except that nothing forces `VirtualAlloc` to fail. The
  other processes may do anything, at any speed.
- `GameStart` and the JSON modules state no fairness: their properties are about what is
  reached, not that anything is.

## Where the program does not do what it says

- `session_chunk`: `OnReceive` (`BACServer.cpp:92`) takes each chunk of the stream for one
  packet and nothing waits for the `data_len` bytes announced. A login packet in two
  chunks is answered Success with the user id cut off.
- `sweep_clear`: a handle that another process keeps is never cleared. With the driver's
  callbacks `GetProcessId` fails on the reduced duplicate; without them `KillHandle`
  (`MonitorCreateProcess.cpp:90`) passes the process id where the handle value belongs.

The models also state as conditions of their properties what the code leaves open:

- the data race on `_clients` (`raceSeen`), and `new` that throws (`AllocMayFail`);
- reports that go nowhere once the server has closed its end (`ChangesReachServer` asks for a
  live connection);
- a loop thread that is between reading the status and falling asleep when it is cleared, or that wakes in time
  (`KernelLoopEvent.cpp:42`) and is not scheduled through the test (16) to its end (45), outlives the object,
  because `DriverUnload` (`DriverEntry.cpp:48`) sleeps instead of waiting for it: `OnlyCaughtThreads` says
  that these are the only ways while sleeps end in order (`disorder`);
- handles whose process id or value does not fit the entry's 16 bits (`Fits`, `SystemApi.h:777`) may be
  overlooked;
- the second `PROTECT` of one load, which takes the callbacks down (`reopened`), and the driver of
  another directory that is loaded over a left-over entry (`LoadsOwnDriver`);
- executables `ImportTableInject` cannot handle (`RoomForHeaders`, `LastHasData`, `NoOverlay`,
  `TableFits`, `EndsInsidePage`), and settings files it cannot read (`careful`);
- a section of BAC-Base without size, which is mapped over all that follow it (`NoneCovered`);
- minifying takes the quote behind an escaped backslash for an escaped one
  (`HasLastBackslash`, `cJSON.c:2840`);
- names with a slash or an inner tilde, which `decode_pointer_inplace` does not decode
  (`cJSON_Utils.c:373`), and names that differ in case only, which `detach_path` never
  tells apart (`PatchableNames`); names sorted in one order and compared in
  another when a merge patch is made (`MergeableNames`, `cJSON_Utils.c:1423`);
- a list whose first item does not know the last after the sort (`LinksHold` excepts
  `SortObject`, `cJSON_Utils.c:601`).

## What is proved

All theorems hold for every value of the constants that the named assumptions allow:
any number of connections, addresses, processes, handles and threads.

`BACServer_proofs`, from `NilAssumption` and `ModeAssumption`:

1. `TypeCorrect`, action by action.
2. `NodeOwnership` (`ExtraOwnsNode`). Not inductive alone: a callback's pointer is
   used one step after it was read. `OwnerInv` adds `Stages`, which says for each point of
   a callback which pointers are set; then `OnClose`, the only place that deletes, cannot
   run while another callback of the connection holds the node.
3. `TableExact` (`TableMatchesConnections`). `TableInv` adds `NoRaced`: no access is marked
   as raced before the first race.
4. `LoginIsRecorded`, `NoCrossLoginHolds`: a login answered with Success has recorded just what its chunk held
   of its own client's user id. `LoginInv` adds `FlagSet`: between the two writes of
   a login the first has taken place.
5. `ServerStaysUp` (`NoCrash`), from 2, 3 and `HasExtra`: with enough memory each accepted
   connection has a node.
6. `NoNodeIsLost` (`NoNodeLeak`): a node that lives is the extra of its connection or still held by
   the callback that made it.
7. `OneWorkerNeverRaces`, from `OneCallback`: at most one callback is running.
8. `ServerImplementsRegistry` (`ImplementsRegistry`): the initial state maps to the abstract one and
   each step to a step or a stutter (`RegistryStep`). It needs `FreshNode` (a node not yet in the
   table is not logged in) besides the invariants above, and 7, which removes their condition.

`MemoryCheck_proofs`, of the session (`BACSession`), for packets that arrive whole (`WholePackets`), which is also what
separates the program as it is meant from the one `session_chunk` shows. `SessionInv`
relates what is on the wire to the one thread that waits: `Order` says which of the two
threads may call, `Wire` and `Waiting` that a packet on its way is that of the open call, that a reply
answers it and was served, `Quiet` that without an open call the wire is
empty, `LoggedIn` who has a user. From it `SuccessIsAnswered` (`NoSpuriousSuccess`),
`CallsInLockstep`, `ReportsHaveUser`, and `SessionImplementsService`: the safety part of
`ImplementsService`, step by step.

`MemoryCheck_proofs`, of the checks, from `ModuleAssumption`, `HookAssumption`, `HomeAssumption` and `ChangesAssumption`:

1. `ChecksUseSession`: every step of the composition is a step of the session or leaves it alone
   (the safety part of `ImplementsSession`). With it the session's theorems hold here without being
   proved again: `ChecksInLockstep` (`Lockstep`), `ChecksHaveUser` (`ReportsAreAttributed`), and
   `ChecksImplementService`, the two refinements put together: every step of the walks is a step of
   `ReportService` or a stutter.
2. `ReportsHaveCause` (`ReportsAreCaused`) and `LastingChangesReachServer` (`ChangesReachServer`), for any
   list of hooks and set of modules. A report says something of the list being walked, and what will be
   found depends on what of the list is left, so `CheckInv` says: where the thread is in which list, and
   that all sections are recorded before any is compared (`Walk`); that each listed section
   has a recorded value or is still to be given one (`Listed`); that what nobody touched is as it was
   recorded (`Untouched`), so that what differs, and only that, was touched (`Caused`); and that what has differed
   since the round began was handled, or is still ahead in the walk and will be found there (`Pending`).
   Only `Pending` needs whole packets.

`KernelDriver_proofs`, from `NoneAssumption`, `ThreadAssumption`:

1. `ContextStaysValid` (`ContextValid`). `ContextInv` adds `Teardown`, the order in which
   `DriverUnload` takes away the handle, the timer and the callbacks before the object.
2. `PromiseIsKept` and `EventIsValid`. `FreshInv` adds `FirstOpen`: until a second process has opened
   the driver, what can have been done by its one holder at each stage.
   `LoadedForOwner`, proved of `DriverService`, is why the condition `~reopened` is met by a
   game that installs alone: it opens a driver loaded for it.
3. `OnlyCaughtThreadsOutlive`. `OrderInv` says that a thread asleep when the status is cleared
   is before the unload in `sleepers` (`Queue`), so that it has woken before the unload goes on; that a thread
   which has tested the cleared status does not walk again; and so which threads can still be there (`Caught`).

`DriverService_proofs`, from `NoneAssumption`: `ServiceInv` has `Machine` (how entry, driver
and handles go together), `Owned` (whose driver is loaded), `Holds` (what a game has in
its hands at each step of its code) and, for a game that is alone, `Install` (what it finds at
each step). From it `LoadedForOwnerHolds`, `OwnDriverLoaded`, `InstallAloneWorks`,
`NoDriverStays`.

`HandleSweep_proofs`, from `NumberAssumption`, `GameAssumption`, `WidthAssumption`, `NoneAssumption` and
`ValueAssumption`: `NothingOverlooked` (`SweepExamines`), for any ids and values, those that do not fit an entry
among them. `SweepInv` adds `Progress`: what stands and fits has been examined or is still left.

`GameStart_proofs`, for the composition:

1. The launcher, from the assumptions of `ImageInject` and `Launcher`. `InjectInv` says what an injected
   image is made of: the old one, the new section and the copied table. `StaysLoadableHolds` is for all
   executables. `GameIntactHolds` and `AddressesResolveHolds` assume sections in the order of
   the file (`InFileOrder`), `ImportsFoundHolds` in the order of memory (`InMemoryOrder`), as linkers write
   them, of executables whose last section has data; the instance of `game_start` has both.
2. The settings file. `ConfigNamesGameHolds` (`ConfigNamesGame`), from `ConfigInv`: a careful file has whole,
   readable lines, and `settings` are those of them that name the game. `ReadConfig` puts the values of all
   such lines together with `FlattenSeq`, a recursive function of the community modules; `FlattenOne` shows
   what it gives when all values but one are empty.
3. `RemapImage`, from `GranuleAssumption` and `LayoutAssumption`: `RemapInv` says for each step
   which pages are the image's, which are views, which free, and what they hold (`Loading`,
   `Mapping`, `Ending`); sections do not overlap (`Sections`), so that a view mapped later leaves
   the earlier ones. From it `RemapProtectsHolds` and `RemapFailsWholeHolds`, for every layout.
4. `OwnClassHolds`, from `ClassInv`: no two strings have registered the same name.

`Json_proofs` (1, 2, 4 and the pieces of 3) and `JsonWhole_proofs` (5 and the trees of 3), from `NullAssumption` and
`StringAssumption`: lemmas about operators rather than about a specification, for any set of addresses and lists and texts of any length.

1. Lists. `Represents(h, lists, open)` is the relation the list functions of cJSON keep: the pointers of `h` are
   those of the sequences `lists`, except that the first item of a list that is still being built (`open`) does
   not know the last. Each function is an operation on sequences: `AddItemAppends` and `AddToObjectAppends`
   append, `DetachRemoves` removes, `InsertPutsBefore` inserts, `ReplaceExchanges` exchanges, `LinkNextAppends`
   and `CloseListCloses` build a list item by item, new items and references (`NewItemIsRoot`,
   `ReferenceIsRoot`) leave all lists as they were. What each step of a function writes is stated first, and one
   frame lemma (`OtherLists`) says that the lists of other nodes are not disturbed. `ListsAreDetermined`: a heap
   represents one assignment of lists, so the sequences are a function of the pointers, as the refinement
   mapping of `JsonTree` takes them. `RepresentedIsWellLinked`: a represented list is as `LinksHold` asks.
2. Names. `NamesAreOrdered`: `compare_strings` orders any two names, with or without case, as the
   merging of the sort relies on.
3. Printing. `EnsureMakesRoom`: `ensure` fails, or leaves room for what is asked and a zero behind it, and keeps
   what was printed; a buffer of the caller's never grows. From it (`WritesFit`): strings with any escapes,
   numbers, literals and raw texts (`PiecesFit`), and what stands around and between elements and members at any
   depth (`ArraysFit`, `ObjectsFit`) stay inside the buffer; `UpdateOffsetStops`: where the code looks for the
   end of what it printed, it finds the zero a piece has ended with. `PrintingStaysInside` puts the pieces
   together: a tree of any size and shape, into any buffer. It asks that no item is below or behind itself, as
   the code does, which would never end: some function `rank` falls from an item to its child and to the next
   one.
4. Reading in one piece. `StringFits`: `parse_string` allocates the length of the text less its escapes, and for
   any bytes writes no more than that, with an argument about how many bytes each escape takes and gives.
   `PiecesStayInside`: a string, a number, a literal, a name, white space each leave the reader in front of the
   zero that ends the text. `EncodesUtf8`: what the shifts and masks of `utf16_literal_to_utf8` write is UTF-8,
   for every code point and surrogate pair. `EscapedStringIsRead` and `PrintedStringIsRead`: strings of any
   length that another program has escaped, or cJSON has printed into any buffer, and for which there is memory, are read as they were: the
   round trip of `TextRoundTrip`, for its strings.
5. Reading a text. `ReadingStaysInside`: whatever the bytes, the nesting and the allocations that fail, the
   reader looks at nothing behind the zero, and the error is at a place of the text. `ReadingLeavesNothing`: a
   refused text leaves the heap exactly as it was; of one that was read, deleting the item frees exactly what
   was allocated. The invariant of the second: what hangs from the item being read (`Hangs`, the least set that
   holds it and all it leads to) is what was taken from free memory since (`Fresh`), at each item that is
   linked, each name, each value (`Building`), so that deleting it, where reading gives up, restores the heap
   (`DeleteRestores`). It asks that there are finitely many addresses, and that what is free is all alike
   (`Clean`). Together they are what `ReadClean` says of a text that ends with a zero, but for its last clause,
   that what was read is well linked and prints as it was.

Where a proof needs induction over numbers (the names, the lists' lengths, `FlattenSeq`), it looks at the least
counterexample (`NatMin`, from well-foundedness of the naturals), since the induction theorems of the library
take an operator. For the lists that are read or printed it is the one with
the least text left to read, or of least rank: that there is a function as `ItemsOf` defines it is proved
(`DefinedByRank`), and what holds of all lists further on (`ReadsFrom`, `OwnsBehind`) is shown of this one. The step theorems have one case per action;
temporal steps use PTL only.

### What is only model-checked

- Liveness (`WaitEnds`, `KeepsChecking`, `KeepsNotifying`, `KeepsSweeping`, the fairness part of
  `ImplementsSession` and `ImplementsService`): out of the prover's reach.
- Of cJSON, `LinksHold`, `ImplementsForest`, `TextRoundTrip`, `PrintFits`, `ReadClean`, `PatchRoundTrip` and
  `MergeRoundTrip` as the runs state them: their modules find, duplicate, sort, compare and patch by recursive
  operators, and a theorem cannot reach these. What the printer and the reader do to memory is proved (3 to 5
  above): of `PrintFits` that a text stays inside its buffer, of `ReadClean` that reading stays inside and
  leaves nothing behind. Not proved is that `PrintFits` succeeds whenever there is room, and that a whole
  document is read as what was printed, for which strings and the pieces are only the leaves.

### What the proofs changed

Where a proof failed for a good reason, the model was corrected:

- `print_value`, `compare_json` and `DetachChild` had a `CASE` with guards that overlap. TLC takes the first;
  TLA+ any. They have one guard per case now, in the order of the code.
- `FreedWith`, which `cJSON_Delete` is made of, said `UNION S \ {NULL}`, which is to be read as `UNION (S \
  {NULL})`: with parentheses it is the same for every reader.
- Deleting, the reader and the printer were recursive operators. As functions they are proved about, and the
  runs check the same properties of them.

## What is not modelled

- Graphical interface, UDP listener, kernel messages in user mode: presentation, or empty.
  The log and the pure conversions of `BACTools` keep no state and have no caller among what is
  modelled. The rendering hooks and the demo game have no caller at all.
- HP-Socket, Detours, the service control manager, TCP and the loader come as binaries: they appear as the
  code uses them. VMProtect's markers have no effect on state.
- `HideHook`, whose loop is commented out; `GetProcessIDByName`, without a caller; the thread
  and memory hooks, which pass their call on.
- `ThreadHandlePreCallback` compares the thread it is given, taken for a process
  (`ProcessProtect.cpp:333`), with the list of process ids, and keeps nothing.
- The reuse of a protected process id (`ProcessProtect.cpp:297`) and the buffer for module handles, whose size is a process id
  (`BACTools.cpp:140`): each is a single value, not a behaviour of several steps.
- Titles and paths longer than `MAX_PATH` characters are modelled and end the game, and no property says
  they do not; `SetWindowTextW` passes on the title without the mark.
- `StartServer` and `StopServer`: the models begin with a server that listens and never stops it.
- What cJSON's functions do to a list left half linked by the sort; who owns the strings of an item;
  the setters of a single value; numbers other than small integers.
- Reference counts, pool and handles that leak without an effect on the state modelled.

## Plan

Done, in this order: `BACProtocol`, `BACServer` with `ClientRegistry`; `BACSession` with
`ReportService`; `KernelDriver`; `DriverService`; `HandleSweep`; `ImageInject`; `MemoryCheck`, which
composes checks and session; `Launcher`, `ImageRemap`, `GameHooks`, composed in `GameStart`; the JSON
modules; and proofs of each, of cJSON the lists, the printer and the reader.

Next:

1. Duplicating and sorting of `JsonHeap` as functions: `Represents` is
   then the core of an inductive invariant of `JsonTree`, and `LinksHold` follows by `RepresentedIsWellLinked`.
2. That what was read `Represents` the lists of its tree, from `Building` and `LinkNextAppends`.
3. The round trip of a tree, from `PrintedStringIsRead` and the ranks of `PrintingStaysInside`.
4. `DriverService` and `KernelDriver` composed, so that `~reopened` becomes a theorem about installs
   that do not overlap instead of a condition.
5. The reuse of a protected id in `KernelDriver`.
6. A server that calls cJSON, when the program does.
