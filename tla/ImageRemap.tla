----------------------------- MODULE ImageRemap -----------------------------
(***************************************************************************)
(* BAC::RemapImage: BAC-Base copies its own image into a section object,   *)
(* unmaps the image and maps each of its sections again as a view whose    *)
(* protection nobody can change.  BACKernel::RemapImage asks the driver    *)
(* for a mapping of the same memory.  BAC-Base.cpp:71-79 holds both calls, *)
(* commented out; they are modelled as they would be made there, when the  *)
(* hooks are in place.                                                     *)
(*                                                                         *)
(* Memory is counted in pages from the image's base, which Windows aligns. *)
(* Any call may fail.  Other threads write the image's data, allocate      *)
(* memory where they find room, and enter BAC-Base through the hooks, all  *)
(* at any time.                                                            *)
(***************************************************************************)
EXTENDS Naturals, Sequences, Functions

CONSTANTS Layout,  \* the section tables BAC-Base may be linked with
          Granule, \* SYSTEM_INFO.dwAllocationGranularity
          Extent   \* SizeOfImage

\* va, size: VirtualAddress and VirtualSize; rights: of execute, read, write;
\* used: code that runs after the remap refers to the section.
SectionHeader == [va : 1..(Extent - 1), size : 0..(Extent - 1),
                  rights : SUBSET {"execute", "read", "write"}, used : BOOLEAN]

ASSUME GranuleAssumption == Granule \in Nat \ {0} /\ Extent \in Nat \ {0}
ASSUME LayoutAssumption ==
  \A l \in Layout :
    /\ l \in Seq(SectionHeader)
    /\ \A i \in DOMAIN l : l[i].va + l[i].size <= Extent
    /\ \A i, j \in DOMAIN l : i < j => l[i].va + l[i].size <= l[j].va

VARIABLES step,      \* where RemapImage is
          part,      \* i, the section to be mapped next
          layout,    \* the section table
          mem,       \* the pages the image was loaded to
          store,     \* hSection: what was copied, << >> when there is none
          remapping, \* pRemapRegion and pViewBase, while allocated
          status,    \* what RemapImage returns
          written,   \* the pages written, not counting lost writes
          driver     \* what came of BACKernel::RemapImage

remapVars == <<step, part, layout, mem, store, remapping, status, written, driver>>

Page0 == 0..(Extent - 1)
PagesOf(s) == s.va .. (s.va + s.size - 1)
Parts == Range(layout)

-----------------------------------------------------------------------------
(* Protection *)

\* g_CharacteristicsProtectionMap[executable][readable][writable]
ProtectionMap ==
  <<<<<<"NOACCESS", "WRITECOPY">>, <<"READONLY", "READWRITE">>>>,
    <<<<"EXECUTE", "EXECUTE_WRITECOPY">>, <<"EXECUTE_READ", "EXECUTE_READWRITE">>>>>>

Protection ==
  {"NOACCESS", "READONLY", "READWRITE", "WRITECOPY",
   "EXECUTE", "EXECUTE_READ", "EXECUTE_READWRITE", "EXECUTE_WRITECOPY"}

Index(flag) == IF flag THEN 2 ELSE 1

\* Mutant: the map is indexed with writable before readable.
ConvertProtection_Swapped(rights) ==
  ProtectionMap[Index("execute" \in rights)][Index("write" \in rights)][Index("read" \in rights)]

ConvertProtection(rights) ==
  ProtectionMap[Index("execute" \in rights)][Index("read" \in rights)][Index("write" \in rights)]

\* Reference: what the processor lets a thread do with a page.
Allowed(protection) ==
  CASE protection = "NOACCESS" -> {}
    [] protection = "READONLY" -> {"read"}
    [] protection = "EXECUTE" -> {"execute"}
    [] protection = "EXECUTE_READ" -> {"execute", "read"}
    [] protection \in {"READWRITE", "WRITECOPY"} -> {"read", "write"}
    [] protection \in {"EXECUTE_READWRITE", "EXECUTE_WRITECOPY"} -> {"execute", "read", "write"}

\* VirtualProtect: of a view mapped with SEC_NO_CHANGE nothing can be changed.
VirtualProtectFails(p, protection) == mem[p].fixed /\ mem[p].protection # protection

\* Mutant: the most permissive protection is the one tried on every region.
Unchangeable_SameTest(p) ==
  mem[p].by # "free" /\ VirtualProtectFails(p, "EXECUTE_READWRITE")

\* ValidateRemappedPeSectionProtection
Unchangeable(p) ==
  /\ mem[p].by # "free"
  /\ VirtualProtectFails(p, IF mem[p].protection # "EXECUTE_READWRITE"
                            THEN "EXECUTE_READWRITE" ELSE "NOACCESS")

-----------------------------------------------------------------------------
Free == [by |-> "free", protection |-> "NOACCESS", fixed |-> FALSE, data |-> "none"]
Taken == [Free EXCEPT !.by = "other"]
Loaded == [Free EXCEPT !.by = "image", !.data = "old"]
View(protection, data) ==
  [by |-> "view", protection |-> protection, fixed |-> TRUE, data |-> data]

RemapTypeOK ==
  /\ step \in {"unloaded", "verify", "allocate", "create", "view", "copy", "unview", "unmap",
               "map", "close", "validate", "free", "done", "returned", "crashed"}
  /\ layout \in Layout \cup {<< >>}
  /\ part \in 1..(Len(layout) + 1)
  /\ \A p \in Page0 : mem[p] \in [by : {"free", "other", "image", "view"}, protection : Protection,
                                  fixed : BOOLEAN, data : {"none", "old", "new"}]
  /\ store = << >> \/ store \in [Page0 -> {"none", "old", "new"}]
  /\ remapping \subseteq {"region", "view"}
  /\ status \in BOOLEAN /\ written \subseteq Page0
  /\ driver \in {"idle", "silent", "refused", "section_open"}

RemapInit ==
  /\ step = "unloaded"
  /\ layout = << >>
  /\ mem = [p \in Page0 |-> Free]
  /\ store = << >> /\ remapping = {} /\ status = TRUE /\ written = {}
  /\ part = 1 /\ driver = "idle"

At(s, next) == step = s /\ step' = next

\* The loader has mapped the image, DllMain has installed the hooks.
LoadImage ==
  /\ At("unloaded", "verify")
  /\ layout' \in Layout
  /\ mem' = [p \in Page0 |-> Loaded]
  /\ UNCHANGED <<part, store, remapping, status, written, driver>>

\* goto exit; in the remap region, that closes hSection and returns.
Exit(next) == step' = next /\ status' = FALSE

VerifyPeSectionAlignment ==
  /\ step = "verify"
  /\ IF \A s \in Parts : s.va % Granule = 0
     THEN step' = "allocate" /\ UNCHANGED status
     ELSE Exit("done")
  /\ UNCHANGED <<part, layout, mem, store, remapping, written, driver>>

AllocateRegion ==
  /\ \/ At("allocate", "create") /\ remapping' = {"region"} /\ UNCHANGED status
     \/ step = "allocate" /\ Exit("done") /\ UNCHANGED remapping
  /\ UNCHANGED <<part, layout, mem, store, written, driver>>

CreateSection ==
  /\ \/ At("create", "view") /\ store' = [p \in Page0 |-> "none"] /\ UNCHANGED status
     \/ step = "create" /\ Exit("free") /\ UNCHANGED store
  /\ UNCHANGED <<part, layout, mem, remapping, written, driver>>

MapCopyView ==
  /\ \/ At("view", "copy") /\ remapping' = remapping \cup {"view"} /\ UNCHANGED status
     \/ step = "view" /\ Exit("close") /\ UNCHANGED remapping
  /\ UNCHANGED <<part, layout, mem, store, written, driver>>

\* Each section, and the page of the headers.
CopyPeSections ==
  /\ At("copy", "unview")
  /\ store' = [p \in Page0 |->
                 IF p = 0 \/ \E s \in Parts : p \in PagesOf(s) THEN mem[p].data ELSE store[p]]
  /\ UNCHANGED <<part, layout, mem, remapping, status, written, driver>>

UnmapCopyView ==
  /\ \/ At("unview", "unmap") /\ remapping' = remapping \ {"view"} /\ UNCHANGED status
     \/ step = "unview" /\ Exit("close") /\ UNCHANGED remapping
  /\ UNCHANGED <<part, layout, mem, store, written, driver>>

UnmapImage ==
  /\ \/ At("unmap", "map") /\ mem' = [p \in Page0 |-> Free] /\ UNCHANGED status
     \/ step = "unmap" /\ Exit("close") /\ UNCHANGED mem
  /\ UNCHANGED <<part, layout, store, remapping, written, driver>>

\* A view of size 0 reaches to the end of the section object.
ViewPages(s) == IF s.size = 0 THEN s.va .. (Extent - 1) ELSE PagesOf(s)

\* MapProtectedView
MapView(pages, protection) ==
  \/ /\ \A p \in pages : mem[p].by = "free"
     /\ mem' = [p \in Page0 |-> IF p \in pages THEN View(protection, store[p]) ELSE mem[p]]
     /\ UNCHANGED status
  \/ status' = FALSE /\ UNCHANGED mem

MapSection ==
  /\ step = "map" /\ part <= Len(layout)
  /\ LET s == layout[part] IN MapView(ViewPages(s), ConvertProtection(s.rights))
  /\ IF status' THEN part' = part + 1 /\ UNCHANGED step ELSE step' = "close" /\ UNCHANGED part
  /\ UNCHANGED <<layout, store, remapping, written, driver>>

MapHeader ==
  /\ step = "map" /\ part > Len(layout)
  /\ MapView({0}, "READONLY")
  /\ step' = "close"
  /\ UNCHANGED <<part, layout, store, remapping, written, driver>>

\* What BAC-Base's code refers to when it runs.
Usable == \A s \in Parts : s.used => \A p \in PagesOf(s) : mem[p].by \in {"image", "view"}

\* NtClose, and back in the image.
CloseSection ==
  /\ step = "close"
  /\ store' = << >>
  /\ step' = IF ~Usable THEN "crashed" ELSE IF status THEN "validate" ELSE "free"
  /\ UNCHANGED <<part, layout, mem, remapping, status, written, driver>>

ValidateRemappedImage ==
  /\ At("validate", "free")
  /\ status' = \A p \in {0} \cup {s.va : s \in Parts} : Unchangeable(p)
  /\ UNCHANGED <<part, layout, mem, store, remapping, written, driver>>

\* VirtualFree; its failure is only logged.
FreeRegion ==
  /\ At("free", "done")
  /\ remapping' \in {remapping, remapping \ {"region"}}
  /\ UNCHANGED <<part, layout, mem, store, status, written, driver>>

-----------------------------------------------------------------------------
(* The driver's RemapImage, asked through BACKernel::RemapImage *)

AskDriver(outcome) ==
  /\ step = "done" /\ driver = "idle"
  /\ driver' = outcome
  /\ UNCHANGED <<step, part, layout, mem, store, remapping, status, written>>

\* DeviceIoControl fails: its result is not looked at, and return_buffer,
\* still NULL, is taken for success.
DriverSilent == AskDriver("silent")

\* The process cannot be opened.
DriverRefuses == AskDriver("refused")

\* The section is created and never closed again; its view finds the image in
\* its place, so that the code after it is not reached.
DriverMaps == (\E p \in Page0 : mem[p].by # "free") /\ AskDriver("section_open")

-----------------------------------------------------------------------------
(* The other threads of the process *)

Living == step \notin {"unloaded", "done", "returned", "crashed"}

Writable(p) ==
  \/ mem[p].by = "image"
  \/ mem[p].by = "view" /\ "write" \in Allowed(mem[p].protection)

OtherWrites(p) ==
  /\ Living
  /\ \E s \in Parts : p \in PagesOf(s) /\ "write" \in s.rights
  /\ IF Writable(p)
     THEN /\ mem' = [mem EXCEPT ![p].data = "new"]
          /\ written' = IF step \in {"unview", "unmap"} THEN written ELSE written \cup {p}
          /\ UNCHANGED step
     ELSE step' = "crashed" /\ UNCHANGED <<mem, written>>
  /\ UNCHANGED <<part, layout, store, remapping, status, driver>>

OtherAllocates(p) ==
  /\ Living /\ p % Granule = 0
  /\ LET block == {q \in Page0 : q \div Granule = p \div Granule}
     IN /\ \A q \in block : mem[q].by = "free"
        /\ mem' = [q \in Page0 |-> IF q \in block THEN Taken ELSE mem[q]]
  /\ UNCHANGED <<step, part, layout, store, remapping, status, written, driver>>

\* A hooked function is called: Detours' jump leads into BAC-Base.
OtherEntersHook ==
  /\ Living /\ ~Usable
  /\ step' = "crashed"
  /\ UNCHANGED <<part, layout, mem, store, remapping, status, written, driver>>

-----------------------------------------------------------------------------
Remap ==
  \/ VerifyPeSectionAlignment \/ AllocateRegion \/ CreateSection \/ MapCopyView
  \/ CopyPeSections \/ UnmapCopyView \/ UnmapImage \/ MapSection \/ MapHeader
  \/ CloseSection \/ ValidateRemappedImage \/ FreeRegion

DriverRemap == DriverSilent \/ DriverRefuses \/ DriverMaps

OtherThreads ==
  \/ \E p \in Page0 : OtherWrites(p) \/ OtherAllocates(p)
  \/ OtherEntersHook

-----------------------------------------------------------------------------
(* Properties *)

Protected(p, rights) ==
  /\ mem[p].by = "view" /\ mem[p].fixed
  /\ rights \subseteq Allowed(mem[p].protection)
  /\ Allowed(mem[p].protection) \ rights \subseteq
       IF "write" \in rights THEN {"read"} ELSE {}
  /\ mem[p].data = IF p \in written THEN "new" ELSE "old"

\* What RemapImage is for: when it returns true, every page of every section,
\* and the header, can be used as its section says, holds what it held before
\* or was given since, and its protection cannot be changed; a write that fell
\* between copying and unmapping is lost.  This stays so whatever the driver
\* is asked afterwards.
RemapProtects ==
  step = "done" /\ status =>
    /\ Protected(0, {"read"})
    /\ \A s \in Parts : \A p \in PagesOf(s) : Protected(p, s.rights)

\* A section without size is mapped over all that follow it.
NoneCovered == \A i \in 1..(Len(layout) - 1) : layout[i].size # 0

\* When it returns false, and no section covers others, the image is as it was
\* loaded; or the sections its code refers to are protected, and what is
\* missing is the header.  A process that lost more than that has ended.
RemapFailsWhole ==
  step = "done" /\ ~status /\ NoneCovered =>
    \/ \A p \in Page0 : mem[p].by = "image"
    \/ /\ mem[0].by # "view"
       /\ \A s \in Parts : s.used => \A p \in PagesOf(s) : Protected(p, s.rights)
=============================================================================
