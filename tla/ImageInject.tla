---------------------------- MODULE ImageInject ----------------------------
(***************************************************************************)
(* BAC-Helper's ImportTableInject: it reads the game's executable, appends *)
(* a section (AddSection), copies the import descriptors into it, adds one *)
(* for BAC-Base, points the import directory at the copy and writes the    *)
(* file the player will start.  An executable is its layout: what its      *)
(* headers say and which bytes of the file belong to whom.                 *)
(***************************************************************************)
EXTENDS Integers, Sequences, SequencesExt

CONSTANTS Exe,      \* the executables the launcher may be given
          NtSize,   \* sizeof(IMAGE_NT_HEADERS)
          Pointer,  \* sizeof(a pointer), of a thunk too
          NameSize, \* strlen(dll_name) + 1 + strlen(import_function_name) + 1
          None

Page == 4096        \* 0x1000
EntrySize == 40     \* sizeof(IMAGE_SECTION_HEADER)
DescriptorSize == 20
SectionSize == 4096 \* the arguments of AddSection: section_size,
VirtualSize == 1536 \* virtual_size

Section == [va : Nat, vsize : Nat, raw : Nat, rsize : Nat]

\* lfanew .. size: the header fields; file: the length of the file; imports:
\* the number of import descriptors, bound: how many come before the first
\* without an OriginalFirstThunk; import: the RVA of the import directory.
Executable == [lfanew : Nat, sections : Seq(Section), headers : Nat, size : Nat,
               file : Nat, imports : Nat, bound : Nat, import : Nat]

ASSUME ExeAssumption == \A x \in Exe : x \in Executable /\ x.sections # <<>>
ASSUME SizeAssumption == NtSize \in Nat /\ Pointer \in Nat /\ NameSize \in Nat \ {0}
ASSUME NoneAssumption == None \notin Exe

VARIABLES pc,      \* where the launcher is
          exe,     \* the file it has read, None before
          image,   \* the buffer: file_buffer, then NewBuffer
          spoiled, \* the bytes of the old file it has written over
          import   \* the new descriptor: addresses it holds, None before

vars == <<pc, exe, image, spoiled, import>>

-----------------------------------------------------------------------------
(* Address conversion *)

\* The header after the last is all zeroes.
NextVA(s, i) == IF i = Len(s) THEN 0 ELSE s[i + 1].va
NextRaw(s, i) == IF i = Len(s) THEN 0 ELSE s[i + 1].raw

\* The loop takes the first section that fits, or else the last.
FirstOf(s, Fits(_)) ==
  IF \E i \in DOMAIN s : Fits(i)
  THEN CHOOSE i \in DOMAIN s : Fits(i) /\ \A j \in 1..(i - 1) : ~Fits(j)
  ELSE Len(s)

\* Mutant: the first section whose raw data begins at or before the address.
FOAtoRVA_FirstBelow(s, foa) ==
  LET i == FirstOf(s, LAMBDA k : foa >= s[k].raw)
  IN foa - s[i].raw + s[i].va

FOAtoRVA(s, foa) ==
  LET i == FirstOf(s, LAMBDA k : foa >= s[k].raw /\ foa < NextRaw(s, k))
  IN foa - s[i].raw + s[i].va

\* Mutant: the first address of a section is taken for the end of the one before.
RVAtoFOA_UpTo(s, rva) ==
  LET i == FirstOf(s, LAMBDA k : rva >= s[k].va /\ rva <= NextVA(s, k))
  IN rva - s[i].va + s[i].raw

RVAtoFOA(s, rva) ==
  LET i == FirstOf(s, LAMBDA k : rva >= s[k].va /\ rva < NextVA(s, k))
  IN rva - s[i].va + s[i].raw

\* Reference: the section whose part of the file has the byte.
Holds(sec, foa) == foa >= sec.raw /\ foa < sec.raw + sec.rsize
TrueRVA(s, foa) ==
  {foa - s[i].raw + s[i].va : i \in {j \in DOMAIN s : Holds(s[j], foa)}}

-----------------------------------------------------------------------------
(* AddSection *)

\* size_now_header, and the room behind the section table.
TableEnd(x) == x.lfanew + NtSize + EntrySize * Len(x.sections)
Room(x) == x.headers - TableEnd(x)

\* The test: a difference of DWORDs that would be negative is a huge one.
SeemsToFit(x) == Room(x) < 0 \/ Room(x) >= 2 * Pointer

\* The memory of the last section, rounded to the page after it.
LastSize(sec) ==
  ((IF sec.rsize < sec.vsize THEN sec.vsize ELSE sec.rsize) \div Page + 1) * Page

\* Mutant: the raw data goes where the last section's begins.
NewSection_OnLast(sec) ==
  [va |-> sec.va + LastSize(sec), vsize |-> VirtualSize,
   raw |-> sec.raw, rsize |-> SectionSize]

NewSection(sec) ==
  [va |-> sec.va + LastSize(sec), vsize |-> VirtualSize,
   raw |-> sec.raw + sec.rsize, rsize |-> SectionSize]

\* Mutant: SizeOfImage is left alone.
WithSection_SameSize(x) ==
  [x EXCEPT !.file = @ + SectionSize,
            !.sections = Append(@, NewSection(Last(@)))]

WithSection(x) ==
  [x EXCEPT !.size = @ + SectionSize, !.file = @ + SectionSize,
            !.sections = Append(@, NewSection(Last(@)))]

\* The bytes of the old file in from .. from + length - 1 that belong to a
\* section or to what follows the last one, or to the headers.
OldBytes(x, from, length) ==
  {b \in {"headers", "data"} :
     IF b = "headers" THEN from < TableEnd(x) /\ length > 0
     ELSE \/ \E s \in {x.sections[i] : i \in DOMAIN x.sections} :
               s.rsize > 0 /\ from < s.raw + s.rsize /\ s.raw < from + length
          \/ from < x.file /\ x.file > Last(x.sections).raw + Last(x.sections).rsize
             /\ from + length > Last(x.sections).raw + Last(x.sections).rsize}

-----------------------------------------------------------------------------
(* ImportTableInject *)

\* The copy ends at the first descriptor without an OriginalFirstThunk.
Copied(x) == x.bound

\* Where it writes: the new descriptor after the n it copied, one more to end
\* the table, two thunks twice, the two names.
Thunks(base, n) == base + DescriptorSize * (n + 2)
Names(base, n) == Thunks(base, n) + 4 * Pointer
WriteEnd(base, n) == Names(base, n) + NameSize

TypeOK ==
  /\ pc \in {"read", "add_section", "copy", "write", "done", "failed", "crashed", "lost"}
  /\ exe \in Executable \cup {None}
  /\ image \in Executable \cup {None}
  /\ spoiled \subseteq {"headers", "data", "beyond"}
  /\ pc \in {"copy", "write", "done", "lost"} => Len(image.sections) = Len(exe.sections) + 1
  /\ import = None \/ import \in [source : Int, copied : Nat, table : Int, name : Int, thunk : Int]

Init ==
  /\ exe = None /\ image = None
  /\ pc = "read" /\ spoiled = {} /\ import = None

ReadFileToBuffer ==
  /\ pc = "read"
  /\ \/ pc' = "add_section" /\ exe' \in Exe /\ image' = exe'
     \/ pc' = "failed" /\ UNCHANGED <<exe, image>>
  /\ UNCHANGED <<spoiled, import>>

\* A header for the section and an empty one, if the room is thought to do.
AddSection ==
  /\ pc = "add_section" /\ SeemsToFit(exe)
  /\ image' = WithSection(exe)
  /\ spoiled' = OldBytes(exe, TableEnd(exe), 2 * EntrySize)
  /\ pc' = "copy"
  /\ UNCHANGED <<exe, import>>

\* The headers are moved down to 0x40, but the new one is written where the
\* table ended before: nobody will find it.
AddSectionMoves ==
  /\ pc = "add_section" /\ ~SeemsToFit(exe)
  /\ image' = [WithSection(exe) EXCEPT !.lfanew = 64]
  /\ pc' = "lost"
  /\ UNCHANGED <<exe, spoiled, import>>

\* malloc fails: AddSection returns NULL and its caller does not look.
AddSectionNoMemory ==
  /\ pc = "add_section"
  /\ pc' = "crashed"
  /\ UNCHANGED <<exe, image, spoiled, import>>

\* The new section is cleared, the table copied and extended, the directory
\* redirected.
CopyImports ==
  /\ pc = "copy"
  /\ LET base == Last(image.sections).raw
         n == Copied(image)
         RVA(foa) == FOAtoRVA(image.sections, foa)
     IN /\ import' = [source |-> RVAtoFOA(image.sections, image.import),
                      copied |-> n, table |-> RVA(base),
                      thunk |-> RVA(Thunks(base, n)), name |-> RVA(Names(base, n))]
        /\ image' = [image EXCEPT !.import = RVA(base)]
        /\ spoiled' = spoiled \cup OldBytes(exe, base, SectionSize)
             \cup IF WriteEnd(base, n) > base + SectionSize THEN {"beyond"} ELSE {}
  /\ pc' = "write"
  /\ UNCHANGED exe

WriteFile ==
  /\ pc = "write"
  /\ pc' \in {"done", "failed"}
  /\ UNCHANGED <<exe, image, spoiled, import>>

Next ==
  \/ ReadFileToBuffer \/ AddSection \/ AddSectionMoves \/ AddSectionNoMemory
  \/ CopyImports \/ WriteFile

Spec == Init /\ [][Next]_vars

-----------------------------------------------------------------------------
(* Properties *)

\* The executables the launcher can handle: room for two headers, a last
\* section that ends the file and has raw data, descriptors that all have an
\* OriginalFirstThunk and are not too many.
RoomForHeaders(x) == Room(x) >= 2 * EntrySize
LastHasData(x) == Last(x.sections).rsize > 0
NoOverlay(x) == x.file = Last(x.sections).raw + Last(x.sections).rsize
TableFits(x) == WriteEnd(0, x.bound) <= SectionSize

\* What the Windows loader asks of the sections: in memory each begins on the
\* page where the one before ends, and the image ends with the last.
Pages(sec) ==
  LET bytes == IF sec.vsize = 0 THEN sec.rsize ELSE sec.vsize
  IN ((bytes + Page - 1) \div Page) * Page
Loadable(x) ==
  /\ \A i \in 1..(Len(x.sections) - 1) :
       x.sections[i + 1].va = x.sections[i].va + Pages(x.sections[i])
  /\ x.size = Last(x.sections).va + Pages(Last(x.sections))

\* The page after the last section is the next page: it neither ends with its
\* page nor has more in the file than in memory.
EndsInsidePage(sec) ==
  sec.vsize % Page # 0 /\ sec.rsize % Page # 0 /\ sec.rsize <= Pages(sec)

\* The file written for an executable that Windows loads is loaded, too: the
\* section added follows the last one without a gap.
StaysLoadable ==
  pc = "done" /\ Loadable(exe) /\ EndsInsidePage(Last(exe.sections))
    => Loadable(image)

\* Every address in the new descriptor is where its bytes will be in memory.
AddressesResolve ==
  pc = "done" /\ LastHasData(exe) /\ TableFits(exe) =>
    LET base == Last(image.sections).raw
        s == image.sections
    IN /\ TrueRVA(s, base) = {import.table}
       /\ TrueRVA(s, Thunks(base, import.copied)) = {import.thunk}
       /\ TrueRVA(s, Names(base, import.copied)) = {import.name}
       /\ image.import = import.table

\* Nothing of the game is written over.
GameIntact ==
  pc = "done" /\ RoomForHeaders(exe) /\ LastHasData(exe) /\ NoOverlay(exe)
  /\ TableFits(exe) => spoiled = {}

\* The descriptors copied are the game's own: the RVA of the import directory
\* leads to the bytes of the section that has it, in the file as it was.
ImportsFound ==
  import # None /\ LastHasData(exe) =>
    \A i \in DOMAIN exe.sections :
      exe.import \in exe.sections[i].va .. (exe.sections[i].va + exe.sections[i].vsize - 1)
        => import.source = exe.sections[i].raw + exe.import - exe.sections[i].va
=============================================================================
