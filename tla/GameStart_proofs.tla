-------------------------- MODULE GameStart_proofs --------------------------
(***************************************************************************)
(* Proofs about the start of a game: what ImportTableInject makes of       *)
(* executables of any number of sections, of any size, and what ReadConfig *)
(* reads in settings files of any number of lines; then, for every section *)
(* table, allocation granularity and image size, what RemapImage leaves    *)
(* behind, and, for any window class strings, what the hooks of the window *)
(* functions do.                                                           *)
(***************************************************************************)
EXTENDS GameStart, WellFoundedInduction, TLAPS

USE NoneAssumption

-----------------------------------------------------------------------------
(* The file written, as a function of the file read *)

Patched(x) == WithSection(x).sections
Base(x) == Last(Patched(x)).raw

Descriptor(x) ==
  LET s == Patched(x)
  IN  [source |-> RVAtoFOA(s, x.import), copied |-> x.bound, table |-> FOAtoRVA(s, Base(x)),
       thunk |-> FOAtoRVA(s, Thunks(Base(x), x.bound)),
       name |-> FOAtoRVA(s, Names(Base(x), x.bound))]

Overwritten(x) ==
  OldBytes(x, TableEnd(x), 2 * EntrySize) \cup OldBytes(x, Base(x), SectionSize)
    \cup IF WriteEnd(Base(x), x.bound) > Base(x) + SectionSize THEN {"beyond"} ELSE {}

InjectInv ==
  /\ pc \in {"read", "add_section"} => import = None
  /\ pc \in {"add_section", "copy", "write", "done"} => exe \in Exe
  /\ pc = "copy" =>
       image = WithSection(exe) /\ spoiled = OldBytes(exe, TableEnd(exe), 2 * EntrySize)
  /\ pc \in {"write", "done"} =>
       /\ import = Descriptor(exe) /\ spoiled = Overwritten(exe)
       /\ image = [WithSection(exe) EXCEPT !.import = import.table]
  /\ import # None => exe \in Exe /\ import.source = Descriptor(exe).source

\* The fields of the image AddSection returns.
LEMMA WithSectionFields ==
  ASSUME NEW x \in Exe
  PROVE  /\ WithSection(x).sections = Append(x.sections, NewSection(Last(x.sections)))
         /\ WithSection(x).size = x.size + SectionSize
         /\ WithSection(x).bound = x.bound /\ WithSection(x).import = x.import
         /\ \A a : LET y == [WithSection(x) EXCEPT !.import = a]
                   IN  y.sections = WithSection(x).sections /\ y.size = WithSection(x).size
                       /\ y.import = a
  BY ExeAssumption DEF WithSection, Executable

LEMMA CopyImportsKeeps == ASSUME InjectInv, CopyImports PROVE InjectInv'
<1>1. /\ pc = "copy" /\ pc' = "write" /\ exe' = exe /\ exe \in Exe
      /\ image = WithSection(exe) /\ spoiled = OldBytes(exe, TableEnd(exe), 2 * EntrySize)
  BY DEF CopyImports, InjectInv
<1>2. Last(image.sections).raw = Base(exe) /\ Copied(image) = exe.bound /\ image.import = exe.import
  BY <1>1, WithSectionFields DEF Base, Patched, Copied
<1>3. import' = Descriptor(exe)
  BY <1>1, <1>2 DEF CopyImports, Descriptor, Patched
<1>4. spoiled' = Overwritten(exe)
  BY <1>1, <1>2 DEF CopyImports, Overwritten
<1>5. image' = [image EXCEPT !.import = Descriptor(exe).table]
  BY <1>1, <1>2 DEF CopyImports, Descriptor, Patched
<1>. QED
  BY <1>1, <1>3, <1>4, <1>5 DEF InjectInv

LEMMA StepKeepsInject == ASSUME InjectInv, [StartNext]_startVars PROVE InjectInv'
<1>1. CASE UNCHANGED vars
  BY <1>1 DEF vars, InjectInv
<1>2. CASE StartGame
  BY <1>2 DEF StartGame, InjectInv
<1>3. CASE ConfigMissing
  BY <1>3 DEF ConfigMissing, InjectInv
<1>4. CASE ReadConfig
  BY <1>4 DEF ReadConfig, LookingUp, InjectInv
<1>5. CASE ReadFileToBuffer
  BY <1>5 DEF ReadFileToBuffer, InjectInv
<1>6. CASE AddSection
  BY <1>6 DEF AddSection, InjectInv
<1>7. CASE AddSectionMoves
  BY <1>7 DEF AddSectionMoves, InjectInv
<1>8. CASE AddSectionNoMemory
  BY <1>8 DEF AddSectionNoMemory, InjectInv
<1>9. CASE WriteFile
  BY <1>9 DEF WriteFile, InjectInv
<1>10. ASSUME Launch PROVE InjectInv'
  <2>1. CASE \E key \in Key, value \in {<< >>, Game} : WriteConfig(key, value)
    BY <1>1, <2>1 DEF WriteConfig
  <2>2. CASE Inject
    BY <1>5, <1>6, <1>7, <1>8, <1>9, <2>2, CopyImportsKeeps DEF Inject, Next
  <2>. QED
    BY <1>3, <1>4, <1>10, <2>1, <2>2 DEF Launch
<1>. QED
  BY <1>1, <1>2, <1>10 DEF StartNext, startVars

LEMMA InjectInvariant == StartSpec => []InjectInv
<1>1. StartInit => InjectInv
  BY DEF StartInit, LaunchInit, Init, InjectInv
<1>. QED
  BY <1>1, StepKeepsInject, PTL DEF StartSpec

-----------------------------------------------------------------------------
(* The sections of the new file *)

LEMMA NewSections ==
  ASSUME NEW x \in Exe
  PROVE  LET s == x.sections
             n == Len(s)
             t == Patched(x)
         IN  /\ n \in Nat \ {0} /\ s \in Seq(Section) /\ Len(t) = n + 1
             /\ DOMAIN s = 1..n /\ DOMAIN t = 1..(n + 1)
             /\ \A i \in 1..n : t[i] = s[i] /\ s[i] \in Section
             /\ t[n + 1] = NewSection(s[n])
             /\ Last(s) = s[n] /\ Last(t) = t[n + 1]
             /\ x.size \in Nat /\ x.bound \in Nat /\ x.import \in Nat /\ x.headers \in Nat
             /\ x.lfanew \in Nat /\ x.file \in Nat
<1>1. x \in Executable /\ x.sections # << >>
  BY ExeAssumption
<1>2. /\ x.sections \in Seq(Section) /\ x.size \in Nat /\ x.bound \in Nat /\ x.import \in Nat
      /\ x.headers \in Nat /\ x.lfanew \in Nat /\ x.file \in Nat
  BY <1>1 DEF Executable
<1>3. Len(x.sections) \in Nat \ {0} /\ DOMAIN x.sections = 1..Len(x.sections)
  BY <1>1, <1>2
<1>4. Patched(x) = Append(x.sections, NewSection(Last(x.sections)))
  BY WithSectionFields DEF Patched
<1>. QED
  BY <1>2, <1>3, <1>4 DEF Last

\* What the launcher has done when it is done.
LEMMA InjectedImage ==
  ASSUME InjectInv, pc = "done"
  PROVE  /\ exe \in Exe /\ import = Descriptor(exe) /\ spoiled = Overwritten(exe)
         /\ image.sections = Patched(exe) /\ image.size = exe.size + SectionSize
         /\ image.import = import.table
<1>1. /\ exe \in Exe /\ import = Descriptor(exe) /\ spoiled = Overwritten(exe)
      /\ image = [WithSection(exe) EXCEPT !.import = import.table]
  BY DEF InjectInv
<1>2. /\ image.sections = WithSection(exe).sections /\ image.size = WithSection(exe).size
      /\ image.import = import.table
  BY <1>1, WithSectionFields
<1>. QED
  BY <1>1, <1>2, WithSectionFields DEF Patched

\* A section that ends inside its page is followed by the next page.
LEMMA NextPage ==
  ASSUME NEW sec \in Section
  PROVE  /\ Pages(sec) \in Nat
         /\ EndsInsidePage(sec) => LastSize(sec) = Pages(sec)
         /\ LastSize(sec) \in Nat /\ LastSize(sec) > sec.vsize
<1>. DEFINE v == sec.vsize
            r == sec.rsize
<1>1. v \in Nat /\ r \in Nat
  BY DEF Section
<1>. HIDE DEF v, r
<1>2. Pages(sec) = IF v = 0 THEN ((r + 4095) \div 4096) * 4096 ELSE ((v + 4095) \div 4096) * 4096
  BY <1>1 DEF Pages, Page, v, r
<1>3. LastSize(sec) = IF r < v THEN (v \div 4096 + 1) * 4096 ELSE (r \div 4096 + 1) * 4096
  BY <1>1 DEF LastSize, Page, v, r
<1>4. \A a \in Nat : a % 4096 # 0 => (a + 4095) \div 4096 = a \div 4096 + 1
  OBVIOUS
<1>5. EndsInsidePage(sec) => v % 4096 # 0 /\ r % 4096 # 0 /\ r <= Pages(sec)
  BY DEF EndsInsidePage, Page, v, r
<1>6. v = 0 => v % 4096 = 0
  OBVIOUS
<1>7. Pages(sec) \in Nat
  BY <1>1, <1>2
<1>8. LastSize(sec) \in Nat /\ LastSize(sec) > v
  BY <1>1, <1>3
<1>9. ASSUME EndsInsidePage(sec) PROVE LastSize(sec) = Pages(sec)
  <2>1. Pages(sec) = (v \div 4096 + 1) * 4096
    BY <1>1, <1>2, <1>4, <1>5, <1>6, <1>9
  <2>2. CASE r < v
    BY <1>3, <2>1, <2>2
  <2>3. CASE ~ r < v
    BY <1>1, <1>3, <1>5, <1>9, <2>1, <2>3
  <2>. QED
    BY <2>2, <2>3
<1>. QED
  BY <1>7, <1>8, <1>9 DEF v

\* The file written for an executable that Windows loads is loaded, too, when
\* the last section ends inside its last page.
THEOREM StaysLoadableHolds == StartSpec => []StaysLoadable
<1>1. ASSUME InjectInv PROVE StaysLoadable
  <2>. SUFFICES ASSUME pc = "done", Loadable(exe), EndsInsidePage(Last(exe.sections))
                PROVE  Loadable(image)
    BY DEF StaysLoadable
  <2>. DEFINE s == exe.sections
              n == Len(s)
              t == Patched(exe)
  <2>1. exe \in Exe /\ image.sections = t /\ image.size = exe.size + SectionSize
    BY <1>1, InjectedImage
  <2>2. /\ n \in Nat \ {0} /\ Len(t) = n + 1 /\ DOMAIN s = 1..n
        /\ \A i \in 1..n : t[i] = s[i]
        /\ s[n] \in Section /\ t[n + 1] = NewSection(s[n]) /\ Last(s) = s[n] /\ Last(t) = t[n + 1]
        /\ exe.size \in Nat
    BY <2>1, NewSections
  <2>3. /\ s[n].va \in Nat /\ s[n].vsize \in Nat /\ s[n].raw \in Nat /\ s[n].rsize \in Nat
    BY <2>2 DEF Section
  <2>4. LastSize(s[n]) = Pages(s[n])
    BY <2>2, NextPage
  <2>5. t[n + 1].va = s[n].va + Pages(s[n]) /\ Pages(t[n + 1]) = SectionSize
    BY <2>2, <2>4 DEF NewSection, Pages, VirtualSize, Page, SectionSize
  <2>6. Pages(s[n]) \in Nat
    BY <2>2, NextPage
  <2>7. ASSUME NEW i \in 1..n PROVE t[i + 1].va = t[i].va + Pages(t[i])
    <3>1. CASE i = n
      BY <2>2, <2>5, <3>1
    <3>2. CASE i # n
      <4>1. i \in 1..(n - 1) /\ i + 1 \in 1..n
        BY <2>2, <3>2
      <4>2. s[i + 1].va = s[i].va + Pages(s[i])
        BY <4>1 DEF Loadable
      <4>. QED
        BY <2>2, <4>1, <4>2
    <3>. QED
      BY <3>1, <3>2
  <2>8. image.size = Last(t).va + Pages(Last(t))
    BY <2>1, <2>2, <2>3, <2>5, <2>6 DEF Loadable, SectionSize
  <2>. QED
    BY <2>1, <2>2, <2>7, <2>8 DEF Loadable
<1>. QED
  BY <1>1, InjectInvariant, PTL

-----------------------------------------------------------------------------
(* Executables laid out in order: their sections' data are behind the      *)
(* headers, the last section's behind the others'; in memory none overlaps *)
(* another.                                                                *)

InFileOrder(x) ==
  \A i \in DOMAIN x.sections :
    /\ x.sections[i].raw + x.sections[i].rsize <= Last(x.sections).raw + Last(x.sections).rsize
    /\ x.sections[i].rsize > 0 => x.headers <= x.sections[i].raw

InMemoryOrder(x) ==
  \A i, j \in DOMAIN x.sections :
    i < j => x.sections[i].va + x.sections[i].vsize <= x.sections[j].va

\* The section added begins in the file where the last one ends.
LEMMA NewSectionRaw ==
  ASSUME NEW x \in Exe
  PROVE  LET l == Last(x.sections)
             e == Patched(x)[Len(x.sections) + 1]
         IN  /\ e.raw = l.raw + l.rsize /\ e.rsize = SectionSize
             /\ e.va = l.va + LastSize(l)
             /\ e.raw \in Nat /\ e.va \in Nat /\ Base(x) = e.raw
             /\ l.va \in Nat /\ l.raw \in Nat /\ l.rsize \in Nat /\ l.vsize \in Nat
<1>1. /\ Last(x.sections) \in Section
      /\ Patched(x)[Len(x.sections) + 1] = NewSection(Last(x.sections))
      /\ Last(Patched(x)) = Patched(x)[Len(x.sections) + 1]
  BY NewSections
<1>2. /\ Last(x.sections).va \in Nat /\ Last(x.sections).raw \in Nat
      /\ Last(x.sections).rsize \in Nat /\ Last(x.sections).vsize \in Nat
  BY <1>1 DEF Section
<1>3. LastSize(Last(x.sections)) \in Nat
  BY <1>1, NextPage
<1>. QED
  BY <1>1, <1>2, <1>3 DEF NewSection, Base, SectionSize

\* What is written into the section added ends where it does for a section
\* that begins at 0.
LEMMA WritesFit ==
  ASSUME NEW b \in Nat, NEW n \in Nat
  PROVE  /\ WriteEnd(b, n) = b + WriteEnd(0, n)
         /\ Thunks(b, n) \in Nat /\ Names(b, n) \in Nat
         /\ b <= Thunks(b, n) /\ Thunks(b, n) <= Names(b, n)
         /\ Names(b, n) < WriteEnd(b, n) /\ WriteEnd(0, n) \in Nat
  BY SizeAssumption DEF WriteEnd, Names, Thunks, DescriptorSize

\* Nothing of a game with room for two headers and nothing behind its last
\* section is written over.
THEOREM GameIntactHolds ==
  ASSUME \A x \in Exe : LastHasData(x) => InFileOrder(x)
  PROVE  StartSpec => []GameIntact
<1>1. ASSUME InjectInv PROVE GameIntact
  <2>. SUFFICES ASSUME pc = "done", RoomForHeaders(exe), LastHasData(exe), NoOverlay(exe),
                       TableFits(exe)
                PROVE  Overwritten(exe) = {}
    BY <1>1, InjectedImage DEF GameIntact
  <2>. DEFINE s == exe.sections
              l == Last(exe.sections)
              End == l.raw + l.rsize
  <2>1. exe \in Exe /\ InFileOrder(exe)
    BY <1>1, InjectedImage
  <2>2. /\ DOMAIN s = 1..Len(s) /\ Len(s) \in Nat \ {0} /\ l = s[Len(s)]
        /\ \A i \in 1..Len(s) : s[i] \in Section
        /\ exe.headers \in Nat /\ exe.lfanew \in Nat /\ exe.file \in Nat /\ exe.bound \in Nat
    BY <2>1, NewSections
  <2>3. Base(exe) = End /\ End \in Nat
    BY <2>1, NewSectionRaw
  <2>4. TableEnd(exe) \in Nat /\ TableEnd(exe) + 2 * EntrySize <= exe.headers
    <3>1. Len(exe.sections) \in Nat /\ exe.lfanew \in Nat /\ exe.headers \in Nat
      BY <2>2
    <3>2. TableEnd(exe) \in Nat
      BY <3>1, SizeAssumption DEF TableEnd, EntrySize
    <3>3. exe.headers - TableEnd(exe) >= 2 * EntrySize
      BY DEF RoomForHeaders, Room
    <3>. QED
      BY <3>1, <3>2, <3>3 DEF EntrySize
  <2>5. exe.headers <= End
    <3>1. l.rsize > 0
      BY DEF LastHasData
    <3>2. exe.headers <= s[Len(s)].raw
      BY <2>1, <2>2, <3>1 DEF InFileOrder
    <3>3. l.raw \in Nat /\ l.rsize \in Nat
      BY <2>2 DEF Section
    <3>. QED
      BY <2>2, <3>1, <3>2, <3>3
  <2>6. ASSUME NEW i \in 1..Len(s), s[i].rsize > 0
        PROVE  /\ s[i].raw \in Nat /\ s[i].rsize \in Nat
               /\ exe.headers <= s[i].raw /\ s[i].raw + s[i].rsize <= End
    BY <2>1, <2>2, <2>6 DEF InFileOrder, Section
  <2>7. OldBytes(exe, TableEnd(exe), 2 * EntrySize) = {}
    BY <2>2, <2>3, <2>4, <2>6, SMTT(30) DEF OldBytes, NoOverlay, EntrySize
  <2>8. OldBytes(exe, Base(exe), SectionSize) = {}
    <3>1. ~(Base(exe) < TableEnd(exe))
      BY <2>3, <2>4, <2>5, <2>2 DEF EntrySize
    <3>2. \A i \in 1..Len(s) : s[i].rsize > 0 => ~(Base(exe) < s[i].raw + s[i].rsize)
      BY <2>3, <2>6
    <3>3. ~(exe.file > End)
      BY <2>2, <2>3 DEF NoOverlay
    <3>. QED
      BY <2>2, <3>1, <3>2, <3>3 DEF OldBytes
  <2>9. ~(WriteEnd(Base(exe), exe.bound) > Base(exe) + SectionSize)
    <3>1. /\ WriteEnd(Base(exe), exe.bound) = Base(exe) + WriteEnd(0, exe.bound)
          /\ WriteEnd(0, exe.bound) \in Nat /\ Base(exe) \in Nat
      BY <2>2, <2>3, WritesFit
    <3>. QED
      BY <3>1 DEF TableFits, SectionSize
  <2>. QED
    BY <2>7, <2>8, <2>9 DEF Overwritten
<1>. QED
  BY <1>1, InjectInvariant, PTL

\* An address in the section added is converted to where it will be in memory,
\* and no other section has it.
LEMMA NewAddress ==
  ASSUME NEW x \in Exe, InFileOrder(x), NEW foa \in Nat,
         Base(x) <= foa, foa < Base(x) + SectionSize
  PROVE  TrueRVA(Patched(x), foa) = {FOAtoRVA(Patched(x), foa)}
<1>. DEFINE t == Patched(x)
            n == Len(x.sections)
<1>1. /\ n \in Nat \ {0} /\ Len(t) = n + 1 /\ DOMAIN t = 1..(n + 1) /\ DOMAIN x.sections = 1..n
      /\ \A i \in 1..n : t[i] = x.sections[i] /\ t[i] \in Section
      /\ Last(x.sections) = t[n]
  BY NewSections, SMTT(30)
<1>2. \A i \in 1..n : t[i].raw \in Nat /\ t[i].rsize \in Nat
  BY <1>1 DEF Section
<1>3. t[n + 1].raw = Base(x) /\ Base(x) \in Nat /\ t[n + 1].rsize = SectionSize /\ t[n + 1].va \in Nat
  BY <1>1, NewSectionRaw
<1>4. \A i \in 1..n : t[i].raw + t[i].rsize <= Base(x)
  BY <1>1, NewSectionRaw DEF InFileOrder
<1>5. ASSUME NEW k \in DOMAIN t PROVE ~(foa >= t[k].raw /\ foa < NextRaw(t, k))
  <2>1. CASE k = n + 1
    BY <1>1, <2>1 DEF NextRaw
  <2>2. CASE k = n
    BY <1>1, <1>3, <2>2 DEF NextRaw
  <2>3. CASE k \in 1..(n - 1)
    <3>1. k + 1 \in 1..n /\ NextRaw(t, k) = t[k + 1].raw
      BY <1>1, <2>3 DEF NextRaw
    <3>. QED
      BY <1>2, <1>3, <1>4, <3>1, SMTT(30)
  <2>. QED
    BY <1>1, <2>1, <2>2, <2>3
<1>6. FOAtoRVA(t, foa) = foa - t[n + 1].raw + t[n + 1].va
  BY <1>1, <1>5 DEF FOAtoRVA, FirstOf
<1>7. \A i \in DOMAIN t : Holds(t[i], foa) <=> i = n + 1
  BY <1>1, <1>2, <1>3, <1>4 DEF Holds, SectionSize
<1>8. {i \in DOMAIN t : Holds(t[i], foa)} = {n + 1}
  BY <1>1, <1>7
<1>. QED
  BY <1>6, <1>8 DEF TrueRVA

\* Every address in the new descriptor is where its bytes will be in memory.
THEOREM AddressesResolveHolds ==
  ASSUME \A x \in Exe : LastHasData(x) => InFileOrder(x)
  PROVE  StartSpec => []AddressesResolve
<1>1. ASSUME InjectInv PROVE AddressesResolve
  <2>. SUFFICES ASSUME pc = "done", LastHasData(exe), TableFits(exe)
                PROVE  LET base == Last(image.sections).raw
                           s == image.sections
                       IN /\ TrueRVA(s, base) = {import.table}
                          /\ TrueRVA(s, Thunks(base, import.copied)) = {import.thunk}
                          /\ TrueRVA(s, Names(base, import.copied)) = {import.name}
                          /\ image.import = import.table
    BY DEF AddressesResolve
  <2>. DEFINE base == Base(exe)
              n == exe.bound
  <2>1. /\ exe \in Exe /\ InFileOrder(exe)
        /\ image.sections = Patched(exe) /\ Last(image.sections).raw = base
        /\ image.import = import.table
        /\ import.copied = n /\ import.table = FOAtoRVA(Patched(exe), base)
        /\ import.thunk = FOAtoRVA(Patched(exe), Thunks(base, n))
        /\ import.name = FOAtoRVA(Patched(exe), Names(base, n))
    BY <1>1, InjectedImage DEF Descriptor, Base
  <2>2. base \in Nat /\ n \in Nat
    BY <2>1, NewSections, NewSectionRaw
  <2>3. \A foa \in {base, Thunks(base, n), Names(base, n)} :
          foa \in Nat /\ base <= foa /\ foa < base + SectionSize
    <3>1. /\ WriteEnd(base, n) = base + WriteEnd(0, n) /\ WriteEnd(0, n) \in Nat
          /\ Thunks(base, n) \in Nat /\ Names(base, n) \in Nat
          /\ base <= Thunks(base, n) /\ Thunks(base, n) <= Names(base, n)
          /\ Names(base, n) < WriteEnd(base, n)
      BY <2>2, WritesFit
    <3>2. WriteEnd(0, n) <= SectionSize /\ SectionSize \in Nat
      BY DEF TableFits, SectionSize
    <3>. HIDE DEF base, n
    <3>. QED
      BY <2>2, <3>1, <3>2 DEF SectionSize
  <2>4. \A foa \in {base, Thunks(base, n), Names(base, n)} :
          TrueRVA(Patched(exe), foa) = {FOAtoRVA(Patched(exe), foa)}
    BY <2>1, <2>3, NewAddress
  <2>. QED
    BY <2>1, <2>4
<1>. QED
  BY <1>1, InjectInvariant, PTL

\* The descriptors copied are the game's own.
THEOREM ImportsFoundHolds ==
  ASSUME \A x \in Exe : LastHasData(x) => InMemoryOrder(x)
  PROVE  StartSpec => []ImportsFound
<1>1. ASSUME InjectInv PROVE ImportsFound
  <2>. SUFFICES ASSUME import # None, LastHasData(exe), NEW i \in DOMAIN exe.sections,
                       exe.import \in exe.sections[i].va
                                       .. (exe.sections[i].va + exe.sections[i].vsize - 1)
                PROVE  import.source = exe.sections[i].raw + exe.import - exe.sections[i].va
    BY DEF ImportsFound
  <2>. DEFINE s == exe.sections
              t == Patched(exe)
              n == Len(exe.sections)
              rva == exe.import
              Fits(k) == rva >= t[k].va /\ rva < NextVA(t, k)
  <2>1. exe \in Exe /\ InMemoryOrder(exe) /\ import.source = RVAtoFOA(t, rva)
    BY <1>1 DEF InjectInv, Descriptor
  <2>2. /\ n \in Nat \ {0} /\ Len(t) = n + 1 /\ DOMAIN t = 1..(n + 1) /\ DOMAIN s = 1..n
        /\ \A k \in 1..n : t[k] = s[k] /\ s[k] \in Section
        /\ Last(s) = s[n] /\ rva \in Nat
    BY <2>1, NewSections
  <2>3. \A k \in 1..n : s[k].va \in Nat /\ s[k].vsize \in Nat
    BY <2>2 DEF Section
  <2>4. rva >= s[i].va /\ rva < s[i].va + s[i].vsize
    BY <2>2, <2>3
  <2>5. \A k \in 1..n : t[k].va + t[k].vsize <= t[k + 1].va
    <3>1. t[n + 1].va = s[n].va + LastSize(s[n]) /\ LastSize(s[n]) > s[n].vsize /\ LastSize(s[n]) \in Nat
      BY <2>1, <2>2, NewSectionRaw, NextPage
    <3>2. ASSUME NEW k \in 1..(n - 1) PROVE t[k].va + t[k].vsize <= t[k + 1].va
      <4>1. k \in 1..n /\ k + 1 \in 1..n /\ k < k + 1
        BY <2>2
      <4>. QED
        BY <2>1, <2>2, <4>1 DEF InMemoryOrder
    <3>3. t[n].va + t[n].vsize <= t[n + 1].va
      <4>1. s[n].va \in Nat /\ s[n].vsize \in Nat /\ t[n] = s[n]
        BY <2>2, <2>3
      <4>. QED
        BY <3>1, <4>1
    <3>. QED
      BY <2>2, <3>2, <3>3
  <2>6. Fits(i)
    <3>1. i \in 1..n /\ NextVA(t, i) = t[i + 1].va
      BY <2>2 DEF NextVA
    <3>2. s[i].va + s[i].vsize <= t[i + 1].va
      BY <2>2, <2>5, <3>1
    <3>3. t[i + 1].va \in Nat
      <4>1. t[n + 1].va \in Nat
        BY <2>1, <2>2, NewSectionRaw
      <4>2. i # n => i + 1 \in 1..n
        BY <2>2, <3>1
      <4>. QED
        BY <2>2, <2>3, <4>1, <4>2
    <3>4. s[i].va \in Nat /\ s[i].vsize \in Nat /\ t[i].va = s[i].va /\ rva \in Nat
      BY <2>2, <2>3, <3>1
    <3>. QED
      BY <2>4, <3>1, <3>2, <3>3, <3>4, SMTT(30)
  <2>7. ASSUME NEW j \in 1..(i - 1) PROVE ~Fits(j)
    <3>1. j \in 1..n /\ j + 1 \in 1..n /\ NextVA(t, j) = s[j + 1].va
      BY <2>2 DEF NextVA
    <3>2. s[j + 1].va <= s[i].va
      <4>1. CASE j + 1 = i
        BY <2>2, <2>3, <3>1, <4>1
      <4>2. CASE j + 1 < i
        <5>1. s[j + 1].va + s[j + 1].vsize <= s[i].va
          BY <2>1, <2>2, <3>1, <4>2 DEF InMemoryOrder
        <5>2. /\ s[j + 1].va \in Nat /\ s[j + 1].vsize \in Nat /\ s[i].va \in Nat
          BY <2>2, <2>3, <3>1
        <5>. QED
          BY <5>1, <5>2
      <4>. QED
        BY <2>2, <4>1, <4>2
    <3>. QED
      BY <2>2, <2>3, <2>4, <3>1, <3>2, SMTT(30)
  <2>8. \A k \in DOMAIN t : Fits(k) /\ (\A j \in 1..(k - 1) : ~Fits(j)) => k = i
    <3>. HIDE DEF Fits
    <3>. QED
      BY <2>2, <2>6, <2>7
  <2>9. FirstOf(t, Fits) = i
    <3>. HIDE DEF Fits
    <3>. QED
      BY <2>2, <2>6, <2>7, <2>8 DEF FirstOf
  <2>10. RVAtoFOA(t, rva) = rva - t[i].va + t[i].raw
    BY <2>9 DEF RVAtoFOA
  <2>. QED
    BY <2>1, <2>2, <2>3, <2>10 DEF Section
<1>. QED
  BY <1>1, InjectInvariant, PTL

-----------------------------------------------------------------------------
(* The settings file *)

\* Every set of numbers has a least one, which is what induction needs.
LEMMA NatMin ==
  ASSUME NEW T, T \subseteq Nat, T # {}
  PROVE  \E x \in T : \A y \in T : x <= y
<1> DEFINE R == {p \in Nat \X Nat : p[1] < p[2]}
<1>1. IsWellFoundedOn(R, Nat)
  <2>1. R = OpToRel(<, Nat)
    BY DEF OpToRel
  <2>. QED
    BY <2>1, NatLessThanWellFounded
<1>2. PICK x \in T : \A y \in T : ~(<<y, x>> \in R)
  <2>. HIDE DEF R
  <2>. QED
    BY <1>1, WFMin
<1>3. \A y \in T : ~(y < x)
  BY <1>2
<1>. QED
  BY <1>3

\* Of sequences of which all but one are empty, the one is left.
LEMMA FlattenOne ==
  ASSUME NEW S, NEW s \in Seq(Seq(S)), NEW k \in DOMAIN s,
         \A i \in DOMAIN s : i # k => s[i] = << >>
  PROVE  FlattenSeq(s) = s[k]
<1>. DEFINE n == Len(s)
            Eq(f) == [i \in 1..n |-> IF i = 1 THEN s[i] ELSE f[i - 1] \o s[i]]
            flat == CHOOSE f : f = Eq(f)
            g == [i \in 1..n |-> IF i < k THEN << >> ELSE s[k]]
<1>1. n \in Nat /\ k \in 1..n /\ DOMAIN s = 1..n /\ \A i \in 1..n : s[i] \in Seq(S)
  OBVIOUS
<1>2. FlattenSeq(s) = flat[n]
  BY <1>1 DEF FlattenSeq
<1>3. g = [i \in 1..n |-> g[i]] /\ \A i \in 1..n : g[i] = IF i < k THEN << >> ELSE s[k]
  OBVIOUS
<1>. HIDE DEF n, g
<1>4. << >> \o << >> = << >> /\ \A t \in Seq(S) : << >> \o t = t /\ t \o << >> = t
  OBVIOUS
<1>5. ASSUME NEW i \in 1..n PROVE g[i] = IF i = 1 THEN s[i] ELSE g[i - 1] \o s[i]
  <2>1. CASE i = 1
    <3>1. CASE k = 1
      <4>1. i = k /\ ~(i < k)
        BY <2>1, <3>1
      <4>. QED
        BY <1>3, <2>1, <4>1
    <3>2. CASE k # 1
      <4>1. i < k /\ i # k
        BY <1>1, <2>1, <3>2
      <4>. QED
        BY <1>1, <1>3, <2>1, <4>1
    <3>. QED
      BY <3>1, <3>2
  <2>2. CASE i # 1
    <3>1. i - 1 \in 1..n /\ i \in Nat /\ k \in Nat
      BY <1>1, <2>2
    <3>2. CASE i < k
      <4>1. g[i] = << >> /\ g[i - 1] = << >> /\ s[i] = << >>
        BY <1>1, <1>3, <3>1, <3>2
      <4>. QED
        BY <1>4, <2>2, <4>1
    <3>3. CASE i = k
      <4>1. g[i] = s[i] /\ g[i - 1] = << >> /\ s[i] \in Seq(S)
        BY <1>1, <1>3, <3>1, <3>3
      <4>. QED
        BY <1>4, <2>2, <4>1
    <3>4. CASE i > k
      <4>1. g[i] = s[k] /\ g[i - 1] = s[k] /\ s[i] = << >> /\ s[k] \in Seq(S)
        BY <1>1, <1>3, <3>1, <3>4
      <4>. QED
        BY <1>4, <2>2, <4>1
    <3>. QED
      BY <3>1, <3>2, <3>3, <3>4
  <2>. QED
    BY <2>1, <2>2
<1>6. g = Eq(g)
  BY <1>3, <1>5
<1>7. flat = Eq(flat)
  <2>. HIDE DEF Eq
  <2>. QED
    BY <1>6
<1>. HIDE DEF flat
<1>8. ASSUME NEW i \in 1..n PROVE flat[i] = IF i = 1 THEN s[i] ELSE flat[i - 1] \o s[i]
  BY <1>7
<1>. DEFINE wrong == {i \in 1..n : flat[i] # g[i]}
<1>9. ASSUME wrong # {} PROVE FALSE
  <2>1. PICK x \in wrong : \A y \in wrong : x <= y
    <3>1. wrong \subseteq Nat
      BY <1>1
    <3>. HIDE DEF wrong
    <3>. QED
      BY <1>9, <3>1, NatMin
  <2>2. x \in 1..n /\ flat[x] # g[x]
    OBVIOUS
  <2>3. CASE x = 1
    BY <1>5, <1>8, <2>2, <2>3
  <2>4. CASE x # 1
    <3>1. x - 1 \in 1..n /\ ~(x <= x - 1)
      BY <1>1, <2>2, <2>4
    <3>2. flat[x - 1] = g[x - 1]
      BY <2>1, <3>1
    <3>. QED
      BY <1>5, <1>8, <2>2, <2>4, <3>2
  <2>. QED
    BY <2>3, <2>4
<1>10. n \in 1..n /\ g[n] = s[k]
  BY <1>1, <1>3
<1>. QED
  BY <1>2, <1>9, <1>10

LEMMA NamedOnce ==
  ASSUME NEW lines \in Seq(Line), NEW s, SettingsIn(lines) = {s}
  PROVE  ValuesOf(lines, "GameFullName") = s.value
<1>. DEFINE v == [i \in DOMAIN lines |-> IF lines[i].key = "GameFullName" THEN lines[i].value ELSE << >>]
<1>1. /\ Len(lines) \in Nat /\ DOMAIN lines = 1..Len(lines)
      /\ \A i \in DOMAIN lines : lines[i].value \in Seq(Word)
  <2>1. Len(lines) \in Nat /\ DOMAIN lines = 1..Len(lines) /\ \A i \in 1..Len(lines) : lines[i] \in Line
    OBVIOUS
  <2>2. \A l \in Line : l.value \in Seq(Word)
    BY DEF Line
  <2>. QED
    BY <2>1, <2>2
<1>2. PICK k \in DOMAIN lines : lines[k].key = "GameFullName" /\ s = [line |-> k, value |-> lines[k].value]
  BY DEF SettingsIn
<1>3. ASSUME NEW i \in DOMAIN lines, i # k PROVE lines[i].key # "GameFullName"
  <2>1. lines[i].key = "GameFullName" => [line |-> i, value |-> lines[i].value] = s
    BY DEF SettingsIn
  <2>. QED
    BY <1>2, <1>3, <2>1
<1>4. v \in Seq(Seq(Word)) /\ DOMAIN v = DOMAIN lines
  <2>1. \A i \in 1..Len(lines) : v[i] \in Seq(Word)
    BY <1>1
  <2>2. v \in [1..Len(lines) -> Seq(Word)]
    BY <1>1, <2>1
  <2>. HIDE DEF v
  <2>. QED
    BY <1>1, <2>2
<1>5. v[k] = s.value /\ \A i \in DOMAIN v : i # k => v[i] = << >>
  BY <1>2, <1>3
<1>. HIDE DEF v
<1>6. FlattenSeq(v) = v[k]
  BY <1>2, <1>4, <1>5, FlattenOne
<1>. QED
  BY <1>5, <1>6 DEF ValuesOf, v

\* A careful file has whole, readable lines, and they are the settings.
ConfigInv ==
  careful =>
    /\ config.ended /\ config.lines \in Seq(Line)
    /\ \A i \in DOMAIN config.lines : ~Unreadable(config.lines[i])
    /\ settings = SettingsIn(config.lines)
    /\ gamefile_full_name \in {None, ValuesOf(config.lines, "GameFullName")}
    /\ pc \in {"read", "failed"}

LEMMA WriteConfigKeeps ==
  ASSUME ConfigInv, NEW key \in Key, NEW value \in {<< >>, Game}, WriteConfig(key, value)
  PROVE  ConfigInv'
<1>. SUFFICES ASSUME careful' PROVE ConfigInv'
  BY DEF ConfigInv
<1>. DEFINE old == config.lines
            n == Len(old)
            line == [key |-> key, value |-> value]
<1>1. /\ careful /\ value # << >> /\ config.ended /\ old \in Seq(Line)
      /\ \A i \in DOMAIN old : ~Unreadable(old[i])
      /\ settings = SettingsIn(old) /\ pc = "read" /\ gamefile_full_name = None
  BY DEF WriteConfig, LookingUp, ConfigInv
<1>2. line \in Line /\ ~Unreadable(line)
  BY <1>1, GameAssumption, KeyAssumption DEF Line, Unreadable
<1>3. config' = [lines |-> Append(old, line), ended |-> TRUE]
  BY <1>1 DEF WriteConfig, AfterLast
<1>4. config'.ended /\ config'.lines = Append(old, line)
  BY <1>3
<1>. HIDE DEF line
<1>5. /\ Append(old, line) \in Seq(Line) /\ n \in Nat
      /\ DOMAIN old = 1..n /\ DOMAIN Append(old, line) = 1..(n + 1)
      /\ \A i \in 1..n : Append(old, line)[i] = old[i]
      /\ Append(old, line)[n + 1] = line
  BY <1>1, <1>2
<1>6. \A i \in DOMAIN config'.lines : ~Unreadable(config'.lines[i])
  BY <1>1, <1>2, <1>4, <1>5
<1>7. settings' = SettingsIn(config'.lines)
  <2>1. settings' = IF key = "GameFullName" THEN settings \cup {[line |-> n + 1, value |-> value]} ELSE settings
    BY DEF WriteConfig, Added
  <2>2. line.key = key /\ line.value = value
    BY DEF line
  <2>3. \A t : t \in SettingsIn(Append(old, line)) <=>
               \/ t \in SettingsIn(old)
               \/ key = "GameFullName" /\ t = [line |-> n + 1, value |-> value]
    <3>1. ASSUME NEW t, t \in SettingsIn(Append(old, line))
          PROVE  \/ t \in SettingsIn(old)
                 \/ key = "GameFullName" /\ t = [line |-> n + 1, value |-> value]
      <4>1. PICK i \in 1..(n + 1) : /\ Append(old, line)[i].key = "GameFullName"
                                   /\ t = [line |-> i, value |-> Append(old, line)[i].value]
        BY <1>5, <3>1 DEF SettingsIn
      <4>2. CASE i = n + 1
        BY <1>5, <2>2, <4>1, <4>2
      <4>3. CASE i \in 1..n
        BY <1>5, <4>1, <4>3 DEF SettingsIn
      <4>. QED
        BY <1>5, <4>2, <4>3
    <3>2. ASSUME NEW t, t \in SettingsIn(old) PROVE t \in SettingsIn(Append(old, line))
      <4>1. PICK i \in 1..n : old[i].key = "GameFullName" /\ t = [line |-> i, value |-> old[i].value]
        BY <1>5, <3>2 DEF SettingsIn
      <4>2. i \in 1..(n + 1) /\ Append(old, line)[i] = old[i]
        BY <1>5
      <4>. QED
        BY <1>5, <4>1, <4>2 DEF SettingsIn
    <3>3. ASSUME key = "GameFullName"
          PROVE  [line |-> n + 1, value |-> value] \in SettingsIn(Append(old, line))
      <4>1. n + 1 \in DOMAIN Append(old, line)
        BY <1>5
      <4>. QED
        BY <1>5, <2>2, <3>3, <4>1 DEF SettingsIn
    <3>. QED
      BY <3>1, <3>2, <3>3
  <2>4. settings' = SettingsIn(Append(old, line))
    <3>. DEFINE one == [line |-> n + 1, value |-> value]
    <3>1. settings' = IF key = "GameFullName" THEN SettingsIn(old) \cup {one} ELSE SettingsIn(old)
      BY <1>1, <2>1
    <3>2. \A t : t \in SettingsIn(Append(old, line)) <=> t \in SettingsIn(old) \/ (key = "GameFullName" /\ t = one)
      BY <2>3
    <3>. HIDE DEF one
    <3>3. CASE key = "GameFullName"
      BY <3>1, <3>2, <3>3
    <3>4. CASE key # "GameFullName"
      BY <3>1, <3>2, <3>4
    <3>. QED
      BY <3>3, <3>4
  <2>. QED
    BY <1>4, <2>4
<1>. QED
  BY <1>1, <1>4, <1>5, <1>6, <1>7 DEF WriteConfig, vars, ConfigInv

LEMMA ConfigStep == ASSUME ConfigInv, [StartNext]_startVars PROVE ConfigInv'
<1>1. CASE UNCHANGED <<vars, configVars>>
  BY <1>1 DEF vars, configVars, ConfigInv
<1>2. CASE StartGame
  BY <1>2 DEF StartGame, ConfigInv
<1>3. CASE ConfigMissing
  BY <1>3 DEF ConfigMissing, configVars, ConfigInv
<1>4. CASE ReadConfig
  BY <1>4 DEF ReadConfig, LookingUp, ConfigInv
<1>5. CASE Inject
  BY <1>5 DEF Inject, ConfigInv
<1>. QED
  BY <1>1, <1>2, <1>3, <1>4, <1>5, WriteConfigKeeps DEF StartNext, startVars, Launch

\* A file that names the game once is read as that name, whatever other lines
\* it has and WriteConfig adds.
THEOREM ConfigNamesGameHolds == StartSpec => []ConfigNamesGame
<1>1. StartInit => ConfigInv
  <2>. SUFFICES ASSUME StartInit, careful PROVE ConfigInv
    BY DEF ConfigInv
  <2>1. /\ config \in HandMade /\ config # None /\ config.ended
        /\ \A i \in DOMAIN config.lines : ~Unreadable(config.lines[i])
        /\ settings = SettingsIn(config.lines) /\ gamefile_full_name = None /\ pc = "read"
    BY DEF StartInit, LaunchInit, Init
  <2>2. config.lines \in Seq(Line)
    BY <2>1, HandMadeAssumption
  <2>. QED
    BY <2>1, <2>2 DEF ConfigInv
<1>2. ConfigInv => ConfigNamesGame
  BY NamedOnce DEF ConfigInv, ConfigNamesGame
<1>. QED
  BY <1>1, <1>2, ConfigStep, PTL DEF StartSpec

HIDE NoneAssumption

-----------------------------------------------------------------------------
(* Remapping: the inductive invariant *)

\* What a page holds if no write that counts was lost.
Now(p) == IF p \in written THEN "new" ELSE "old"

\* The pages CopyPeSections copies.
InCopy == {p \in Page0 : p = 0 \/ \E s \in Parts : p \in PagesOf(s)}

\* A page as section i is to have it.
IsView(p, i) ==
  /\ mem[p].by = "view" /\ mem[p].fixed
  /\ mem[p].protection = ConvertProtection(layout[i].rights)

PageState ==
  [by : {"free", "other", "image", "view"}, protection : Protection, fixed : BOOLEAN,
   data : {"none", "old", "new"}]

Shape ==
  /\ layout \in Layout \cup {<< >>}
  /\ part \in 1..(Len(layout) + 1)
  /\ mem \in [Page0 -> PageState]
  /\ status \in BOOLEAN
  /\ step \in {"view", "copy", "unview", "unmap", "map"} =>
       store \in [Page0 -> {"none", "old", "new"}]
  /\ step = "unloaded" => written = {} /\ status /\ part = 1
  /\ step \in {"verify", "allocate", "create", "view", "copy", "unview", "unmap"} =>
       status /\ part = 1
  /\ step = "validate" => status

\* Until the image is unmapped; from the copy on it is the copy that counts.
Loading ==
  /\ step \in {"verify", "allocate", "create", "view", "copy", "unview", "unmap"} =>
       \A p \in Page0 : mem[p].by = "image"
  /\ step \in {"verify", "allocate", "create", "view", "copy"} =>
       \A p \in Page0 : mem[p].data = Now(p)
  /\ step \in {"unview", "unmap"} => \A p \in InCopy : store[p] = Now(p)

\* The views are those of the sections mapped so far.
Mapping ==
  step = "map" =>
    /\ status /\ mem[0].by # "view"
    /\ \A i \in 1..(part - 1) : \A p \in ViewPages(layout[i]) : IsView(p, i)
    /\ \A p \in Page0 :
         /\ mem[p].by # "image"
         /\ mem[p].by = "view" =>
              \E i \in 1..(part - 1) : p \in ViewPages(layout[i]) /\ IsView(p, i)
    /\ \A p \in InCopy : (IF mem[p].by = "view" THEN mem[p].data ELSE store[p]) = Now(p)

\* All is mapped, or what could be.
Whole ==
  /\ mem[0].by = "view" /\ mem[0].fixed /\ mem[0].protection = "READONLY"
  /\ \A i \in DOMAIN layout : \A p \in ViewPages(layout[i]) : IsView(p, i)
  /\ \A p \in InCopy : mem[p].data = Now(p)

Partial ==
  /\ mem[0].by # "view"
  /\ \A p \in Page0 :
       /\ mem[p].by # "image"
       /\ mem[p].by = "view" =>
            /\ \E i \in DOMAIN layout : p \in ViewPages(layout[i]) /\ IsView(p, i)
            /\ p \in InCopy => mem[p].data = Now(p)

Ending ==
  /\ step \in {"close", "validate", "free", "done"} /\ status => Whole
  /\ step \in {"close", "free", "done"} /\ ~status =>
       \/ \A p \in Page0 : mem[p].by = "image"
       \/ Partial /\ (step # "close" => Usable)

RemapInv == Shape /\ Loading /\ Mapping /\ Ending

-----------------------------------------------------------------------------
(* Protections *)

\* The table lets a page be used as its section says, and else at most read
\* where it can be written.
LEMMA ProtectionFits ==
  ASSUME NEW rights \in SUBSET {"execute", "read", "write"}
  PROVE  LET allowed == Allowed(ConvertProtection(rights))
         IN /\ ConvertProtection(rights) \in Protection
            /\ rights \subseteq allowed
            /\ allowed \ rights \subseteq IF "write" \in rights THEN {"read"} ELSE {}
<1>1. CASE "execute" \notin rights /\ "read" \notin rights /\ "write" \notin rights
  <2>1. ConvertProtection(rights) = "NOACCESS"
    BY <1>1 DEF ConvertProtection, ProtectionMap, Index
  <2>. QED
    BY <1>1, <2>1 DEF Allowed, Protection
<1>2. CASE "execute" \notin rights /\ "read" \notin rights /\ "write" \in rights
  <2>1. ConvertProtection(rights) = "WRITECOPY"
    BY <1>2 DEF ConvertProtection, ProtectionMap, Index
  <2>. QED
    BY <1>2, <2>1 DEF Allowed, Protection
<1>3. CASE "execute" \notin rights /\ "read" \in rights /\ "write" \notin rights
  <2>1. ConvertProtection(rights) = "READONLY"
    BY <1>3 DEF ConvertProtection, ProtectionMap, Index
  <2>. QED
    BY <1>3, <2>1 DEF Allowed, Protection
<1>4. CASE "execute" \notin rights /\ "read" \in rights /\ "write" \in rights
  <2>1. ConvertProtection(rights) = "READWRITE"
    BY <1>4 DEF ConvertProtection, ProtectionMap, Index
  <2>. QED
    BY <1>4, <2>1 DEF Allowed, Protection
<1>5. CASE "execute" \in rights /\ "read" \notin rights /\ "write" \notin rights
  <2>1. ConvertProtection(rights) = "EXECUTE"
    BY <1>5 DEF ConvertProtection, ProtectionMap, Index
  <2>. QED
    BY <1>5, <2>1 DEF Allowed, Protection
<1>6. CASE "execute" \in rights /\ "read" \notin rights /\ "write" \in rights
  <2>1. ConvertProtection(rights) = "EXECUTE_WRITECOPY"
    BY <1>6 DEF ConvertProtection, ProtectionMap, Index
  <2>. QED
    BY <1>6, <2>1 DEF Allowed, Protection
<1>7. CASE "execute" \in rights /\ "read" \in rights /\ "write" \notin rights
  <2>1. ConvertProtection(rights) = "EXECUTE_READ"
    BY <1>7 DEF ConvertProtection, ProtectionMap, Index
  <2>. QED
    BY <1>7, <2>1 DEF Allowed, Protection
<1>8. CASE "execute" \in rights /\ "read" \in rights /\ "write" \in rights
  <2>1. ConvertProtection(rights) = "EXECUTE_READWRITE"
    BY <1>8 DEF ConvertProtection, ProtectionMap, Index
  <2>. QED
    BY <1>8, <2>1 DEF Allowed, Protection
<1>. QED
  BY <1>1, <1>2, <1>3, <1>4, <1>5, <1>6, <1>7, <1>8

LEMMA Sections ==
  ASSUME layout \in Layout \cup {<< >>}
  PROVE  /\ layout \in Seq(SectionHeader)
         /\ \A i \in DOMAIN layout : layout[i].va + layout[i].size <= Extent
         /\ \A i, j \in DOMAIN layout : i < j => layout[i].va + layout[i].size <= layout[j].va
<1>1. CASE layout = << >>
  BY <1>1
<1>2. CASE layout \in Layout
  BY <1>2, LayoutAssumption
<1>. QED
  BY <1>1, <1>2

\* The pages of a section, and of the view it is mapped to.
LEMMA SectionPages ==
  ASSUME layout \in Layout \cup {<< >>}
  PROVE  /\ DOMAIN layout = 1..Len(layout) /\ Len(layout) \in Nat
         /\ \A i \in DOMAIN layout :
              /\ layout[i] \in Parts
              /\ ViewPages(layout[i]) \subseteq Page0 \ {0}
              /\ layout[i].va \in ViewPages(layout[i])
              /\ PagesOf(layout[i]) \subseteq ViewPages(layout[i])
              /\ layout[i].size # 0 => PagesOf(layout[i]) = ViewPages(layout[i])
              /\ ConvertProtection(layout[i].rights) \in Protection
         /\ \A s \in Parts : \E i \in DOMAIN layout : s = layout[i]
         /\ \A p \in InCopy : p = 0 \/ \E i \in DOMAIN layout : p \in ViewPages(layout[i])
         /\ InCopy \subseteq Page0 /\ 0 \in InCopy
<1>1. layout \in Seq(SectionHeader) /\ DOMAIN layout = 1..Len(layout) /\ Len(layout) \in Nat
  BY Sections
<1>2. ASSUME NEW i \in DOMAIN layout
      PROVE  /\ layout[i] \in Parts
             /\ ViewPages(layout[i]) \subseteq Page0 \ {0}
             /\ layout[i].va \in ViewPages(layout[i])
             /\ PagesOf(layout[i]) \subseteq ViewPages(layout[i])
             /\ layout[i].size # 0 => PagesOf(layout[i]) = ViewPages(layout[i])
             /\ ConvertProtection(layout[i].rights) \in Protection
  <2>1. layout[i] \in SectionHeader
    BY <1>1, <1>2
  <2>2. /\ layout[i].va \in 1..(Extent - 1) /\ layout[i].size \in 0..(Extent - 1)
        /\ layout[i].rights \in SUBSET {"execute", "read", "write"}
    BY <2>1 DEF SectionHeader
  <2>3. layout[i].va + layout[i].size <= Extent
    BY <1>2, Sections
  <2>4. layout[i] \in Parts
    BY <1>2 DEF Parts, Range
  <2>5. ConvertProtection(layout[i].rights) \in Protection
    BY <2>2, ProtectionFits
  <2>. QED
    BY <2>2, <2>3, <2>4, <2>5, GranuleAssumption DEF ViewPages, PagesOf, Page0
<1>3. \A s \in Parts : \E i \in DOMAIN layout : s = layout[i]
  BY DEF Parts, Range
<1>4. InCopy \subseteq Page0 /\ 0 \in InCopy
  BY GranuleAssumption DEF InCopy, Page0
<1>5. \A p \in InCopy : p = 0 \/ \E i \in DOMAIN layout : p \in ViewPages(layout[i])
  BY <1>2, <1>3 DEF InCopy
<1>. QED
  BY <1>1, <1>2, <1>3, <1>4, <1>5

LEMMA PageStates ==
  /\ {Free, Taken, Loaded} \subseteq PageState
  /\ \A s \in Protection, d \in {"none", "old", "new"} : View(s, d) \in PageState
  /\ \A r \in PageState : [r EXCEPT !.data = "new"] \in PageState
<1>1. Free \in PageState
  BY DEF Free, PageState, Protection
<1>2. Taken \in PageState
  BY DEF Taken, Free, PageState, Protection
<1>3. Loaded \in PageState
  BY DEF Loaded, Free, PageState, Protection
<1>4. ASSUME NEW s \in Protection, NEW d \in {"none", "old", "new"} PROVE View(s, d) \in PageState
  BY <1>4 DEF View, PageState
<1>5. ASSUME NEW r \in PageState PROVE [r EXCEPT !.data = "new"] \in PageState
  BY <1>5 DEF PageState
<1>. QED
  BY <1>1, <1>2, <1>3, <1>4, <1>5

LEMMA PageFields ==
  /\ Free.by = "free" /\ Taken.by = "other" /\ Loaded.by = "image" /\ Loaded.data = "old"
  /\ \A s \in Protection, d \in {"none", "old", "new"} :
       /\ View(s, d).by = "view" /\ View(s, d).fixed
       /\ View(s, d).protection = s /\ View(s, d).data = d
  BY DEF Free, Taken, Loaded, View

-----------------------------------------------------------------------------
(* Every step keeps the invariant *)

USE GranuleAssumption DEF RemapInv, Shape, At, Now

LEMMA LoadImageKeeps == ASSUME RemapInv, LoadImage PROVE RemapInv'
<1>1. Shape'
  <2>1. layout' \in Seq(SectionHeader)
    BY LayoutAssumption DEF LoadImage
  <2>. QED
    BY <2>1, PageStates DEF LoadImage
<1>2. Loading'
  BY PageStates, PageFields DEF LoadImage, Loading
<1>3. Mapping'
  BY PageStates, PageFields DEF LoadImage, Mapping, Loading
<1>4. Ending'
  BY PageStates, PageFields DEF LoadImage, Ending, Mapping, Loading
<1>. QED
  BY <1>1, <1>2, <1>3, <1>4

LEMMA VerifyPeSectionAlignmentKeeps == ASSUME RemapInv, VerifyPeSectionAlignment PROVE RemapInv'
<1>1. Shape'
  BY DEF VerifyPeSectionAlignment, Exit
<1>2. Loading'
  BY DEF VerifyPeSectionAlignment, Exit, Loading
<1>3. Mapping'
  BY DEF VerifyPeSectionAlignment, Exit, Mapping, Loading
<1>4. Ending'
  BY DEF VerifyPeSectionAlignment, Exit, Ending, Mapping, Loading
<1>. QED
  BY <1>1, <1>2, <1>3, <1>4

LEMMA AllocateRegionKeeps == ASSUME RemapInv, AllocateRegion PROVE RemapInv'
<1>1. Shape'
  BY DEF AllocateRegion, Exit
<1>2. Loading'
  BY DEF AllocateRegion, Exit, Loading
<1>3. Mapping'
  BY DEF AllocateRegion, Exit, Mapping, Loading
<1>4. Ending'
  BY DEF AllocateRegion, Exit, Ending, Mapping, Loading
<1>. QED
  BY <1>1, <1>2, <1>3, <1>4

LEMMA CreateSectionKeeps == ASSUME RemapInv, CreateSection PROVE RemapInv'
<1>1. Shape'
  BY DEF CreateSection, Exit
<1>2. Loading'
  BY DEF CreateSection, Exit, Loading
<1>3. Mapping'
  BY DEF CreateSection, Exit, Mapping, Loading
<1>4. Ending'
  BY DEF CreateSection, Exit, Ending, Mapping, Loading
<1>. QED
  BY <1>1, <1>2, <1>3, <1>4

LEMMA MapCopyViewKeeps == ASSUME RemapInv, MapCopyView PROVE RemapInv'
<1>1. Shape'
  BY DEF MapCopyView, Exit
<1>2. Loading'
  BY DEF MapCopyView, Exit, Loading
<1>3. Mapping'
  BY DEF MapCopyView, Exit, Mapping, Loading
<1>4. Ending'
  BY DEF MapCopyView, Exit, Ending, Mapping, Loading
<1>. QED
  BY <1>1, <1>2, <1>3, <1>4

LEMMA CopyPeSectionsKeeps == ASSUME RemapInv, CopyPeSections PROVE RemapInv'
<1>1. Shape'
  <2>1. \A p \in Page0 : mem[p].data \in {"none", "old", "new"} /\ store[p] \in {"none", "old", "new"}
    BY DEF PageState, CopyPeSections
  <2>2. store' \in [Page0 -> {"none", "old", "new"}]
    BY <2>1 DEF CopyPeSections
  <2>. QED
    BY <2>2 DEF CopyPeSections
<1>2. Loading'
  <2>1. ASSUME step' = "unview", NEW p \in InCopy' PROVE store'[p] = Now(p)'
    BY <2>1 DEF CopyPeSections, InCopy, Parts, Loading
  <2>. QED
    BY <2>1 DEF CopyPeSections, Loading
<1>3. Mapping'
  BY DEF CopyPeSections, Mapping, Loading
<1>4. Ending'
  BY DEF CopyPeSections, Ending, Mapping, Loading
<1>. QED
  BY <1>1, <1>2, <1>3, <1>4

LEMMA UnmapCopyViewKeeps == ASSUME RemapInv, UnmapCopyView PROVE RemapInv'
<1>1. Shape'
  BY DEF UnmapCopyView, Exit
<1>2. Loading'
  BY DEF UnmapCopyView, Exit, Loading, InCopy, Parts
<1>3. Mapping'
  BY DEF UnmapCopyView, Exit, Mapping, Loading
<1>4. Ending'
  BY DEF UnmapCopyView, Exit, Ending, Mapping, Loading
<1>. QED
  BY <1>1, <1>2, <1>3, <1>4

LEMMA UnmapImageKeeps == ASSUME RemapInv, UnmapImage PROVE RemapInv'
<1>1. CASE step' = "close"
  <2>1. mem' = mem
    BY <1>1 DEF UnmapImage
  <2>2. Shape' /\ Loading' /\ Mapping'
    BY <1>1, <2>1 DEF UnmapImage, Exit, Loading, Mapping
  <2>. QED
    BY <1>1, <2>1, <2>2 DEF UnmapImage, Exit, Ending, Loading
<1>2. CASE step' = "map"
  <2>1. mem' = [p \in Page0 |-> Free] /\ step = "unmap"
    BY <1>2 DEF UnmapImage, Exit
  <2>2. \A p \in Page0 : mem'[p].by = "free"
    BY <2>1, PageFields
  <2>3. InCopy' = InCopy /\ InCopy \subseteq Page0 /\ 0 \in Page0
    BY DEF UnmapImage, InCopy, Parts, Page0
  <2>4. mem' \in [Page0 -> PageState]
    BY <2>1, PageStates
  <2>5. Shape' /\ Loading' /\ Ending'
    BY <1>2, <2>1, <2>4 DEF UnmapImage, Exit, Loading, Ending
  <2>6. status' /\ part' = 1 /\ \A p \in InCopy' : store'[p] = Now(p)'
    BY <1>2, <2>1, <2>3 DEF UnmapImage, Exit, Loading
  <2>. QED
    BY <1>2, <2>2, <2>3, <2>5, <2>6 DEF Mapping
<1>. QED
  BY <1>1, <1>2 DEF UnmapImage, Exit

\* MapProtectedView, of pages not mapped yet.
LEMMA MappedView ==
  ASSUME RemapInv, step = "map", NEW pages \in SUBSET Page0, NEW protection \in Protection,
         status', pages # {}, MapView(pages, protection)
  PROVE  /\ mem' \in [Page0 -> PageState]
         /\ \A p \in Page0 \ pages : mem'[p] = mem[p]
         /\ \A p \in pages :
              /\ mem[p].by = "free"
              /\ mem'[p].by = "view" /\ mem'[p].fixed
              /\ mem'[p].protection = protection /\ mem'[p].data = store[p]
<1>1. /\ \A p \in pages : mem[p].by = "free"
      /\ mem' = [p \in Page0 |-> IF p \in pages THEN View(protection, store[p]) ELSE mem[p]]
  BY DEF MapView
<1>2. \A p \in Page0 : store[p] \in {"none", "old", "new"} /\ mem[p] \in PageState
  OBVIOUS
<1>3. \A p \in Page0 : mem'[p] = IF p \in pages THEN View(protection, store[p]) ELSE mem[p]
  BY <1>1
<1>4. mem' \in [Page0 -> PageState]
  BY <1>1, <1>2, PageStates
<1>. QED
  BY <1>1, <1>2, <1>3, <1>4, PageFields

LEMMA MapSectionKeeps == ASSUME RemapInv, MapSection PROVE RemapInv'
<1>. DEFINE pages == ViewPages(layout[part])
            protection == ConvertProtection(layout[part].rights)
<1>1. /\ step = "map" /\ part \in DOMAIN layout /\ Len(layout) \in Nat
      /\ DOMAIN layout = 1..Len(layout) /\ status
      /\ MapView(pages, protection)
      /\ UNCHANGED <<layout, store, remapping, written, driver>>
      /\ InCopy' = InCopy
  BY SectionPages DEF MapSection, Mapping, InCopy, Parts
<1>2. /\ pages \in SUBSET Page0 /\ protection \in Protection /\ pages # {} /\ 0 \notin pages
      /\ InCopy \subseteq Page0 /\ 0 \in Page0
  BY <1>1, SectionPages
<1>3. CASE status'
  <2>1. part' = part + 1 /\ step' = "map"
    BY <1>1, <1>3 DEF MapSection
  <2>2. /\ mem' \in [Page0 -> PageState]
        /\ \A p \in Page0 \ pages : mem'[p] = mem[p]
        /\ \A p \in pages :
             /\ mem[p].by = "free"
             /\ mem'[p].by = "view" /\ mem'[p].fixed
             /\ mem'[p].protection = protection /\ mem'[p].data = store[p]
    BY <1>1, <1>2, <1>3, MappedView
  <2>3. \A i \in 1..(part - 1) : \A p \in ViewPages(layout[i]) : IsView(p, i) /\ p \in Page0
    BY <1>1, SectionPages DEF Mapping
  <2>4. ASSUME NEW i \in 1..part, NEW p \in ViewPages(layout[i]) PROVE IsView(p, i)'
    <3>1. CASE i = part
      BY <1>1, <2>2, <3>1 DEF IsView
    <3>2. CASE i # part
      BY <1>1, <2>2, <2>3, <3>2 DEF IsView
    <3>. QED
      BY <3>1, <3>2
  <2>5. ASSUME NEW p \in Page0
        PROVE  /\ mem'[p].by # "image"
               /\ mem'[p].by = "view" =>
                    \E i \in 1..part : p \in ViewPages(layout[i]) /\ IsView(p, i)'
    <3>1. CASE p \in pages
      BY <1>1, <2>2, <2>4, <3>1
    <3>2. CASE p \notin pages
      BY <1>1, <2>2, <3>2 DEF Mapping, IsView
    <3>. QED
      BY <3>1, <3>2
  <2>6. \A p \in InCopy : (IF mem'[p].by = "view" THEN mem'[p].data ELSE store[p]) = Now(p)
    BY <1>1, <1>2, <2>2 DEF Mapping
  <2>7. mem'[0].by # "view"
    BY <1>1, <1>2, <2>2 DEF Mapping
  <2>8. Mapping'
    BY <1>1, <1>3, <2>1, <2>4, <2>5, <2>6, <2>7 DEF Mapping
  <2>9. Shape'
    BY <1>1, <1>3, <2>1, <2>2 DEF MapSection
  <2>. QED
    BY <2>1, <2>8, <2>9 DEF Loading, Ending
<1>4. CASE ~status'
  <2>1. step' = "close" /\ mem' = mem /\ part' = part /\ status' = FALSE
    BY <1>1, <1>4 DEF MapSection, MapView
  <2>2. Partial'
    BY <1>1, <2>1 DEF Partial, Mapping, IsView
  <2>3. Shape'
    BY <1>1, <2>1 DEF MapSection
  <2>. QED
    BY <2>1, <2>2, <2>3 DEF Loading, Mapping, Ending
<1>. QED
  BY <1>3, <1>4

LEMMA MapHeaderKeeps == ASSUME RemapInv, MapHeader PROVE RemapInv'
<1>1. /\ step = "map" /\ part > Len(layout) /\ step' = "close"
      /\ MapView({0}, "READONLY")
      /\ UNCHANGED <<part, layout, store, remapping, written, driver>>
      /\ InCopy' = InCopy /\ "READONLY" \in Protection /\ status
  BY DEF MapHeader, Mapping, InCopy, Parts, Protection
<1>2. InCopy \subseteq Page0 /\ 0 \in InCopy /\ DOMAIN layout = 1..(part - 1)
      /\ {0} \in SUBSET Page0 /\ {0} # {}
  BY <1>1, SectionPages
<1>3. CASE status'
  <2>1. /\ mem' \in [Page0 -> PageState]
        /\ \A p \in Page0 \ {0} : mem'[p] = mem[p]
        /\ mem'[0].by = "view" /\ mem'[0].fixed
        /\ mem'[0].protection = "READONLY" /\ mem'[0].data = store[0]
    BY <1>1, <1>2, <1>3, MappedView
  <2>2. ASSUME NEW i \in DOMAIN layout, NEW p \in ViewPages(layout[i])
        PROVE  p \in Page0 /\ mem[p].by = "view" /\ IsView(p, i)'
    BY <1>1, <1>2, <2>1, SectionPages DEF Mapping, IsView
  <2>3. ASSUME NEW p \in InCopy PROVE mem'[p].data = Now(p)
    <3>1. CASE p = 0
      BY <1>1, <1>2, <2>1, <3>1 DEF Mapping
    <3>2. CASE p # 0
      <4>1. mem[p].by = "view"
        BY <2>2, <3>2, SectionPages
      <4>. QED
        BY <1>1, <1>2, <2>1, <3>2, <4>1 DEF Mapping
    <3>. QED
      BY <3>1, <3>2
  <2>4. Whole'
    BY <1>1, <2>1, <2>2, <2>3 DEF Whole
  <2>5. Shape'
    BY <1>1, <1>3, <2>1
  <2>. QED
    BY <1>1, <1>3, <2>4, <2>5 DEF Loading, Mapping, Ending
<1>4. CASE ~status'
  <2>1. mem' = mem /\ status' = FALSE
    BY <1>1, <1>4 DEF MapView
  <2>2. Partial'
    BY <1>1, <1>2, <2>1 DEF Partial, Mapping, IsView
  <2>3. Shape'
    BY <1>1, <2>1
  <2>. QED
    BY <1>1, <2>1, <2>2, <2>3 DEF Loading, Mapping, Ending
<1>. QED
  BY <1>3, <1>4

\* What the two outcomes say does not depend on where RemapImage is.
LEMMA SameImage ==
  ASSUME RemapInv, UNCHANGED <<mem, layout, written>>
  PROVE  Whole' = Whole /\ Partial' = Partial /\ Usable' = Usable
  BY DEF Whole, Partial, Usable, IsView, InCopy, Parts

LEMMA CloseSectionKeeps == ASSUME RemapInv, CloseSection PROVE RemapInv'
<1>1. Shape' /\ Loading' /\ Mapping'
  BY DEF CloseSection, Loading, Mapping
<1>2. step' = "free" => Usable
  BY DEF CloseSection
<1>. QED
  BY <1>1, <1>2, SameImage DEF CloseSection, Ending

\* Once all is mapped, the protection of no section can be changed.
LEMMA ValidateRemappedImageKeeps == ASSUME RemapInv, ValidateRemappedImage PROVE RemapInv'
<1>1. step = "validate" /\ Whole
  BY DEF ValidateRemappedImage, Ending
<1>2. ASSUME NEW p \in Page0, mem[p].by = "view", mem[p].fixed PROVE Unchangeable(p)
  BY <1>2 DEF Unchangeable, VirtualProtectFails
<1>3. \A p \in {0} \cup {s.va : s \in Parts} : p \in Page0 /\ mem[p].by = "view" /\ mem[p].fixed
  BY <1>1, SectionPages DEF Whole, IsView
<1>4. status'
  BY <1>2, <1>3 DEF ValidateRemappedImage
<1>5. Shape' /\ Loading' /\ Mapping'
  BY <1>4 DEF ValidateRemappedImage, Loading, Mapping
<1>. QED
  BY <1>1, <1>4, <1>5, SameImage DEF ValidateRemappedImage, Ending

LEMMA FreeRegionKeeps == ASSUME RemapInv, FreeRegion PROVE RemapInv'
<1>1. Shape' /\ Loading' /\ Mapping'
  BY DEF FreeRegion, Loading, Mapping
<1>. QED
  BY <1>1, SameImage DEF FreeRegion, Ending

LEMMA DriverRemapKeeps == ASSUME RemapInv, DriverRemap PROVE RemapInv'
<1>1. step = "done" /\ UNCHANGED <<step, part, layout, mem, store, remapping, status, written>>
  BY DEF DriverRemap, DriverSilent, DriverRefuses, DriverMaps, AskDriver
<1>2. Shape' /\ Loading' /\ Mapping'
  BY <1>1 DEF Loading, Mapping
<1>. QED
  BY <1>1, <1>2, SameImage DEF Ending

LEMMA WithoutRemapKeeps == ASSUME RemapInv, WithoutRemap PROVE RemapInv'
  BY DEF WithoutRemap, Loading, Mapping, Ending

LEMMA DllMainReturnsKeeps == ASSUME RemapInv, DllMainReturns PROVE RemapInv'
<1>1. mem' \in [Page0 -> PageState]
  BY PageStates DEF DllMainReturns
<1>2. step' = "returned" /\ part' = 1 /\ layout' = << >> /\ status' = FALSE
  BY DEF DllMainReturns
<1>3. part' \in 1..(Len(layout') + 1) /\ layout' \in Layout \cup {<< >>}
  BY <1>2
<1>4. Shape'
  <2>1. step' = "returned" => Shape'
    BY <1>1, <1>2, <1>3
  <2>. QED
    BY <1>2, <2>1
<1>. QED
  BY <1>2, <1>4 DEF Loading, Mapping, Ending

-----------------------------------------------------------------------------
(* The other threads *)

LEMMA OtherWritesKeeps ==
  ASSUME RemapInv, NEW q \in Page0, OtherWrites(q) PROVE RemapInv'
<1>1. CASE ~Writable(q)
  BY <1>1 DEF OtherWrites, Loading, Mapping, Ending
<1>2. CASE Writable(q)
  <2>1. /\ mem' = [mem EXCEPT ![q].data = "new"]
        /\ written' = IF step \in {"unview", "unmap"} THEN written ELSE written \cup {q}
        /\ UNCHANGED <<step, part, layout, store, remapping, status, driver>>
        /\ step \notin {"unloaded", "done", "returned", "crashed"}
        /\ InCopy' = InCopy /\ InCopy \subseteq Page0
    BY <1>2, SectionPages DEF OtherWrites, Living, InCopy, Parts
  <2>2. /\ mem' \in [Page0 -> PageState]
        /\ mem'[q].data = "new"
        /\ \A p \in Page0 : /\ mem'[p].by = mem[p].by /\ mem'[p].fixed = mem[p].fixed
                            /\ mem'[p].protection = mem[p].protection
                            /\ p # q => mem'[p].data = mem[p].data
    BY <2>1 DEF PageState
  <2>3. Shape'
    BY <2>1, <2>2
  <2>4. Loading'
    BY <2>1, <2>2 DEF Loading
  <2>5. step = "map" => mem[q].by = "view"
    BY <1>2 DEF Mapping, Writable
  <2>6. \A i \in DOMAIN layout : \A p \in ViewPages(layout[i]) :
          p \in Page0 /\ (IsView(p, i)' <=> IsView(p, i))
    BY <2>1, <2>2, SectionPages DEF IsView
  <2>7. step # "unview" /\ step # "unmap" => \A p \in Page0 : p # q => Now(p)' = Now(p)
    BY <2>1
  <2>8. step # "unview" /\ step # "unmap" => Now(q)' = "new"
    BY <2>1
  <2>9. Mapping'
    <3>. SUFFICES ASSUME step = "map" PROVE Mapping'
      BY <2>1 DEF Mapping
    <3>1. status /\ 0 \in Page0 /\ mem'[0].by # "view" /\ 1..(part - 1) \subseteq DOMAIN layout
      BY <2>2, SectionPages DEF Mapping
    <3>2. \A i \in 1..(part - 1) : \A p \in ViewPages(layout[i]) : IsView(p, i)'
      BY <2>6, <3>1 DEF Mapping
    <3>3. \A p \in Page0 :
            /\ mem'[p].by # "image"
            /\ mem'[p].by = "view" =>
                 \E i \in 1..(part - 1) : p \in ViewPages(layout[i]) /\ IsView(p, i)'
      BY <2>2, <3>2 DEF Mapping
    <3>4. \A p \in InCopy : (IF mem'[p].by = "view" THEN mem'[p].data ELSE store[p]) = Now(p)'
      BY <2>1, <2>2, <2>5, <2>7, <2>8 DEF Mapping
    <3>. QED
      BY <2>1, <3>1, <3>2, <3>3, <3>4 DEF Mapping
  <2>10. Ending'
    <3>. SUFFICES ASSUME step \in {"close", "validate", "free"} PROVE Ending'
      BY <2>1 DEF Ending
    <3>1. CASE status
      <4>1. Whole
        BY <3>1 DEF Ending
      <4>2. 0 \in Page0 /\ \A p \in InCopy : mem'[p].data = Now(p)'
        BY <2>1, <2>2, <2>7, <2>8, <4>1, SectionPages DEF Whole
      <4>3. \A i \in DOMAIN layout : \A p \in ViewPages(layout[i]) : IsView(p, i)'
        BY <2>6, <4>1 DEF Whole
      <4>4. Whole'
        BY <2>1, <2>2, <4>1, <4>2, <4>3 DEF Whole
      <4>. QED
        BY <2>1, <3>1, <4>4 DEF Ending
    <3>2. CASE ~status /\ \A p \in Page0 : mem[p].by = "image"
      BY <2>1, <2>2, <3>2 DEF Ending
    <3>3. CASE ~status /\ Partial /\ (step # "close" => Usable)
      <4>1. 0 \in Page0 /\ mem'[0].by # "view"
        BY <2>2, <3>3, SectionPages DEF Partial
      <4>2. ASSUME NEW p \in Page0
            PROVE  /\ mem'[p].by # "image"
                   /\ mem'[p].by = "view" =>
                        \E i \in DOMAIN layout : p \in ViewPages(layout[i]) /\ IsView(p, i)'
        BY <2>2, <2>6, <3>3 DEF Partial
      <4>3. \A p \in InCopy : mem'[p].by = "view" => mem'[p].data = Now(p)'
        BY <2>1, <2>2, <2>7, <2>8, <3>3 DEF Partial
      <4>4. Partial'
        BY <2>1, <4>1, <4>2, <4>3 DEF Partial
      <4>5. Usable => Usable'
        <5>1. \A s \in Parts : \A p \in PagesOf(s) : p \in Page0
          BY SectionPages
        <5>. QED
          BY <2>1, <2>2, <5>1 DEF Usable, Parts
      <4>. QED
        BY <2>1, <3>3, <4>4, <4>5 DEF Ending
    <3>. QED
      BY <3>1, <3>2, <3>3 DEF Ending
  <2>. QED
    BY <2>3, <2>4, <2>9, <2>10
<1>. QED
  BY <1>1, <1>2

LEMMA OtherAllocatesKeeps ==
  ASSUME RemapInv, NEW q \in Page0, OtherAllocates(q) PROVE RemapInv'
<1>. DEFINE block == {p \in Page0 : p \div Granule = q \div Granule}
<1>1. /\ step \notin {"unloaded", "done", "returned", "crashed"}
      /\ mem[q].by = "free"
      /\ \A p \in block : mem[p].by = "free"
      /\ mem' = [p \in Page0 |-> IF p \in block THEN Taken ELSE mem[p]]
      /\ UNCHANGED <<step, part, layout, store, remapping, status, written, driver>>
      /\ InCopy' = InCopy /\ InCopy \subseteq Page0 /\ 0 \in InCopy
  BY SectionPages DEF OtherAllocates, Living, InCopy, Parts
<1>2. /\ mem' \in [Page0 -> PageState]
      /\ \A p \in Page0 : IF mem[p].by = "free" THEN mem'[p].by \in {"free", "other"}
                                                ELSE mem'[p] = mem[p]
  BY <1>1, PageStates, PageFields
<1>3. Shape'
  BY <1>1, <1>2
<1>4. Loading'
  BY <1>1 DEF Loading
<1>5. \A i \in DOMAIN layout : \A p \in ViewPages(layout[i]) : p \in Page0 /\ (IsView(p, i) => IsView(p, i)')
  BY <1>1, <1>2, SectionPages DEF IsView
<1>6. Mapping'
  <2>. SUFFICES ASSUME step = "map" PROVE Mapping'
    BY <1>1 DEF Mapping
  <2>1. status /\ mem'[0].by # "view" /\ 1..(part - 1) \subseteq DOMAIN layout
    BY <1>1, <1>2, SectionPages DEF Mapping
  <2>2. \A i \in 1..(part - 1) : \A p \in ViewPages(layout[i]) : IsView(p, i)'
    BY <1>5, <2>1 DEF Mapping
  <2>3. \A p \in Page0 :
          /\ mem'[p].by # "image"
          /\ mem'[p].by = "view" =>
               \E i \in 1..(part - 1) : p \in ViewPages(layout[i]) /\ IsView(p, i)'
    BY <1>2, <2>2 DEF Mapping
  <2>4. \A p \in InCopy : (IF mem'[p].by = "view" THEN mem'[p].data ELSE store[p]) = Now(p)
    BY <1>1, <1>2 DEF Mapping
  <2>. QED
    BY <1>1, <2>1, <2>2, <2>3, <2>4 DEF Mapping
<1>7. Ending'
  <2>. SUFFICES ASSUME step \in {"close", "validate", "free"} PROVE Ending'
    BY <1>1 DEF Ending
  <2>1. CASE status
    <3>1. Whole
      BY <2>1 DEF Ending
    <3>2. \A i \in DOMAIN layout : \A p \in ViewPages(layout[i]) : mem[p].by = "view" /\ IsView(p, i)'
      BY <1>5, <3>1 DEF Whole, IsView
    <3>3. mem[0].by = "view" /\ mem'[0] = mem[0]
      BY <1>1, <1>2, <3>1 DEF Whole
    <3>4. \A p \in InCopy : mem'[p].data = Now(p)
      BY <1>1, <1>2, <3>1, <3>2, <3>3, SectionPages DEF Whole
    <3>5. Whole'
      BY <1>1, <3>1, <3>2, <3>3, <3>4 DEF Whole
    <3>. QED
      BY <1>1, <2>1, <3>5 DEF Ending
  <2>2. CASE ~status
    <3>1. Partial /\ (step # "close" => Usable)
      BY <1>1, <2>2 DEF Ending
    <3>2. \A p \in Page0 : mem'[p].by = "view" => mem'[p] = mem[p]
      BY <1>2
    <3>3. mem'[0].by # "view"
      BY <1>1, <3>1, <3>2 DEF Partial
    <3>4. \A p \in Page0 :
            /\ mem'[p].by # "image"
            /\ mem'[p].by = "view" =>
                 /\ \E i \in DOMAIN layout : p \in ViewPages(layout[i]) /\ IsView(p, i)'
                 /\ p \in InCopy => mem'[p].data = Now(p)
      BY <1>2, <1>5, <3>1, <3>2 DEF Partial
    <3>5. Partial'
      BY <1>1, <3>3, <3>4 DEF Partial
    <3>6. Usable => Usable'
      <4>1. \A s \in Parts : \A p \in PagesOf(s) : p \in Page0
        BY SectionPages
      <4>. QED
        BY <1>1, <1>2, <4>1 DEF Usable, Parts
    <3>. QED
      BY <1>1, <2>2, <3>1, <3>5, <3>6 DEF Ending
  <2>. QED
    BY <2>1, <2>2
<1>. QED
  BY <1>3, <1>4, <1>6, <1>7

LEMMA OtherEntersHookKeeps == ASSUME RemapInv, OtherEntersHook PROVE RemapInv'
  BY DEF OtherEntersHook, Loading, Mapping, Ending

-----------------------------------------------------------------------------
(* RemapImage from the start of the game on *)

\* The steps of RemapImage, of the driver and of the other threads, the loading
\* of the image and the return of DllMain keep the invariant.
LEMMA StepKeepsRemap == ASSUME RemapInv, [StartNext]_startVars PROVE RemapInv'
<1>1. CASE UNCHANGED remapVars
  <2>1. UNCHANGED <<step, part, layout, mem, store, remapping, status, written, driver>>
    BY <1>1 DEF remapVars
  <2>. QED
    BY <2>1, SameImage DEF Loading, Mapping, Ending, InCopy, Parts, IsView
<1>2. CASE StartGame
  BY <1>2, LoadImageKeeps DEF StartGame
<1>3. CASE Remap
  BY <1>3, VerifyPeSectionAlignmentKeeps, AllocateRegionKeeps, CreateSectionKeeps, MapCopyViewKeeps,
     CopyPeSectionsKeeps, UnmapCopyViewKeeps, UnmapImageKeeps, MapSectionKeeps, MapHeaderKeeps,
     CloseSectionKeeps, ValidateRemappedImageKeeps, FreeRegionKeeps DEF Remap
<1>4. CASE OtherThreads
  BY <1>4, OtherWritesKeeps, OtherAllocatesKeeps, OtherEntersHookKeeps DEF OtherThreads
<1>. QED
  BY <1>1, <1>2, <1>3, <1>4, DriverRemapKeeps, WithoutRemapKeeps, DllMainReturnsKeeps
     DEF StartNext, startVars

LEMMA RemapInvHolds == StartSpec => []RemapInv
<1>1. StartInit => RemapInv
  <2>. SUFFICES ASSUME StartInit PROVE RemapInv
    OBVIOUS
  <2>1. mem \in [Page0 -> PageState]
    BY PageStates DEF StartInit, RemapInit
  <2>. QED
    BY <2>1 DEF StartInit, RemapInit, Loading, Mapping, Ending
<1>2. RemapInv /\ [StartNext]_startVars => RemapInv'
  BY StepKeepsRemap
<1>. QED
  BY <1>1, <1>2, PTL DEF StartSpec

\* A page as its section is to have it, with what it holds, is protected.
LEMMA SectionProtected ==
  ASSUME RemapInv, NEW i \in DOMAIN layout, NEW p \in PagesOf(layout[i]),
         IsView(p, i), mem[p].data = Now(p)
  PROVE  Protected(p, layout[i].rights)
<1>1. layout[i] \in SectionHeader
  BY Sections
<1>2. layout[i].rights \in SUBSET {"execute", "read", "write"}
  BY <1>1 DEF SectionHeader
<1>. QED
  BY <1>2, ProtectionFits DEF IsView, Protected

\* When RemapImage returns true, every page of every section and the header can
\* be used as the section says, hold what they held or were given since, and
\* keep their protection: for any section table and whatever the other threads
\* and the driver do.
THEOREM RemapProtectsHolds == StartSpec => []RemapProtects
<1>1. ASSUME RemapInv PROVE RemapProtects
  <2>. SUFFICES ASSUME step = "done", status
                PROVE  /\ Protected(0, {"read"})
                       /\ \A s \in Parts : \A p \in PagesOf(s) : Protected(p, s.rights)
    BY DEF RemapProtects
  <2>1. Whole
    BY <1>1 DEF Ending
  <2>2. Protected(0, {"read"})
    BY <1>1, <2>1, SectionPages DEF Whole, Protected, Allowed
  <2>3. ASSUME NEW s \in Parts, NEW p \in PagesOf(s) PROVE Protected(p, s.rights)
    <3>1. PICK i \in DOMAIN layout : s = layout[i]
      BY <1>1, SectionPages
    <3>2. p \in ViewPages(layout[i]) /\ p \in InCopy
      BY <1>1, <3>1, SectionPages DEF InCopy
    <3>. QED
      BY <1>1, <2>1, <3>1, <3>2, SectionProtected DEF Whole
  <2>. QED
    BY <2>2, <2>3
<1>. QED
  BY <1>1, RemapInvHolds, PTL

\* When it returns false and no section covers others, the image is as it was
\* loaded, or every section the code refers to is protected all the same and
\* only the header is missing.
THEOREM RemapFailsWholeHolds == StartSpec => []RemapFailsWhole
<1>1. ASSUME RemapInv PROVE RemapFailsWhole
  <2>. SUFFICES ASSUME step = "done", ~status, NoneCovered, Partial, Usable,
                       NEW s \in Parts, s.used, NEW p \in PagesOf(s)
                PROVE  Protected(p, s.rights)
    BY <1>1 DEF RemapFailsWhole, Ending, Partial
  <2>1. PICK i \in DOMAIN layout : s = layout[i]
    BY <1>1, SectionPages
  <2>2. p \in Page0 /\ p \in InCopy /\ mem[p].by = "view"
    BY <1>1, <2>1, SectionPages DEF InCopy, Usable, Partial
  <2>3. PICK j \in DOMAIN layout : p \in ViewPages(layout[j]) /\ IsView(p, j)
    BY <2>2 DEF Partial
  <2>4. /\ layout[i] \in SectionHeader /\ layout[j] \in SectionHeader
        /\ DOMAIN layout = 1..Len(layout) /\ Len(layout) \in Nat
    BY <1>1, Sections
  <2>5. layout[i].va \in Nat /\ layout[i].size \in Nat /\ layout[j].va \in Nat /\ layout[j].size \in Nat
    BY <2>4, GranuleAssumption DEF SectionHeader
  <2>6. ~ i < j
    <3>. SUFFICES ASSUME i < j PROVE FALSE
      OBVIOUS
    <3>1. layout[i].va + layout[i].size <= layout[j].va
      BY <1>1, Sections
    <3>2. p >= layout[j].va
      BY <2>3, <2>5 DEF ViewPages, PagesOf
    <3>. QED
      BY <2>1, <2>5, <3>1, <3>2 DEF PagesOf
  <2>7. ~ j < i
    <3>. SUFFICES ASSUME j < i PROVE FALSE
      OBVIOUS
    <3>1. layout[j].size # 0 /\ layout[j].va + layout[j].size <= layout[i].va
      BY <1>1, <2>4, Sections DEF NoneCovered
    <3>2. p < layout[j].va + layout[j].size
      BY <2>3, <2>5, <3>1 DEF ViewPages, PagesOf
    <3>. QED
      BY <2>1, <2>5, <3>1, <3>2 DEF PagesOf
  <2>8. i = j
    BY <2>4, <2>6, <2>7
  <2>. QED
    BY <1>1, <2>1, <2>2, <2>3, <2>8, SectionProtected DEF Partial
<1>. QED
  BY <1>1, RemapInvHolds, PTL

-----------------------------------------------------------------------------
(* Window classes *)

\* The entry a registration of the string makes in the system's table.
OwnEntry(b) == [name |-> name[b], short |-> b \in Short, by |-> b]

\* The table knows each name once, and what each registered string holds.
ClassInv ==
  /\ clock \in Nat /\ name \in [ClassString -> Nat] /\ registered \subseteq ClassString
  /\ \A b \in registered : OwnEntry(b) \in classes
  /\ \A c, d \in classes : c.name = d.name /\ c.short = d.short => c = d

LEMMA OwnEntryFields ==
  ASSUME NEW b PROVE OwnEntry(b).name = name[b] /\ OwnEntry(b).short = (b \in Short) /\ OwnEntry(b).by = b
  BY DEF OwnEntry

LEMMA RegisterClassKeeps ==
  ASSUME ClassInv, NEW b \in ClassString, RegisterClass(b) PROVE ClassInv'
<1>1. /\ clock' = clock /\ MadeName(b) \in Nat
      /\ name' = [name EXCEPT ![b] = MadeName(b)]
  BY DEF RegisterClass, MadeName, ClassInv
<1>2. name' \in [ClassString -> Nat] /\ name'[b] = MadeName(b)
      /\ \A a \in ClassString : a # b => OwnEntry(a)' = OwnEntry(a)
  BY <1>1 DEF ClassInv, OwnEntry
<1>3. CASE Named(b, MadeName(b)) = {}
  <2>1. classes' = classes \cup {OwnEntry(b)'} /\ registered' = registered \cup {b}
    BY <1>2, <1>3 DEF RegisterClass, OwnEntry
  <2>2. \A c \in classes : ~ (c.name = MadeName(b) /\ c.short = (b \in Short))
    BY <1>3 DEF Named
  <2>3. OwnEntry(b)'.name = MadeName(b) /\ OwnEntry(b)'.short = (b \in Short)
    BY <1>2 DEF OwnEntry
  <2>4. \A c, d \in classes' : c.name = d.name /\ c.short = d.short => c = d
    BY <2>1, <2>2, <2>3 DEF ClassInv
  <2>5. \A a \in registered' : OwnEntry(a)' \in classes'
    BY <1>2, <2>1 DEF ClassInv
  <2>. QED
    BY <1>1, <1>2, <2>1, <2>4, <2>5 DEF ClassInv
<1>4. CASE Named(b, MadeName(b)) # {}
  <2>1. classes' = classes /\ registered' = registered \ {b}
    BY <1>4 DEF RegisterClass
  <2>. QED
    BY <1>1, <1>2, <2>1 DEF ClassInv
<1>. QED
  BY <1>3, <1>4

LEMMA UnregisterClassKeeps ==
  ASSUME ClassInv, NEW b \in ClassString, UnregisterClass(b) PROVE ClassInv'
<1>1. /\ b \in registered /\ clock' = clock /\ name' = name
      /\ classes' = classes \ Named(b, name[b]) /\ registered' = registered \ {b}
      /\ \A a : OwnEntry(a)' = OwnEntry(a)
  BY DEF UnregisterClass, OwnEntry
<1>2. ASSUME NEW a \in registered, a # b PROVE OwnEntry(a) \notin Named(b, name[b])
  <2>. SUFFICES ASSUME OwnEntry(a) \in Named(b, name[b]) PROVE FALSE
    OBVIOUS
  <2>1. OwnEntry(a).name = OwnEntry(b).name /\ OwnEntry(a).short = OwnEntry(b).short
    BY OwnEntryFields DEF Named
  <2>2. OwnEntry(a) = OwnEntry(b)
    BY <1>1, <1>2, <2>1 DEF ClassInv
  <2>. QED
    BY <1>2, <2>2, OwnEntryFields
<1>. QED
  BY <1>1, <1>2 DEF ClassInv

LEMMA StepKeepsClasses == ASSUME ClassInv, [StartNext]_startVars PROVE ClassInv'
<1>1. CASE UNCHANGED hookVars
  BY <1>1 DEF hookVars, ClassInv, OwnEntry
<1>2. ASSUME NEW b \in ClassString, CreateWindow(b) PROVE ClassInv'
  BY <1>2 DEF CreateWindow, ClassInv, OwnEntry
<1>3. CASE Tick
  BY <1>3 DEF Tick, ClassInv, OwnEntry
<1>4. CASE LongTitle \/ SetLongText \/ LoadLongPath \/ ImmGetHotKey \/ ImmActivateLayout
  BY <1>4 DEF LongTitle, SetLongText, LoadLongPath, OverrunsBuffer, ImmGetHotKey, ImmActivateLayout,
              ClassInv, OwnEntry
<1>5. CASE GameCalls
  BY <1>2, <1>3, <1>4, <1>5, RegisterClassKeeps, UnregisterClassKeeps DEF GameCalls
<1>. QED
  BY <1>1, <1>5 DEF StartNext, startVars, StartGame

\* A registered class is found through the game's own string, and no other
\* class is: for any number of strings, short or long, at any time.
THEOREM OwnClassHolds == StartSpec => []OwnClass
<1>1. StartInit => ClassInv
  BY DEF StartInit, HooksInit, ClassInv
<1>2. ClassInv /\ [StartNext]_startVars => ClassInv'
  BY StepKeepsClasses
<1>3. ASSUME ClassInv PROVE OwnClass
  <2>. SUFFICES ASSUME NEW b \in registered PROVE {c.by : c \in Named(b, name[b])} = {b}
    BY DEF OwnClass
  <2>1. OwnEntry(b) \in Named(b, name[b])
    BY <1>3, OwnEntryFields DEF ClassInv, Named
  <2>2. \A c \in Named(b, name[b]) : c = OwnEntry(b)
    BY <1>3, <2>1 DEF ClassInv, Named
  <2>. QED
    BY <2>1, <2>2, OwnEntryFields
<1>. QED
  BY <1>1, <1>2, <1>3, PTL DEF StartSpec


-----------------------------------------------------------------------------
(* Types *)

\* The digits a short string has room for give a time at most one tick off.
LEMMA MadeNameType == ASSUME clock \in 1..MaxClock, NEW b PROVE MadeName(b) \in 0..(MaxClock + 1)
  BY ClockAssumption DEF MadeName

\* The calls of the game keep the types of what the hooks work on.
THEOREM HooksTypes == StartSpec => []HooksTypeOK
<1>1. StartInit => HooksTypeOK
  <2> SUFFICES ASSUME StartInit PROVE HooksTypeOK
    OBVIOUS
  <2>1. active_flag \in BOOLEAN
    BY Zenon DEF StartInit, HooksInit
  <2>. QED
    BY <2>1, ClockAssumption DEF StartInit, HooksInit, HooksTypeOK
<1>2. HooksTypeOK /\ [StartNext]_startVars => HooksTypeOK'
  <2> SUFFICES ASSUME HooksTypeOK, [StartNext]_startVars PROVE HooksTypeOK'
    OBVIOUS
  <2> USE DEF HooksTypeOK
  <2>1. CASE UNCHANGED hookVars
    BY <2>1 DEF hookVars
  <2>2. CASE Tick
    BY <2>2, ClockAssumption DEF Tick
  <2>3. ASSUME NEW b \in ClassString, RegisterClass(b) PROVE HooksTypeOK'
    <3>1. MadeName(b) \in 0..(MaxClock + 1)
      BY MadeNameType
    <3>2. name' \in [ClassString -> 0..(MaxClock + 1)]
      BY <2>3, <3>1 DEF RegisterClass
    <3>3. /\ registered' \subseteq ClassString
          /\ classes' \in SUBSET [name : 0..(MaxClock + 1), short : BOOLEAN, by : ClassString]
      <4>1. [name |-> MadeName(b), short |-> b \in Short, by |-> b]
              \in [name : 0..(MaxClock + 1), short : BOOLEAN, by : ClassString]
        BY <3>1
      <4>. QED
        BY <2>3, <4>1 DEF RegisterClass
    <3>. QED
      BY <2>3, <3>2, <3>3 DEF RegisterClass
  <2>4. ASSUME NEW b \in ClassString, UnregisterClass(b) PROVE HooksTypeOK'
    BY <2>4 DEF UnregisterClass
  <2>5. ASSUME NEW b \in ClassString, CreateWindow(b) PROVE HooksTypeOK'
    BY <2>5 DEF CreateWindow, Named
  <2>6. CASE LongTitle \/ SetLongText \/ LoadLongPath
    BY <2>6 DEF LongTitle, SetLongText, LoadLongPath, OverrunsBuffer
  <2>7. CASE ImmGetHotKey
    <3>1. active_flag' \in BOOLEAN
      BY <2>7 DEF ImmGetHotKey
    <3>. QED
      BY <2>7, <3>1 DEF ImmGetHotKey
  <2>8. CASE ImmActivateLayout
    BY <2>8 DEF ImmActivateLayout
  <2>. QED
    BY <2>1, <2>2, <2>3, <2>4, <2>5, <2>6, <2>7, <2>8 DEF StartNext, startVars, StartGame, GameCalls
<1>. QED
  BY <1>1, <1>2, PTL DEF StartSpec

\* The types the invariant of the remap leaves out.
RemapRest ==
  /\ store = << >> \/ store \in [Page0 -> {"none", "old", "new"}]
  /\ remapping \subseteq {"region", "view"}
  /\ written \subseteq Page0
  /\ driver \in {"idle", "silent", "refused", "section_open"}
  /\ step \in {"unloaded", "verify", "allocate", "create", "view", "copy", "unview", "unmap",
               "map", "close", "validate", "free", "done", "returned", "crashed"}

\* RemapImage, the driver and the other threads keep the types of the memory
\* and of what has been copied and mapped.
THEOREM RemapTypes == StartSpec => []RemapTypeOK
<1>1. StartInit => RemapRest
  BY DEF StartInit, RemapInit, RemapRest
<1>2. RemapInv /\ RemapRest /\ [StartNext]_startVars => RemapRest'
  <2> SUFFICES ASSUME RemapInv, RemapRest, [StartNext]_startVars PROVE RemapRest'
    OBVIOUS
  <2> USE DEF RemapRest
  <2>1. CASE UNCHANGED remapVars
    BY <2>1 DEF remapVars
  <2>2. CASE StartGame \/ WithoutRemap \/ DllMainReturns
    BY <2>2 DEF StartGame, LoadImage, At, WithoutRemap, DllMainReturns
  <2>3. CASE VerifyPeSectionAlignment \/ AllocateRegion
    BY <2>3 DEF VerifyPeSectionAlignment, AllocateRegion, Exit, At
  <2>4. CASE CreateSection \/ MapCopyView
    BY <2>4 DEF CreateSection, MapCopyView, Exit, At
  <2>5. CASE CopyPeSections
    <3>1. \A p \in Page0 : mem[p].data \in {"none", "old", "new"}
      BY DEF RemapInv, Shape, PageState
    <3>2. \A p \in Page0 : store[p] \in {"none", "old", "new"}
      BY <2>5 DEF RemapInv, Shape, CopyPeSections, At
    <3>3. store' \in [Page0 -> {"none", "old", "new"}]
      BY <2>5, <3>1, <3>2 DEF CopyPeSections
    <3>. QED
      BY <2>5, <3>3 DEF CopyPeSections, At
  <2>6. CASE UnmapCopyView \/ UnmapImage
    BY <2>6 DEF UnmapCopyView, UnmapImage, Exit, At
  <2>7. CASE MapSection \/ MapHeader
    BY <2>7 DEF MapSection, MapHeader
  <2>8. CASE CloseSection \/ ValidateRemappedImage \/ FreeRegion
    BY <2>8 DEF CloseSection, ValidateRemappedImage, FreeRegion, At
  <2>9. CASE DriverRemap
    BY <2>9 DEF DriverRemap, DriverSilent, DriverRefuses, DriverMaps, AskDriver
  <2>10. CASE OtherThreads
    BY <2>10 DEF OtherThreads, OtherWrites, OtherAllocates, OtherEntersHook
  <2>. QED
    BY <2>1, <2>2, <2>3, <2>4, <2>5, <2>6, <2>7, <2>8, <2>9, <2>10 DEF StartNext, startVars, Remap
<1>3. RemapInv /\ RemapRest => RemapTypeOK
  <2> SUFFICES ASSUME RemapInv, RemapRest PROVE RemapTypeOK
    OBVIOUS
  <2>. QED
    BY DEF RemapInv, Shape, PageState, RemapRest, RemapTypeOK
<1>. QED
  BY RemapInvHolds, <1>1, <1>2, <1>3, PTL DEF StartSpec
=============================================================================
