---------------------------- MODULE MCGameStart ----------------------------
(* Model-checking instance of GameStart: 64-bit executables of one to three *)
(* sections around each limit the code compares with or forgets, images of  *)
(* BAC-Base of up to three sections, small settings files.                  *)
EXTENDS GameStart

Sizes == {512, 4096, 4608}
Up(n) == ((n + Page - 1) \div Page) * Page

FileEnd(s) == FoldLeft(LAMBDA e, sec : IF sec.rsize = 0 THEN e ELSE sec.raw + sec.rsize, 1024, s)

\* One more section, of memory size d[1] and file size d[2]; one without data
\* in the file has no address there either.
Add(s, d) ==
  Append(s, [va |-> IF s = <<>> THEN Page ELSE Last(s).va + Up(Last(s).vsize),
             vsize |-> d[1], raw |-> IF d[2] = 0 THEN 0 ELSE FileEnd(s), rsize |-> d[2]])

\* One to three sections behind 1024 bytes of headers.
Layouts ==
  {FoldLeft(Add, <<>>, d) :
     d \in UNION {[1..n -> Sizes \X {0, 512, 4096}] : n \in 1..2}
           \cup [1..3 -> {512, 4096} \X {0, 512}]}

Make(s, room, overlay, d, i) ==
  [lfanew |-> 1024 - 264 - EntrySize * Len(s) - room, sections |-> s, headers |-> 1024,
   size |-> s[Len(s)].va + Up(s[Len(s)].vsize), file |-> FileEnd(s) + overlay,
   imports |-> d[1], bound |-> d[2], import |-> s[i].va]

\* The room behind the section table (none: it reaches into the data), the bytes behind the last section, the
\* descriptors and the section they are in.
Executables ==
  UNION {{Make(s, room, overlay, d, i) :
            room \in {-8, 8, 16, 79, 80}, overlay \in {0, 256},
            d \in {<<2, 2>>, <<3, 1>>, <<196, 196>>, <<200, 200>>},
            i \in {k \in DOMAIN s : s[k].rsize > 0}} :
         s \in {l \in Layouts : l[1].rsize > 0}}

Part(va, size, rights, used) == [va |-> va, size |-> size, rights |-> rights, used |-> used]
Code == Part(2, 2, {"execute", "read"}, TRUE)
Data == Part(6, 1, {"read", "write"}, TRUE)

\* As a compiler makes them; one section to write and execute and one that is
\* not needed; rights of every other kind; sections without size; one that is
\* not aligned.
Images ==
  {<<Code, Part(4, 1, {"read"}, TRUE), Data>>,
   <<Part(2, 1, {"execute", "read", "write"}, TRUE), Part(4, 2, {"read"}, FALSE), Data>>,
   <<Part(2, 1, {"execute"}, TRUE), Part(4, 1, {"write"}, TRUE), Part(6, 1, {}, TRUE)>>,
   <<Part(2, 1, {"execute", "write"}, TRUE), Part(4, 1, {"read"}, TRUE), Part(6, 2, {}, TRUE)>>,
   <<Code, Part(4, 0, {"read"}, FALSE), Data>>,
   <<Code, Data, Part(8, 0, {"read"}, FALSE)>>,
   <<Part(1, 2, {"execute", "read"}, TRUE), Data>>}

File(lines, ended) == [lines |-> lines, ended |-> ended]
Naming(value) == [key |-> "GameFullName", value |-> value]
Blank == [key |-> None, value |-> <<>>]
Files ==
  {None, File(<<>>, TRUE), File(<<Blank>>, TRUE),
   File(<<Naming(<<"game">>)>>, FALSE), File(<<Naming(<<"game">>)>>, TRUE),
   File(<<[key |-> "Server", value |-> <<"host">>], Naming(<<"game">>)>>, TRUE),
   File(<<Naming(<<"host">>), Naming(<<"game">>)>>, TRUE)}

TheGame == <<"game">>
=============================================================================
