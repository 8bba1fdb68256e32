---------------------------- MODULE MemoryCheck -----------------------------
(***************************************************************************)
(* What the loop thread of BACSession looks at, and reports.               *)
(*                                                                         *)
(* Before the thread exists, five installers have hooked functions of the  *)
(* system with Detours, one transaction each, and have recorded a CRC of   *)
(* the first five bytes of every function.  Each round, CheckHookPointer   *)
(* compares these bytes and follows the jump they hold; CheckMemoryCRC32   *)
(* compares the .text section of every module with the CRC taken in the    *)
(* first round.  Whatever differs is sent to the server, and the thread    *)
(* waits for each answer.                                                  *)
(*                                                                         *)
(* The other code of the process may patch functions and sections, and     *)
(* load and unload modules, at any time.  A CRC is taken for what it was   *)
(* computed from: no collision is modelled.                                *)
(***************************************************************************)
EXTENDS BACSession, FiniteSets, Functions

CONSTANTS HookList,   \* the hooked functions looked at, in the order of _hook_list
          Module,     \* the modules of the process
          Home,       \* the module each function is in
          MaxChanges  \* bound: changes made by the other code of the process

HookPoint == Range(HookList)

ThreadHooks ==
  {"NtSuspendThread", "NtResumeThread", "NtSetContextThread", "NtGetContextThread"}
InjecterHooks == {"LdrLoadDll", "LdrInitializeThunk"}
ImmHooks == {"ImmGetHotKey", "ImmActivateLayout"}
MemoryHooks == {"NtProtectVirtualMemory", "IsBadReadPtr", "IsBadWritePtr"}
WindowHooks ==
  {"RegisterClassExA", "RegisterClassA", "RegisterClassExW", "RegisterClassW",
   "CreateWindowExW", "CreateWindowExA", "SetWindowTextW", "SetWindowTextA"}
Installer == {ThreadHooks, InjecterHooks, ImmHooks, MemoryHooks, WindowHooks}

ASSUME ModuleAssumption == IsFiniteSet(Module)
ASSUME HookAssumption == HookList \in Seq(UNION Installer) /\ HookPoint \cap Module = {}
ASSUME HomeAssumption == Home \in [HookPoint -> Module]
ASSUME ChangesAssumption == MaxChanges \in Nat

VARIABLES entry,       \* where each function's first five bytes lead
          text,        \* the rest of each module's .text
          loaded,      \* the modules mapped at the address they had first
          hook_list,   \* _hook_list: the bytes recorded for each function
          listed,      \* _crc32_list: the modules, in the order they are looked at
          crc_list,    \* crc32_value_list: the section recorded for each
          first_call,  \* CheckMemoryCRC32 has taken its first values
          todo,        \* what is left to look at in this phase
          filed,       \* what was reported in this round
          handled,     \* the reports of this round answered with Success
          steady,      \* what differed when the round began, and was not changed since
          touched,     \* what other code changed since it was recorded, and what
                       \* no installer succeeded in hooking
          changes

memory == <<entry, text, loaded>>
records == <<hook_list, listed, crc_list, first_call>>
round == <<todo, filed, handled>>
history == <<steady, touched, changes>>
checkVars == <<vars, memory, records, round, history>>

\* The function itself, BAC's jump, BAC's jump with its trampoline led
\* elsewhere, a jump or code of another origin.
Entry == {"plain", "bac", "bent", "other"}

\* The five bytes: a trampoline lies outside them.
Bytes(h) == IF entry[h] \in {"bac", "bent"} THEN "jump" ELSE entry[h]

Section(m) == <<text[m], [h \in {k \in HookPoint : Home[k] = m} |-> Bytes(h)]>>

Item == [kind : {"bytes", "target"}, of : HookPoint]
        \cup [kind : {"record", "text"}, of : Module]

CheckTypeOK ==
  /\ TypeOK
  /\ entry \in [HookPoint -> Entry]
  /\ text \in [Module -> {"plain", "changed"}]
  /\ loaded \subseteq Module
  /\ hook_list \in [HookPoint -> {"plain", "jump", "other"}]
  /\ listed \in Seq(Module)
  /\ DOMAIN crc_list \subseteq Range(listed)
  /\ first_call \in BOOLEAN
  /\ todo \in Seq(Item)
  /\ filed \subseteq HookPoint \cup Module /\ handled \subseteq filed
  /\ steady \subseteq HookPoint \cup Module
  /\ touched \subseteq HookPoint \cup Module
  /\ changes \in 0..MaxChanges

\* Mutant: the bytes are recorded before DetourTransactionCommit.
Recorded_BeforeCommit(h) == "plain"

\* The CRC of the bytes an installer records once its transaction is over.
Recorded(h) == Bytes(h)

\* A transaction attaches all functions of its installer or none; whether it
\* did is not looked at.
CheckInit ==
  /\ Init
  /\ \E attached \in SUBSET Installer :
       entry = [h \in HookPoint |-> IF h \in UNION attached THEN "bac" ELSE "plain"]
  /\ hook_list = [h \in HookPoint |-> Recorded(h)]
  /\ text = [m \in Module |-> "plain"]
  /\ loaded = Module
  /\ listed = << >> /\ crc_list = << >> /\ first_call = FALSE
  /\ todo = << >> /\ filed = {} /\ handled = {}
  /\ steady = {} /\ changes = 0
  /\ touched = {h \in HookPoint : entry[h] = "plain"}

-----------------------------------------------------------------------------
(* A round of the loop thread *)

\* For each function first its bytes, then its target.
HookItems ==
  [i \in 1..2 * Len(HookList) |->
     [kind |-> IF i % 2 = 1 THEN "bytes" ELSE "target",
      of |-> HookList[(i + 1) \div 2]]]

ModuleItems(kind, list) == [i \in DOMAIN list |-> [kind |-> kind, of |-> list[i]]]

\* JudgmentHookModule: a trampoline that is not Detours', or that does not
\* lead into BAC-Base, is reported.
LeadsElsewhere(h) == entry[h] # "bac"

\* Mutant: only the bytes of a function are compared, the jump not followed.
Finds_BytesOnly(item) ==
  CASE item.kind = "bytes" -> Bytes(item.of) # hook_list[item.of]
    [] item.kind = "text" -> Section(item.of) # crc_list[item.of]
    [] item.kind \in {"target", "record"} -> FALSE

\* What makes CheckHookPointer or CheckMemoryCRC32 send a report.
Finds(item) ==
  CASE item.kind = "bytes" -> Bytes(item.of) # hook_list[item.of]
    [] item.kind = "target" -> LeadsElsewhere(item.of)
    [] item.kind = "text" -> Section(item.of) # crc_list[item.of]
    [] item.kind = "record" -> FALSE

\* A section that is no longer mapped cannot be read.
Readable(item) == item.kind \in {"record", "text"} => item.of \in loaded

\* What the next round would report if nothing changed until then.
Differing ==
  {h \in HookPoint : Bytes(h) # hook_list[h] \/ LeadsElsewhere(h)}
  \cup {m \in DOMAIN crc_list \cap loaded : Section(m) # crc_list[m]}

NewRound ==
  /\ todo' = HookItems
  /\ filed' = {} /\ handled' = {}
  /\ steady' = Differing
  /\ UNCHANGED <<touched, changes>>

BeginLoop == LoopStart /\ NewRound /\ UNCHANGED <<memory, records>>

AtItem == Running /\ pc["loop"] = "check" /\ todo # << >>

\* The value taken last is the one compared with.
Record(m) ==
  /\ crc_list' = [k \in DOMAIN crc_list \cup {m} |->
                    IF k = m THEN Section(m) ELSE crc_list[k]]
  /\ touched' = touched \ {m}

\* Nothing to report; a section met for the first time is recorded.
PassItem ==
  /\ AtItem
  /\ LET item == Head(todo)
     IN  /\ Readable(item) /\ ~Finds(item)
         /\ IF item.kind = "record"
            THEN Record(item.of)
            ELSE UNCHANGED <<crc_list, touched>>
  /\ todo' = Tail(todo)
  /\ UNCHANGED <<vars, memory, hook_list, listed, first_call, filed, handled,
                 steady, changes>>

ReportItem ==
  /\ AtItem
  /\ Readable(Head(todo)) /\ Finds(Head(todo))
  /\ LoopSend
  /\ filed' = filed \cup {Head(todo).of}
  /\ UNCHANGED <<memory, records, todo, handled, history>>

\* Mutant: a report that was not answered with Success is made again.
AnswerItem_UntilSuccess ==
  /\ LoopRecv
  /\ handled' = IF result'["loop"] = "ok" THEN handled \cup {Head(todo).of} ELSE handled
  /\ todo' = IF result'["loop"] = "ok" THEN Tail(todo) ELSE todo
  /\ UNCHANGED <<memory, records, filed, history>>

\* The report made for the first item has been answered, or was lost.
AnswerItem ==
  /\ LoopRecv
  /\ handled' = IF result'["loop"] = "ok" THEN handled \cup {Head(todo).of} ELSE handled
  /\ todo' = Tail(todo)
  /\ UNCHANGED <<memory, records, filed, history>>

AnswerThrows == LoopThrows /\ UNCHANGED <<memory, records, round, history>>

ItemFaults ==
  /\ AtItem
  /\ ~Readable(Head(todo))
  /\ LoopFaults
  /\ UNCHANGED <<memory, records, round, history>>

\* InitMemoryCRC32List: the modules are kept by path, which may be any order;
\* an enumeration that fails leaves the list empty.
Listing == {<< >>} \cup {list \in [1..Cardinality(loaded) -> loaded] : Range(list) = loaded}

\* The first values are taken from the modules listed then, and those
\* modules are compared in this and in every later round.
EnterMemoryCheck ==
  /\ phase = "hooks"
  /\ \/ /\ ~first_call
        /\ \E list \in Listing :
             /\ listed' = list
             /\ todo' = ModuleItems("record", list) \o ModuleItems("text", list)
        /\ first_call' = TRUE
     \/ /\ first_call
        /\ todo' = ModuleItems("text", listed)
        /\ UNCHANGED <<listed, first_call>>
  /\ UNCHANGED <<hook_list, crc_list, filed, handled, history>>

EndPhase ==
  /\ todo = << >>
  /\ LoopNext
  /\ \/ EnterMemoryCheck
     \/ phase = "crc" /\ UNCHANGED <<records, round, history>>
     \/ phase = "sleep" /\ NewRound /\ UNCHANGED records
  /\ UNCHANGED memory

-----------------------------------------------------------------------------
(* The other code of the process *)

Touch(X) ==
  /\ Running /\ changes < MaxChanges
  /\ changes' = changes + 1
  /\ steady' = steady \ X
  /\ touched' = touched \cup X
  /\ UNCHANGED <<vars, records, round>>

PatchEntry(h) ==
  /\ \E e \in Entry \ {entry[h]} :
       /\ e \in {"bac", "bent"} => hook_list[h] = "jump"
       /\ entry' = [entry EXCEPT ![h] = e]
  /\ Touch({h, Home[h]})
  /\ UNCHANGED <<text, loaded>>

PatchText(m) ==
  /\ m \in loaded
  /\ \E c \in {"plain", "changed"} \ {text[m]} : text' = [text EXCEPT ![m] = c]
  /\ Touch({m})
  /\ UNCHANGED <<entry, loaded>>

\* The modules of hooked functions are never unloaded.
Unload(m) ==
  /\ m \in loaded \ Range(Home)
  /\ loaded' = loaded \ {m}
  /\ Touch({m})
  /\ UNCHANGED <<entry, text>>

\* A module, the same or another, is mapped where m was.
Load(m) ==
  /\ m \notin loaded
  /\ loaded' = loaded \cup {m}
  /\ \E c \in {"plain", "changed"} : text' = [text EXCEPT ![m] = c]
  /\ Touch({m})
  /\ UNCHANGED entry

-----------------------------------------------------------------------------
Others == \/ \E h \in HookPoint : PatchEntry(h)
          \/ \E m \in Module : PatchText(m) \/ Unload(m) \/ Load(m)

LoopThread == BeginLoop \/ PassItem \/ ReportItem \/ AnswerItem \/ AnswerThrows
              \/ ItemFaults \/ EndPhase

\* The initialising thread and the connection, as in BACSession.
Elsewhere == (Main \/ Server \/ ServerEnds \/ ConnectionReset)
             /\ UNCHANGED <<memory, records, round, history>>

CheckNext == LoopThread \/ Elsewhere \/ Others

\* The threads are scheduled and what has arrived is delivered.
CheckSpec ==
  /\ CheckInit /\ [][CheckNext]_checkVars
  /\ WF_checkVars(LoopThread)
  /\ WF_checkVars(Main /\ UNCHANGED <<memory, records, round, history>>)
  /\ WF_checkVars(Server /\ UNCHANGED <<memory, records, round, history>>)

-----------------------------------------------------------------------------
(* Properties *)

\* A change of a hook or of a recorded section that is there when a round
\* begins, and stays, has been handed to the server's handler and answered
\* with Success when the round ends, whatever else was found, patched, loaded
\* or reported meanwhile, unless the connection is gone.
ChangesReachServer ==
  phase = "sleep" /\ Running /\ sock = "up" => steady \subseteq handled

\* BAC never reports its own work: what is reported has been changed by
\* other code since it was recorded, or its installer's transaction failed.
ReportsAreCaused == filed \subseteq touched

\* The loop thread with its finite lists is a loop thread as BACSession
\* describes it: it makes reports at will, and always comes to the end of a
\* phase.
ImplementsSession == Spec
=============================================================================
