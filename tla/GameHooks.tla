----------------------------- MODULE GameHooks ------------------------------
(***************************************************************************)
(* The game's own calls, which Detours leads through BAC-Base: the window  *)
(* functions, the input method, the loading of libraries.  The hooks of    *)
(* the window functions give each window class a name made of the time and *)
(* the process id, written over the game's own string.                     *)
(*                                                                         *)
(* They can be called once BAC-Base is loaded, and are jumps into the      *)
(* image that ImageRemap takes away and puts back.                         *)
(***************************************************************************)
EXTENDS ImageRemap

CONSTANTS ClassString, \* the strings the game keeps class names in
          Short,       \* those too short for all digits of GetTickCount
          MaxClock     \* bound: clock ticks

ASSUME StringAssumption == Short \subseteq ClassString
ASSUME ClockAssumption == MaxClock \in Nat \ {0}

VARIABLES game,       \* running, ended by BAC, or broken by an overrun buffer
          clock,      \* GetTickCount
          name,       \* what each string holds: a name made at a time, 0 its own
          classes,    \* the registered window classes: name and string
          registered, \* the strings whose last registration succeeded
          windows,    \* the windows' classes, with the string given
          active_flag

hookVars == <<game, clock, name, classes, registered, windows, active_flag>>

HooksTypeOK ==
  /\ game \in {"running", "ended", "broken"}
  /\ clock \in 1..MaxClock
  /\ name \in [ClassString -> 0..(MaxClock + 1)]
  /\ classes \in SUBSET [name : 0..(MaxClock + 1), short : BOOLEAN, by : ClassString]
  /\ registered \subseteq ClassString
  /\ windows \subseteq ClassString \X ClassString
  /\ active_flag \in BOOLEAN

HooksInit ==
  /\ game = "running" /\ clock = 1
  /\ name = [b \in ClassString |-> 0]
  /\ classes = {} /\ registered = {} /\ windows = {}
  /\ active_flag = FALSE

\* The game calls once DllMain has returned.
Calls == step = "returned" /\ game = "running"

Tick ==
  /\ Calls /\ clock < MaxClock
  /\ clock' = clock + 1
  /\ UNCHANGED <<game, name, classes, registered, windows, active_flag>>

-----------------------------------------------------------------------------
(* Window classes and windows *)

\* wsprintf "%d_%d": a short string takes the leading digits only, which are
\* the same for some ticks.
MadeName(b) == IF b \in Short THEN 2 * (clock \div 2) + 1 ELSE clock

\* The classes FindClass looks among: strings of the same length.
Named(b, n) == {c \in classes : c.name = n /\ c.short = (b \in Short)}

\* Mutant: the class gets its new name, the game's string keeps the old one.
RegisterClass_OwnCopy(b) ==
  /\ Calls
  /\ UNCHANGED name
  /\ IF Named(b, MadeName(b)) = {}
     THEN /\ classes' = classes \cup {[name |-> MadeName(b), short |-> b \in Short, by |-> b]}
          /\ registered' = registered \cup {b}
     ELSE registered' = registered \ {b} /\ UNCHANGED classes
  /\ UNCHANGED <<game, clock, windows, active_flag>>

\* BACRegisterClassA, ExA, W, ExW: the string is written over before the
\* system is asked, which refuses a name that exists.
RegisterClass(b) ==
  /\ Calls
  /\ name' = [name EXCEPT ![b] = MadeName(b)]
  /\ IF Named(b, MadeName(b)) = {}
     THEN /\ classes' = classes \cup {[name |-> MadeName(b), short |-> b \in Short, by |-> b]}
          /\ registered' = registered \cup {b}
     ELSE registered' = registered \ {b} /\ UNCHANGED classes
  /\ UNCHANGED <<game, clock, windows, active_flag>>

\* Not hooked.  The game gives back what it knows to be its own.
UnregisterClass(b) ==
  /\ Calls /\ b \in registered
  /\ classes' = classes \ Named(b, name[b])
  /\ registered' = registered \ {b}
  /\ windows' = {w \in windows : w[1] # b}
  /\ UNCHANGED <<game, clock, name, active_flag>>

\* BACCreateWindowExA, W: only the title is changed.
CreateWindow(b) ==
  /\ Calls
  /\ \E c \in Named(b, name[b]) : windows' = windows \cup {<<b, c.by>>}
  /\ UNCHANGED <<game, clock, name, classes, registered, active_flag>>

-----------------------------------------------------------------------------
(* Texts of any length, copied to MAX_PATH characters on the stack *)

OverrunsBuffer ==
  /\ Calls
  /\ game' = "broken"
  /\ UNCHANGED <<clock, name, classes, registered, windows, active_flag>>

\* A title made of the process id and the game's own.
LongTitle == OverrunsBuffer

\* The marked title is made, and the game's own passed on.
SetLongText == OverrunsBuffer

\* Whether the module then hides itself is found out, and forgotten.
LoadLongPath == OverrunsBuffer

-----------------------------------------------------------------------------
(* The input method *)

ImmGetHotKey ==
  /\ Calls
  /\ active_flag' = TRUE
  /\ UNCHANGED <<game, clock, name, classes, registered, windows>>

ImmActivateLayout ==
  /\ Calls
  /\ game' = IF active_flag THEN game ELSE "ended"
  /\ UNCHANGED <<clock, name, classes, registered, windows, active_flag>>

-----------------------------------------------------------------------------
GameCalls ==
  \/ Tick
  \/ \E b \in ClassString : RegisterClass(b) \/ UnregisterClass(b) \/ CreateWindow(b)
  \/ LongTitle \/ SetLongText \/ LoadLongPath
  \/ ImmGetHotKey \/ ImmActivateLayout

-----------------------------------------------------------------------------
(* Properties *)

\* A class the game has registered is found again through the string it was
\* registered with, and no class of another string is, although names are
\* made from the time and cut to the length of the game's own.
OwnClass ==
  Calls => \A b \in registered : {c.by : c \in Named(b, name[b])} = {b}
=============================================================================
