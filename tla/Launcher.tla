------------------------------ MODULE Launcher ------------------------------
(***************************************************************************)
(* BAC-Helper from its start: it looks up in ByteAntiCheat\BACConfig.ini   *)
(* which executable is the game, and patches that one as ImageInject says. *)
(* The file is made by hand; WriteConfig adds to it.                       *)
(***************************************************************************)
EXTENDS ImageInject

CONSTANTS Key,       \* the keys used in the file
          Word,      \* what values are made of
          Game,      \* the value that is the game's file name
          HandMade,  \* the files there may be: lines, and whether the last is ended
          MaxWrites  \* bound: calls of WriteConfig

\* A line without a key stands for any without '='.
Line == [key : Key \cup {None}, value : Seq(Word)]

ASSUME KeyAssumption == "GameFullName" \in Key /\ None \notin Key /\ Key \subseteq Word
ASSUME GameAssumption == Game \in Seq(Word) \ {<< >>}
ASSUME HandMadeAssumption ==
  \A f \in HandMade : f = None \/ (f.lines \in Seq(Line) /\ f.ended \in BOOLEAN)

VARIABLES config,             \* BACConfig.ini, None when there is none
          settings,           \* all values the game was ever to have, and the
                              \* lines they were to stand in
          careful,            \* the file was made as the program needs it
          writes,             \* calls of WriteConfig
          gamefile_full_name  \* what ReadConfig found, None before

configVars == <<config, settings, careful, writes, gamefile_full_name>>

\* strtok finds no second part: std::string is made from NULL.
Unreadable(line) == line.key = None \/ line.value = << >>

\* The values of all lines with the key, one after the other.
ValuesOf(lines, key) ==
  FlattenSeq([i \in DOMAIN lines |-> IF lines[i].key = key THEN lines[i].value ELSE << >>])

SettingsIn(lines) ==
  {[line |-> i, value |-> lines[i].value] : i \in {j \in DOMAIN lines : lines[j].key = "GameFullName"}}

LaunchInit ==
  /\ Init
  /\ config \in HandMade
  /\ settings = IF config = None THEN {} ELSE SettingsIn(config.lines)
  /\ careful = (config # None /\ config.ended
                /\ \A i \in DOMAIN config.lines : ~Unreadable(config.lines[i]))
  /\ writes = 0 /\ gamefile_full_name = None

LookingUp == pc = "read" /\ gamefile_full_name = None

\* "%s=%s\n" at the end of the file, which may be in the middle of a line.
AfterLast(file, key, value) ==
  IF file.ended
  THEN Append(file.lines, [key |-> key, value |-> value])
  ELSE Front(file.lines) \o
         <<[Last(file.lines) EXCEPT !.value = @ \o <<key>> \o value]>>

\* What a new line is to set.
Added(those, key, value) ==
  IF key = "GameFullName"
  THEN those \cup {[line |-> Len(config.lines) + 1, value |-> value]}
  ELSE those

\* Mutant: the line is not ended.
WriteConfig_NoNewline(key, value) ==
  /\ LookingUp /\ config # None /\ writes < MaxWrites
  /\ config' = [lines |-> AfterLast(config, key, value), ended |-> FALSE]
  /\ settings' = Added(settings, key, value)
  /\ careful' = (careful /\ value # << >>)
  /\ writes' = writes + 1
  /\ UNCHANGED <<vars, gamefile_full_name>>

\* The key is not looked for: a value written before stays.
WriteConfig(key, value) ==
  /\ LookingUp /\ config # None /\ writes < MaxWrites
  /\ config' = [lines |-> AfterLast(config, key, value), ended |-> TRUE]
  /\ settings' = Added(settings, key, value)
  /\ careful' = (careful /\ value # << >>)
  /\ writes' = writes + 1
  /\ UNCHANGED <<vars, gamefile_full_name>>

\* The constructor finds no file, or ReadConfig cannot open it.
ConfigMissing ==
  /\ LookingUp
  /\ pc' = "failed"
  /\ UNCHANGED <<exe, image, spoiled, import, configVars>>

ReadConfig ==
  /\ LookingUp /\ config # None
  /\ IF \E i \in DOMAIN config.lines : Unreadable(config.lines[i])
     THEN pc' = "crashed" /\ UNCHANGED gamefile_full_name
     ELSE /\ gamefile_full_name' = ValuesOf(config.lines, "GameFullName")
          /\ UNCHANGED pc
  /\ UNCHANGED <<exe, image, spoiled, import, config, settings, careful, writes>>

\* There is a file for ImportTableInject to read only under the game's name.
\* The settings are not looked at again.
Inject ==
  /\ gamefile_full_name # None
  /\ Next
  /\ pc = "read" /\ gamefile_full_name # Game => pc' = "failed"
  /\ config' = None /\ settings' = {} /\ careful' = FALSE /\ writes' = 0
  /\ UNCHANGED gamefile_full_name

Launch ==
  \/ \E key \in Key, value \in {<< >>, Game} : WriteConfig(key, value)
  \/ ConfigMissing \/ ReadConfig \/ Inject

-----------------------------------------------------------------------------
(* Properties *)

\* A file that names the game once is read as that name, by whomever and in
\* whatever order its lines were written: no line runs into another one, and
\* none makes the launcher fail.
ConfigNamesGame ==
  careful =>
    \A s \in settings : settings = {s} =>
      /\ gamefile_full_name \in {None, s.value}
      /\ pc = "crashed" => gamefile_full_name # None
=============================================================================
