----------------------------- MODULE GameStart ------------------------------
(***************************************************************************)
(* A game from the launcher to its windows: BAC-Helper patches the         *)
(* executable (Launcher), the player starts it, the loader maps the import *)
(* added, BAC-Base, whose DllMain installs the hooks and may remap its     *)
(* image (ImageRemap), and the game makes its calls (GameHooks).           *)
(***************************************************************************)
EXTENDS Launcher, GameHooks

startVars == <<vars, configVars, remapVars, hookVars>>

StartInit == LaunchInit /\ RemapInit /\ HooksInit

\* What the launcher knew is gone with it.
StartGame ==
  /\ pc = "done" /\ Loadable(image)
  /\ LoadImage
  /\ exe' = None /\ image' = None /\ import' = None /\ spoiled' = {}
  /\ pc' = "started"
  /\ gamefile_full_name' = None
  /\ UNCHANGED <<config, settings, careful, writes, hookVars>>

\* DllMain without the call of RemapImage, as it is built today.
WithoutRemap ==
  /\ step = "verify"
  /\ step' = "done" /\ status' = FALSE
  /\ UNCHANGED <<part, layout, mem, store, remapping, written, driver>>

\* All the calls need of the image is that it can be used.
DllMainReturns ==
  /\ At("done", "returned") /\ Usable
  /\ layout' = << >> /\ mem' = [p \in Page0 |-> Loaded]
  /\ part' = 1 /\ remapping' = {} /\ status' = FALSE /\ written' = {} /\ driver' = "idle"
  /\ UNCHANGED store

StartNext ==
  \/ Launch /\ UNCHANGED <<remapVars, hookVars>>
  \/ StartGame
  \/ (Remap \/ DriverRemap \/ OtherThreads \/ WithoutRemap \/ DllMainReturns)
     /\ UNCHANGED <<vars, configVars, hookVars>>
  \/ GameCalls /\ UNCHANGED <<vars, configVars, remapVars>>

StartSpec == StartInit /\ [][StartNext]_startVars
=============================================================================
