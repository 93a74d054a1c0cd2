------------------------------ MODULE MCVideo ------------------------------
(***************************************************************************)
(* The windows of Video, for model checking.  The run ScreenPages has none *)
(* of them; README.md names what TLC finds with the others.                *)
(***************************************************************************)
EXTENDS Video

NoWindow == {}
EveryWindow == AllWindows
KeyInScheduler == {"choose", "remap"}
EditScheduled == {"edit"}
ShellRestarts == {"relaunch"}
=============================================================================
