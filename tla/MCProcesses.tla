---------------------------- MODULE MCProcesses ----------------------------
(***************************************************************************)
(* The values of Preemptible for the model-checking runs of Processes.     *)
(***************************************************************************)
EXTENDS ProcessesInv

\* The kernel as it is: the timer may interrupt before every step.
AllSteps == Pc

\* The timer leaves alone an execute from the mapping of the page to the
\* activation of the terminal, and the status of a halt.
Undisturbed == {"user", "alloc", "map", "spin", "reap"}
=============================================================================
