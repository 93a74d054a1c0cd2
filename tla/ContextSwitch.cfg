SPECIFICATION FairSpec
CONSTANTS
  MAX_TERMINALS = 3
  NUM_PIDS = 4
  Preemptible <- Undisturbed
  Patience = "patient"
INVARIANTS ContextsSurvive OwnMachineState
PROPERTIES LaunchEnds TerminalsServed
