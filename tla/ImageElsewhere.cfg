SPECIFICATION Spec
CONSTANTS
  MAX_TERMINALS = 2
  NUM_PIDS = 3
  Preemptible <- AllSteps
  Patience = "patient"
INVARIANT StartsOwnProgram
