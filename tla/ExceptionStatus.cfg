SPECIFICATION Spec
CONSTANTS
  MAX_TERMINALS = 2
  NUM_PIDS = 4
  Preemptible <- AllSteps
  Patience = "patient"
INVARIANT StatusTold
