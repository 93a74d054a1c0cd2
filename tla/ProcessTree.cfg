SPECIFICATION Spec
CONSTANTS
  MAX_TERMINALS = 3
  NUM_PIDS = 4
  Preemptible <- AllSteps
  Patience = "patient"
INVARIANTS TypeOK ProcessTree ForegroundIsNewest BaseSlotsKept HangsOnlyAtBoot PatientInv
PROPERTY ParentsStay
