SPECIFICATION Spec
CONSTANTS
  Phases <- PhasesB
  PhaseGuard <- PhaseGuardB
  BranchGuard <- BranchGuardB
  Steps <- StepsB
  RootScripts <- RootScriptsB
  Flags0 <- Flags0B
  Reports <- RegularReports
  Faults = {}
INVARIANTS
  HoldsAtOutpost
