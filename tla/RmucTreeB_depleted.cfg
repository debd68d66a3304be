SPECIFICATION FairSpec
CONSTANTS
  Phases <- PhasesB
  PhaseGuard <- PhaseGuardB
  BranchGuard <- BranchGuardB
  Steps <- StepsB
  RootScripts <- RootScriptsB
  Flags0 <- Flags0B
  Reports <- FinalReports
  Faults = {}
PROPERTIES
  DepletedResupplies
