SPECIFICATION HFairSpec
CONSTANTS
  Phases <- PhasesA
  PhaseGuard <- PhaseGuardA
  BranchGuard <- BranchGuardA
  Steps <- StepsA
  RootScripts <- RootScriptsA
  Flags0 <- Flags0A
  Reports <- AllReports
  Faults = {}
INVARIANTS
  HealsBeforeAttack
PROPERTIES
  LastingStateDecides
