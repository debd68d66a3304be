SPECIFICATION Spec
CONSTANTS
  Phases <- PhasesB
  PhaseGuard <- PhaseGuardB
  BranchGuard <- BranchGuardB
  Steps <- StepsB
  RootScripts <- RootScriptsB
  Flags0 <- Flags0B
  Reports <- LateReports
  Faults = {"abort", "refuse", "tf", "timeout"}
INVARIANTS
  GoalTracked
  NoForgottenGoal
