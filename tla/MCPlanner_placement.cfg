SPECIFICATION PlannerSpec
CONSTANTS
  Models <- MCModels
  Machines <- MCMachines
  Concurrency <- MCConcurrency
INVARIANT PlacementFits
CHECK_DEADLOCK FALSE
