SPECIFICATION AnySpec
CONSTANTS
  Nodes <- MCNodes
  Steps <- MCSteps
  StepNames <- MCStepNames
  Models <- MCModels
INVARIANTS AdjacencyIsGraph StepNumIsLast CasesComplete
