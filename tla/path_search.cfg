SPECIFICATION AnySpec
CONSTANTS
  Nodes <- MCNodes
  Steps <- MCSteps
  Graphs <- MCGraphs
  ScenarioLists <- MCScenarioLists
INVARIANTS SearchDelivers CleanBetweenScenarios LongNeverPrunes DeliverExactly
PROPERTIES SearchesReturn
