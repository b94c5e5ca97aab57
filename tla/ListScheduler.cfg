SPECIFICATION ApiSpec
CONSTANTS
  Qubits <- MCQubits
  Instruments = {"mw"}
  Cores = {"c0"}
  MIN <- MCMin
  MAX <- MCMax
  SingleQubitInstruments <- MCSingle
  TwoQubitInstrument <- MCTwo
  TwoQubitEdgeInstrument <- MCEdge
  CoreOf <- MCCoreOf
  CommQubits = {}
  CommunicationQubitOnly = FALSE
  InterCoreRequired = FALSE
  NumChannels = 1
  NumSystemWideChannels = 2
  Problems <- MCProblems
  Heuristics = {"none", "deep_criticality"}
  ResourceConfigs <- MCConfigs
  Criticalities <- MCCriticalities
  MaxResourceBlockCycles = 4
  MaxCycle = 5
  NumStatements = 3
  Durations = {0, 2}
CHECK_DEADLOCK FALSE
INVARIANTS NoAssertionFails ListedWhenReady NeverStuck
PROPERTY ImplementsSchedule
