SPECIFICATION FairSpec
CONSTANTS
  qreg = qreg
  creg = creg
  Null = Null
  Objects <- MCObjects
  References <- MCReferences
  Statements <- MCStatements
  MaxStatements = 3
  GateData <- MCGateData
  PassOptions <- MCPassOptions
  ResourceConfigs <- MCConfigs
  Problems = {}
  Heuristics = {"none", "deep_criticality", "critical_path"}
  Criticalities = {}
  MaxResourceBlockCycles = 4
  MaxCycle = 0
  Qubits <- MCQubits
  Instruments = {"mw"}
  Cores = {"c0"}
  MIN <- MCMin
  MAX <- MCMax
  SingleQubitInstruments <- MCSingle
  TwoQubitInstrument <- MCTwo
  TwoQubitEdgeInstrument <- MCEdge
  CoreOf <- MCCoreOf
  CommQubits = {}
  CommunicationQubitOnly = FALSE
  InterCoreRequired = FALSE
  NumChannels = 1
  NumSystemWideChannels = 2
CHECK_DEADLOCK FALSE
INVARIANTS ConflictsKeepOrder CyclesNormalized QubitsNeverShared ShortestSchedule RunIsEarliest
PROPERTY Completes
