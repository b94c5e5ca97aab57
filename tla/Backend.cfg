SPECIFICATION Spec
CONSTANTS
  Null = Null
  UNDEFINED_QUBIT = UNDEFINED_QUBIT
  Objects <- MCObjects
  Names <- MCNames
  Duration <- MCDuration
  Jobs <- MCJobs
  ResourceConfig <- MCConfig
  ALAP_SINK_CYCLE = 50
  Qubits <- MCQubits
  Instruments = {"mw"}
  Cores = {"c0"}
  MIN <- MCMin
  MAX <- MCMax
  SingleQubitInstruments <- MCSingle
  TwoQubitInstrument <- MCTwo
  TwoQubitEdgeInstrument <- MCEdge
  CoreOf <- MCCoreOf
  CommQubits = {}
  CommunicationQubitOnly = FALSE
  InterCoreRequired = FALSE
  NumChannels = 1
  NumSystemWideChannels = 2
INVARIANTS MappingFaithful NearestNeighbours DependenciesKept ConflictsScheduled ShortestCircuit
PROPERTY CompilationEnds
