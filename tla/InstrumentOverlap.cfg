SPECIFICATION Spec
CONSTANTS
  Qubits <- MCQubits
  Instruments <- MCInstruments
  Cores <- MCCores
  MIN <- MCMin
  MAX <- MCMax
  SingleQubitInstruments <- MCOverlapSingle
  TwoQubitInstrument <- MCTwo
  TwoQubitEdgeInstrument <- MCEdge
  CoreOf <- MCCoreOf
  CommQubits <- MCCommQubits
  CommunicationQubitOnly = TRUE
  InterCoreRequired = TRUE
  NumChannels = 2
  NumSystemWideChannels = 3
  Gates <- MCOverlapGates
  Cycles = {0, 1, 2, 3}
  Configs <- MCOverlapConfigs
  MaxReservations = 3
CHECK_DEADLOCK FALSE
INVARIANT InstrumentOneFunction
