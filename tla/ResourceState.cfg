SPECIFICATION Spec
CONSTANTS
  Qubits <- MCQubits
  Instruments <- MCInstruments
  Cores <- MCCores
  MIN <- MCMin
  MAX <- MCMax
  SingleQubitInstruments <- MCSingle
  TwoQubitInstrument <- MCTwo
  TwoQubitEdgeInstrument <- MCEdge
  CoreOf <- MCCoreOf
  CommQubits <- MCCommQubits
  CommunicationQubitOnly = TRUE
  InterCoreRequired = TRUE
  NumChannels = 2
  NumSystemWideChannels = 3
  Gates <- MCGates
  Cycles = {0, 1, 2, 3}
  Configs <- MCConfigs
  MaxReservations = 3
CHECK_DEADLOCK FALSE
INVARIANTS QubitExclusive InstrumentOneFunction ChannelCapacity ForgettingIsInvisible EventuallyAvailable
