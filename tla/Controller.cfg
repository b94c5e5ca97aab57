SPECIFICATION Spec
CONSTANTS
  Instruments <- MCInstruments
  Qubits <- MCQubits
  Vars <- MCVars
  Inputs <- MCInputs
  Misreadings = {"below", "until", "otherwise", "continue", "mixed"}
  SmBits = 6
  XferSize = 2
  MuxWindow = 2
  PlWindow = 4
  MuxCount = 2
  PlCount = 2
  Patience = 60
INVARIANTS OutputFollowsProgram SlotsAligned TimeTravelIffCrowded TransfersApart
CHECK_DEADLOCK FALSE
