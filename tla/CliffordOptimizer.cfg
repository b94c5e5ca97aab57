SPECIFICATION Spec
CONSTANTS
  Qubits <- MCQubits
  Gates <- MCGates
  ct = 20
  MaxGates = 4
  UIntSize = 256
CHECK_DEADLOCK FALSE
INVARIANTS EffectKept ShortestSequences SavingsNotOverstated
