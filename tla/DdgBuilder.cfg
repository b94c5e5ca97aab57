SPECIFICATION Spec
CONSTANTS
  qreg = qreg
  creg = creg
  Null = Null
  Objects <- MCObjects
  References <- MCReferences
  Statements <- MCStatements
  MaxStatements = 3
CHECK_DEADLOCK FALSE
INVARIANTS NoInternalError ConflictsOrdered OnlyConflictsOrdered Connected CommutingAgree
