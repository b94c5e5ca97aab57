SPECIFICATION Spec
CONSTANTS
  MinKey = 0
  MaxKey = 3
  Values = {f, g}
  NoValue = NoValue
  NullAnywhere = FALSE
SYMMETRY MCSymmetry
INVARIANTS ConsistentOrder FindComplete MaximallyMerged
PROPERTY ImplementsKeyMap
