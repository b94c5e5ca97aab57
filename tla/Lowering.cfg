SPECIFICATION Spec
CONSTANTS
  Inputs <- MCInputs
  Passes = {"opt.ConstProp", "opt.DeadCodeElim"}
  Bits <- MCBits
  Vars <- MCVars
  Patience = 60
INVARIANTS BehaviourKept ScheduleKept GraphCoversFlow
CHECK_DEADLOCK FALSE
