SPECIFICATION Spec
CONSTANT N = 5
INVARIANTS
  LaunchesN
CHECK_DEADLOCK FALSE
