SPECIFICATION Spec
CONSTANT Expressions <- UpTo4
CHECK_DEADLOCK FALSE
INVARIANT FunctionCompiles
INVARIANT ReachHonest
INVARIANT SetBeforeUse
