SPECIFICATION Spec
CONSTANT Expressions <- UpTo3
CHECK_DEADLOCK FALSE
INVARIANT ErrorsAnywhere
