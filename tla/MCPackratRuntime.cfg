SPECIFICATION Spec
CONSTANTS
  rs = rs
  ra = ra
  None = None
  Rules <- MCRules
  Start = rs
  MaxInput = 2
  MaxDepth = 2
  MaxMemos = 3
INVARIANT TypeOK
INVARIANT StackDiscipline
INVARIANT NoDangling
INVARIANT HeadScoped
INVARIANT RecallsInBuffer
PROPERTY ImplementsMemo
