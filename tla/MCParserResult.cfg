SPECIFICATION MCSpec
CONSTANTS
  rs = rs
  ra = ra
  rb = rb
  None = None
  Rules = {rs, ra}
  Start = rs
  MaxInput = 4
  MaxDepth = 8
  MaxMemos = 20
  Programs <- ResultPrograms
  Inputs <- WordsUpTo4
INVARIANT ResultsKept
