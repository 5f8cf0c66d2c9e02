SPECIFICATION MCSpec
CONSTANTS
  rs = rs
  ra = ra
  rb = rb
  None = None
  Rules = {rs, ra}
  Start = rs
  MaxInput = 2
  MaxDepth = 8
  MaxMemos = 20
  Programs <- DriftPrograms
  Inputs <- WordsUpTo2
INVARIANT EveryCallAgrees
