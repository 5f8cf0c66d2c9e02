SPECIFICATION MCSpec
CONSTANTS
  rs = rs
  ra = ra
  rb = rb
  None = None
  Rules = {rs, ra, rb}
  Start = rs
  MaxInput = 3
  MaxDepth = 8
  MaxMemos = 20
  Programs <- IndirectPrograms
  Inputs <- IndirectInputs
INVARIANT FirstCallAgrees
