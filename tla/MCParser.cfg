SPECIFICATION MCSpec
CONSTANTS
  rs = rs
  ra = ra
  rb = rb
  None = None
  Rules = {rs, ra}
  Start = rs
  MaxInput = 4
  MaxDepth = 12
  MaxMemos = 20
  Programs <- AllPrograms
  Inputs <- WordsUpTo4
INVARIANT FirstCallAgrees
INVARIANT MemoSound
INVARIANT OncePerPlace
INVARIANT ErrorsOnce
INVARIANT HeadsMeant
INVARIANT PositionsInside
INVARIANT GrowthBounded
INVARIANT CapturesWhole
INVARIANT ValuesAgree
PROPERTY EveryCallReturns
PROPERTY ImplementsRuntime
