SPECIFICATION MCSpec
CONSTANTS
  Inputs <- FootInputs
  BufferMax = 2
  Names <- Words
  Hash <- FirstLetter
  TableSize <- PowerAbove
  MaxRules = 4
  Trees = {}
  Separators = {}
  Pieces = {}
  MaxPieces = 0
  Feet <- LoneEnded
PROPERTY FooterEnds
