SPECIFICATION MCSpec
CONSTANTS
  Inputs <- AllInputs
  BufferMax = 2
  Names <- Words
  Hash <- FirstLetter
  TableSize <- PowerAbove
  MaxRules = 4
  Trees <- SmallTrees
  Separators <- Seps
  Pieces <- GrammarPieces
  MaxPieces = 3
  Feet <- WellEnded
INVARIANTS TypeOK PlacesTrue AcceptedWhole ActionsSee NodesFreed OutputsHonest FooterVerbatim
  LookupFindsFirst SecondsMarked SearchEnds ParsesBack
PROPERTIES Terminates ImplementsPackcc
