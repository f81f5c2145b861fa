SPECIFICATION AllSpec
CONSTANTS
  Rows <- SomeRows
  MaxRows = 5
  IntSpan = 2
  Chars <- AllChars
  Trail <- TrailBytes
  Blank = " "
  White <- Spaces
  Upper <- UpperBytes
  Code <- SomeCodes
  Alpha <- Letters
  MaxText = 3
  MaxShort = 2
  MaxCount = 4
INVARIANTS
  SearchTree
  Counted
  QuantilesRight
  ModeRight
  OnePassIsTwoPass
  SampleVariance
  PartsRight
  PaddingRight
  ReverseRight
  FilterRight
  IndexRight
  ProperRight
