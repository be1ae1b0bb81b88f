\* Files of up to four blocks, every output; a missing file ends the process.
SPECIFICATION OCRSpec
CONSTANTS
  FileSizes <- MCFileSizes
  Missing = Missing
  BlockSize = 3
  BytesLimit = 9
  Dims <- MCDims
  Numbers <- MCNumbers
  Lowest <- MCLowest
  PlusInf = PlusInf
  MinusInf = MinusInf
  NaN = NaN
INVARIANTS
  NothingLeft
  WholeGraph
  InBounds
  RowsInOrder
  SharesKept
CHECK_DEADLOCK FALSE
