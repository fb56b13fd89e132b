\* Four addresses hold three levels of ranges; three public symbols, of which
\* some share an address; lines whose types and sizes do not fit their integers.
SPECIFICATION MapsSpec
CONSTANTS
  Space = 4
  PublicSpace = 3
  MaxStores = 3
  Frames = {frame1, frame2}
  Ints = 16
  TypeNumbers = {0, 4, 5, 15, 20}
  Sizes = {0, 17}
INVARIANTS
  MapsAreRight
  BlocksAnswerAlike
PROPERTY StoresKeepTheirPromise
