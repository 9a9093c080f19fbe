SPECIFICATION Spec
CONSTANTS
  h1 = h1  h2 = h2
  w1 = w1  w2 = w2  w3 = w3  w4 = w4
  Loop = Loop
  Main = Main
  Handlers <- TwoHandlers
  Writes <- FourWrites
  MaxSize = 2
  MaxErrs = 1
SYMMETRY Symmetry
INVARIANTS
  TypeOK
  NoLostWrite
  AtMostOnce
  InOrderUnlessOverlapped
  BufferBounded
  ClosedIsDrained
  NoFlushAfterPoolsClose
