SPECIFICATION Spec
CONSTANTS
  h1 = h1  h2 = h2
  w1 = w1  w2 = w2  w3 = w3  w4 = w4
  Loop = Loop
  Main = Main
  Handlers <- TwoHandlers
  Writes <- ThreeWrites
  MaxSize = 2
  MaxErrs = 0
INVARIANT FailedItemsAreReenqueued
