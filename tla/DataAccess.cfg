SPECIFICATION DataAccessSpec
CONSTANTS
  h1 = h1  h2 = h2
  w1 = w1  w2 = w2  w3 = w3
  r1 = r1  u1 = u1  i1 = i1  q1 = q1  q2 = q2  k1 = k1  k2 = k2
  Loop = Loop
  Main = Main
  Handlers <- TwoHandlers
  Writes <- ThreeWrites
  MaxSize = 2
  MaxErrs = 0
  Strategies = {"read_through", "write_through", "write_behind"}
  MaxWrites = 2
  RedisFails = TRUE
PROPERTIES
  ImplementsWriteQueue
  WritesAndShutdownFinish
  StaleListsGoAway
