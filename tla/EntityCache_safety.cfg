SPECIFICATION Spec
CONSTANTS
  r1 = r1  u1 = u1  u2 = u2
  i1 = i1  i2 = i2  q1 = q1  q2 = q2  k1 = k1  k2 = k2
  Readers <- OneReader
  Writers <- TwoWriters
  Ids <- TwoIds
  Queries <- TwoQueries
  Keys <- TwoKeys
  KeyOf <- OwnKeys
  Window <- Nested
  Strategies = {"read_through", "write_through", "write_behind"}
  MaxWrites = 2
  RedisFails = TRUE
SYMMETRY Symmetry
INVARIANTS
  TypeOK
  
  AnswersTheFilters
