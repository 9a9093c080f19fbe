SPECIFICATION FairSpec
CONSTANTS
  s1 = s1  s2 = s2  u1 = u1  r1 = r1  r2 = r2  a1 = a1  a2 = a2  a3 = a3
  SessionIds <- TwoSessions
  Users <- OneUser
  Owner <- SameOwner
  MaxRedisErrors = 1
  Slots <- TwoRequests
  MaxRequests = 2
  Window = 2
  MaxCount = 4
  MaxCounterErrors = 1
  AddressIds <- ThreeAddresses
  Calls <- TwoRequests
  MaxDbErrors = 1
  Retry = 2
  MaxFetches = 3
  DeckSize = 5
  Drawn = 3
CHECK_DEADLOCK FALSE
INVARIANTS
  ServicesTypeOK
  SessionsAgree
  LimiterIsFair
  OneDefaultAddress
  ReadingsAreStored
  DrawnAreCards
PROPERTIES
  KeysExpire
  PageSettles
