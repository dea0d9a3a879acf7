\* Three users share two connections.
CONSTANTS
  u1 = u1  u2 = u2  u3 = u3
  k1 = k1  k2 = k2  k3 = k3  k4 = k4
  PoolSize = 2
  Users <- MCUsers
  Calls <- MCCalls
  Owner <- MCOwner
  NonQueries <- MCNonQueries
  None = None
  Refused = Refused
SPECIFICATION FairSpec
INVARIANTS TypeOK AnswersAreOwn OneWaiterPerConnection EvenlySpread
PROPERTIES RefusedOnlyWithoutHealthy EveryCallEnds
