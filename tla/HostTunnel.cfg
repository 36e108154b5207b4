\* Two connections of the owner's host and one of another user.
SPECIFICATION FairSpec
CONSTANTS
  c1 = c1
  c2 = c2
  c3 = c3
  alice = alice
  bob = bob
  Conns = {c1, c2, c3}
  NoConn = NoConn
  Users = {alice, bob}
  NoUser = NoUser
  UserOf <- MCUserOf
CHECK_DEADLOCK FALSE
INVARIANTS
  TypeOK
  OneOwner
PROPERTIES
  GoneHostGoesOffline
