SPECIFICATION FairSpec
CONSTANTS
  Forms = {q1, q2}
  Logins = {l1, l2}
  MaxUsers = 2
  FAILS_PER_BAN = 2
  MAX_BAN_LEVEL = 2
INVARIANTS
  AdminRemains
  GuessesBounded
PROPERTIES
  BansOnlyGrow
  BanEnds
