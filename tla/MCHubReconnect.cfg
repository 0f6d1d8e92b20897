SPECIFICATION Spec
CONSTANTS
  Users = {a}
  Conns = {1, 2}
  Matches = {m}
  Casts = {k1}
  SendCap = 1
  MaxAll = 0
  NoConn = NoConn
  NoUser = NoUser
PROPERTIES OnlyOwnCleanupCloses
CHECK_DEADLOCK FALSE
