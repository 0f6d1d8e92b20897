SPECIFICATION FairSpec
CONSTANTS
  Users = {a, b}
  Conns = {1, 2}
  Matches = {m}
  Casts = {k1}
  SendCap = 1
  MaxAll = 1
  NoConn = NoConn
  NoUser = NoUser
INVARIANTS TypeOK RegisteredIsOpen StayersAreReached
PROPERTIES NoSendAfterClose DeadConnectionIsReaped
CHECK_DEADLOCK FALSE
