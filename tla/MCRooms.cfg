SPECIFICATION FairSpec
CONSTANTS
  Users = {a, b, g}
  Guests = {g}
  Codes = {x, y}
  RoomIds = {r1, r2}
  Joins = {j1, j2}
  MaxDrops = 1
  DistinctDraws = TRUE
  NoRoom = NoRoom
  NoMatch = NoMatch
  NoUser = NoUser
  NoCode = NoCode
INVARIANTS TypeOK StartedRoomHasItsMatch QuestionsReachPlayersOnly
PROPERTIES FullRoomResolved
CHECK_DEADLOCK FALSE
