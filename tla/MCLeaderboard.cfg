SPECIFICATION Spec
CONSTANTS
  Users = {u1}
  Results = {m1, m2}
  Windows = 2
  MaxTicks = 2
  MayErr = TRUE
  MayLose = TRUE
  Worker = Worker
  NoUser = NoUser
INVARIANTS TypeOK ShorterWindowsLead PointsHaveTheirGames
 
SYMMETRY Symm
CHECK_DEADLOCK FALSE
