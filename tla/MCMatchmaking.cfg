SPECIFICATION Spec
CONSTANTS
  Users = {u1, u2, u3}
  Categories = {"", "general", "science"}
  MaxEnqueues = 3
  MaxDrops = 1
  NoUser = NoUser
INVARIANTS TypeOK SteadyPairIsServed NoCompatiblePairWaits OneFatePerToken PairsAreLegal
SYMMETRY Symm
CHECK_DEADLOCK FALSE
