SPECIFICATION Spec
CONSTANTS
  u1 = u1
  u2 = u2
  e1 = e1
  e2 = e2
  NoEmail = NoEmail
  bob = bob
  eve = eve
  Bob = Bob
  guestA = guestA
  Seeds = {u1, u2}
  SeedEmail <- MCSeedEmail
  SeedPassword = old
  Calls = {c1, c2, c3, c4}
  Emails = {e1, e2, e3, NoEmail}
  Passwords = {old, new, short}
  Short = {short}
  NoPassword = NoPassword
  Typed = {Bob, eve, guestA}
  Names = {bob, eve, guestA}
  Canonical <- MCCanonical
  Length <- MCLength
  GuestNames = {guestA}
  MaxAttempts = 2
  BindsUUID = TRUE
  NoUser = NoUser
  NoRow = NoRow
  NoName = NoName
SYMMETRY MCSymmetry
INVARIANTS TypeOK ClaimsHold NamesAreKeptApart
PROPERTIES ResetsOnce ImplementsAccounts
CHECK_DEADLOCK FALSE
