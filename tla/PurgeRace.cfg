SPECIFICATION Spec
CONSTANTS
  u1 = u1
  u2 = u2
  u3 = u3
  w1 = w1
  w2 = w2
  h1 = h1
  logo = logo
  appointment = appointment
  NoUser = NoUser
  Owners = {u1, u2}
  LocalOwners = {u1, u2}
  Workers = {w1, w2}
  Holds = {h1}
  Rows = {appointment, logo}
  Logo = logo
  MaxDeletions = 1
  MaxGenerations = 2
  CrashAllowed = TRUE
SYMMETRY Symmetry
CHECK_DEADLOCK FALSE
INVARIANTS TypeOK RevokedNeverCompletes SingleClaimant
PROPERTIES TerminalAbsorbing OutcomeUnknownFreezes
