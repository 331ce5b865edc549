SPECIFICATION Spec
CONSTANTS
  local = local
  other = other
  google = google
  x = x
  y = y
  z = z
  spa = spa
  branch = branch
  None = None
  Users <- MCUsers
  LocalUsers = {local}
  GoogleUsers = {google}
  FirstName <- MCFirstName
  Names = {x, y, z}
  Wants <- MCWants
  SeedName = y
  Seeded = {other}
  Decided = {google}
  Handlers = {h1, h2}
  Browsers = {b1}
  Workspaces = {spa, branch}
  Reach <- MCReach
INVARIANTS TypeOK OneWorkspace
PROPERTIES ReservationsHold WorkspaceSticks
SYMMETRY Symmetry
CHECK_DEADLOCK FALSE
