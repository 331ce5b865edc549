SPECIFICATION Spec
CONSTANTS
  owner = owner
  admin = admin
  third = third
  spa = spa
  None = None
  Users <- MCUsers
  Workspaces = {spa}
  InitialRole <- MCInitialRole
  Home <- MCHome
  Creator <- MCCreator
  Legacy = {third}
  PortalUsers = {admin}
  Handlers = {h1, h2}
INVARIANTS FounderStays
PROPERTIES LastManagerKept MismatchFreezes RemovalLifted
SYMMETRY Symmetry
CHECK_DEADLOCK FALSE
