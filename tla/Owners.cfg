SPECIFICATION Spec
CONSTANTS
  ann = ann
  bob = bob
  cem = cem
  w1 = w1
  w2 = w2
  w3 = w3
  w4 = w4
  Owners = {ann, bob, cem}
  Workspaces = {w1, w2, w3, w4}
  GoogleOwners = {cem}
  InitialOwners <- MCInitialOwners
  Slugs <- MCSlugs
  Handlers = {h1, h2}
  MaxDeletions = 2
INVARIANTS SharedProvenance PurgedStaysDeleted
PROPERTIES LastOwnerTakesWorkspace FoundedOnce RestoresOwnDeletion
SYMMETRY Symmetry
CHECK_DEADLOCK FALSE
