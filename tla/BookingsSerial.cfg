SPECIFICATION Spec
CONSTANTS
  Customers = {c1, c2}
  Services = {s1}
  Appointments = {a1, a2}
  Invoices = {i1}
  Phones = {p1}
  Emails = {e1}
  MaxDay = 2
  Handlers = {h1}
  None = None
  Unused = Unused
  Erased = Erased
  ImportModes = {"skip"}
  MaxFile = 2
SYMMETRY Symmetry
INVARIANTS FiguresAgree DeletedHasNoHistory ContactsUnique
PROPERTIES DoubleBookedByRestore
CHECK_DEADLOCK FALSE
