SPECIFICATION Spec
CONSTANTS
  Customers = {c1, c2}
  Services = {s1}
  Appointments = {a1}
  Invoices = {i1}
  Phones = {p1}
  Emails = {}
  MaxDay = 1
  Handlers = {h1, h2}
  None = None
  Unused = Unused
  Erased = Erased
  ImportModes = {"skip"}
  MaxFile = 1
INVARIANTS RacesAreReported TypeOK
SYMMETRY Symmetry
CHECK_DEADLOCK FALSE
