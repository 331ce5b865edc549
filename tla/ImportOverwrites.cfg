SPECIFICATION Spec
CONSTANTS
  Customers = {c1, c2}
  Services = {s1}
  Appointments = {a1}
  Invoices = {i1}
  Phones = {p1}
  Emails = {e1}
  MaxDay = 1
  Handlers = {h1}
  None = None
  Unused = Unused
  Erased = Erased
  ImportModes = {"skip", "insert_only", "overwrite"}
  MaxFile = 1
INVARIANTS ContactsUnique
CHECK_DEADLOCK FALSE
