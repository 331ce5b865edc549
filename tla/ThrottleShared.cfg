SPECIFICATION Spec
CONSTANTS
  Services = {"workspace", "account"}
  MaxFailed = 3
  Window = 2
  Lockout = 3
  MaxTime = 8
  MaxAnswers = 7
INVARIANTS TypeOK WindowCounted GuessesBounded
CHECK_DEADLOCK FALSE
