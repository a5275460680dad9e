SPECIFICATION Spec
CONSTANTS
  Sessions = {s1}
  Reservations = {a, b}
  Tables = {t1, t2}
  NoTable = NoTable
  Entries = {e}
  Windows <- MCWindows
  OpenWindows <- MCOpen
  DayLength = 24
  Before = 1
  After = 1
  SeatsParty <- MCSeats
  Existing <- MCExisting
  Held <- MCHeld
  Targets = {"cancelled_by_customer", "arrived", "available", "maintenance"}
  BlockTypes = {"cleaning"}
  MaxSteps = 3
  s1 = s1
  a = a
  b = b
  t1 = t1
  t2 = t2
CHECK_DEADLOCK FALSE
INVARIANTS NeverOverbooked GroupsCanBeSplit
PROPERTY OverStaysOver
