SPECIFICATION CardSpec
CONSTANTS
  CardSessions = {s1, s2}
  Initial = 2
  CardAmounts = {1}
  MaxCardEntries = 5
  s1 = s1
  s2 = s2
SYMMETRY Symmetry
INVARIANTS OverspendOnlyIfStale StatusTellsBalance ClosedOnce
PROPERTY ClosedIsFinal
