\* Two cancellers at any time; a submitting or cancelling process may die.
CONSTANTS
  c1 = c1
  c2 = c2
  Cancellers = {c1, c2}
  MaxCrashes = 1
SPECIFICATION FairSpec
INVARIANTS
  TypeOK
  SuccessIsReal
  TerminalReleases
PROPERTIES
  Conforms
  RecordSettles
CHECK_DEADLOCK FALSE
