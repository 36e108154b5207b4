\* Two overlapping clients submit the same key; a call may be cut short.
CONSTANTS
  c1 = c1
  c2 = c2
  k1 = k1
  r1 = r1
  r2 = r2
  NoKey = NoKey
  Clients = {c1, c2}
  Keys = {k1}
  Runs = {r1, r2}
  NumOutputs = 1
  MaxRounds = 1
  MaxAborts = 1
  StableRuns = {}
  FinalRecords = TRUE
  MayVanish = TRUE
SPECIFICATION Spec
INVARIANTS
  OneJobPerKey
