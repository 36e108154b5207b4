\* One client at a time, calls cut short; one provider keeps artifact ids.
CONSTANTS
  c1 = c1
  k1 = k1
  k2 = k2
  r1 = r1
  r2 = r2
  NoKey = NoKey
  Clients = {c1}
  Keys = {k1, k2}
  Runs = {r1, r2}
  NumOutputs = 1
  MaxRounds = 2
  MaxAborts = 1
  StableRuns = {r2}
  FinalRecords = FALSE
  MayVanish = TRUE
SPECIFICATION Spec
SYMMETRY Symmetry
INVARIANTS
  OneRowPerKey
  RegisteredOnce
