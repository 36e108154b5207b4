\* Two overlapping clients, calls cut short, provider records that may regress.
CONSTANTS
  c1 = c1
  c2 = c2
  k1 = k1
  r1 = r1
  NoKey = NoKey
  Clients = {c1, c2}
  Keys = {k1}
  Runs = {r1}
  NumOutputs = 2
  MaxRounds = 2
  MaxAborts = 1
  StableRuns = {}
  FinalRecords = FALSE
  MayVanish = TRUE
SPECIFICATION Spec
SYMMETRY Symmetry
INVARIANTS
  TypeOK
  OutputsRegistered
  OutputsWhole
  ArtifactsAccountedFor
