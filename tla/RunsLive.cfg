\* Two overlapping clients, calls cut short, new artifact ids on every collection.
CONSTANTS
  c1 = c1
  c2 = c2
  k1 = k1
  r1 = r1
  NoKey = NoKey
  Clients = {c1, c2}
  Keys = {k1}
  Runs = {r1}
  NumOutputs = 2
  MaxRounds = 7
  MaxAborts = 2
  StableRuns = {}
  FinalRecords = TRUE
  MayVanish = FALSE
SPECIFICATION FairSpec
PROPERTIES
  OutputsEventuallyListed
  StatusConverges
