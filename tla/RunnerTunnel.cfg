\* Two connections of a runner, a request, two callers that wait for it and one
\* that waits for another runner.
SPECIFICATION FairSpec
CONSTANTS
  Sessions = {s1, s2}
  NoSession = NoSession
  Requests = {r1}
  Waiters = {w1, w2}
  Chunks = 1
  MaxPerRunner = 1
  MaxTotal = 2
CHECK_DEADLOCK FALSE
INVARIANTS
  TypeOK
  NobodyIsStranded
  ResponsesAreWhole
  WaitersAreCounted
  NoLostWakeup
PROPERTIES
  LostRequestsEnd
