\* Two overlapping callers; a call may raise or die half way.  A PBS run goes
\* through the states of the other two: see README.md.
CONSTANTS
  c1 = c1
  c2 = c2
  Callers = {c1, c2}
  Dialects = {"slurm", "sge"}
  MaxAborts = 1
SPECIFICATION FairSpec
INVARIANTS
  TypeOK
  SuccessIsReal
  TerminalReleases
  OutputsKept
PROPERTIES
  Conforms
  RecordSettles
CHECK_DEADLOCK FALSE
