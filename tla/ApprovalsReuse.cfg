\* Two overlapping clients: a one-time approval is used twice.
CONSTANTS
  c1 = c1
  c2 = c2
  o1 = o1
  prefix = prefix
  object = object
  Clients = {c1, c2}
  Operators = {o1}
  GateActions = {"read", "write"}
  SkillActions = {}
  Scopes = {prefix, object}
  StartsWith <- MCStartsWith
  Calls <- ReadCalls
  Policies <- NoPolicies
  MaxApprovals = 1
SPECIFICATION Spec
INVARIANTS
  OneTimeUsedOnce
