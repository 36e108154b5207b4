\* Overlapping clients, operators one at a time, policies that change.
CONSTANTS
  c1 = c1
  c2 = c2
  o1 = o1
  prefix = prefix
  object = object
  Clients = {c1, c2}
  Operators = {o1}
  GateActions = {"read", "write"}
  SkillActions = {"skill"}
  Scopes = {prefix, object}
  StartsWith <- MCStartsWith
  Calls <- MixedCalls
  Policies <- SomePolicies
  MaxApprovals = 2
SPECIFICATION Spec
INVARIANTS
  TypeOK
  OperationBacked
  RevokedUnusable
  ConsumedUnusable
PROPERTIES
  DeniedIsFinal
