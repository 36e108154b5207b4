\* A client that retries a copy and an operator that approves each request.
CONSTANTS
  c1 = c1
  o1 = o1
  prefix = prefix
  object = object
  Clients = {c1}
  Operators = {o1}
  GateActions = {"read", "write"}
  SkillActions = {}
  Scopes = {prefix, object}
  StartsWith <- MCStartsWith
  Calls <- CopyCalls
  Policies <- NoPolicies
  MaxApprovals = 3
SPECIFICATION RetrySpec
PROPERTIES
  CopyEventuallyPerforms
