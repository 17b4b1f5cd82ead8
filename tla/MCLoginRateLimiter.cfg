SPECIFICATION Spec
CONSTANTS
  Ips = {a}
  MaxTokens = 10
  FillTime = 10
  MaxTime = 22
INVARIANTS WindowBound RefusalsEnd
