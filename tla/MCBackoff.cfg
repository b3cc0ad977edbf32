\* Twelve attempts: all factors above 1 overflow 10 bits before the end.
SPECIFICATION BackoffSpec
CONSTANTS
  BackoffPolicies <- MCPolicies
  Width = 10
  DefaultMin = 3
  DefaultMax = 60
  MaxRetries = 12
INVARIANTS
  WithinBounds
