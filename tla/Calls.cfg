CONSTANTS
  k1 = k1  k2 = k2  c1 = c1
  Calls = {k1, k2}
  Connections = {c1}
  Budget = 2
  MaxTokens = 4
SPECIFICATION Spec
CHECK_DEADLOCK FALSE
INVARIANTS ForgottenHoldsNoToken OneAuthenticationAtATime OneServicePerToken
PROPERTIES FreshTokenKept CallsEnd
