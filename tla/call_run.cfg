SPECIFICATION FairSpec
CONSTANTS
  u1 = u1
  u2 = u2
  k1 = k1
  k2 = k1
  User = {u1, u2}
  Key = {k1}
  Nobody = Nobody
  Margin = 2
  Timeout = 1
  Lifetime = {0, 1, 4}
  MaxNow = 3
  CallSpec <- MCCallSpec
  MaxAttempts = 2
  MaxRedirects = 1
  MaxDials = 1
INVARIANT TokenSafe
INVARIANT RequestSafe
INVARIANT LegsTellTheHops
PROPERTY Frozen
PROPERTY TokensReturn
CHECK_DEADLOCK FALSE
