SPECIFICATION FairSpec
CONSTANTS
  Executor = {e1, e2}
  Allowance = {a1}
  Content = {c1, c2}
  Result = {r1}
  Validity = 1
  DayLength = 2
  MaxClock = 2
  MaxFaults = 1
  None = None
INVARIANTS AtMostOnce RowTellsTruth EffectOnRequiredDay
PROPERTIES ImplementsEffectOnce RowsSettle
