SPECIFICATION FairSpec
CONSTANTS
  User = {u1, u2}
  Destroyer = {d1, d2}
  BIAS <- MCBias
INVARIANTS IInv CleanupAlone ExactlyOnce OneWinner NoWarn
PROPERTIES DeactivationIsFinal ImplementsLifecycle DisconnectReturns
CHECK_DEADLOCK FALSE
