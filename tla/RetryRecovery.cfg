SPECIFICATION FairSpec
CONSTANTS
  w1 = w1
  Cases = {w1}
  Decides = {d1, d2}
  Ensures = {e1}
  Work <- AllAboutOneCase
  None = None
  Reaper = Reaper
  MaxMishaps = 1
INVARIANTS
  RecoveryIsSafe
PROPERTIES
  AttemptIsFinal
  RecoveryEnds
