SPECIFICATION Spec
CONSTANTS
  w1 = w1
  Cases = {w1}
  Decides = {d1}
  Ensures = {e1}
  Work <- AllAboutOneCase
  None = None
  Reaper = Reaper
  MaxMishaps = 0
INVARIANTS
  SentOnce
