CONSTANTS
  c1 = c1
  c2 = c2
  Conns = {c1, c2}
  MaxOp = 2
  MaxResets = 2
SPECIFICATION Spec
INVARIANT NoMissedWakeup
