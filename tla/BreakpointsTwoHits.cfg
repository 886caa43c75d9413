\* HitBreakpointIndex is "only valid inside OnBreakpointHit".
CONSTANTS
  Threads = {t1, t2}
  Breakpoints = {b1}
  Sources = {s1}
  Lines = {1}
  MaxList = 1
SPECIFICATION Spec
INVARIANT HitIsValid
