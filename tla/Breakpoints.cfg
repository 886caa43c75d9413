\* Two threads, two scripts: updates of the table race with the hook.
CONSTANTS
  Threads = {t1, t2}
  Breakpoints = {b1, b2}
  Sources = {s1, s2}
  Lines = {1}
  MaxList = 3
SPECIFICATION Spec
INVARIANTS TypeOK TableMirrorsList HitNamesAWaitingThread NoMissedHit
SYMMETRY Symmetry
