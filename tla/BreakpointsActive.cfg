\* The table holds "active breakpoints from debugger".
CONSTANTS
  Threads = {t1}
  Breakpoints = {b1}
  Sources = {s1}
  Lines = {1}
  MaxList = 1
SPECIFICATION Spec
INVARIANT TableHoldsActive
