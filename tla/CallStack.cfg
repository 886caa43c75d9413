\* Two VMs that call one another; walks that are left and begun again.
CONSTANTS
  VMs = {v1, v2}
  MaxDepth = 6
  MaxAbandoned = 1
SPECIFICATION Spec
INVARIANTS TypeOK MergedInOrder EveryFrameOnce NothingTwice
SYMMETRY Symmetry
