\* One and two VMs interleaving, one native closure: all invariants.
CONSTANTS
  VMs = {v1, v2}
  Natives = {f}
  MaxDepth = 3
  MaxFallthroughs = 2
  CallNativeFound = TRUE
  NoNative = NoNative
SPECIFICATION Spec
INVARIANTS TypeOK ArmedTogether CounterMeasuresFrames
PROPERTY KeepsContract
SYMMETRY Symmetry
