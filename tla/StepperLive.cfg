\* Liveness of a step into, two VMs.
CONSTANTS
  VMs = {v1, v2}
  Natives = {f}
  MaxDepth = 2
  MaxFallthroughs = 1
  CallNativeFound = TRUE
  NoNative = NoNative
SPECIFICATION FairSpec
PROPERTY IntoIsReported
