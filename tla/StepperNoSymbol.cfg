\* The symbols of the debuggee do not name SQVM::CallNative.
CONSTANTS
  VMs = {v1}
  Natives = {f}
  MaxDepth = 2
  MaxFallthroughs = 1
  CallNativeFound = FALSE
  NoNative = NoNative
SPECIFICATION Spec
PROPERTY StepEndsWithItsFrame
