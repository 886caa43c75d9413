\* One thread opens VMs one after the other, as fast as it can.
CONSTANTS
  Threads = {t1}
  MaxVMs = 4
  NoThread = NoThread
SPECIFICATION Spec
INVARIANTS TypeOK ResumedHooked RequestIsStable
CHECK_DEADLOCK FALSE
