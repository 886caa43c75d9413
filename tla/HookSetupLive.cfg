\* Two threads open VMs: who is served.
CONSTANTS
  Threads = {t1, t2}
  MaxVMs = 3
  NoThread = NoThread
SPECIFICATION FairSpec
PROPERTY RequestIsServed
CHECK_DEADLOCK FALSE
