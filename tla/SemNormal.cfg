CONSTANTS
  Threads = {t1, t2, t3}
  Type = "Normal"
  InitCount = 0
  Calls = {"signal", "signalAll"}
  MaxSignals = 4
  MaxWaits = 2
SPECIFICATION Spec
INVARIANTS
  NotifiedCoverWakeups
  WaitersAccountedFor
PROPERTY CountingSpec
CHECK_DEADLOCK FALSE
