SPECIFICATION FairSpec
CONSTANTS
  Threads = {t1, t2}
  Loop = loop_thread
  MaxEvents = 2
  MaxTimers = 2
  MaxNow = 2
  EventMaxWait = 1
INVARIANTS NoLostWakeup RunInOrder TimersConsistent
PROPERTIES EventsRun TimersFire
CHECK_DEADLOCK FALSE
