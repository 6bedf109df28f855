SPECIFICATION FairSpec
CONSTANTS
  Threads = {t1, t2}
  Works = {"p1", "p2", "d", "g1", "g2", "big", "u"}
  NoWork = NoWork
  Role <- MCRole
  Phases <- MCPhases
  Memory = 2
  Cores = 2
  Frequency = 2
  GpuMemory = 1
  Storage = 1
  QueueDepth <- MCQueueDepth
  Raising = {"cpu", "gpu", "storage", "nic"}
INVARIANTS
  WithinCapacity
  ReservationsAreHeld
  SleepersDoNotFit
  TemporariesReleased
PROPERTY
  BegunWorkEnds
