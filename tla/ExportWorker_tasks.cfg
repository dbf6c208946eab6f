CONSTANTS
  Task = {t1, t2}
  QueueCap = 2
  PollLimit = 1
  MaxMishaps = 2
SPECIFICATION ExportFairSpec
INVARIANTS DownloadsAreComplete GeneratedOnce
PROPERTIES EndedIsFinal PickedUpByPoller
