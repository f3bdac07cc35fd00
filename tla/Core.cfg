\* Two tasks, two workers, two requests in flight, seconds of four ticks.
CONSTANTS
  t1 = t1
  t2 = t2
  w1 = w1
  w2 = w2
  h1 = h1
  h2 = h2
  s1 = s1
  me = me
  Tasks = {t1, t2}
  Workers = {w1, w2}
  NoWorker = NoWorker
  Handlers = {h1, h2}
  MaxRetriesChoices = {0, 1, 2}
  BackoffChoices = {1}
  RunAtChoices = {0, 1, 2, 3}
  Limits = {1, 2}
  Base = 2
  MaxTime = 9
SPECIFICATION MCSpec
INVARIANTS StoreIsSound JournalIsExact PolicyPromises
PROPERTIES LifecycleIsKept SerialRunsAreExact WatcherGoesOn
CHECK_DEADLOCK FALSE
