\* Two workers, two tasks, one of them retried, a POST and a signal; or three
\* tasks, one of them of an unknown type, and a call that fails.
CONSTANTS
  t1 = t1
  t2 = t2
  t3 = t3
  w1 = w1
  w2 = w2
  s1 = s1
  s2 = s2
  Tasks = {t1, t2, t3}
  Supported = {t1, t2}
  Retries <- RetryFirst
  Workers = {w1, w2}
  QueueFactor = 1
  Shutdowns = {s1, s2}
  Signals = {s2}
  MaxFaults = 1
  Me = me
  NoWorker = nobody
SPECIFICATION Spec
PROPERTY StopIsClean
SYMMETRY WorkerSymmetry
CONSTRAINT OneMix
CHECK_DEADLOCK FALSE
