\* Two markFinal calls in flight for one worker.
CONSTANTS
  Tasks = {t1}
  Workers = {w1}
  NoWorker = NoWorker
  Handlers = {h1, h2}
  MaxRetriesChoices = {3}
  BackoffChoices = {1}
  RunAtChoices = {0}
  Limits = {1}
  Base = 1
  MaxTime = 4
SPECIFICATION Spec
PROPERTY RetryCountIncrements
CHECK_DEADLOCK FALSE
