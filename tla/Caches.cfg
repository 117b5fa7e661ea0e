\* A lazy reference with two callers of Get, two of Close and the timer; a lazy cache with
\* the same callers, a Delete and three futures.
SPECIFICATION MCSpec
CONSTANTS
  Values = {v1, v2, v3}  NoValue = NoValue
  Getters = {g1, g2}  Closers = {k1, k2}  Timers = {t1, t2, t3}
  ExpiryTypes = {"Never", "LastAccessed", "Refreshing"}  TimerAtStart = TRUE
  Futures = {f1, f2, f3}  NoFuture = NoFuture  Deleters = {d1}  OneCloser = {k1}
INVARIANTS TypesOK RefSound CacheSound
PROPERTIES EverybodyReturns
CHECK_DEADLOCK FALSE
