\* Workers race for a missing, a cold, an old or a current cache; any two calls may
\* fail, or workers die, anywhere; holders may be slow, and waiters break the lock of
\* the dead, of the slow, and of who could not unlock.
CONSTANTS
  Workers = {w1, w2}
  StaleAfter = 1
  GiveUpAfter = 1
  Clock = "free"
  MaxFaults = 2
SPECIFICATION FairSpec
INVARIANTS ExclusiveInit WritesSucceed
PROPERTIES CommittedSurvives ReturnsInitialised EveryLoaderFinishes
\* Workers finish.
CHECK_DEADLOCK FALSE
