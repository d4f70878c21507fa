CONSTANTS
  Subs = {s1, s2}
  Capacity = 2
  Buffer = 1
  MaxID = 6
  MaxAttempts = 3
  Wire = 1
  MaxLives = 2
  MaxBreaks = 1
  NoSub = NoSub
SPECIFICATION FairSpec
CHECK_DEADLOCK FALSE
INVARIANT ReplayIsTail
INVARIANT OneLifetime
INVARIANT LossAccounted
INVARIANT QuietIsCurrent
PROPERTY ReconnectsEnd
