SPECIFICATION FairSpec
CONSTANTS
  Subs = {s1, s2}
  Sources = {audio, scanner}
  QueueCapacity = 2
  MaxSubscribers = 2
  MaxChanges = 3
CHECK_DEADLOCK FALSE
INVARIANTS LossesAccounted
PROPERTIES FeedSpec ConsumersCatchUp
