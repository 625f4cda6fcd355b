CONSTANTS
  Client = {c1}
  Topic = {t1}
  Priority = {0}
  MaxArrivals = 2
SPECIFICATION FairSpec
PROPERTY SlowSubscriberDoesNotBlock
CHECK_DEADLOCK FALSE
