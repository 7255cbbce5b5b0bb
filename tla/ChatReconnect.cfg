\* Two messages and one reconnection.
SPECIFICATION FeedSpec
CONSTANTS
  MaxMessages = 2
  MaxOpens = 2
  MaxWaiting = 2
CHECK_DEADLOCK FALSE
INVARIANT HistoryRecovered
