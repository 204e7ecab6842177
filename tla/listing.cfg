SPECIFICATION ListSpec
CONSTANTS
  RetryTimeout = 300
  Asked = {0, 1, 20, 90}
  Latencies = {0, 3}
  Replies = {200, 403, 404, 429, 500, 504}
  NoReply = TRUE
  MaxTotal = 17
  Settings <- AllSettings
  MaxBad = 2
INVARIANTS
  GoodListed
  Bounded
  ThrottlingIsTransient
PROPERTY ListEnds
