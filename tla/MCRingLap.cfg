CONSTANTS
  Invalid = Invalid
  Values = {a, b}
  QueueSize = 4
  PublishBatches = {1, 2, 4}
  PushTimeouts = TRUE
  Rings <- EndExactly
  Words = {2}
  Blobs = {1}
  MaxPushes = 1
  RingPublishBatch = 2
  RefreshEvery = 2
SPECIFICATION MCFairSpec
INVARIANT LapIsFlagged
