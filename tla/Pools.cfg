SPECIFICATION PoolsSpec
CONSTANTS
  Batches = 3
  Workers = 2
  NoErr = NoErr
  Texts = 3
  Slices = {d1}
  PoolSize = 2
  Limits = {0, 1, 2}
  Nothing = Nothing
  Posts = {m1}
  Pool = {w1, w2}
  MaxTries = 3
  InboxSize = 2
  Nobody = Nobody
INVARIANT PoolTypes
INVARIANT EmbedAnswers
INVARIANT PipelineAnswers
INVARIANT DeliveriesAddUp
PROPERTY PoolsComeBack
CHECK_DEADLOCK FALSE
