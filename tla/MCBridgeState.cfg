CONSTANTS
  W = 2
  MaxLayers = 2
  h0 = h0
  h1 = h1
  c1 = c1
  zc = zc
  Hash <- MCHash
  ZeroHash = h0
  Height = {0, 1}
  SeqNo = {1}
  Commitment <- MCCommitment
  ZeroCommitment = zc
  RecentBundlesCap = 2
SPECIFICATION Spec
INVARIANTS TypeOK CursorAtLength ChainStartIsNewestRoot
PROPERTY ImplementsContract
