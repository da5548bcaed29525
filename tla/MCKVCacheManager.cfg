CONSTANTS
  r1 = r1
  r2 = r2
  Requests = {r1, r2}
  Token = {0, 1}
  Prompt <- MCPrompt
  NumBlocks = 5
  BlockSize = 2
  MaxDrafts = 2
  Lookahead = 2
  Configs <- MCConfigs
SPECIFICATION Spec
INVARIANTS
  PoolExact
  CachedBlocksHoldTheirPrefix
  ComputedTokensHaveTheirKV
  NeverOutOfBlocks
