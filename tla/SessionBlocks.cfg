SPECIFICATION SessionSpec
CONSTANTS
  tok_a = tok_a
  tok_b = tok_b
  BlockSize = 2
  MaxSeqLen = 7
  TellKvApart = FALSE
  Prompts <- ShortAndLong
  NextTokens = {tok_b}
  MaxTokens = 2
  MinBlocks = 2
INVARIANTS SessionTypeOK RefCountsExact BlocksNotShared RegistryPrefixClosed SuffixRemains CacheTracksSequence FailedImportCostsNothing
PROPERTY ReservesOnlyPrivateBlocks
