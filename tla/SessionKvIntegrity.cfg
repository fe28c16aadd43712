SPECIFICATION SessionSpec
CONSTANTS
  tok_a = tok_a
  tok_b = tok_b
  BlockSize = 2
  MaxSeqLen = 7
  TellKvApart = TRUE
  Prompts <- Unrelated
  NextTokens = {tok_b}
  MaxTokens = 2
  MinBlocks = 2
INVARIANT AttentionReadsOwnKv
CHECK_DEADLOCK FALSE
