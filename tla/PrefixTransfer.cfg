SPECIFICATION TransferSpec
CONSTANTS
  BlockSize = 2
  MaxSeqLen = 6
  TellKvApart = TRUE
  NumHeads = 2
  NumKvHeads = 1
  Queries <- SomeQueries
  Items <- OwnItems
  Score <- SomeScore
  MaxScore = 4
  HeaderBytes = 3
  Local <- Engine
  Peers <- SomePeers
  Prompts <- SomePrompts
  MaxDecoded = 1
INVARIANTS TransferTypeOK AcceptedIffWholeAndAlike HoldsOwnKv AttentionExact
CHECK_DEADLOCK FALSE
