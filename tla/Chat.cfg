SPECIFICATION ChatFairSpec
CONSTANTS
  r1 = r1
  r2 = r2
  Requests = {r1, r2}
  NoRequest = NoRequest
  VocabSize = 4
  NaN = NaN
  None = None
  Weight <- SomeWeight
  RepeatPenalty = 2
  RepeatLastN = 2
  Bodies <- SomeBodies
  LogitRows <- SomeRows
  Text <- SomeText
  EosTokens = {3}
  Prompt <- SomePrompt
  Defaults <- SomeDefaults
  MaxPanics = 1
INVARIANTS ChatTypeOK StreamIsPrefix DoneIffComplete UsageMatchesPieces SampledWithinOptions
PROPERTY EveryRequestEnds
CHECK_DEADLOCK FALSE
