\* A prompt given to a CLI in a pooled terminal, and nobody who kills it.
CONSTANTS
  Setups <- PooledStream
  Kills = {}
SPECIFICATION PromptSpec
CHECK_DEADLOCK FALSE
PROPERTY FinishIsReported
