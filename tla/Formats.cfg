SPECIFICATION FormatsSpec
CONSTANTS
  Byte <- Symbols
  Sources <- AllSources
  Accepted <- Known
  Images <- AllImages
  Queries <- AllQueries
INVARIANTS ChunkingInvisible LogReadBack TornFrameContained SnapshotReadBack PatternDecided
CHECK_DEADLOCK FALSE
