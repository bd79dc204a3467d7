\* Devices of up to three, chunks of two, records of up to two blocks that are
\* shorter than a chunk or a chunk and a rest; a list of four blocks in records
\* of up to two, and a table in up to three runs.
SPECIFICATION ToolsFairSpec
CONSTANTS
  v1 = v1
  v2 = v2
  Values = {v1, v2}
  MaxSize = 3
  Offsets = {0, 1}
  Sizes = {1, 3}
  MaxBlocks = 2
  MaxRecords = 2
  ChunkSize = 2
  NumBlocks = 4
  MaxResults = 2
  MaxRuns = 3
INVARIANTS ToolsTypeOK CopyKeepsToBlocks CopiedIsSame VerdictIsRight ParsedIsWhole ExitCodeIsHonest ResumeLosesNothing
PROPERTIES LoopsComeToAnEnd EmitterReturns InterruptEnds
