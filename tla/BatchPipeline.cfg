SPECIFICATION FairPipeline
CONSTANTS
  MaxItems = 6
  Dp = 2
  MaxLen = 3
  MaxTokenLen = 4
INVARIANTS PipelineTypeOK RowsMeetTheirOutputs PartitionsSound SpreadBounded
PROPERTIES PartitionsAsPrescribed Finishes
CHECK_DEADLOCK FALSE
