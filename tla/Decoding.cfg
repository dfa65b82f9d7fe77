INIT DecodingInit
NEXT DecodingNext
CHECK_DEADLOCK FALSE
CONSTANTS
  None = None
  WordBase = 256
  MaxEdits = 2
  RawPods <- MCRawPods
  Assignments <- MCAssignments
  Payloads <- MCPayloads
  ParsePod <- MCParsePod
  MaxNesting = 2
INVARIANTS
  ReadsBackWhatWasWritten
  CoherenceIsHonest
  SelectionIsReported
