SPECIFICATION Spec
CONSTANTS
  Producers <- MCProducers
  Reviewer = "r"
  DependsOn <- MCDependsOn
  Analysts = {}
  Paths <- MCPaths
  NoPath = NoPath
  Area <- MCArea
  Owner <- MCOwner
  Kind <- MCKind
  NoNode = NoNode
  Contents = {"good", "text", "empty"}
  Absent = Absent
  Formats = {"docx"}
  MinFiles = 1
  OutputRequired = TRUE
  Renderer = TRUE
  VisualQaRequired = TRUE
  MaxCalls = 3
  MaxReviewRetries = 1
  Slots = 1
  MaxLate = 1
  
PROPERTIES   RevisionEnds
CHECK_DEADLOCK FALSE
