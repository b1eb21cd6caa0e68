SPECIFICATION Spec
CONSTANTS
  None = None
  Units = {"audit", "custody", "lifecycle", "ingest", "stream", "redaction", "projection", "mapping", "entity", "confidence", "time"}
  CaseData <- MCCaseData
  ProjectionData <- MCProjectionData
  MappingData <- MCMappingData
  EntityData <- MCEntityData
  TimeData <- MCTimeData
INVARIANTS TypesOK RecordsSound AnswersTruthful
PROPERTIES ImplementsLedgers NothingRewritten
CHECK_DEADLOCK FALSE
