SPECIFICATION Spec
CONSTANTS
  None = None
  Units = {"audit"}
  CaseData <- MCCaseData
  ProjectionData <- MCProjectionData
  MappingData <- MCMappingData
  EntityData <- MCEntityData
  TimeData <- MCTimeData
INVARIANT LogVerifies
CHECK_DEADLOCK FALSE
