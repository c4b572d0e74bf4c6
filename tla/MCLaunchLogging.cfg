SPECIFICATION Spec
CONSTANTS
  Row <- Rows
  Own <- Environments
  PageSize = 2
  MaxRows = 3
  MaxEdits = 0
PROPERTY LoggingNeverStopsWorker
