SPECIFICATION ServedSpec
CONSTANTS
  Dispatcher = {d1}
  NoOne = NoOne
  Terminal = 4
  Window = 1
  MaxAttempts = 2
CHECK_DEADLOCK FALSE
PROPERTIES
  DeliveryResumes
