\* four messages, a pool of two, in every mode
CONSTANTS
  Mode <- MCMode
  TotalMessages = 4
  PublisherConcurrency = 2
SPECIFICATION PublisherSpec
INVARIANTS
  BoundedConcurrency
  NoIdleWaiter
  ReturnsSettled
  SerialInOrder
PROPERTIES
  Returns
