SPECIFICATION Spec
CONSTANTS
  gcs = gcs
  vehicle = vehicle
  stranger = stranger
  Nodes <- MCNodes
  Streams <- MCStreams
  Owner <- MCOwner
  Secret <- MCSecret
  TimestampModulus = 5
  Minute = 1
  MaxTime = 2
  MaxSends <- MCMaxSends
INVARIANTS
  TypeOK
  NextIsFresh
PROPERTIES
  SignedIncreasing
  ImplementsDelivery
