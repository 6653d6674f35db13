SPECIFICATION Spec
CONSTANTS
  gcs = gcs
  vehicle = vehicle
  stranger = stranger
  Nodes <- MCPair
  Streams <- MCPairStreams
  Owner <- MCPairOwner
  Secret <- MCPairSecret
  TimestampModulus = 3
  Minute = 1
  MaxTime = 1
  MaxSends <- MCPairMaxSends
PROPERTIES
  SignedIncreasing
