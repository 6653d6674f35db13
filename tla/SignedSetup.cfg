SPECIFICATION SetupSpec
CONSTANTS
  gcs = gcs
  vehicle = vehicle
  stranger = stranger
  Nodes <- MCPair
  Streams <- MCPairStreams
  Owner <- MCPairOwner
  Secret <- MCPairSecret
  TimestampModulus = 7
  Minute = 1
  MaxTime = 3
  MaxSends <- MCPairMaxSends
INVARIANTS
  AcceptedOnce
