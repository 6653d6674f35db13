SPECIFICATION Spec
CONSTANTS
  vehicle = vehicle
  station = station
  Peers <- MCPeers
  First = vehicle
  Radix = 4
  MAX_PAYLOAD_LEN = 18
  SIGNATURE_TIMESTAMP_SIZE = 2
  SIGNATURE_VALUE_SIZE = 2
  Content <- MCContent
  NameOrder <- MCNameOrder
  TokenCode <- MCTokenCode
  Scenarios <- MCScenarios
  Compositions <- MCCompositions
  Payloads <- MCPayloads
  Headers <- MCHeaders
  Key = 77
  MaxNesting = 6
  MaxFrames = 2
INVARIANTS
  TypeOK
  CompiledAsOne
  ParsedOnce
  ReadBack
  DeliveredFields
  StaticMatchesDynamic
  NamesReadBack
CHECK_DEADLOCK FALSE
