SPECIFICATION ReceiveLoopSpec
CONSTANTS
  MaxByte = 4
  MAV_STX = 4
  MAV_STX_V2 = 3
  V1HeaderSize = 2
  V2MinHeaderSize = 3
  SysId32Extra = 1
  ChecksumSize = 1
  SignatureSize = 1
  NoExtraCrc = NoExtraCrc
  ExtraCrc <- MCExtraCrc
  CalculateCrc <- MCCalculateCrc
  RequestedCapacity = 1
  Inputs <- MCShortInputs
  Policies = {"strict"}
PROPERTIES
  CallSettles
  ReadAheadIsTaken
