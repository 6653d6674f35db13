SPECIFICATION SessionSpec
CHECK_DEADLOCK FALSE
CONSTANTS
  t1 = t1
  t2 = t2
  p1 = p1
  p2 = p2
  NoPeer = NoPeer
  NoTask = NoTask
  Tasks = {t1, t2}
  Peers = {p1, p2}
  Operations = {"recv_frame", "send_id_over_255", "send_system_over_255"}
  Transports = {"tcp", "udp_server", "udp_client", "serial", "file"}
  Versions = {"V1", "V2"}
  Frames <- SomeFrames
  FrameParts = 2
  MaxCalls = 2
  MaxArrivals = 2
  MaxChunks = 1
  Configurations <- SessionConfigurations
  UsedProtocols = {"udpin", "serial"}
INVARIANTS
  SessionTypeOK
  SentWhole
  RecvPersists
  SocketInOnePlace
PROPERTIES
  RepliesReachSender
  FrameKeepsVersion
  ImplementsQueue
  ReceiverServed
  SendSettles
  OpenSettles
