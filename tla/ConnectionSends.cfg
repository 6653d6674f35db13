SPECIFICATION FairSpec
CHECK_DEADLOCK FALSE
CONSTANTS
  t1 = t1
  t2 = t2
  t3 = t3
  p1 = p1
  p2 = p2
  NoPeer = NoPeer
  NoThread = NoThread
  Threads = {t1, t2}
  Peers = {p1}
  Operations = {"recv_raw", "try_recv", "send", "send_id_over_255", "send_system_over_255"}
  Transports = {"serial", "udp_server"}
  Versions = {"V1"}
  FrameParts = 2
  MaxCalls = 3
  MaxArrivals = 1
  MaxChunks = 1
INVARIANTS
  TypeOK
  SequenceFollowsWriteOrder
  FramesContiguous
  DestinationKnown
PROPERTIES
  SendSettles
  TryRecvSettles
