SPECIFICATION Spec
SYMMETRY Alike
CHECK_DEADLOCK FALSE
CONSTANTS
  t1 = t1
  t2 = t2
  t3 = t3
  p1 = p1
  p2 = p2
  NoPeer = NoPeer
  NoThread = NoThread
  Threads = {t1, t2}
  Peers = {p1, p2}
  Operations = {"recv", "try_recv"}
  Transports = {"tcp", "file", "udp_server"}
  Versions = {"V2"}
  FrameParts = 1
  MaxCalls = 3
  MaxArrivals = 2
  MaxChunks = 2
INVARIANTS
  RecvWaits
PROPERTIES
  RepliesReachSender
  ImplementsQueue
