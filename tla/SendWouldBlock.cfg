SPECIFICATION Spec
SYMMETRY Alike
CHECK_DEADLOCK FALSE
CONSTANTS
  t1 = t1
  t2 = t2
  t3 = t3
  p1 = p1
  p2 = p2
  NoPeer = NoPeer
  NoThread = NoThread
  Threads = {t1, t2}
  Peers = {p1}
  Operations = {"try_recv", "send"}
  Transports = {"tcp"}
  Versions = {"V2"}
  FrameParts = 2
  MaxCalls = 2
  MaxArrivals = 0
  MaxChunks = 0
INVARIANTS
  SendsWait
