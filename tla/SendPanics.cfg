SPECIFICATION Spec
SYMMETRY Alike
CHECK_DEADLOCK FALSE
CONSTANTS
  t1 = t1
  t2 = t2
  t3 = t3
  p1 = p1
  p2 = p2
  NoPeer = NoPeer
  NoThread = NoThread
  Threads = {t1, t2}
  Peers = {p1}
  Operations = {"send", "send_raw", "send_id_over_255", "send_system_over_255"}
  Transports = {"udp_client"}
  Versions = {"V1", "V2"}
  FrameParts = 1
  MaxCalls = 2
  MaxArrivals = 0
  MaxChunks = 0
INVARIANTS
  SendsReturn
