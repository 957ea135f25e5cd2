\* Sizes in bytes, with links of 96 and 104 bytes for 1280 and 1500, and
\* checksums of words of 8 bits.
SPECIFICATION FairSpec
CONSTANTS
  c1 = c1
  c2 = c2
  c3 = c3
  c4 = c4
  p1 = p1
  p2 = p2
  Tc = Tc
  Client = {c1, c2, c3, c4}
  Lease <- McLease
  Session <- McSession
  PubIP <- McPubIP
  OtherPool <- McOtherPool
  Prefix <- McPrefix
  SameNet <- McSameNet
  p3 = p3
  p4 = p4
  p5 = p5
  START_PORT = 16
  usPortRange = 8
  TcMtu = 104
  UpMtu = 96
  LanMtu = 104
  Loads <- McLoads
  MaxDups = 1
  FragTimeout = 2
  MaxFragCnt = 4
  Word = 256
INVARIANTS
  Intact
  RightHost
  FramesFit
  SendersTold
  CompleteIsSent
PROPERTY
  NothingStays
CHECK_DEADLOCK FALSE
