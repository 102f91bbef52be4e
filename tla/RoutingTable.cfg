CONSTANTS
  self = self  q = q  r = r  s = s  x = x
  q1 = q1  q2 = q2  r1 = r1  s1 = s1  s2 = s2  g = g
  BitLen = 3
  WordLen = 2
  Preimages <- Preimages5
  Hash <- HashOf
  Self = self
  Peers <- ThreePeers
  Contents <- OneContent
  KeyOf <- Keys
  Conns <- FiveConns
  Owner <- Owners
  Groups <- OneGroup
  NoGroup = NoGroup
  Group <- GroupOf
  BootstrapAddrs <- ThreeAddrs
  PeerAt <- TwoOfQ
  maxPerCpl = 1
  maxForTable = 2
  BucketSize = 2
SPECIFICATION Spec
INVARIANTS GroupsWithinLimits AnswersAreGrounded TargetsFit
