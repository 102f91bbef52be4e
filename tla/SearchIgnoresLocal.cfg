CONSTANTS
  p1 = p1  p2 = p2  p3 = p3  a = a  b = b  c = c
  Peers <- TwoPeers
  Values <- TwoValues
  Rank <- TwoRanks
  Quorums <- NoQuorum
  MaxExpiries = 0
  NoValue = NoValue
SPECIFICATION Spec
CHECK_DEADLOCK FALSE
INVARIANT ReturnsBestKnown
