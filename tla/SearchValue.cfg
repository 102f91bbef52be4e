CONSTANTS
  p1 = p1  p2 = p2  p3 = p3  a = a  b = b  c = c
  Peers <- ThreePeers
  Values <- ThreeValues
  Rank <- ThreeRanks
  Quorums <- NoneOrTwo
  MaxExpiries = 1
  NoValue = NoValue
SPECIFICATION Spec
CHECK_DEADLOCK FALSE
SYMMETRY Symmetry
INVARIANTS IInv EndsByQuorum GoesOnWithoutQuorum ReturnsBestAnswer UpdatesOnlyStalePeers UpdatedPeersCatchUp
