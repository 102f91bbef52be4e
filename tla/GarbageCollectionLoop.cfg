CONSTANTS
  c1 = c1  c2 = c2  c3 = c3
  Callers <- ThreeCallers
  MaxLoops = 3
  None = None
SPECIFICATION FairSpec
INVARIANTS IInv AtMostOneLoop StoppedMeansStopped
PROPERTIES ClosesItsOwnChannel CallsReturn
