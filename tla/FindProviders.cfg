CONSTANTS
  n1 = n1  n2 = n2  x = x  y = y  z = z
  Nodes <- MCNodes
  Providers <- MCProviders
  Counts <- MCCounts
  Responses <- MCResponses
  Stored <- MCStored
  None = None
SPECIFICATION FairSpec
CHECK_DEADLOCK FALSE
INVARIANTS IInv NoProviderTwice StopsAtCount GivesAllItFinds
PROPERTIES SearchEnds
