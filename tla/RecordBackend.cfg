CONSTANTS
  s1 = s1  s2 = s2  f1 = f1
  Vals <- ThreeVals
  Stores <- TwoStores
  Fetchers <- OneFetcher
  MaxRecordAge = 1
  MaxTime = 3
  MaxFaults = 2
  None = None
SPECIFICATION FairSpec
INVARIANT IInv
PROPERTIES ImplementsRegister OnlyReplacedRecordsAreLost CallsReturn
