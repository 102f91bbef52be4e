CONSTANTS
  a = a  b = b  k = k  self = self  peer = peer  other = other  f = f
  Calls <- TwoCalls
  Workloads <- AllWorkloads
  Keys <- OneKey
  NoKey = NoKey
  Vals <- AllVals
  Self = self
  Peers <- OnePeer
  Foreign <- OneForeign
  Fetches <- OneFetch
  MaxAge = 1
  MaxTime = 3
  MaxForeign = 1
  MaxCrashes = 1
SPECIFICATION FairSpec
CHECK_DEADLOCK FALSE
INVARIANTS IInv PutValueIsStored NothingUnvouched ProvidedKeysSurvive
PROPERTIES CallsReturn
