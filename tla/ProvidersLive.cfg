CONSTANTS
  k1 = k1  p1 = p1  p2 = p2  s1 = s1  s2 = s2  f1 = f1
  Keys <- OneKey
  Provs <- OneProv
  Stores <- TwoStores
  Fetchers <- OneFetcher
  ProvideValidity = 0
  CacheSize = 1
  MaxTime = 1
  MaxFaults = 1
SPECIFICATION FairSpec
PROPERTIES GarbageIsCollected StaleAnswersLeaveTheCache
