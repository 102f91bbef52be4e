CONSTANTS
  in1 = in1  in2 = in2  out = out  c1 = c1  c2 = c2
  Configs <- AllConfigs
  Inbound <- OneInbound
  Outbound <- OneOutbound
  Closers <- TwoClosers
  MaxEvents = 2
SPECIFICATION FairSpec
CHECK_DEADLOCK FALSE
INVARIANTS IInv ServedStreamsAreReset StoresAreReturned
PROPERTIES OwnRequestsSurvive FollowsReachability GoroutinesEnd
