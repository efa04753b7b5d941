SPECIFICATION FairSpec
CONSTANTS
  ip1 = ip1
  ip2 = ip2
  p1 = p1
  p2 = p2
  Ips <- MCIps
  Ports <- MCPorts
  Cmus <- MCCmus
  NoEndpoint = NoEndpoint
  NoArg = NoArg
  ErrLimit = 3
  AiBlocks = 2
  BmuReads = 1
  MaxDim = 2
  Dims = {3}
  ErrBound = 2
  InboxBound = 1
  TimerBound = 2
INVARIANTS TypeOK PollsConfiguredCmu OnlineIsConnected ParametersOfThisCmu DeadLinkAbandoned PollingAlive
PROPERTIES ClosedViewFallsSilent Recovers ExpiryShown
