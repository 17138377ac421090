CONSTANTS
  Kinds <- ServeKinds
  NoKind = NoKind
  WrDatBufferDepth = 2
  RdDatInfoDepth = 1
  MaxRetryAck = 1
  DataWidth = 32
  RdCqDepth = 2
  WrCqDepth = 2
  MinHprQueueDepth = 1
  MinLgprQueueDepth = 1
  PortAgingInit = 1
  SwitchFast = TRUE
  RdQosLevel0 = 5
  RdQosLevel1 = 10
  WrQosLevel = 7
  SrcIdNum = 1
  RetryGprExpiredEnable = FALSE
  RetryGpwExpiredEnable = FALSE
  LinkCredits = 1
  UifCredits <- OneCreditEach
  MaxReq = 2
  MaxResend = 0
SPECIFICATION FairSpec
PROPERTIES WriteServed ReadServed
