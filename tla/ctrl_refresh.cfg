CONSTANTS
  CamIndex = {i1, i2}
  NoEntry = NoEntry
  PREFER_HIT_HPR = TRUE
  WriteDelay = 2
  NoBank = NoBank
  Closed = Closed
  RAA_THRESHOLD = 2
  RAAIMT = 0
  RAAMMT = 0
  RAAMULT = 1
  RAADEC = 1
  MODE_SWITCH_POLICY = TRUE
  OPP_HIT_CNT = 1
  Max_RW_BEFORE_SWITCH = 1
  Bank <- SameGroupBanks
  Row = {r1, r2}
  Column = {c1}
  Bsc = {x1}
  NoBsc = NoBsc
  Commands = {"RD"}
  Classes = {"LPR"}
  NumOfBanksPerBg = 2
  POST_PONE_THRESHOLD = 1
  POSTPONE_LOW_THRESHOLD = 0
  REFAB_ENABLE = TRUE
  FGR = FALSE
  CriticalClasses = {}
  CamExpired = {FALSE}
  MaxRequests = 2
  MaxPending = 1
  MaxRefresh = 1
  MaxOverdue = 1
SPECIFICATION Spec
PROPERTIES RefreshServed ReadServed
