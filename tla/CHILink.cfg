CONSTANTS
  Flit = {f1, f2}
  MaxLinkCredits = 2
  MaxTx = 2
SPECIFICATION FairSpec
INVARIANTS TypeOK PortCredits GenCredits GenQueueBounded NoInactiveFlit
PROPERTIES FifoSpec CreditReturns
