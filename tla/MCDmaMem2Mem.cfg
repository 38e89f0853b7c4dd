SPECIFICATION FairSpec
CONSTANTS NCh = 3
          XferSize = 2
          ByteMod = 3
          Step = 1
          MaxPolls = 2
          FifoDepth = 1
INVARIANTS IInv PassMeansAllDelivered
PROPERTIES NoFillUnderLiveEngine EventuallyVerdict RefinesCopy
