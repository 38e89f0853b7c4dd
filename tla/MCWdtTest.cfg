SPECIFICATION FairSpec
CONSTANTS Blinks = 10
          Second = 20
          Lag = 1
          Numbers = 4
          Feeds = 5
          FeedDelay = 10
          Timeout = 40
          StarveDelay = 2
          Images <- AllImages
INVARIANTS IInv LedShows PassMeansFed
PROPERTIES NoEarlyReset ResetComes HeartbeatGoesOn
