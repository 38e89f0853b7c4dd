SPECIFICATION FairSpec
CONSTANTS Pattern <- MCPattern
          Stray = 66
          Garbled = 255
          TxRoom = 2
          MaxSpins = 2
          FaultyWire = TRUE
          LongDelay = FALSE
INVARIANTS IInv PassMeansRoundTrip ReadsWhatWasWritten
PROPERTY EventuallyVerdict
