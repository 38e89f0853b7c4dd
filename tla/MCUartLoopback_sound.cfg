SPECIFICATION Spec
CONSTANTS Pattern <- MCPattern
          Stray = 66
          Garbled = 255
          TxRoom = 2
          MaxSpins = 2
          FaultyWire = FALSE
          LongDelay = TRUE
INVARIANT DocSoundWirePasses
