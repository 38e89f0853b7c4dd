SPECIFICATION I2cSpec
CONSTANTS Iterations = 3
          MaxResets = 2
          Kinds <- MCKinds
INVARIANTS I2cInv PassMeansRegisterRead SoundCodecPasses BusFreeBetweenIterations
PROPERTY DataValid
