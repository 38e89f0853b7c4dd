SPECIFICATION Spec
CONSTANTS Frames <- SomeFrames
          MaxData = 8
          CapFrame = 128
          CapStuffed = 192
          Iterations = 5
          GapBits = 11
INVARIANTS IInv HeardIsSent EveryFrameHeard
