SPECIFICATION Spec
CONSTANTS NPhases = 2
          NDelays = 4
          NDrv = 2
          RlValues <- MCRlValues
          DrefValues <- MCDrefValues
          FixedPhase = 1
          BootMr0 <- MCBootMr0
          BootDref = 5
          MaxDrops = 1
INVARIANTS IInv ProbeInsideEye Restored
PROPERTY LatencyInStep
