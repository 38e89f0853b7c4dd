SPECIFICATION FairSpec
CONSTANTS Words = 8
          Probed = 2
          CacheLines = 3
INVARIANTS IInv PassMeansStored SoundMemoryPasses
PROPERTY EventuallyVerdict
