SPECIFICATION FairSpec
CONSTANT Tests <- MixedGroup
INVARIANTS IInv PassIsSound
PROPERTY EventuallySummary
