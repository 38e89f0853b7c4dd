SPECIFICATION Spec
CONSTANTS Candidates <- MCCandidates
          Shorted <- MCShorted
          Led = 23
INVARIANTS IInv CountsWithinPins FightsOnlyInTail
