SPECIFICATION ScanSpec
CONSTANTS NPhases = 2
          NDelays = 6
INVARIANTS SelectionInv SelectionCorrect AppliedPointHasMargin
