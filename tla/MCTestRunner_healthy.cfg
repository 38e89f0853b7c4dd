SPECIFICATION Spec
CONSTANT Tests <- PsramOnly
INVARIANT DocHealthyNotFailed
