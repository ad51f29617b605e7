\* Two tasks and two contexts: one trap each, or one nested in the other.
CONSTANTS
  Tasks = {t1, t2}
  Contexts = {c1, c2}
SPECIFICATION FairSpec
INVARIANT TypeOK
INVARIANT OneInControl
INVARIANT CurrentIsInnermost
INVARIANT ReturnsToItsCaller
INVARIANT InterruptibleMeansUnlocked
PROPERTY ResumesAsItTrapped
PROPERTY TrapsEnd
