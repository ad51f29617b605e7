\* Two requests, sent twice, a pipe that holds two messages, a close and a reset.
CONSTANTS
  r1 = r1
  r2 = r2
  Requests = {r1, r2}
  Kinds = {"read", "write", "reset"}
  PipeCap = 2
  MaxBegins = 2
  MaxAborts = 1
  MaxOpens = 2
  MaxResets = 1
SPECIFICATION FairSpec
INVARIANT TypeOK
INVARIANT RepliedOnce
INVARIANT NoUseAfterFree
INVARIANT ResetWaitsForThread
INVARIANT ReopenLosesOnlyQuit
INVARIANT NoEmbrace
PROPERTY AnswerableIsReplied
CHECK_DEADLOCK FALSE
