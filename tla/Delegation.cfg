\* Two processes own repositories and sessions through failures and crashes.
SPECIFICATION FairSpec
CONSTANTS
  Call = {"c1", "c2", "c3"}
  Process = {"p1", "p2"}
  Repository = {"r1", "r2"}
  NoSession = NoSession
  Arguments <- AnyArguments
INVARIANTS
  OneWriter
  OneSessionDriver
  PeerIsClaimed
  AnswersTellAll
PROPERTIES
  EveryCallEnds
CHECK_DEADLOCK FALSE
