\* Four families of authored graphs: a two-node chain whose root is revised, one
\* whose topology changes, waves of several children with a crash, and a chain
\* whose Lead acts on earlier reads.
SPECIFICATION MCSpec
CONSTANTS
  NodeId = {"a", "b", "c"}
  Repository = {"r1", "r2", "r3"}
  Packet = {"p", "q"}
  Graph <- AnyGraph
  NoPacket = NoPacket
  MaxRevision = 10
  MayCrash = TRUE
CONSTRAINT Bounded
INVARIANTS
  TypeOK
  DependenciesAccepted
  EvidenceIsSound
  PlansAreCurrent
  NoSilentStall
  RecordsAgree
  RevisionIdentifiesState
PROPERTIES
  ImplementsPromise
  ResumeIntentKept
  EndedAttemptsAreFixed
  WaveEventuallyCloses
CHECK_DEADLOCK FALSE
